------------------------------ MODULE PickerQuery ------------------------------
(***************************************************************************)
(* Which rows a query matches, and when one query is taken to narrow       *)
(* another.  A query is its text and its words; a word is plain, or leaves *)
(* out the rows it is found in.  Texts are sequences of letters, in lower  *)
(* case, and a row is its label: regular expressions, scores and a row's   *)
(* other fields are left out.                                              *)
(***************************************************************************)
EXTENDS Naturals, Sequences

\* Where word w stands in text t: its letters from place i on.
OccursAt(w, t, i) ==
    /\ i \in 1 .. Len(t) + 1 /\ i + Len(w) =< Len(t) + 1
    /\ \A k \in 1 .. Len(w) : t[i + k - 1] = w[k]
Contains(w, t) == \E i \in 1 .. Len(t) + 1 : OccursAt(w, t, i)

\* The places a word is tried at, from the left, each after the end of the one
\* before it: what overlaps a place already found is no place.
Places(w, t) ==
    LET occurs == {i \in 1 .. Len(t) + 1 : OccursAt(w, t, i)}
        found[i \in occurs] == \A j \in occurs : j < i /\ found[j] => j + Len(w) =< i
    IN  {i \in occurs : found[i]}

Excludes(q) == {k \in 1 .. Len(q.terms) : q.terms[k].leavesOut}
Shown(q) == (1 .. Len(q.terms)) \ Excludes(q)
Word(q, k) == q.terms[k].word

\* parse takes its words from the query's text.
IsParsed(q) == \A k \in 1 .. Len(q.terms) : Contains(Word(q, k), q.typed)

\* The letters of the word k placed at `at'.
Covered(q, at, k) == at[k] .. at[k] + Len(Word(q, k)) - 1
\* Every word shown has a place of its own.
IsPlaced(q, t) ==
    \E at \in [Shown(q) -> 1 .. Len(t) + 1] :
        \A k \in Shown(q) :
            /\ at[k] \in Places(Word(q, k), t)
            /\ \A l \in Shown(q) \ {k} : Covered(q, at, k) \cap Covered(q, at, l) = {}

IsWhole(q, t) == q.typed # <<>> /\ t = q.typed
IsExcluded(q, t) == \E k \in Excludes(q) : Contains(Word(q, k), t)

\* A text that is the query itself is found whatever its words leave out; a single
\* word is looked for anywhere, and several each in a place of their own.
Finds(q, t) ==
    \/ q.terms = <<>>
    \/ IsWhole(q, t)
    \/ /\ ~IsExcluded(q, t)
       /\ \/ \E k \in Shown(q) : Shown(q) = {k} /\ Contains(Word(q, k), t)
          \/ IsPlaced(q, t)

\* narrows: p's words are still there, a plain one perhaps lengthened.
OnlyNarrows(p, q) ==
    /\ Len(q.terms) >= Len(p.terms)
    /\ \A k \in 1 .. Len(p.terms) :
        /\ p.terms[k].leavesOut = q.terms[k].leavesOut
        /\ IF p.terms[k].leavesOut THEN Word(q, k) = Word(p, k)
           ELSE Contains(Word(p, k), Word(q, k))
===============================================================================
