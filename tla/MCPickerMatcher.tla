---------------------------- MODULE MCPickerMatcher ----------------------------
(* Two rows and four queries, of which each narrows the one before it by   *)
(* the rules of query.rs, and the last misleads after the third.           *)
EXTENDS PickerMatcher

Q == INSTANCE PickerQuery

Plain(w) == [leavesOut |-> FALSE, word |-> w]
LeftOut(w) == [leavesOut |-> TRUE, word |-> w]
Text(typed, terms) == [typed |-> typed, terms |-> terms]

\* The rows baaab and aabba, and the queries "", "b", "ba aa" and "ba aab".
Row == [baaab |-> <<"b", "a", "a", "a", "b">>, aabba |-> <<"a", "a", "b", "b", "a">>]
ba == Plain(<<"b", "a">>)
Typed ==
    [none  |-> Text(<<>>, <<>>),
     b     |-> Text(<<"b">>, <<Plain(<<"b">>)>>),
     baaa  |-> Text(<<"b", "a", " ", "a", "a">>, <<ba, Plain(<<"a", "a">>)>>),
     baaab |-> Text(<<"b", "a", " ", "a", "a", "b">>, <<ba, Plain(<<"a", "a", "b">>)>>)]

MCRows == DOMAIN Row
MCQueries == DOMAIN Typed
MatchTable == [q \in MCQueries |-> {r \in MCRows : Q!Finds(Typed[q], Row[r])}]
NarrowTable == [p \in MCQueries |-> {q \in MCQueries : Q!OnlyNarrows(Typed[p], Typed[q])}]
MCMatches(q, r) == r \in MatchTable[q]
MCNarrows(p, q) == q \in NarrowTable[p]

ASSUME OneMisleads ==
    /\ \A q \in MCQueries : Q!IsParsed(Typed[q])
    /\ {pq \in MCQueries \X MCQueries : Misleads(pq[1], pq[2])} = {<<"baaa", "baaab">>}
    /\ "baaa" \in NarrowTable["b"] /\ "b" \in NarrowTable["none"]

\* Row xaaay, "xa aa" and then "xa aay"; row "a !b c", "a !b" and then "a !b c".
LosesRow(p, q, t) == Q!OnlyNarrows(p, q) /\ Q!Finds(q, t) /\ ~Q!Finds(p, t)
ASSUME OverlapMisleads ==
    LET xa == Plain(<<"x", "a">>) IN
    LosesRow(Text(<<"x", "a", " ", "a", "a">>, <<xa, Plain(<<"a", "a">>)>>),
             Text(<<"x", "a", " ", "a", "a", "y">>, <<xa, Plain(<<"a", "a", "y">>)>>),
             <<"x", "a", "a", "a", "y">>)
ASSUME WholeMisleads ==
    LET old == <<Plain(<<"a">>), LeftOut(<<"b">>)>> IN
    LosesRow(Text(<<"a", " ", "!", "b">>, old),
             Text(<<"a", " ", "!", "b", " ", "c">>, Append(old, Plain(<<"c">>))),
             <<"a", " ", "!", "b", " ", "c">>)
===============================================================================
