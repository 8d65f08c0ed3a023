------------------------------- MODULE Debounce -------------------------------
(***************************************************************************)
(* Waiting a burst of changes out, at a pace: it is read just after it     *)
(* starts, once it has been quiet, and every so often while it never is.   *)
(* Times are ages, which stop counting where nothing can tell them apart.  *)
(***************************************************************************)
EXTENDS Naturals

CONSTANTS Lead, Quiet, MaxWait

ASSUME PaceAssumption ==
    /\ Lead \in Nat \ {0} /\ Quiet \in Nat /\ MaxWait \in Nat
    /\ Lead < Quiet /\ Quiet < MaxWait

\* A burst: whether there is one, whether changes arrived since its last read,
\* whether it was never read, the ages of its last read (its first change while
\* unread) and of its last change; and the reads it had while it
\* was neither quiet nor overdue.
Bursts ==
    [open : BOOLEAN, pending : BOOLEAN, unread : BOOLEAN,
     waited : 0 .. MaxWait, still : 0 .. Quiet, early : 0 .. 2]

NoBurst ==
    [open |-> FALSE, pending |-> FALSE, unread |-> FALSE,
     waited |-> 0, still |-> 0, early |-> 0]
NewBurst ==
    [open |-> TRUE, pending |-> TRUE, unread |-> TRUE,
     waited |-> 0, still |-> 0, early |-> 0]

Capped(n, cap) == IF n < cap THEN n ELSE cap
Aged(b) ==
    IF b.open THEN [b EXCEPT !.waited = Capped(@ + 1, MaxWait), !.still = Capped(@ + 1, Quiet)]
    ELSE b

\* A burst read and quiet since is over, and the change starts the next.
TakeChange(b) ==
    IF b.open /\ (b.pending \/ b.still < Quiet)
    THEN [b EXCEPT !.still = 0, !.pending = TRUE]
    ELSE NewBurst

IsOverdue(b) == b.open /\ b.waited >= MaxWait
IsDueFault(b) == b.pending /\ (b.waited >= Lead \/ b.still >= Quiet)
IsDue(b) ==
    /\ b.pending
    /\ \/ b.unread /\ b.waited >= Lead
       \/ b.still >= Quiet
       \/ b.waited >= MaxWait

MarkRead(b) ==
    [b EXCEPT !.pending = FALSE, !.unread = FALSE, !.waited = 0,
              !.early = IF b.still >= Quiet \/ IsOverdue(b) THEN @ ELSE Capped(@ + 1, 2)]
===============================================================================
