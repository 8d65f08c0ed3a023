----------------------------- MODULE PickerPromise -----------------------------
(***************************************************************************)
(* What a picker may rely on: whatever it shows matches the query it last  *)
(* gave, and what is marked current is every match among the rows it gave, *)
(* unless it asked two queries of which the one misleads after the other.  *)
(***************************************************************************)
CONSTANTS Queries, Rows, Matches(_, _), Narrows(_, _)

VARIABLES
    unscored,  \* whether the rows come already matched by their source
    query,     \* the query last given
    asked,     \* the queries ever given, and the one it began with
    rows,      \* the rows given since they were last cleared
    view       \* the reply last taken: none, or what matched, and whether that is current

vars == <<unscored, query, asked, rows, view>>

Listed(R) == IF unscored THEN R ELSE {r \in R : Matches(query, r)}
\* A query that is taken to narrow another matches a row that the other does not.
Misled == \E p, q \in asked :
             Narrows(p, q) /\ \E r \in Rows : Matches(q, r) /\ ~Matches(p, r)

NoView == [shown |-> FALSE, matched |-> {}, current |-> FALSE]
View(M, isCurrent) == [shown |-> TRUE, matched |-> M, current |-> isCurrent]

Init ==
    /\ unscored \in BOOLEAN /\ query \in Queries /\ asked = {query}
    /\ rows = {} /\ view = NoView

\* The picker gives another query.
Ask ==
    /\ query' \in Queries /\ asked' = asked \cup {query'}
    /\ UNCHANGED <<unscored, rows, view>>

\* It gives or clears rows.
Give ==
    /\ rows' \in SUBSET Rows
    /\ UNCHANGED <<unscored, query, asked, view>>

\* It takes a reply: of rows it gave at some time, or of all it has given.
Show ==
    /\ \/ \E M \in SUBSET Listed(Rows) : view' = View(M, FALSE)
       \/ \E M \in SUBSET Listed(rows) :
            /\ Misled \/ M = Listed(rows)
            /\ view' = View(M, TRUE)
    /\ UNCHANGED <<unscored, query, asked, rows>>

Next == Ask \/ Give \/ Show
Spec == Init /\ [][Next]_vars
===============================================================================
