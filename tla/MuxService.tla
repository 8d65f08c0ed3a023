------------------------------ MODULE MuxService ------------------------------
(***************************************************************************)
(* What the mux server keeps for its clients, whatever its threads, queues *)
(* and events do: one session at a time under a name, each of an           *)
(* incarnation of its own; clients that follow live sessions only and draw *)
(* of each an unbroken stretch of what one incarnation wrote; and recipes  *)
(* from which the sessions come back when the process is started again.    *)
(***************************************************************************)
EXTENDS Naturals, Sequences

CONSTANTS Name, Client, Generation, MaxOutput

VARIABLES
    live,     \* the generation that lives under a name, or 0
    started,  \* the incarnations that ran since the process started
    follows,  \* the incarnations each client follows
    written,  \* how many chunks each incarnation's program wrote
    drawn,    \* the chunks a client was handed of a name since it last attached
    kept,     \* the names that have a recipe
    owed      \* those among them still to come back

vars == <<live, started, follows, written, drawn, kept, owed>>

Incarnation == [generation : Generation, name : Name]
Id(n, g) == [generation |-> g, name |-> n]
Live(n) == live[n] # 0

NothingRuns ==
    /\ live = [n \in Name |-> 0] /\ started = {}
    /\ follows = [c \in Client |-> {}]
    /\ written = [id \in Incarnation |-> 0]
    /\ drawn = [c \in Client |-> [n \in Name |-> <<>>]]

Init == NothingRuns /\ kept = {} /\ owed = {}

-----------------------------------------------------------------------------
(* Sessions *)

\* A session starts as an incarnation that never ran.
Begin(n, id) ==
    /\ ~Live(n) /\ id \in Incarnation \ started /\ id.name = n
    /\ live' = [live EXCEPT ![n] = id.generation]
    /\ started' = started \cup {id}

Follows(c, id) == follows' = [follows EXCEPT ![c] = @ \cup {id}]

\* A client asks for one, and follows it if it is still there.
Start(n) ==
    /\ \E id \in Incarnation :
          Begin(n, id) /\ (UNCHANGED follows \/ \E c \in Client : Follows(c, id))
    /\ UNCHANGED <<written, drawn, kept, owed>>

\* Startup takes a recipe, from which the session starts unless it no longer can.
Restore(n) ==
    /\ n \in owed /\ owed' = owed \ {n}
    /\ (\E id \in Incarnation : Begin(n, id)) \/ UNCHANGED <<live, started>>
    /\ UNCHANGED <<follows, written, drawn, kept>>

\* A session ends, and everyone lets go of it.
End(n) ==
    /\ Live(n)
    /\ live' = [live EXCEPT ![n] = 0]
    /\ follows' = [c \in Client |-> follows[c] \ {Id(n, live[n])}]
    /\ UNCHANGED <<started, written, drawn, kept, owed>>

Write(id) ==
    /\ id \in started /\ written[id] < MaxOutput
    /\ written' = [written EXCEPT ![id] = @ + 1]
    /\ UNCHANGED <<live, started, follows, drawn, kept, owed>>

-----------------------------------------------------------------------------
(* Clients *)

Follow(c, n) ==
    /\ Live(n) /\ Follows(c, Id(n, live[n]))
    /\ UNCHANGED <<live, started, written, drawn, kept, owed>>

Leave(c) ==
    /\ follows' = [follows EXCEPT ![c] = {}]
    /\ UNCHANGED <<live, started, written, drawn, kept, owed>>

\* What one incarnation wrote, from one chunk up to another.
Stretch(g, first, last) ==
    [i \in 1 .. last + 1 - first |-> [generation |-> g, index |-> first + i - 1]]
Stretches(n) ==
    UNION {{Stretch(g, first, last) : first \in 1 .. MaxOutput, last \in 0 .. written[Id(n, g)]}
              : g \in Generation}

\* A client starts anew, is handed a stretch, or the chunk after its last.
Draw(c, n) ==
    LET text == drawn[c][n]
        last == text[Len(text)]
    IN  /\ \/ drawn' = [drawn EXCEPT ![c][n] = <<>>]
           \/ /\ text = <<>>
              /\ \E stretch \in Stretches(n) : drawn' = [drawn EXCEPT ![c][n] = stretch]
           \/ /\ text # <<>> /\ last.index < written[Id(n, last.generation)]
              /\ drawn' = [drawn EXCEPT ![c][n] = Append(@, [last EXCEPT !.index = @ + 1])]
        /\ UNCHANGED <<live, started, follows, written, kept, owed>>

-----------------------------------------------------------------------------
(* Recipes *)

\* They are brought up to date once all that are owed came back.
Save ==
    /\ owed = {} /\ kept' = {n \in Name : Live(n)}
    /\ UNCHANGED <<live, started, follows, written, drawn, owed>>

\* The process is started again, with its recipes and nothing else.
Restart ==
    /\ NothingRuns'
    /\ owed' = kept /\ UNCHANGED kept

Next ==
    \/ \E n \in Name : Start(n) \/ Restore(n) \/ End(n)
    \/ \E id \in Incarnation : Write(id)
    \/ \E c \in Client : Leave(c) \/ \E n \in Name : Follow(c, n) \/ Draw(c, n)
    \/ Save \/ Restart

Spec == Init /\ [][Next]_vars
===============================================================================
