------------------------------- MODULE MuxPanes -------------------------------
(***************************************************************************)
(* One session shown in several windows at once: each pane's Terminal has  *)
(* a grid and a place in a layout, and reports its size over a connection  *)
(* of its own; the server arbitrates and reports back what the session     *)
(* really is.  Both ends are those of the code: a pane is a Terminal over  *)
(* a mux transport, the server is what MuxServer makes of Attach, Resize   *)
(* and a closed connection.  Output is left out.                           *)
(***************************************************************************)
EXTENDS MuxSize, Sequences, FiniteSets

CONSTANTS
    Pane,         \* the panes that are ever opened, one connection each
    Sizes,        \* the sizes a layout can give a pane
    DefaultSize,  \* what the session has before anyone reports a size
    MaxLayouts    \* bound: times a window lays its panes out again

ASSUME PaneAssumption == IsFiniteSet(Pane)
ASSUME SizeAssumption == Sizes \subseteq Geometry /\ DefaultSize \in Geometry
ASSUME LayoutAssumption == MaxLayouts \in Nat

VARIABLES
    open,      \* panes on screen
    closed,    \* panes whose tab was closed
    layout,    \* the size a pane's place in its window has
    grid,      \* the grid a pane draws
    layouts,   \* layouts so far, of panes already open
    toServer,  \* each connection, towards the server
    toPane,    \* ... and back
    attached,  \* panes the server has attached
    wanted,    \* sizes the server was told, of the panes that told one
    geometry   \* what the session has

paneVars == <<open, closed, layout, grid, layouts>>
serverVars == <<attached, wanted, geometry>>
vars == <<paneVars, toServer, toPane, serverVars>>

Request == [type : {"Attach", "Close"}] \cup [type : {"Resize"}, size : Geometry]

Init ==
    /\ open = {} /\ closed = {} /\ layouts = 0
    /\ layout = [p \in Pane |-> DefaultSize]
    /\ grid = [p \in Pane |-> GridOf(DefaultSize)]
    /\ toServer = [p \in Pane |-> <<>>]
    /\ toPane = [p \in Pane |-> <<>>]
    /\ attached = {} /\ geometry = DefaultSize
    /\ wanted = [p \in {} |-> DefaultSize]

-----------------------------------------------------------------------------
(* Panes *)

\* Terminal::new_mux_at: attach, and tell the server the real size at once.
Open(p, size) ==
    /\ p \notin open \cup closed
    /\ open' = open \cup {p}
    /\ layout' = [layout EXCEPT ![p] = size]
    /\ grid' = [grid EXCEPT ![p] = GridOf(size)]
    /\ toServer' = [toServer EXCEPT ![p] = <<[type |-> "Attach"],
                                             [type |-> "Resize", size |-> size]>>]
    /\ UNCHANGED <<closed, layouts, toPane, serverVars>>

\* resize_all_panes reaches Terminal::resize: nothing when the grid already
\* has the size, else the server is told and the grid takes it.
LayoutUntoldFault(p, size) ==
    /\ p \in open /\ layouts < MaxLayouts
    /\ layouts' = layouts + 1
    /\ layout' = [layout EXCEPT ![p] = size]
    /\ grid' = [grid EXCEPT ![p] = GridOf(size)]
    /\ UNCHANGED <<open, closed, toServer, toPane, serverVars>>
Layout(p, size) ==
    /\ p \in open /\ layouts < MaxLayouts
    /\ layouts' = layouts + 1
    /\ layout' = [layout EXCEPT ![p] = size]
    /\ IF grid[p] = GridOf(size) THEN UNCHANGED <<grid, toServer>>
       ELSE /\ grid' = [grid EXCEPT ![p] = GridOf(size)]
            /\ toServer' = [toServer EXCEPT ![p] = Append(@, [type |-> "Resize", size |-> size])]
    /\ UNCHANGED <<open, closed, toPane, serverVars>>

\* The pane's tab is closed: its client is dropped, and its connection with it.
Close(p) ==
    /\ p \in open
    /\ open' = open \ {p} /\ closed' = closed \cup {p}
    /\ toServer' = [toServer EXCEPT ![p] = Append(@, [type |-> "Close"])]
    /\ toPane' = [toPane EXCEPT ![p] = <<>>]
    /\ UNCHANGED <<layout, grid, layouts, serverVars>>

\* drain_output: an Attached or Resized message snaps the grid to it (of
\* those taken at once the last decides, as it does one by one).
Drain(p) ==
    /\ p \in open /\ toPane[p] # <<>>
    /\ grid' = [grid EXCEPT ![p] = Head(toPane[p])]
    /\ toPane' = [toPane EXCEPT ![p] = Tail(@)]
    /\ UNCHANGED <<open, closed, layout, layouts, toServer, serverVars>>

-----------------------------------------------------------------------------
(* The server *)

\* What sync_session_size makes of the sizes reported by then: everyone
\* attached and still connected hears of a changed grid.
Sync(reported) ==
    LET size == EffectiveSize({reported[p] : p \in DOMAIN reported})
    IN  IF DOMAIN reported = {} \/ size = geometry
        THEN UNCHANGED <<geometry, toPane>>
        ELSE /\ geometry' = size
             /\ toPane' = [p \in Pane |->
                              IF p \in attached' \cap open /\ GridOf(size) # GridOf(geometry)
                              THEN Append(toPane[p], GridOf(size)) ELSE toPane[p]]

\* The server takes the oldest request of p's connection.
TakeAttach(p) ==
    /\ attached' = attached \cup {p}
    /\ toPane' = [toPane EXCEPT ![p] = IF p \in open THEN Append(@, GridOf(geometry)) ELSE @]
    /\ UNCHANGED <<wanted, geometry>>

\* A size is taken from an attached client only (the error reply to another
\* is none a pane heeds).
TakeResize(p, size) ==
    /\ UNCHANGED attached
    /\ IF p \in attached
       THEN /\ wanted' = [q \in DOMAIN wanted \cup {p} |-> IF q = p THEN size ELSE wanted[q]]
            /\ Sync(wanted')
       ELSE UNCHANGED <<wanted, geometry, toPane>>

TakeClose(p) ==
    /\ attached' = attached \ {p}
    /\ wanted' = [q \in DOMAIN wanted \ {p} |-> wanted[q]]
    /\ Sync(wanted')

Serve(p) ==
    LET request == Head(toServer[p])
    IN  /\ toServer[p] # <<>>
        /\ toServer' = [toServer EXCEPT ![p] = Tail(@)]
        /\ \/ request.type = "Attach" /\ TakeAttach(p)
           \/ request.type = "Resize" /\ TakeResize(p, request.size)
           \/ request.type = "Close" /\ TakeClose(p)
        /\ UNCHANGED paneVars

Next ==
    \E p \in Pane :
        \/ \E size \in Sizes : Open(p, size) \/ Layout(p, size)
        \/ Close(p)
        \/ Drain(p)
        \/ Serve(p)

Spec == Init /\ [][Next]_vars

-----------------------------------------------------------------------------
(* Properties *)

TypeOK ==
    /\ open \subseteq Pane /\ closed \subseteq Pane \ open /\ attached \subseteq Pane
    /\ layout \in [Pane -> Geometry] /\ grid \in [Pane -> Grid] /\ geometry \in Geometry
    /\ layouts \in 0 .. MaxLayouts
    /\ toServer \in [Pane -> Seq(Request)] /\ toPane \in [Pane -> Seq(Grid)]
    /\ DOMAIN wanted \subseteq attached /\ wanted \in [DOMAIN wanted -> Geometry]

\* Nothing is on its way between the panes and the server.
Quiet == \A p \in Pane : toServer[p] = <<>> /\ toPane[p] = <<>>

\* Once the messages have settled, every pane draws the grid the session has
\* (tools/winter-terminal/src/session/mod.rs `drain_output': "Snap the grid to
\* it (letterboxing within the layout) so a stream wrapped for a smaller
\* session doesn't double-wrap").
PanesDrawTheSession == Quiet => \A p \in open : grid[p] = GridOf(geometry)

\* They do when only one pane is open, however often it was laid out and
\* whoever else came and went, and when all keep the places they opened with.
PanesSettle == layouts = 0 \/ Cardinality(open) = 1 => PanesDrawTheSession

\* Panes that keep their places share a session that is the smallest of them
\* (server/size.rs: "a session shared by several clients sizes to the smallest
\* of them").
SessionFitsThePanes ==
    Quiet /\ open # {} /\ layouts = 0 =>
        /\ \A p \in open : geometry.cols =< layout[p].cols /\ geometry.rows =< layout[p].rows
        /\ \E p \in open : geometry.cols = layout[p].cols
        /\ \E p \in open : geometry.rows = layout[p].rows
=============================================================================
