--------------------------- MODULE MuxSessionProofs ---------------------------
(***************************************************************************)
(* Theorems about what a session shows: in MuxPanes, whatever panes share  *)
(* it, of whatever sizes, what they draw and what the session has agree    *)
(* once the messages have settled; in MuxScrollback, its history is the    *)
(* end of its output for every capacity and size of a read.                *)
(***************************************************************************)
EXTENDS MuxPanes, MuxScrollback, SequenceTheorems, FiniteSetTheorems, WellFoundedInduction,
        TLAPS

-----------------------------------------------------------------------------
(* What holds of the messages on the way *)

\* What pane p last told the server, or told it last and it has taken.
Told(p) == IF toServer[p] = <<>> THEN wanted[p] ELSE toServer[p][Len(toServer[p])].size

\* The requests of pane p, in the order it makes them: its attachment first,
\* unless the server has taken it, sizes, and its end last.
Asks(p) ==
    \A i \in 1 .. Len(toServer[p]) :
        /\ toServer[p][i].type = "Attach" <=> i = 1 /\ p \notin attached
        /\ toServer[p][i].type = "Close" <=> i = Len(toServer[p]) /\ p \in closed

\* An open pane has told the server a size, or is about to; a closed one is
\* attached until the server takes its end.
AsksEnough(p) ==
    /\ p \in open /\ p \notin attached => Len(toServer[p]) >= 2
    /\ p \in open /\ p \in attached => p \in DOMAIN wanted \/ toServer[p] # <<>>
    /\ p \in closed /\ p \notin attached => toServer[p] = <<>> \/ Len(toServer[p]) >= 3
    /\ p \in closed /\ p \in attached => toServer[p] # <<>>
    /\ p \notin open \cup closed => toServer[p] = <<>> /\ p \notin attached

\* Only an attached pane is told anything, and last what the session has.
Hears(p) ==
    toPane[p] # <<>> =>
        /\ p \in attached /\ p \in open
        /\ toPane[p][Len(toPane[p])] = GridOf(geometry)

\* What it draws when nothing is on its way to it.
Draws(p) ==
    p \in open /\ toPane[p] = <<>> =>
        \/ grid[p] = GridOf(Told(p))
        \/ p \in attached /\ grid[p] = GridOf(geometry)

\* The panes keep their places.
KeepsPlace(p) ==
    p \in open /\ layouts = 0 =>
        /\ Told(p) = layout[p]
        /\ p \in attached /\ toPane[p] = <<>> => grid[p] = GridOf(geometry)

\* The session has what the sizes it was told come to.
Arbitrated ==
    DOMAIN wanted # {} => geometry = EffectiveSize({wanted[q] : q \in DOMAIN wanted})

PaneInv(p) == Asks(p) /\ AsksEnough(p) /\ Hears(p) /\ Draws(p) /\ KeepsPlace(p)
IInv == TypeOK /\ Arbitrated /\ \A p \in Pane : PaneInv(p)

-----------------------------------------------------------------------------
(* Size arbitration *)

\* The order of the natural numbers, as a relation, is well-founded.
LEMMA NatOrderIsWellFounded ==
    \E R : IsWellFoundedOn(R, Nat) /\ \A a, b \in Nat : a < b => <<a, b>> \in R
<1>1. \A a, b \in Nat : a < b => <<a, b>> \in OpToRel(<, Nat)
  BY DEF OpToRel
<1> QED BY <1>1, NatLessThanWellFounded

\* The minimum of natural numbers is the least of them.
LEMMA MinIsLeast ==
    ASSUME NEW S, S \subseteq Nat, S # {}
    PROVE  Min(S) \in S /\ \A y \in S : Min(S) =< y
<1>1. PICK R : IsWellFoundedOn(R, Nat) /\ \A a, b \in Nat : a < b => <<a, b>> \in R
  BY NatOrderIsWellFounded
<1>2. PICK x \in S : \A y \in S : ~ (<<y, x>> \in R)
  <2>1. IsWellFoundedOn(R, Nat)
    BY <1>1
  <2> HIDE <1>1
  <2> QED BY <2>1, WFMin
<1>3. ASSUME NEW y \in S
      PROVE  x =< y
  <2>1. ~ (y < x)
    BY <1>1, <1>2
  <2> QED BY <2>1
<1> QED BY <1>3 DEF Min

\* Of the sizes W, the effective one is the smallest each way.
LEMMA EffectiveSizeIsSmallest ==
    ASSUME NEW W, W \subseteq Geometry, W # {}
    PROVE  /\ EffectiveSize(W) \in Geometry
           /\ \A g \in W : /\ EffectiveSize(W).cols =< g.cols
                           /\ EffectiveSize(W).rows =< g.rows
           /\ \E g \in W : EffectiveSize(W).cols = g.cols
           /\ \E g \in W : EffectiveSize(W).rows = g.rows
<1> DEFINE Cols == {g.cols : g \in W}
           Rows == {g.rows : g \in W}
<1>1. Min(Cols) \in Cols /\ \A y \in Cols : Min(Cols) =< y
  <2>1. Cols \subseteq Nat /\ Cols # {}
    BY DEF Geometry
  <2> QED BY <2>1, MinIsLeast
<1>2. Min(Rows) \in Rows /\ \A y \in Rows : Min(Rows) =< y
  <2>1. Rows \subseteq Nat /\ Rows # {}
    BY DEF Geometry
  <2> QED BY <2>1, MinIsLeast
<1>3. SmallestCell(W) \in Nat
  <2>1. {g.cell : g \in W} \ {0} \subseteq Nat
    BY DEF Geometry
  <2> QED BY <2>1, MinIsLeast DEF SmallestCell
<1>4. /\ EffectiveSize(W).cols = Min(Cols) /\ EffectiveSize(W).rows = Min(Rows)
      /\ EffectiveSize(W) = [cols |-> Min(Cols), rows |-> Min(Rows), cell |-> SmallestCell(W)]
  BY DEF EffectiveSize
<1>5. Min(Cols) \in Nat /\ Min(Rows) \in Nat
  BY <1>1, <1>2 DEF Geometry
<1>6. EffectiveSize(W) \in Geometry
  BY <1>3, <1>4, <1>5 DEF Geometry
<1>7. \A g \in W : EffectiveSize(W).cols =< g.cols /\ EffectiveSize(W).rows =< g.rows
  BY <1>1, <1>2, <1>4
<1>8. (\E g \in W : EffectiveSize(W).cols = g.cols) /\ \E g \in W : EffectiveSize(W).rows = g.rows
  BY <1>1, <1>2, <1>4
<1> QED BY <1>6, <1>7, <1>8

LEMMA GridOfType == \A g \in Geometry : GridOf(g) \in Grid
BY DEF GridOf, Grid, Geometry

\* What pane p hears of a change of the session's size: nothing, when there is
\* none or it is not to hear, or what the session has now.
Hearing(p) ==
    \/ toPane'[p] = toPane[p] /\ (GridOf(geometry') = GridOf(geometry) \/ p \notin attached' \cap open)
    \/ /\ p \in attached' \cap open /\ toPane'[p] # <<>>
       /\ toPane'[p][Len(toPane'[p])] = GridOf(geometry')

\* Sync takes the effective size, and whoever is attached and open hears of it.
LEMMA SyncTells ==
    ASSUME TypeOK, NEW reported, reported \in [DOMAIN reported -> Geometry], Sync(reported)
    PROVE  /\ geometry' \in Geometry /\ toPane' \in [Pane -> Seq(Grid)]
           /\ DOMAIN reported # {} =>
                  geometry' = EffectiveSize({reported[p] : p \in DOMAIN reported})
           /\ \A p \in Pane : Hearing(p)
<1> DEFINE W == {reported[p] : p \in DOMAIN reported}
<1>1. CASE DOMAIN reported = {} \/ EffectiveSize(W) = geometry
  <2>1. geometry' = geometry /\ toPane' = toPane
    BY <1>1 DEF Sync
  <2> QED BY <1>1, <2>1 DEF TypeOK, Hearing
<1>2. CASE ~ (DOMAIN reported = {} \/ EffectiveSize(W) = geometry)
  <2>1. geometry' = EffectiveSize(W)
    BY <1>2 DEF Sync
  <2>2. W \subseteq Geometry /\ W # {}
    BY <1>2
  <2>3. geometry' \in Geometry
    BY <2>1, <2>2, EffectiveSizeIsSmallest
  <2>4. toPane' = [p \in Pane |->
                      IF p \in attached' \cap open /\ GridOf(geometry') # GridOf(geometry)
                      THEN Append(toPane[p], GridOf(geometry')) ELSE toPane[p]]
    BY <1>2, <2>1 DEF Sync
  <2>5. GridOf(geometry') \in Grid
    BY <2>3, GridOfType
  <2>6. ASSUME NEW p \in Pane
        PROVE  Hearing(p) /\ toPane'[p] \in Seq(Grid)
    <3>1. toPane[p] \in Seq(Grid)
      BY DEF TypeOK
    <3>2. CASE p \in attached' \cap open /\ GridOf(geometry') # GridOf(geometry)
      <4>1. toPane'[p] = Append(toPane[p], GridOf(geometry'))
        BY <2>4, <3>2
      <4> QED BY <2>5, <3>1, <3>2, <4>1, AppendProperties DEF Hearing
    <3>3. CASE ~ (p \in attached' \cap open /\ GridOf(geometry') # GridOf(geometry))
      BY <2>4, <3>1, <3>3 DEF Hearing
    <3> QED BY <3>2, <3>3
  <2> QED BY <2>1, <2>3, <2>4, <2>6
<1> QED BY <1>1, <1>2

-----------------------------------------------------------------------------
(* Requests *)

\* The oldest request of a line taken off it.
LEMMA TakingOldest ==
    ASSUME NEW s \in Seq(Request), s # <<>>
    PROVE  /\ s[1] \in Request /\ Head(s) = s[1]
           /\ Len(s) \in Nat \ {0} /\ Tail(s) \in Seq(Request) /\ Len(Tail(s)) = Len(s) - 1
           /\ \A i \in 1 .. Len(s) - 1 : Tail(s)[i] = s[i + 1]
           /\ Tail(s) = <<>> <=> Len(s) = 1
<1>1. Len(s) \in Nat \ {0} /\ s[1] \in Request
  BY EmptySeq, ElementOfSeq
<1>2. Tail(s) \in Seq(Request) /\ Len(Tail(s)) = Len(s) - 1
  BY HeadTailProperties
<1>3. \A i \in 1 .. Len(s) - 1 : Tail(s)[i] = s[i + 1]
  BY <1>2, HeadTailProperties
<1>4. Tail(s) = <<>> <=> Len(s) = 1
  <2>1. \A t \in Seq(Request) : t = <<>> <=> Len(t) = 0
    BY EmptySeq
  <2> DEFINE rest == Tail(s)
  <2>2. rest \in Seq(Request) /\ Len(rest) = Len(s) - 1
    BY <1>2
  <2> HIDE DEF rest
  <2>3. rest = <<>> <=> Len(s) = 1
    BY <1>1, <2>1, <2>2
  <2> QED BY <2>3 DEF rest
<1> QED BY <1>1, <1>2, <1>3, <1>4

\* A pane that is open and has something on its way ends it with a size.
LEMMA LastIsASize ==
    ASSUME TypeOK, NEW p \in Pane, PaneInv(p), p \in open, toServer[p] # <<>>
    PROVE  /\ Len(toServer[p]) \in Nat \ {0}
           /\ toServer[p][Len(toServer[p])].type = "Resize"
           /\ toServer[p][Len(toServer[p])].size \in Geometry
<1>1. toServer[p] \in Seq(Request)
  BY DEF TypeOK
<1>2. Len(toServer[p]) \in Nat \ {0}
  BY <1>1, EmptySeq
<1> DEFINE last == toServer[p][Len(toServer[p])]
<1>3. last \in Request
  BY <1>1, <1>2, ElementOfSeq
<1>4. last.type # "Close" /\ last.type # "Attach"
  <2>1. p \notin closed /\ Len(toServer[p]) \in 1 .. Len(toServer[p])
    BY <1>2 DEF TypeOK
  <2>2. p \notin attached => Len(toServer[p]) # 1
    <3>1. p \notin attached => Len(toServer[p]) >= 2
      BY DEF PaneInv, AsksEnough
    <3>2. \A n \in Nat : n >= 2 => n # 1
      OBVIOUS
    <3> HIDE DEF last
    <3> QED BY <1>2, <3>1, <3>2, Zenon
  <2> QED BY <2>1, <2>2 DEF PaneInv, Asks
<1> QED BY <1>2, <1>3, <1>4 DEF Request

\* An open pane told the server a size.
LEMMA ToldIsKnown ==
    ASSUME TypeOK, NEW p \in Pane, PaneInv(p), p \in open
    PROVE  Told(p) \in Geometry /\ (toServer[p] = <<>> => p \in DOMAIN wanted)
<1>1. CASE toServer[p] = <<>>
  <2>1. p \in attached
    BY <1>1, EmptySeq DEF PaneInv, AsksEnough
  <2>2. p \in DOMAIN wanted
    BY <1>1, <2>1 DEF PaneInv, AsksEnough
  <2> QED BY <1>1, <2>2 DEF Told, TypeOK
<1>2. CASE toServer[p] # <<>>
  BY <1>2, LastIsASize DEF Told
<1> QED BY <1>1, <1>2

\* A pane that others act beside, and that at most hears of the session's new
\* size, keeps what holds of it.
LEMMA BesideOthers ==
    ASSUME TypeOK, NEW p \in Pane, PaneInv(p), Hearing(p),
           toServer'[p] = toServer[p], grid'[p] = grid[p], layout'[p] = layout[p],
           p \in open' <=> p \in open, p \in closed' <=> p \in closed,
           p \in attached' <=> p \in attached,
           p \in DOMAIN wanted => p \in DOMAIN wanted' /\ wanted'[p] = wanted[p],
           layouts' = 0 => layouts = 0
    PROVE  PaneInv(p)'
<1>1. p \in open => Told(p)' = Told(p)
  BY ToldIsKnown DEF Told
<1>2. Asks(p)'
  BY DEF PaneInv, Asks
<1>3. AsksEnough(p)'
  BY DEF PaneInv, AsksEnough
<1>4. toPane'[p] = <<>> => toPane[p] = <<>>
  BY DEF Hearing, PaneInv, Hears
<1>5. Hears(p)'
  BY DEF Hearing, PaneInv, Hears
<1>6. Draws(p)' /\ KeepsPlace(p)'
  BY <1>1, <1>4 DEF Hearing, PaneInv, Hears, Draws, KeepsPlace
<1> QED BY <1>2, <1>3, <1>5, <1>6 DEF PaneInv

\* And one about which nothing changes but the bound on layouts.
LEMMA Untouched ==
    ASSUME TypeOK, NEW p \in Pane, PaneInv(p), UNCHANGED serverVars,
           toServer'[p] = toServer[p], toPane'[p] = toPane[p],
           grid'[p] = grid[p], layout'[p] = layout[p],
           p \in open' <=> p \in open, p \in closed' <=> p \in closed,
           layouts' = 0 => layouts = 0
    PROVE  PaneInv(p)'
BY BesideOthers DEF Hearing, serverVars

-----------------------------------------------------------------------------
(* Panes act *)

LEMMA OpenKeeps ==
    ASSUME IInv, NEW p \in Pane, NEW size \in Sizes, Open(p, size)
    PROVE  IInv'
<1> DEFINE opening == <<[type |-> "Attach"], [type |-> "Resize", size |-> size]>>
<1>1. size \in Geometry
  BY SizeAssumption
<1>2. opening \in Seq(Request) /\ Len(opening) = 2
  BY <1>1 DEF Request
<1>3. TypeOK'
  BY <1>1, <1>2, GridOfType DEF IInv, TypeOK, Open, serverVars
<1>4. Arbitrated'
  BY DEF IInv, Arbitrated, Open, serverVars
<1>5. PaneInv(p)'
  <2>1. p \notin open \cup closed /\ p \notin attached /\ toPane[p] = <<>>
    BY DEF Open, IInv, PaneInv, Hears, AsksEnough
  <2>2. /\ p \in open' /\ p \notin closed' /\ p \notin attached' /\ toPane'[p] = <<>>
        /\ toServer'[p] = opening /\ grid'[p] = GridOf(size) /\ layout'[p] = size
    BY <2>1 DEF Open, IInv, TypeOK, serverVars
  <2>3. Told(p)' = size
    BY <1>2, <2>2 DEF Told
  <2>4. Asks(p)' /\ AsksEnough(p)'
    BY <1>2, <2>2 DEF Asks, AsksEnough
  <2> QED BY <2>2, <2>3, <2>4 DEF PaneInv, Hears, Draws, KeepsPlace
<1>6. ASSUME NEW q \in Pane \ {p}
      PROVE  PaneInv(q)'
  BY <1>6, Untouched DEF IInv, TypeOK, Open
<1> QED BY <1>3, <1>4, <1>5, <1>6 DEF IInv

LEMMA LayoutKeeps ==
    ASSUME IInv, NEW p \in Pane, NEW size \in Sizes, Layout(p, size)
    PROVE  IInv'
<1> DEFINE resize == [type |-> "Resize", size |-> size]
<1>1. size \in Geometry /\ GridOf(size) \in Grid /\ resize \in Request
  BY SizeAssumption, GridOfType DEF Request
<1>2. toServer[p] \in Seq(Request)
  BY DEF IInv, TypeOK
<1>3. layouts' \in 0 .. MaxLayouts /\ layouts' # 0
  BY LayoutAssumption DEF IInv, TypeOK, Layout
<1>4. Arbitrated'
  BY DEF IInv, Arbitrated, Layout, serverVars
<1>5. ASSUME NEW q \in Pane \ {p}
      PROVE  PaneInv(q)'
  BY <1>3, <1>5, Untouched DEF IInv, TypeOK, Layout
<1>6. CASE grid[p] = GridOf(size)
  <2>1. TypeOK'
    BY <1>1, <1>3, <1>6 DEF IInv, TypeOK, Layout, serverVars
  <2>2. PaneInv(p)'
    BY <1>3, <1>6 DEF IInv, PaneInv, Asks, AsksEnough, Hears, Draws, KeepsPlace, Told,
                      Layout, serverVars
  <2> QED BY <1>4, <1>5, <2>1, <2>2 DEF IInv
<1>7. CASE grid[p] # GridOf(size)
  <2> DEFINE line == Append(toServer[p], resize)
  <2>1. /\ line \in Seq(Request) /\ line # <<>> /\ Len(line) = Len(toServer[p]) + 1
        /\ \A i \in 1 .. Len(toServer[p]) : line[i] = toServer[p][i]
        /\ line[Len(line)] = resize /\ Len(toServer[p]) \in Nat
    BY <1>1, <1>2, AppendProperties, LenProperties
  <2>2. /\ toServer' = [toServer EXCEPT ![p] = line] /\ grid' = [grid EXCEPT ![p] = GridOf(size)]
        /\ layout' = [layout EXCEPT ![p] = size] /\ p \in open
        /\ UNCHANGED <<open, closed, toPane, serverVars>>
    BY <1>7 DEF Layout
  <2> HIDE DEF line
  <2>3. TypeOK'
    BY <1>1, <1>3, <2>1, <2>2 DEF IInv, TypeOK, serverVars
  <2>4. toServer'[p] = line /\ grid'[p] = GridOf(size) /\ layout'[p] = size
    BY <2>2 DEF IInv, TypeOK
  <2>5. Told(p)' = size
    BY <2>1, <2>4 DEF Told
  <2>6. p \notin closed
    BY <2>2 DEF IInv, TypeOK
  <2>7. toServer[p] = <<>> => p \in attached
    BY <2>2, EmptySeq DEF IInv, PaneInv, AsksEnough
  <2>8. Asks(p)'
    <3>1. p \notin attached => Len(toServer[p]) >= 2
      BY <2>2 DEF IInv, PaneInv, AsksEnough
    <3>2. ASSUME NEW i \in 1 .. Len(toServer[p])
          PROVE  line[i].type # "Close" /\ (line[i].type = "Attach" <=> i = 1 /\ p \notin attached)
      BY <2>1, <2>6 DEF IInv, PaneInv, Asks
    <3>3. resize.type # "Close" /\ resize.type # "Attach"
      OBVIOUS
    <3> HIDE DEF resize
    <3>4. 1 .. Len(line) = 1 .. Len(toServer[p]) \cup {Len(line)}
      BY <2>1
    <3>5. Len(line) # 1 \/ p \in attached
      BY <2>1, <3>1
    <3>6. \A i \in 1 .. Len(line) :
              line[i].type # "Close" /\ (line[i].type = "Attach" <=> i = 1 /\ p \notin attached)
      BY <2>1, <3>2, <3>3, <3>4, <3>5
    <3> QED BY <2>2, <2>4, <2>6, <3>6 DEF Asks, serverVars
  <2>9. AsksEnough(p)'
    BY <2>1, <2>2, <2>4, <2>6, LayoutAssumption DEF IInv, PaneInv, AsksEnough, serverVars
  <2>10. Hears(p)' /\ Draws(p)' /\ KeepsPlace(p)'
    BY <1>3, <2>2, <2>4, <2>5 DEF IInv, PaneInv, Hears, Draws, KeepsPlace, serverVars
  <2> QED BY <1>4, <1>5, <2>3, <2>8, <2>9, <2>10 DEF IInv, PaneInv
<1> QED BY <1>6, <1>7

LEMMA CloseKeeps ==
    ASSUME IInv, NEW p \in Pane, Close(p)
    PROVE  IInv'
<1> DEFINE close == [type |-> "Close"]
           line == Append(toServer[p], close)
<1>1. close \in Request /\ close.type = "Close"
  BY DEF Request
<1>2. /\ line \in Seq(Request) /\ line # <<>> /\ Len(line) = Len(toServer[p]) + 1
      /\ \A i \in 1 .. Len(toServer[p]) : line[i] = toServer[p][i]
      /\ line[Len(line)] = close /\ Len(toServer[p]) \in Nat
  <2>1. toServer[p] \in Seq(Request)
    BY DEF IInv, TypeOK
  <2>2. Len(toServer[p]) \in Nat
    BY <2>1, LenProperties
  <2>3. line \in Seq(Request) /\ Len(line) = Len(toServer[p]) + 1
        /\ line[Len(toServer[p]) + 1] = close
        /\ \A i \in 1 .. Len(toServer[p]) : line[i] = toServer[p][i]
    BY <1>1, <2>1, AppendProperties
  <2> HIDE DEF line, close
  <2> QED BY <2>2, <2>3
<1>3. /\ toServer' = [toServer EXCEPT ![p] = line] /\ toPane' = [toPane EXCEPT ![p] = <<>>]
      /\ open' = open \ {p} /\ closed' = closed \cup {p} /\ p \in open
      /\ UNCHANGED <<layout, grid, layouts, serverVars>>
  BY DEF Close
<1> HIDE DEF line
<1>4. TypeOK'
  BY <1>2, <1>3 DEF IInv, TypeOK, serverVars
<1>5. Arbitrated'
  BY <1>3 DEF IInv, Arbitrated, serverVars
<1>6. ASSUME NEW q \in Pane \ {p}
      PROVE  PaneInv(q)'
  BY <1>3, <1>6, Untouched DEF IInv, TypeOK
<1>7. PaneInv(p)'
  <2>1. /\ toServer'[p] = line /\ toPane'[p] = <<>> /\ p \notin open' /\ p \in closed'
        /\ p \notin closed /\ attached' = attached
    BY <1>3 DEF IInv, TypeOK, serverVars
  <2>2. p \notin attached => Len(toServer[p]) >= 2
    BY <1>3 DEF IInv, PaneInv, AsksEnough
  <2>3. Asks(p)'
    <3>1. ASSUME NEW i \in 1 .. Len(toServer[p])
          PROVE  line[i].type # "Close" /\ (line[i].type = "Attach" <=> i = 1 /\ p \notin attached)
      BY <1>2, <2>1 DEF IInv, PaneInv, Asks
    <3>2. close.type = "Close"
      OBVIOUS
    <3> HIDE DEF close
    <3>3. 1 .. Len(line) = 1 .. Len(toServer[p]) \cup {Len(line)}
      BY <1>2
    <3>4. Len(line) # 1 \/ p \in attached
      BY <1>2, <2>2
    <3>5. ASSUME NEW i \in 1 .. Len(line)
          PROVE  /\ line[i].type = "Close" <=> i = Len(line)
                 /\ line[i].type = "Attach" <=> i = 1 /\ p \notin attached
      BY <1>2, <3>1, <3>2, <3>3, <3>4
    <3> QED BY <2>1, <3>5 DEF Asks
  <2> QED BY <1>2, <2>1, <2>2, <2>3 DEF PaneInv, AsksEnough, Hears, Draws, KeepsPlace
<1> QED BY <1>4, <1>5, <1>6, <1>7 DEF IInv

LEMMA DrainKeeps ==
    ASSUME IInv, NEW p \in Pane, Drain(p)
    PROVE  IInv'
<1> DEFINE rest == Tail(toPane[p])
<1>1. toPane[p] \in Seq(Grid) /\ toPane[p] # <<>> /\ p \in open
  BY DEF IInv, TypeOK, Drain
<1>2. /\ Head(toPane[p]) = toPane[p][1] /\ toPane[p][1] \in Grid /\ rest \in Seq(Grid)
      /\ Len(rest) = Len(toPane[p]) - 1 /\ Len(toPane[p]) \in Nat \ {0}
      /\ \A i \in 1 .. Len(rest) : rest[i] = toPane[p][i + 1]
  BY <1>1, HeadTailProperties, EmptySeq
<1>3. rest # <<>> => rest[Len(rest)] = toPane[p][Len(toPane[p])]
  BY <1>2, EmptySeq
<1>4. rest = <<>> => Head(toPane[p]) = toPane[p][Len(toPane[p])]
  <2>1. Len(<<>>) = 0
    BY EmptySeq
  <2> HIDE DEF rest
  <2>2. rest = <<>> => Len(toPane[p]) = 1
    BY <1>2, <2>1
  <2> QED BY <1>2, <2>2
<1>5. toPane[p][Len(toPane[p])] = GridOf(geometry) /\ p \in attached
  BY <1>1 DEF IInv, PaneInv, Hears
<1>6. /\ grid' = [grid EXCEPT ![p] = Head(toPane[p])] /\ toPane' = [toPane EXCEPT ![p] = rest]
      /\ UNCHANGED <<open, closed, layout, layouts, toServer, serverVars>>
  BY DEF Drain
<1> HIDE DEF rest
<1>7. TypeOK'
  BY <1>2, <1>6 DEF IInv, TypeOK, serverVars
<1>8. Arbitrated'
  BY <1>6 DEF IInv, Arbitrated, serverVars
<1>9. ASSUME NEW q \in Pane \ {p}
      PROVE  PaneInv(q)'
  BY <1>6, <1>9, Untouched DEF IInv, TypeOK
<1>10. PaneInv(p)'
  <2>1. grid'[p] = Head(toPane[p]) /\ toPane'[p] = rest
    BY <1>6 DEF IInv, TypeOK
  <2>2. Asks(p)' /\ AsksEnough(p)' /\ Told(p)' = Told(p)
    BY <1>6 DEF IInv, PaneInv, Asks, AsksEnough, Told, serverVars
  <2>3. Hears(p)'
    BY <1>1, <1>3, <1>5, <1>6, <2>1 DEF Hears, serverVars
  <2>4. Draws(p)' /\ KeepsPlace(p)'
    BY <1>4, <1>5, <1>6, <2>1, <2>2 DEF IInv, PaneInv, Draws, KeepsPlace, serverVars
  <2> QED BY <2>2, <2>3, <2>4 DEF PaneInv
<1> QED BY <1>7, <1>8, <1>9, <1>10 DEF IInv

-----------------------------------------------------------------------------
(* The server acts *)

\* What remains of a pane's requests, its oldest taken, when that is no end:
\* an attachment, or a size of an attached pane.
LEMMA AskingLess ==
    ASSUME IInv, NEW p \in Pane, toServer[p] # <<>>, Head(toServer[p]).type # "Close",
           toServer' = [toServer EXCEPT ![p] = Tail(@)], UNCHANGED <<open, closed>>,
           attached' = attached \cup {p}
    PROVE  Asks(p)'
<1> DEFINE s == toServer[p]
           rest == Tail(toServer[p])
<1>1. /\ Len(s) \in Nat \ {0} /\ Len(rest) = Len(s) - 1 /\ Head(s) = s[1]
      /\ \A i \in 1 .. Len(s) - 1 : rest[i] = s[i + 1]
  BY TakingOldest DEF IInv, TypeOK
<1>2. toServer'[p] = rest /\ p \in attached' /\ closed' = closed
  BY DEF IInv, TypeOK
<1>3. ASSUME NEW i \in 1 .. Len(rest)
      PROVE  /\ rest[i].type # "Attach"
             /\ rest[i].type = "Close" <=> i = Len(rest) /\ p \in closed
  <2>1. i + 1 \in 1 .. Len(s) /\ rest[i] = s[i + 1] /\ i + 1 # 1
    BY <1>1
  <2>2. /\ s[i + 1].type = "Attach" <=> i + 1 = 1 /\ p \notin attached
        /\ s[i + 1].type = "Close" <=> i + 1 = Len(s) /\ p \in closed
    BY <2>1 DEF IInv, PaneInv, Asks
  <2>3. i + 1 = Len(s) <=> i = Len(rest)
    BY <1>1
  <2> QED BY <2>1, <2>2, <2>3
<1> HIDE DEF rest
<1> QED BY <1>2, <1>3 DEF Asks

LEMMA AttachKeeps ==
    ASSUME IInv, NEW p \in Pane, toServer[p] # <<>>, Head(toServer[p]).type = "Attach",
           toServer' = [toServer EXCEPT ![p] = Tail(@)], TakeAttach(p), UNCHANGED paneVars
    PROVE  IInv'
<1> DEFINE s == toServer[p]
           rest == Tail(toServer[p])
           answer == Append(toPane[p], GridOf(geometry))
<1>1. /\ Len(s) \in Nat \ {0} /\ rest \in Seq(Request) /\ Len(rest) = Len(s) - 1
      /\ Head(s) = s[1] /\ \A i \in 1 .. Len(s) - 1 : rest[i] = s[i + 1]
      /\ rest = <<>> <=> Len(s) = 1
  BY TakingOldest DEF IInv, TypeOK
<1>2. 1 \in 1 .. Len(s)
  BY <1>1
<1>3. p \notin attached
  BY <1>1, <1>2 DEF IInv, PaneInv, Asks
<1>4. p \in open \cup closed /\ Len(s) >= 2
  BY <1>3 DEF IInv, PaneInv, AsksEnough
<1>5. /\ answer \in Seq(Grid) /\ answer # <<>> /\ answer[Len(answer)] = GridOf(geometry)
  BY GridOfType, AppendProperties, LenProperties DEF IInv, TypeOK
<1>6. /\ toPane' = [toPane EXCEPT ![p] = IF p \in open THEN answer ELSE @]
      /\ toServer' = [toServer EXCEPT ![p] = rest]
      /\ attached' = attached \cup {p} /\ UNCHANGED <<wanted, geometry>>
      /\ UNCHANGED <<open, closed, layout, grid, layouts>>
  BY DEF TakeAttach, paneVars
<1>7. Asks(p)'
  BY <1>6, AskingLess
<1> HIDE DEF rest, answer
<1>8. TypeOK'
  BY <1>1, <1>5, <1>6 DEF IInv, TypeOK
<1>9. Arbitrated'
  BY <1>6 DEF IInv, Arbitrated
<1>10. ASSUME NEW q \in Pane \ {p}
       PROVE  PaneInv(q)'
  BY <1>6, <1>10, BesideOthers DEF IInv, TypeOK, Hearing
<1>11. PaneInv(p)'
  <2>1. toServer'[p] = rest /\ p \in attached' /\ rest # <<>>
    BY <1>1, <1>4, <1>6 DEF IInv, TypeOK
  <2>2. p \in open => toPane'[p] = answer
    BY <1>6 DEF IInv, TypeOK
  <2>3. p \notin open => toPane'[p] = <<>>
    BY <1>6 DEF IInv, TypeOK, PaneInv, Hears
  <2>4. p \in open => Told(p)' = Told(p)
    <3>1. Len(rest) \in 1 .. Len(s) - 1 /\ rest[Len(rest)] = s[Len(s)]
      BY <1>1, <1>4
    <3> QED BY <2>1, <3>1 DEF Told
  <2>5. AsksEnough(p)' /\ Hears(p)'
    BY <1>4, <1>5, <1>6, <2>1, <2>2, <2>3 DEF AsksEnough, Hears
  <2>6. Draws(p)' /\ KeepsPlace(p)'
    BY <1>5, <1>6, <2>2, <2>4 DEF IInv, PaneInv, Draws, KeepsPlace
  <2> QED BY <1>7, <2>5, <2>6 DEF PaneInv
<1> QED BY <1>8, <1>9, <1>10, <1>11 DEF IInv

LEMMA ResizeKeeps ==
    ASSUME IInv, NEW p \in Pane, toServer[p] # <<>>, Head(toServer[p]).type = "Resize",
           toServer' = [toServer EXCEPT ![p] = Tail(@)],
           TakeResize(p, Head(toServer[p]).size), UNCHANGED paneVars
    PROVE  IInv'
<1> DEFINE s == toServer[p]
           rest == Tail(toServer[p])
           size == Head(toServer[p]).size
<1>1. /\ Len(s) \in Nat \ {0} /\ rest \in Seq(Request) /\ Len(rest) = Len(s) - 1
      /\ Head(s) = s[1] /\ s[1] \in Request /\ \A i \in 1 .. Len(s) - 1 : rest[i] = s[i + 1]
      /\ rest = <<>> <=> Len(s) = 1
  BY TakingOldest DEF IInv, TypeOK
<1>2. 1 \in 1 .. Len(s)
  BY <1>1
<1>3. p \in attached
  BY <1>1, <1>2 DEF IInv, PaneInv, Asks
<1>4. size \in Geometry
  BY <1>1 DEF Request
<1>5. /\ attached' = attached /\ Sync(wanted')
      /\ wanted' = [q \in DOMAIN wanted \cup {p} |-> IF q = p THEN size ELSE wanted[q]]
      /\ toServer' = [toServer EXCEPT ![p] = rest]
      /\ UNCHANGED <<open, closed, layout, grid, layouts>>
  BY <1>3 DEF TakeResize, paneVars
<1>6. Asks(p)'
  BY <1>3, <1>5, AskingLess
<1>7. /\ wanted' \in [DOMAIN wanted' -> Geometry] /\ DOMAIN wanted' = DOMAIN wanted \cup {p}
      /\ wanted'[p] = size /\ \A q \in DOMAIN wanted \ {p} : wanted'[q] = wanted[q]
  BY <1>4, <1>5 DEF IInv, TypeOK
<1>8. /\ geometry' \in Geometry /\ toPane' \in [Pane -> Seq(Grid)]
      /\ geometry' = EffectiveSize({wanted'[q] : q \in DOMAIN wanted'})
      /\ \A q \in Pane : Hearing(q)
  <2>1. TypeOK /\ Sync(wanted') /\ wanted' \in [DOMAIN wanted' -> Geometry]
    BY <1>5, <1>7 DEF IInv
  <2> DEFINE reported == wanted'
  <2>2. Sync(reported) /\ reported \in [DOMAIN reported -> Geometry]
    BY <2>1
  <2> HIDE DEF reported
  <2>3. /\ geometry' \in Geometry /\ toPane' \in [Pane -> Seq(Grid)]
        /\ DOMAIN reported # {} => geometry' = EffectiveSize({reported[q] : q \in DOMAIN reported})
        /\ \A q \in Pane : Hearing(q)
    BY <2>1, <2>2, SyncTells
  <2> QED BY <1>5, <1>7, <2>3 DEF reported
<1> HIDE DEF rest, size
<1>9. TypeOK'
  <2>1. DOMAIN wanted' \subseteq attached'
    BY <1>3, <1>5, <1>7 DEF IInv, TypeOK
  <2>2. toServer' \in [Pane -> Seq(Request)]
    BY <1>1, <1>5 DEF IInv, TypeOK
  <2>3. UNCHANGED <<open, closed, layout, grid, layouts, attached>>
    BY <1>5
  <2> QED BY <1>7, <1>8, <2>1, <2>2, <2>3 DEF IInv, TypeOK
<1>10. Arbitrated'
  BY <1>8 DEF Arbitrated
<1>11. ASSUME NEW q \in Pane \ {p}
       PROVE  PaneInv(q)'
  <2>1. toServer'[q] = toServer[q]
    BY <1>5, <1>11 DEF IInv, TypeOK
  <2>2. q \in DOMAIN wanted => q \in DOMAIN wanted' /\ wanted'[q] = wanted[q]
    BY <1>7, <1>11
  <2> QED BY <1>5, <1>8, <1>11, <2>1, <2>2, BesideOthers DEF IInv
<1>12. PaneInv(p)'
  <2>1. toServer'[p] = rest /\ p \in attached' /\ p \in DOMAIN wanted'
    BY <1>3, <1>5, <1>7 DEF IInv, TypeOK
  <2>2. p \in open => Told(p)' = Told(p)
    <3>1. CASE Len(s) = 1
      <4>1. Told(p)' = size
        BY <1>1, <1>7, <2>1, <3>1 DEF Told
      <4>2. Told(p) = size
        BY <1>1, <3>1 DEF Told, size
      <4> QED BY <4>1, <4>2
    <3>2. CASE Len(s) # 1
      <4>1. Len(rest) \in 1 .. Len(s) - 1 /\ rest[Len(rest)] = s[Len(s)] /\ rest # <<>>
        BY <1>1, <3>2
      <4> QED BY <2>1, <4>1 DEF Told
    <3> QED BY <3>1, <3>2
  <2>3. AsksEnough(p)'
    <3>1. p \in closed => Len(s) # 1
      <4>1. s[1].type # "Close"
        BY <1>1
      <4> QED BY <1>2, <4>1 DEF IInv, PaneInv, Asks
    <3>2. p \in closed => rest # <<>>
      BY <1>1, <3>1
    <3>3. p \in open \cup closed
      BY <1>3 DEF IInv, PaneInv, AsksEnough
    <3> QED BY <1>5, <2>1, <3>2, <3>3 DEF AsksEnough
  <2>4. Hears(p)'
    BY <1>5, <1>8 DEF IInv, PaneInv, Hears, Hearing
  <2>5. Draws(p)' /\ KeepsPlace(p)'
    BY <1>5, <1>8, <2>2 DEF IInv, PaneInv, Hears, Draws, KeepsPlace, Hearing
  <2> QED BY <1>6, <2>3, <2>4, <2>5 DEF PaneInv
<1> QED BY <1>9, <1>10, <1>11, <1>12 DEF IInv

LEMMA EndKeeps ==
    ASSUME IInv, NEW p \in Pane, toServer[p] # <<>>, Head(toServer[p]).type = "Close",
           toServer' = [toServer EXCEPT ![p] = Tail(@)], TakeClose(p), UNCHANGED paneVars
    PROVE  IInv'
<1> DEFINE s == toServer[p]
           rest == Tail(toServer[p])
<1>1. /\ Len(s) \in Nat \ {0} /\ rest \in Seq(Request)
      /\ Head(s) = s[1] /\ rest = <<>> <=> Len(s) = 1
  BY TakingOldest DEF IInv, TypeOK
<1>2. 1 \in 1 .. Len(s)
  BY <1>1
<1>3. Len(s) = 1 /\ p \in closed
  BY <1>1, <1>2 DEF IInv, PaneInv, Asks
<1>4. rest = <<>> /\ p \notin open
  BY <1>1, <1>3 DEF IInv, TypeOK
<1>5. /\ attached' = attached \ {p} /\ Sync(wanted')
      /\ wanted' = [q \in DOMAIN wanted \ {p} |-> wanted[q]]
      /\ toServer' = [toServer EXCEPT ![p] = rest]
      /\ UNCHANGED <<open, closed, layout, grid, layouts>>
  BY DEF TakeClose, paneVars
<1>6. /\ wanted' \in [DOMAIN wanted' -> Geometry] /\ DOMAIN wanted' = DOMAIN wanted \ {p}
      /\ \A q \in DOMAIN wanted \ {p} : wanted'[q] = wanted[q]
  BY <1>5 DEF IInv, TypeOK
<1>7. /\ geometry' \in Geometry /\ toPane' \in [Pane -> Seq(Grid)]
      /\ DOMAIN wanted' # {} => geometry' = EffectiveSize({wanted'[q] : q \in DOMAIN wanted'})
      /\ \A q \in Pane : Hearing(q)
  <2>1. TypeOK /\ Sync(wanted') /\ wanted' \in [DOMAIN wanted' -> Geometry]
    BY <1>5, <1>6 DEF IInv
  <2> DEFINE reported == wanted'
  <2>2. Sync(reported) /\ reported \in [DOMAIN reported -> Geometry]
    BY <2>1
  <2> HIDE DEF reported
  <2>3. /\ geometry' \in Geometry /\ toPane' \in [Pane -> Seq(Grid)]
        /\ DOMAIN reported # {} => geometry' = EffectiveSize({reported[q] : q \in DOMAIN reported})
        /\ \A q \in Pane : Hearing(q)
    BY <2>1, <2>2, SyncTells
  <2> QED BY <1>5, <1>6, <2>3 DEF reported
<1> HIDE DEF rest
<1>8. TypeOK'
  <2>1. DOMAIN wanted' \subseteq attached' /\ attached' \subseteq Pane
    BY <1>5, <1>6 DEF IInv, TypeOK
  <2>2. toServer' \in [Pane -> Seq(Request)]
    BY <1>1, <1>5 DEF IInv, TypeOK
  <2>3. UNCHANGED <<open, closed, layout, grid, layouts>>
    BY <1>5
  <2> QED BY <1>6, <1>7, <2>1, <2>2, <2>3 DEF IInv, TypeOK
<1>9. Arbitrated'
  BY <1>7 DEF Arbitrated
<1>10. ASSUME NEW q \in Pane \ {p}
       PROVE  PaneInv(q)'
  <2>1. toServer'[q] = toServer[q] /\ (q \in attached' <=> q \in attached)
    BY <1>5, <1>10 DEF IInv, TypeOK
  <2>2. q \in DOMAIN wanted => q \in DOMAIN wanted' /\ wanted'[q] = wanted[q]
    BY <1>6, <1>10
  <2> QED BY <1>5, <1>7, <1>10, <2>1, <2>2, BesideOthers DEF IInv
<1>11. PaneInv(p)'
  <2>1. /\ toServer'[p] = <<>> /\ p \notin attached' /\ p \in closed' /\ p \notin open'
        /\ Len(<<>>) = 0
    BY <1>3, <1>4, <1>5, EmptySeq DEF IInv, TypeOK
  <2>2. toPane'[p] = <<>>
    BY <1>4, <1>7, <2>1 DEF IInv, PaneInv, Hears, Hearing
  <2> QED BY <2>1, <2>2 DEF PaneInv, Asks, AsksEnough, Hears, Draws, KeepsPlace
<1> QED BY <1>8, <1>9, <1>10, <1>11 DEF IInv

LEMMA ServeKeeps ==
    ASSUME IInv, NEW p \in Pane, Serve(p)
    PROVE  IInv'
BY AttachKeeps, ResizeKeeps, EndKeeps DEF Serve

-----------------------------------------------------------------------------
(* The invariant, and what follows from it *)

LEMMA InitHolds == Init => IInv
<1> SUFFICES ASSUME Init PROVE IInv
  OBVIOUS
<1>1. TypeOK
  BY SizeAssumption, LayoutAssumption, GridOfType DEF Init, TypeOK
<1>2. ASSUME NEW p \in Pane
      PROVE  toServer[p] = <<>> /\ toPane[p] = <<>> /\ Len(toServer[p]) = 0
  BY EmptySeq DEF Init
<1>3. ASSUME NEW p \in Pane
      PROVE  PaneInv(p)
  BY <1>2 DEF Init, PaneInv, Asks, AsksEnough, Hears, Draws, KeepsPlace
<1> QED BY <1>1, <1>3 DEF IInv, Arbitrated, Init

LEMMA NextKeeps == IInv /\ [Next]_vars => IInv'
<1> SUFFICES ASSUME IInv, [Next]_vars PROVE IInv'
  OBVIOUS
<1>1. CASE UNCHANGED vars
  <2>1. TypeOK' /\ Arbitrated'
    BY <1>1 DEF IInv, TypeOK, Arbitrated, vars, paneVars, serverVars
  <2>2. ASSUME NEW p \in Pane
        PROVE  PaneInv(p)'
    BY <1>1, Untouched DEF IInv, vars, paneVars
  <2> QED BY <2>1, <2>2 DEF IInv
<1>2. ASSUME NEW p \in Pane, NEW size \in Sizes, Open(p, size)
      PROVE  IInv'
  BY <1>2, OpenKeeps
<1>3. ASSUME NEW p \in Pane, NEW size \in Sizes, Layout(p, size)
      PROVE  IInv'
  BY <1>3, LayoutKeeps
<1>4. ASSUME NEW p \in Pane, Close(p)
      PROVE  IInv'
  BY <1>4, CloseKeeps
<1>5. ASSUME NEW p \in Pane, Drain(p)
      PROVE  IInv'
  BY <1>5, DrainKeeps
<1>6. ASSUME NEW p \in Pane, Serve(p)
      PROVE  IInv'
  BY <1>6, ServeKeeps
<1> QED BY <1>1, <1>2, <1>3, <1>4, <1>5, <1>6 DEF Next

LEMMA InvariantHolds == Spec => []IInv
BY InitHolds, NextKeeps, PTL DEF Spec

\* Every pane, connection and size has its type.
THEOREM TypeCorrect == Spec => []TypeOK
<1>1. IInv => TypeOK
  BY DEF IInv
<1> QED BY <1>1, InvariantHolds, PTL

\* Once all is quiet, the panes that are open are those the session is sized for.
LEMMA QuietMeansCounted ==
    ASSUME IInv, Quiet
    PROVE  /\ DOMAIN wanted = open
           /\ \A p \in open : /\ Told(p) = wanted[p] /\ p \in attached
                              /\ grid[p] = GridOf(wanted[p]) \/ grid[p] = GridOf(geometry)
<1>1. Len(<<>>) = 0
  BY EmptySeq
<1>2. ASSUME NEW p \in Pane
      PROVE  /\ p \in open => p \in attached /\ p \in DOMAIN wanted
             /\ p \in DOMAIN wanted => p \in open
  <2>1. toServer[p] = <<>>
    BY DEF Quiet
  <2>2. p \in open => p \in attached /\ p \in DOMAIN wanted
    BY <1>1, <2>1 DEF IInv, PaneInv, AsksEnough
  <2>3. p \in attached => p \in open
    BY <2>1 DEF IInv, PaneInv, AsksEnough
  <2> QED BY <2>2, <2>3 DEF IInv, TypeOK
<1>3. open \subseteq Pane /\ DOMAIN wanted \subseteq Pane
  BY DEF IInv, TypeOK
<1>4. DOMAIN wanted = open
  BY <1>2, <1>3
<1>5. ASSUME NEW p \in open
      PROVE  Told(p) = wanted[p] /\ (grid[p] = GridOf(wanted[p]) \/ grid[p] = GridOf(geometry))
  <2>1. p \in Pane /\ toServer[p] = <<>> /\ toPane[p] = <<>>
    BY <1>3 DEF Quiet
  <2>2. Told(p) = wanted[p]
    BY <2>1 DEF Told
  <2> QED BY <2>1, <2>2 DEF IInv, PaneInv, Draws
<1> QED BY <1>2, <1>3, <1>4, <1>5

\* When every message has been taken, the panes draw what the session has, if
\* one is open alone or all keep the places they opened with: however many panes,
\* sizes and layouts there are (session/mod.rs drain_output, size.rs).
THEOREM PanesAgree == Spec => []PanesSettle
<1>1. IInv => PanesSettle
  <2> SUFFICES ASSUME IInv, Quiet, layouts = 0 \/ Cardinality(open) = 1,
                      NEW p \in open
               PROVE  grid[p] = GridOf(geometry)
    BY DEF PanesSettle, PanesDrawTheSession
  <2>1. p \in Pane /\ toPane[p] = <<>>
    BY DEF IInv, TypeOK, Quiet
  <2>2. DOMAIN wanted = open /\ Told(p) = wanted[p] /\ p \in attached
    BY QuietMeansCounted
  <2>3. CASE layouts = 0
    BY <2>1, <2>2, <2>3 DEF IInv, PaneInv, KeepsPlace
  <2>4. CASE Cardinality(open) = 1
    <3>1. IsFiniteSet(open)
      BY PaneAssumption, FS_Subset DEF IInv, TypeOK
    <3>2. open = {p}
      BY <2>4, <3>1, FS_Singleton
    <3>3. wanted[p] \in Geometry /\ {wanted[q] : q \in DOMAIN wanted} = {wanted[p]}
      BY <2>2, <3>2 DEF IInv, TypeOK
    <3>4. geometry = EffectiveSize({wanted[p]})
      BY <2>2, <3>2, <3>3 DEF IInv, Arbitrated
    <3>5. geometry.cols = wanted[p].cols /\ geometry.rows = wanted[p].rows
      BY <3>3, <3>4, EffectiveSizeIsSmallest
    <3>6. GridOf(geometry) = GridOf(wanted[p])
      BY <3>5 DEF GridOf
    <3> QED BY <3>6, QuietMeansCounted
  <2> QED BY <2>3, <2>4
<1> QED BY <1>1, InvariantHolds, PTL

\* Panes that keep their places share the smallest of them, each way that of one
\* of the panes (size.rs), whoever else came and went before.
THEOREM SessionFits == Spec => []SessionFitsThePanes
<1>1. IInv => SessionFitsThePanes
  <2> SUFFICES ASSUME IInv, Quiet, open # {}, layouts = 0
               PROVE  /\ \A p \in open : /\ geometry.cols =< layout[p].cols
                                         /\ geometry.rows =< layout[p].rows
                      /\ \E p \in open : geometry.cols = layout[p].cols
                      /\ \E p \in open : geometry.rows = layout[p].rows
    BY DEF SessionFitsThePanes
  <2> DEFINE W == {wanted[p] : p \in DOMAIN wanted}
  <2>1. DOMAIN wanted = open /\ \A p \in open : p \in Pane /\ wanted[p] = layout[p]
    <3>1. \A p \in open : p \in Pane /\ Told(p) = layout[p]
      BY DEF IInv, TypeOK, PaneInv, KeepsPlace
    <3> QED BY <3>1, QuietMeansCounted
  <2>2. W \subseteq Geometry /\ W # {} /\ geometry = EffectiveSize(W)
    BY <2>1 DEF IInv, TypeOK, Arbitrated
  <2>3. W = {layout[p] : p \in open}
    BY <2>1
  <2> HIDE DEF W
  <2>4. /\ \A g \in W : geometry.cols =< g.cols /\ geometry.rows =< g.rows
        /\ \E g \in W : geometry.cols = g.cols
        /\ \E g \in W : geometry.rows = g.rows
    BY <2>2, EffectiveSizeIsSmallest
  <2> QED BY <2>3, <2>4
<1> QED BY <1>1, InvariantHolds, PTL

-----------------------------------------------------------------------------
(* The history *)

\* Reads are sequences of bytes.
LEMMA ChunksAreSequences == Chunk \subseteq Seq(Byte)
<1> SUFFICES ASSUME NEW n \in 1 .. MaxChunk, NEW data \in [1 .. n -> Byte]
             PROVE  data \in Seq(Byte)
  BY DEF Chunk
<1> QED BY CapacityAssumption

\* What is left of a sequence without its n oldest elements.
LEMMA WithoutProperties ==
    ASSUME NEW s \in Seq(Byte), NEW n \in 0 .. Len(s)
    PROVE  /\ Without(n, s) \in Seq(Byte)
           /\ Len(Without(n, s)) = Len(s) - n
           /\ \A i \in 1 .. Len(s) - n : Without(n, s)[i] = s[n + i]
<1>1. n + 1 \in 1 .. Len(s) + 1 /\ Len(s) \in n .. Len(s)
  OBVIOUS
<1> QED BY <1>1, SubSeqProperties DEF Without

\* Appending a read to what is retained and dropping the excess keeps the
\* ring the tail of the output.
LEMMA PushKeepsTheTail ==
    ASSUME RingTypeOK, KeepsTheTail, NEW data \in Chunk, Push(data)
    PROVE  RingTypeOK' /\ KeepsTheTail'
<1> DEFINE all == buf \o data
           kept == Without(Excess(all), all)
<1> Capacity \in Nat \ {0}
  BY CapacityAssumption
<1>1. data \in Seq(Byte) /\ buf \in Seq(Byte) /\ written \in Seq(Byte)
  BY ChunksAreSequences DEF RingTypeOK
<1>2. /\ all \in Seq(Byte) /\ Len(all) = Len(buf) + Len(data)
      /\ \A i \in 1 .. Len(all) : all[i] = IF i =< Len(buf) THEN buf[i] ELSE data[i - Len(buf)]
  BY <1>1, ConcatProperties
<1>3. /\ written' \in Seq(Byte) /\ Len(written') = Len(written) + Len(data)
      /\ \A i \in 1 .. Len(written') :
             written'[i] = IF i =< Len(written) THEN written[i] ELSE data[i - Len(written)]
  BY <1>1, ConcatProperties DEF Push
<1>4. /\ Len(buf) \in Nat /\ Len(data) \in Nat /\ Len(written) \in Nat /\ Len(all) \in Nat
      /\ Len(written') \in Nat /\ Len(buf) =< Len(written)
  BY <1>1, <1>2, <1>3 DEF KeepsTheTail
<1>5. \A i \in 1 .. Len(all) : all[i] = written'[Len(written') - Len(all) + i]
  <2> SUFFICES ASSUME NEW i \in 1 .. Len(all)
               PROVE  all[i] = written'[Len(written') - Len(all) + i]
    OBVIOUS
  <2> DEFINE j == Len(written') - Len(all) + i
  <2>1. j \in 1 .. Len(written') /\ j = Len(written) - Len(buf) + i
    BY <1>2, <1>3, <1>4
  <2>2. CASE i =< Len(buf)
    <3>1. all[i] = buf[i] /\ i \in DOMAIN buf
      BY <1>1, <1>2, <2>2
    <3>2. j =< Len(written) /\ buf[i] = written[j]
      BY <1>4, <2>1, <2>2, <3>1 DEF KeepsTheTail
    <3> QED BY <1>3, <2>1, <3>1, <3>2
  <2>3. CASE i > Len(buf)
    <3>1. ~ (j =< Len(written)) /\ j - Len(written) = i - Len(buf)
      BY <1>4, <2>1, <2>3
    <3>2. all[i] = data[i - Len(buf)]
      BY <1>2, <1>4, <2>3
    <3>3. written'[j] = data[j - Len(written)]
      BY <1>3, <2>1, <3>1
    <3> QED BY <3>1, <3>2, <3>3
  <2> QED BY <1>4, <2>2, <2>3
<1>6. CASE Len(all) > Capacity
  <2>1. Excess(all) \in 0 .. Len(all) /\ Len(all) - Excess(all) = Capacity
    BY <1>4, <1>6 DEF Excess
  <2>2. /\ kept \in Seq(Byte) /\ Len(kept) = Capacity
        /\ \A i \in 1 .. Capacity : kept[i] = all[Excess(all) + i]
    BY <1>2, <2>1, WithoutProperties
  <2>3. buf' = kept /\ evicted' = TRUE
    BY <1>6 DEF Push
  <2>4. Len(written') > Capacity
    BY <1>2, <1>3, <1>4, <1>6
  <2>5. ASSUME NEW i \in DOMAIN buf'
        PROVE  buf'[i] = written'[Len(written') - Len(buf') + i]
    <3>1. i \in 1 .. Capacity /\ Excess(all) + i \in 1 .. Len(all)
      BY <2>1, <2>2, <2>3, <2>5
    <3>2. Len(written') - Len(all) + (Excess(all) + i) = Len(written') - Len(buf') + i
      <4> DEFINE e == Excess(all)  a == Len(all)  w == Len(written')
      <4>1. e \in Int /\ a \in Int /\ w \in Int /\ i \in Int /\ a - e = Capacity
        BY <1>4, <2>1, <3>1
      <4>2. Len(buf') = Capacity
        BY <2>2, <2>3
      <4> HIDE DEF e, a, w
      <4>3. w - a + (e + i) = w - Capacity + i
        BY <4>1
      <4> QED BY <4>2, <4>3 DEF e, a, w
    <3> QED BY <1>5, <2>2, <2>3, <3>1, <3>2
  <2> QED BY <1>3, <2>2, <2>3, <2>4, <2>5 DEF RingTypeOK, KeepsTheTail
<1>7. CASE ~ (Len(all) > Capacity)
  <2>1. buf' = all /\ evicted' = evicted
    BY <1>7 DEF Push
  <2>2. Len(written) =< Capacity /\ Len(buf) = Len(written)
    <3>1. Len(data) >= 1
      BY DEF Chunk
    <3>2. Len(buf) < Capacity
      BY <1>2, <1>4, <1>7, <3>1
    <3> QED BY <1>4, <3>2 DEF KeepsTheTail
  <2>3. Len(written') = Len(all) /\ Len(all) =< Capacity
    BY <1>2, <1>3, <1>4, <1>7, <2>2
  <2>4. \A i \in DOMAIN buf' : buf'[i] = written'[Len(written') - Len(buf') + i]
    BY <1>2, <1>5, <2>1
  <2> QED BY <1>2, <1>3, <1>4, <2>1, <2>2, <2>3, <2>4 DEF RingTypeOK, KeepsTheTail
<1> QED BY <1>6, <1>7

\* The history is the last Capacity bytes of the output, whatever the sizes
\* of the reads it came in.
THEOREM HistoryIsTheTail == RingSpec => [](RingTypeOK /\ KeepsTheTail)
<1>1. RingInit => RingTypeOK /\ KeepsTheTail
  <2> SUFFICES ASSUME RingInit
               PROVE  RingTypeOK /\ KeepsTheTail
    OBVIOUS
  <2>1. written = <<>> /\ buf = <<>> /\ evicted = FALSE /\ Len(<<>>) = 0
    BY DEF RingInit
  <2> Capacity \in Nat \ {0}
    BY CapacityAssumption
  <2>2. <<>> \in Seq(Byte) /\ DOMAIN <<>> = {}
    OBVIOUS
  <2>3. RingTypeOK
    <3>1. written \in Seq(Byte) /\ buf \in Seq(Byte)
      BY <2>1, <2>2
    <3>2. Len(buf) =< Capacity
      BY <2>1
    <3> QED BY <2>1, <3>1, <3>2 DEF RingTypeOK
  <2>4. KeepsTheTail
    BY <2>1, <2>2 DEF KeepsTheTail
  <2> QED BY <2>3, <2>4
<1>2. RingTypeOK /\ KeepsTheTail /\ [RingNext]_ringVars => (RingTypeOK /\ KeepsTheTail)'
  <2>1. CASE UNCHANGED ringVars
    BY <2>1 DEF ringVars, RingTypeOK, KeepsTheTail
  <2>2. CASE RingNext
    BY <2>2, PushKeepsTheTail DEF RingNext
  <2> QED BY <2>1, <2>2
<1> QED BY <1>1, <1>2, PTL DEF RingSpec

-----------------------------------------------------------------------------
(* What is replayed *)

HasNewline == \E i \in DOMAIN buf : buf[i] = "newline"

\* A replay starts behind the first newline, if there is one.
LEMMA FirstNewlineIs ==
    ASSUME RingTypeOK, HasNewline
    PROVE  FirstNewline \in DOMAIN buf /\ buf[FirstNewline] = "newline"
<1> DEFINE T == {i \in DOMAIN buf : buf[i] = "newline"}
<1>1. T \subseteq Nat /\ T # {} /\ DOMAIN buf = 1 .. Len(buf)
  BY DEF RingTypeOK, HasNewline
<1>2. PICK x \in T : \A y \in T : x =< y
  BY <1>1, MinIsLeast
<1>3. \A j \in 1 .. x - 1 : buf[j] # "newline"
  BY <1>1, <1>2
<1>4. x \in DOMAIN buf /\ buf[x] = "newline" /\ \A j \in 1 .. x - 1 : buf[j] # "newline"
  BY <1>2, <1>3
<1> QED BY <1>4 DEF FirstNewline

\* What is left of a tail is a tail.
LEMMA TailOfTheTail ==
    ASSUME RingTypeOK, KeepsTheTail, NEW n \in 0 .. Len(buf)
    PROVE  /\ Len(Without(n, buf)) = Len(buf) - n
           /\ Len(written) - Len(buf) + n \in 0 .. Len(written)
           /\ Without(n, buf) = Without(Len(written) - Len(buf) + n, written)
<1> DEFINE k == Len(written) - Len(buf) + n
<1> Capacity \in Nat
  BY CapacityAssumption
<1>1. /\ buf \in Seq(Byte) /\ written \in Seq(Byte) /\ Len(buf) \in Nat /\ Len(written) \in Nat
      /\ Len(buf) =< Len(written)
  BY DEF RingTypeOK, KeepsTheTail
<1>2. k \in 0 .. Len(written) /\ Len(written) - k = Len(buf) - n
  BY <1>1
<1>3. /\ Without(n, buf) \in Seq(Byte) /\ Len(Without(n, buf)) = Len(buf) - n
      /\ \A i \in 1 .. Len(buf) - n : Without(n, buf)[i] = buf[n + i]
  BY <1>1, WithoutProperties
<1>4. /\ Without(k, written) \in Seq(Byte) /\ Len(Without(k, written)) = Len(buf) - n
      /\ \A i \in 1 .. Len(buf) - n : Without(k, written)[i] = written[k + i]
  BY <1>1, <1>2, WithoutProperties
<1>5. \A i \in 1 .. Len(buf) - n : buf[n + i] = written[k + i]
  <2> TAKE i \in 1 .. Len(buf) - n
  <2>1. n + i \in DOMAIN buf /\ Len(written) - Len(buf) + (n + i) = k + i
    BY <1>1
  <2> QED BY <2>1 DEF KeepsTheTail
<1> HIDE DEF k
<1>6. Without(n, buf) = Without(k, written)
  BY <1>3, <1>4, <1>5, SeqEqual
<1> QED BY <1>2, <1>3, <1>6 DEF k

LEMMA TailReplaysLines ==
    ASSUME RingTypeOK, KeepsTheTail
    PROVE  ReplaysWholeLines
<1> DEFINE w == Len(written)
           b == Len(buf)
<1> Capacity \in Nat \ {0}
  BY CapacityAssumption
<1>1. /\ b \in Nat /\ w \in Nat /\ b =< w /\ DOMAIN buf = 1 .. b
      /\ (w =< Capacity => b = w) /\ (evicted <=> w > Capacity)
  BY DEF RingTypeOK, KeepsTheTail
<1>2. CASE evicted /\ HasNewline
  <2> DEFINE n == FirstNewline
             k == w - b + n
  <2>1. n \in 1 .. b /\ buf[n] = "newline"
    BY <1>1, <1>2, FirstNewlineIs
  <2>2. /\ Len(Without(n, buf)) = b - n /\ k \in 0 .. w /\ Without(n, buf) = Without(k, written)
    BY <2>1, TailOfTheTail
  <2>3. Snapshot = Without(n, buf)
    BY <1>2 DEF Snapshot, HeadIsTorn, HasNewline
  <2>4. w - Len(Snapshot) = k
    BY <1>1, <2>1, <2>2, <2>3
  <2>5. written[k] = "newline"
    BY <1>1, <2>1 DEF KeepsTheTail
  <2>6. ~ (w =< Capacity)
    BY <1>1, <1>2
  <2> HIDE DEF n, k, w, b
  <2> QED BY <2>2, <2>3, <2>4, <2>5, <2>6 DEF ReplaysWholeLines, w
<1>3. CASE ~ (evicted /\ HasNewline)
  <2>1. Snapshot = buf
    BY <1>3 DEF Snapshot, HeadIsTorn, HasNewline
  <2>0. 0 \in 0 .. Len(buf)
    BY <1>1
  <2>2. Without(0, buf) = Without(w - b + 0, written)
    BY <2>0, TailOfTheTail
  <2>3. Without(0, buf) = buf
    BY <1>1, WithoutProperties, SeqEqual DEF RingTypeOK
  <2>4. w - b + 0 = w - b
    BY <1>1
  <2>5. buf = Without(w - b, written)
    BY <2>2, <2>3, <2>4
  <2>6. w - b > 0 => evicted
    BY <1>1
  <2>7. w =< Capacity => w - b = 0
    BY <1>1
  <2>8. w - Len(Snapshot) = w - b
    BY <2>1
  <2> HIDE DEF w, b
  <2> QED BY <1>3, <2>1, <2>5, <2>6, <2>7, <2>8 DEF ReplaysWholeLines, HasNewline, w
<1> QED BY <1>2, <1>3

\* A replay is the end of the output and starts at a line's start, unless no
\* whole line is left (session.rs `snapshot').
THEOREM ReplaysStartAtLines == RingSpec => []ReplaysWholeLines
<1> QED BY HistoryIsTheTail, TailReplaysLines, PTL
=============================================================================
