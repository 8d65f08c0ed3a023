------------------------------- MODULE MuxSize --------------------------------
(***************************************************************************)
(* Terminal geometries, and the one that a session shared by several       *)
(* clients takes (winter-mux server/size.rs).                              *)
(***************************************************************************)
EXTENDS Naturals, FiniteSetsExt

Grid == [cols : Nat, rows : Nat]
\* One number stands for a cell's width and height, which are arbitrated
\* alike; cell = 0 is an unknown cell size (None).
Geometry == [cols : Nat, rows : Nat, cell : Nat]

GridOf(g) == [cols |-> g.cols, rows |-> g.rows]

SmallestCell(W) ==
    LET known == {g.cell : g \in W} \ {0} IN IF known = {} THEN 0 ELSE Min(known)

\* The smallest each way of the geometries W that clients reported.
EffectiveSizeFewestColsFault(W) == CHOOSE g \in W : \A h \in W : g.cols =< h.cols
EffectiveSize(W) ==
    [cols |-> Min({g.cols : g \in W}),
     rows |-> Min({g.rows : g \in W}),
     cell |-> SmallestCell(W)]
=============================================================================
