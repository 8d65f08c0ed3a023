----------------------------- MODULE MCMuxPanes -------------------------------
(* MuxPanes with a few panes. *)
EXTENDS MuxPanes, TLC

\* A wide and a tall size: their smallest is neither.
MCSizes == {[cols |-> 2, rows |-> 1, cell |-> 1], [cols |-> 1, rows |-> 2, cell |-> 1],
            [cols |-> 2, rows |-> 2, cell |-> 1]}
MCDefaultSize == [cols |-> 3, rows |-> 3, cell |-> 0]
PaneSymmetry == Permutations(Pane)
=============================================================================
