----------------------------- MODULE MCMuxServer -----------------------------
(* MuxServer on small instances. *)
EXTENDS MuxServer

\* A wide and a tall geometry, their smallest neither, one with a cell size.
MCGeometries == {[cols |-> 2, rows |-> 1, cell |-> 1], [cols |-> 1, rows |-> 2, cell |-> 0]}
MCOneGeometry == {[cols |-> 1, rows |-> 1, cell |-> 0]}
MCDefaultGeometry == [cols |-> 3, rows |-> 3, cell |-> 0]
=============================================================================
