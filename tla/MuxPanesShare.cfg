SPECIFICATION Spec
CONSTANTS
    Pane = {p1, p2}
    Sizes <- MCSizes
    DefaultSize <- MCDefaultSize
    MaxLayouts = 4
SYMMETRY PaneSymmetry
INVARIANTS
    PanesSettle
    SessionFitsThePanes
\* Each pane opens once: the system stops when all are closed.
CHECK_DEADLOCK FALSE
