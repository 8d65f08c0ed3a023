SPECIFICATION Spec
CONSTANTS
    Name = {n1}
    Geometries <- MCOneGeometry
    DefaultGeometry <- MCDefaultGeometry
    MaxClients = 1
    MaxGeneration = 2
    MaxOutput = 3
    MaxRestarts = 1
    HistoryCap = 2
    OutboxLimit = 2
    ResizeMayFail = TRUE
    SaveMayFail = TRUE
INVARIANTS
    StreamsAreComplete
    ClientsKnowTheGrid
PROPERTIES
    ServesSessions
\* The bounds on connections, sessions and output let the server stop.
CHECK_DEADLOCK FALSE
