SPECIFICATION FairSpec
CONSTANTS
    Name = {n1, n2}
    Geometries <- MCOneGeometry
    DefaultGeometry <- MCDefaultGeometry
    MaxClients = 1
    MaxGeneration = 2
    MaxOutput = 0
    MaxRestarts = 1
    HistoryCap = 1
    OutboxLimit = 1
    ResizeMayFail = FALSE
    SaveMayFail = FALSE
INVARIANTS
    SavedAtRest
PROPERTIES
    RecipesAreNotLost
    DroppedConnectionsEnd
\* The bounds on connections, sessions and output let the server stop.
CHECK_DEADLOCK FALSE
