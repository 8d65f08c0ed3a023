SPECIFICATION Spec
CONSTANTS
    Name = {n1}
    Geometries <- MCGeometries
    DefaultGeometry <- MCDefaultGeometry
    MaxClients = 2
    MaxGeneration = 2
    MaxOutput = 0
    MaxRestarts = 0
    HistoryCap = 1
    OutboxLimit = 1
    ResizeMayFail = FALSE
    SaveMayFail = FALSE
INVARIANTS
    SizeIsArbitrated
    AttachmentsAreLive
    SessionsMatchPrograms
\* The bounds on connections, sessions and output let the server stop.
CHECK_DEADLOCK FALSE
