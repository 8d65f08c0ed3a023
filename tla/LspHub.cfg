CONSTANTS
    Capacity = 2
    MaxServers = 2
    MaxEdits = 1
    MaxSaid = 1
    MaxEvents = 2
SPECIFICATION Spec
INVARIANTS
    DocumentsFollowInitialized
    ServersHaveTheText
    EditorsKnowTheServers
    ShownAreTheProblems
    NoServerOutlivesTheHub
    StoppedServersAreReaped
CHECK_DEADLOCK FALSE
