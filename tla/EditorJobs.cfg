SPECIFICATION Spec
CONSTANTS
    MaxTabs = 3
    MaxBuffers = 2
    MaxAsks = 2
    MaxInFlight = 1
    Places = {1, 2}
INVARIANTS
    RequestsAreHeld
    ViewsKeepTheirPlace
    BuriedAreSetAside
PROPERTIES
    AnswersReachTheAsker
    DueAreAnswered
CHECK_DEADLOCK FALSE
