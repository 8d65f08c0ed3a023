SPECIFICATION FairSpec
CONSTANTS
    Sizes = {small, large}
    FirstSize = small
    NoSize = NoSize
    MaxRetries = 2
    MaxBackoff = 1
    MaxOutput = 2
    MaxFailures = 2
    MaxEnds = 1
    MaxCalls = 1
INVARIANTS
    OutputIsNotRepeated
    ConstraintIsRestored
PROPERTIES
    Reattaches

CHECK_DEADLOCK FALSE
