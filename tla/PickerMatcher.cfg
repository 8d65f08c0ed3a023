CONSTANTS
    Rows <- MCRows
    Queries <- MCQueries
    Empty = "none"
    Matches <- MCMatches
    Narrows <- MCNarrows
    MaxSent = 4
SPECIFICATION Spec
INVARIANTS
    EngineIsExact
    KeysAreExact
PROPERTIES
    
    EveryCommandIsAnswered
CHECK_DEADLOCK FALSE
