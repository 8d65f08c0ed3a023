CONSTANTS
    Lead = 1
    Quiet = 2
    MaxWait = 3
    Views = {v1}
    MaxStarts = 2
    MaxChanges = 2
SPECIFICATION Spec
INVARIANTS
    WatchedOnce
    BurstsAreReadTwice
PROPERTIES
    ChangesAreRead
    GitChangesAreReadInFull
CHECK_DEADLOCK FALSE
