SPECIFICATION FairSocketSpec
CONSTANTS
    Server = {s1, s2, s3}
    NoFile = NoFile
    MaxStarting = 3
PROPERTIES
    OnlyTheSilentAreDisplaced
    RefusedOnlyByServers
    StartsSettle
\* Each process starts once.
CHECK_DEADLOCK FALSE
