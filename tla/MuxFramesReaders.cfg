SPECIFICATION FairSpec
CONSTANTS
    Base = 3
    MaxFrameBytes = 3
    ChunkBytes = 5
    Messages <- MCMessages
    MaxSent = 3
INVARIANTS
    MessagesComeWhole
PROPERTIES
    ConnectionsEnd
\* The peer stops sending.
CHECK_DEADLOCK FALSE
