SPECIFICATION FairSpec
CONSTANTS
    MaxOutputChunk = 1
    RequestThreshold = 0
    PostCheckpointLimit = 1
    StartupLimit = 1
    MaxRead = 1
    MaxSequence = 2
    BatchLimit = 2
    SocketLimit = 0
    MaxMounts = 2
    MaxFailures = 1
CHECK_DEADLOCK FALSE
INVARIANTS
    RestoresSuffice
    BehindOnlyAcrossAttach
    WritesAreNew
    RequestIsKept
PROPERTY
    NoResyncLoop
