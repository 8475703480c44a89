SPECIFICATION Spec
CONSTANTS
    MaxOutputChunk = 2
    RequestThreshold = 2
    PostCheckpointLimit = 4
    StartupLimit = 6
    Projection = {shown}
    MaxRead = 5
    MaxSequence = 7
CHECK_DEADLOCK FALSE
INVARIANT
    CompleteExactly
PROPERTY
    DiscardIsSignalled
