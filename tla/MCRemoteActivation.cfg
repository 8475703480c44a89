SPECIFICATION FairSpec
CONSTANTS
    Session = {s1}
    Worker = {w1, w2}
    Upkeep = up
    MaxAttempts = 2
    MaxGeneration = 3
    MaxRequests = 3
CHECK_DEADLOCK FALSE
INVARIANTS InFlightIsDriven ConnectedIsLive TransportsAccounted ReleasedKeepsNothing BudgetKept
PROPERTIES LossIsReal TargetHeldStill AttemptsEnd ReconnectEnds
