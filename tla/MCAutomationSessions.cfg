SPECIFICATION FairSpec
CONSTANTS
    Window = {w1}
    SessionId = {s1, s2}
    OperationId = {o1}
    MaxPending = 2
    MaxTransfers = 0
    ProviderSessions = 1
    ProfileSessions = 2
    SessionOperations = 1
    SessionHandles = 1
    ProviderHandles = 1
    ProfileHandles = 1
    MaxProvider = 2
    MaxNavigation = 1
INVARIANTS
    WithinLimits
PROPERTIES
    WorkIsResolved
    OrphansEnd
