SPECIFICATION ProviderSpec
CONSTANTS
    Window = {w1}
    SessionId = {s1}
    OperationId = {o1, o2}
    LocalSessions = 1
    IdleTime = 1
    MaxTimeouts = 2
    MaxPending = 2
    MaxTransfers = 0
    ProviderSessions = 1
    ProfileSessions = 1
    SessionOperations = 1
    SessionHandles = 1
    ProviderHandles = 1
    ProfileHandles = 1
    MaxProvider = 1
    MaxNavigation = 2
SYMMETRY Symmetry
INVARIANTS
    PagesHeld
    RunsFenced
    ExpiryNotLater
CHECK_DEADLOCK FALSE
