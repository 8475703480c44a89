SPECIFICATION Spec
CONSTANTS
    Window = {w1}
    SessionId = {s1}
    OperationId = {o1, o2}
    MaxPending = 2
    MaxTransfers = 1
    ProviderSessions = 1
    ProfileSessions = 1
    SessionOperations = 2
    SessionHandles = 1
    ProviderHandles = 1
    ProfileHandles = 1
    MaxProvider = 1
    MaxNavigation = 2
SYMMETRY Symmetry
INVARIANTS
    LiveOpHasReadySession
    LiveWorkIsPending
PROPERTIES
    OutcomeIsFinal
    ExpiryFencesWork
    DeliversOnce
