SPECIFICATION Spec
CONSTANTS
    Tab = {t1, t2}
    AgentTab = t1
    MaxTerminals = 3
    MaxRetained = 1
    MaxStarts = 1
    Client = {c1}
    MaxRevision = 5
CHECK_DEADLOCK FALSE
INVARIANT DispositionIsDriven
