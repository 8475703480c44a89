SPECIFICATION FairSpec
CONSTANTS
    Tab = {t1, t2}
    AgentTab = t1
    MaxTerminals = 3
    MaxRetained = 1
    MaxStarts = 2
    Client = {c1, c2}
    MaxRevision = 5
CHECK_DEADLOCK FALSE
INVARIANTS ConsentStands AttemptStands NoStrayProcess
PROPERTIES KeepsProcess HibernatedIsObserved ConfirmEnds
