SPECIFICATION FairSpec
CONSTANTS
    Window = {w1, w2}
    Request = {r1, r2, r3}
    Session = {s1}
    MaxPending = 2
    MaxProvider = 2
INVARIANTS
    NothingOrphaned
    NoLostWakeup
PROPERTY
    DeliversAndSettles
