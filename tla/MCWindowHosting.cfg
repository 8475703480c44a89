SPECIFICATION FairSpec
CONSTANTS
    Window = {w1, w2}
    MaxGeneration = 3
INVARIANTS
    HostedIffClaimed
    ClaimIsCurrent
PROPERTIES
    ClaimedGetsHosted
    AbandonedGetsReleased
