SPECIFICATION Spec
CONSTANTS
    Handlers = {1, 2}
    Tokens <- SixTokens
    Enforce = TRUE
    Beat = 1
    Retry = 1
    Timeout = 1
    Fresh = 5
    Recovery = 5
    Hide = 2
    PruneAge = 8
    Tolerated = 1
    Misses = 2
    Others = 1
    MinServers = 2
    MaxFaults = 1
INVARIANTS
    StaysListed
    NeverRefused
    LockoutEnds
PROPERTIES
    OutageHarmless
    EventuallyListed
    EventuallyGone
