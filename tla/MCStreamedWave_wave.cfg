SPECIFICATION Spec
CONSTANTS
    NumBuffers = 2
    NumChunks = 3
    Truncations <- WholeOrNot
    Loops = {FALSE, TRUE}
    OpenFails = {FALSE, TRUE}
    UploadFails = {FALSE, TRUE}
    Ops = {"Play", "Resume", "Pause", "Stop", "Restart", "Repeat", "LastLoop", "Destroy"}
    MaxCalls = 5
INVARIANTS
    TypeOK
    NoBufferLost
    Bounded
    InTrackOrder
PROPERTIES
    EventuallyFreed
    EventuallyEnds
    PauseHolds
CHECK_DEADLOCK FALSE
