SPECIFICATION Spec
CONSTANTS
    NumBuffers = 2
    NumChunks = 3
    Truncations <- WholeOrNot
    Loops = {FALSE, TRUE}
    OpenFails = {FALSE}
    UploadFails = {FALSE}
    Ops = {"Play", "Destroy"}
    MaxCalls = 2
INVARIANT NoUseAfterFree
CHECK_DEADLOCK FALSE
