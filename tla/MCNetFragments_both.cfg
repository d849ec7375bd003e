SPECIFICATION Spec
CONSTANTS
    server = server
    client = client
    Peer <- Ends
    Server = server
    MaxUser <- TwoAndOne
    MaxParts = 2
    Urgencies = {FALSE, TRUE}
    LateHandshake = FALSE
INVARIANTS
    OpenerPresent
    WholeAndInOrder
PROPERTY EventuallyReported
CHECK_DEADLOCK FALSE
