SPECIFICATION Spec
CONSTANTS
    server = server
    client = client
    Peer <- Ends
    Server = server
    MaxUser <- TwoAndOne
    MaxParts = 2
    Urgencies = {FALSE, TRUE}
    LateHandshake = TRUE
INVARIANT OpenerPresent
CHECK_DEADLOCK FALSE
