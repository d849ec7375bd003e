SPECIFICATION LiveSpec
CONSTANTS
    server = server
    client = client
    Peer <- Ends
    Kinds <- TwoWay
    LateHandshake = FALSE
    MaxMsgs <- Room
    PingRequests = {}
    Bandwidths = {FALSE}
    MayCancel = {}
    MayClose = {}
    ShortAck = 1
    LongAck = 2
    AckArray = 16
    AckRedundancy = 1
    OldAckSlots = 1
    MaxMask = 16
    GoodMask = 4
    StarveGap = 16
    MaxVims <- TwoAndOne
    MaxLosses = 3
    MaxSkips = 1
PROPERTIES
    EventuallyDelivered
    EventuallyAcked
CHECK_DEADLOCK FALSE
