SPECIFICATION Spec
CONSTRAINT FewPackets
CONSTANTS
    server = server
    client = client
    Peer <- Ends
    Kinds <- Mixed
    LateHandshake = FALSE
    MaxMsgs <- FourAndOne
    MaxPackets <- ThreeAndOne
    PingRequests = {}
    Bandwidths = {FALSE}
    MayCancel = {}
    MayClose = {}
    ShortAck = 1
    LongAck = 2
    AckArray = 8
    AckRedundancy = 1
    OldAckSlots = 1
    MaxMask = 8
    GoodMask = 4
    StarveGap = 8
INVARIANTS
    ResentIsSame
    OneSuccessor
    InOrder
PROPERTIES
    ImplementsDelivery
CHECK_DEADLOCK FALSE
