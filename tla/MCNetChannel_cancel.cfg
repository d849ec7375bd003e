SPECIFICATION Spec
CONSTRAINT FewPackets
CONSTANTS
    server = server
    client = client
    Peer <- Ends
    Kinds <- Stopped
    LateHandshake = TRUE
    MaxMsgs <- TwoAndOne
    MaxPackets <- TwoAndOne
    PingRequests = {FALSE}
    Bandwidths = {TRUE}
    MayCancel = {server}
    MayClose = {client}
    ShortAck = 0
    LongAck = 1
    AckArray = 1
    AckRedundancy = 1
    OldAckSlots = 1
    MaxMask = 8
    GoodMask = 4
    StarveGap = 0
INVARIANTS
    TypeOK
    AckTruth
    OnePlace
    AtMostOnce
    PredecessorKnown
    NoAckForgotten
PROPERTIES
    AckIsFinal
    ImplementsChains
CHECK_DEADLOCK FALSE
