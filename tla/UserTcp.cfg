CONSTANTS
    SeqSpace = 16
    Window = 4
    ReorderSlots = 2
    MaxMss = 2
    Probes = 1
    Keepalive = TRUE
    Isns = {14}
    PeerIsn = 13
    PeerBytes = 3
    OurBytes = 2
    MayRst = TRUE
    AckLoss = FALSE
SPECIFICATION UTSpec
CHECK_DEADLOCK FALSE
INVARIANTS
    TransferTrue
PROPERTIES
    TransferEnds
