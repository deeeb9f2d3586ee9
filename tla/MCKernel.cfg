CONSTANTS
    Units = 6
    FrameLen = 3
    RecLen = 2
    RxCap = 4
    MaxSends = 1
    MaxWrites = 2
    Pings = {1}
    Pollables = {o1, o2}
    Pollers = {p1, p2}
    Unattached = none
    UdpPeers = {u1, u2}
    RxQueue = 2
    MaxDatagrams = 2
    kMaxRecordPayload = 20
    kMaxSequenceNumber = 3
    SendSizes = {3, 20, 25}
    MaxRecords = 4
    MaxFaults = 1
    FullGcm = FALSE
    kDrainMaxRounds = 4
    MaxServerRecords = 4
    MaxHotWrites = 2
    ServerSpeaksFirst = FALSE
    max_response_bytes = 5
    max_response_headers = 2
    RequestBuf = 3
    HandshakeBuf = 6
    DeflateRequest = TRUE
    MaxExchanges = 2
    MaxRaw = 2
SPECIFICATION Spec
CHECK_DEADLOCK FALSE
INVARIANTS
    KernelStreamTrue
    DispatchTrue
    RecordsTrue
    
    ExchangesTrue
PROPERTIES
    HandshakeResolves
