CONSTANTS
    Units = 6
    FrameLen = 3
    RecLen = 2
    ReasmCap = 5
    RxWindow = 8
    MaxSends = 2
    Segments = 2
    BadFrames = {2}
    tcp1 = tcp1
    tcp2 = tcp2
    udp1 = udp1
    g1 = g1
    g2 = g2
    g3 = g3
    Sockets = {s1, s2}
    Groups = {g1, g2, g3}
    MacOf <- MCMac
    kMaxMulticastGroups = 2
    Peers = {x1, x2}
    WirePeer = x1
    Objects = {tcp1, tcp2, udp1}
    Ports = {1, 2}
    Protos = {"tcp", "udp"}
    ProtoOf <- MCProto
    HashOf <- MCHash
    max_connections = 3
    kRouteTableSize = 4
    kBurstSize = 1
    Dsts = {1, 2, 3}
    Srcs = {a, b}
    AnySource = any
    MacOfDst <- MCMacOfDst
    MaxGroups = 2
    MaxPackets = 2
    Timeout = 3
    RetryInterval = 1
    kMaxAttempts = 2
    MaxTime = 6
    Word = 16
    MaxBurst = 2
    StartInPoll = FALSE
    kMaxLabel = 3
    kMaxIterations = 4
    MsgLen = 5
    MaxLabels = 4
    kEtherHeaderLen = 1
    kIpv4HeaderLen = 2
    kTcpHeaderLen = 2
    kUdpHeaderLen = 1
    kIcmpHeaderLen = 1
    kSynOptionsLen = 1
    MinFrame = 7
    MaxFrame = 9
    MaxPayload = 4
    OptLen = 5
    ByteMax = 1
    CkWords = 6
    kMaxBatchSize = 2
    MaxSegLen = 2
    MaxRequests = 5
    lowest_trackable_value = 3
    highest_trackable_value = 21
    sub_bucket_count_magnitude = 2
    ValueSpace = 64
    Samples = {2, 3, 8, 9, 16, 21}
    PMax = 3
    Ticks = {3, 5}
    Steps = {5, 7}
    MaxTotal = 3
    MaxSnap = 1
    Threads = {t1, t2}
    Cycles = {0, 3, 4}
    OutOfRange = 4
    Sat = 5
    MaxCalls = 2
SPECIFICATION Spec
CHECK_DEADLOCK FALSE
INVARIANTS
    DpdkStreamTrue
    DispatchReaches
    
    
    WireTrue
    

    
