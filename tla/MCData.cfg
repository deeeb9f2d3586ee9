CONSTANTS
    MaxMessage = 3
    WsMessages = 4
    MaxPings = 3
    OutRoom = 2
    PoolSize = 2
    MaxEncoded = 5
    MaxSeq = 5
    MaxBatch = 2
    FixHeaders = {5, 6}
    BodyLimit = 2
    MaxBody = 3
    MaxFrames = 2
    SizeLimit = 64
    MaxLevels = 2
    Prices = {1, 2, 3}
    MaxShares = 2
    Refs = {r1, r2, r3}
    TotalQueues = 4
    MaxClaims = 5
    MaxStale = 2
    a = a
    b = b
    c = c
    primary = p0
    Procs = {p0, a, b, c}
    NSlots = 3
    IndexOf <- MCIndex
    MaskOf <- MCMask
    Serialised = TRUE
    Targets <- MCTargets
    ProcOf <- MCProcOf
    TupleOfTarget <- MCTupleOfTarget
    Sniffer = c
    Sought = "T1"
    kIcmpDirectoryMaxEntries = 2
    kMaxTargets = 2
    MaxGen = 1
    Conns = {"t1", "u1"}
    IsTcp <- MCIsTcp
    nb_rx_queues = 2
    QueueLo = 0
    QueueHi = 2
    MaxRules = 3
    MaxLives = 2
SPECIFICATION Spec
CHECK_DEADLOCK FALSE
INVARIANTS
    
    FramesTrue
    BooksTrue
    AllocInv
    
    
    
