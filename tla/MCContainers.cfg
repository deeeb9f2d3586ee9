CONSTANTS
    Capacity = 2
    NumWords = 2
    MaxPush = 6
    CellSize = 3
    CellPushes = 4
    RingSlots = 4
    RingWords = 2
    RingPushes = 7
    MaxDataSize = 2
    BCapacity = 2
    MaxMessages = 4
    ECapacity = 2
    EMaxPush = 6
SPECIFICATION LiveSpec
INVARIANTS
    RingReadsTrue
    
PROPERTIES
    EvictersImplementLatestValue
    LastElementRead
