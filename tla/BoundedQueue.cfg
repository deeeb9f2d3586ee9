CONSTANTS
    Capacity = 2
    IndexMod = 4
    Data = {0, 1}
    Default = 0
    MaxBatch = 3
SPECIFICATION LiveSpec
INVARIANTS
    NoSlotRace
PROPERTIES
    ImplementsFifo
    BlockedPushCompletes
