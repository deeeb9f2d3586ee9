CONSTANTS
    Units = 6
    FrameLen = 3
    RecLen = 2
    RxCap = 4
    MaxSends = 1
    MaxWrites = 2
    Pings = {1}
SPECIFICATION KSSpec
CHECK_DEADLOCK FALSE
INVARIANTS
    UnsentIsUnsent
