CONSTANTS
    MaxSeqNum = 4
    ResetSeqOnLogon = TRUE
    ResendOnGap = TRUE
    MaxLogons = 2
    InitialBackoff = 1
    MaxBackoff = 3
    MaxAttempts = 3
    ConnectTimeout = 1
    AutoDetect = TRUE
    MaxReentries = 2
    BucketCapacity = 2
    RefillRate = 1
    MaxClock = 4
    Trippers = {t1, t2, t3}
    RetryBudget = 2
SPECIFICATION Spec
CHECK_DEADLOCK FALSE
INVARIANTS
    UniqueSeqNums
    
    
    GovernorsHold
PROPERTIES
    DeadServerDetected
    StopsOrConnects
