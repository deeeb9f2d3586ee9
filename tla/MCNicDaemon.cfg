CONSTANTS
    TotalQueues = 3
    MaxClaims = 4
    MaxStale = 4
    t1 = t1
    t2 = t2
    Tenants <- MCTenants
    Counts = {1, 2}
    RetaSize = 4
    MaxCreates = 2
    MaxRestarts = 0
SPECIFICATION Spec
CHECK_DEADLOCK FALSE

    
PROPERTIES
    ImplementsAllocator
    QueuedReleaseFrees
