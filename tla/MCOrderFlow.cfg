CONSTANTS
    OrderIds = {o1, o2}
    Symbols = {s1, s2}
    MaxQty = 2
    FillPrices = {1, 2}
    LimitSets <- Limits
    MaxCancels = 1
    MaxInFlight = 1
    MaxResends = 1
SPECIFICATION OFSpec
SYMMETRY Symmetry
CHECK_DEADLOCK FALSE
INVARIANTS
    
    AgreesWithExchange
