CONSTANTS
    MaxSeqNum = 4
    ResetSeqOnLogon = TRUE
    ResendOnGap = TRUE
    MaxLogons = 2
SPECIFICATION FSSpec
PROPERTIES
    WireInSequence
