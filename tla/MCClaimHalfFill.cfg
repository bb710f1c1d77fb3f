CONSTANTS
    Probe = 2
    OrderFees = {1}
    Approved = 3
    MinFill = 2
    Amount = 2
    LateFills = TRUE
    UnpricedFills = TRUE
SPECIFICATION FairSpec
PROPERTIES
    HalfFillIsReversed
CHECK_DEADLOCK FALSE
