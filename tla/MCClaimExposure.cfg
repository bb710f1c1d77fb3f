CONSTANTS
    h1 = h1
    h2 = h2
    a = a
    b = b
    coord = coord
    o1 = o1
    o2 = o2
    Hedges = {h1}
    Exchanges = {a, b}
    BuyExchange <- MCBuyExchange
    SellExchange <- MCSellExchange
    Notional <- MCNotional
    Coordinator = coord
    Operators = {}
    Target = 1
    MaxRepairAttempts = 1
    Dust = 0
    LossCapBinds = TRUE
    LateFills = FALSE
    UnpricedFills = FALSE
SPECIFICATION Spec
INVARIANTS
    ExposureReleasedOnFailure
CHECK_DEADLOCK FALSE
