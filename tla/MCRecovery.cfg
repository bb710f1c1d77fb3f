CONSTANTS
    h1 = h1
    h2 = h2
    a = a
    b = b
    coord = coord
    Hedges = {h1, h2}
    Exchanges = {a, b}
    BuyExchange <- MCBuyExchange
    SellExchange <- MCSellExchange
    Notional <- MCNotional
    Coordinator = coord
    Operators = {}
    Target = 1
    MaxRepairAttempts = 1
    Dust = 0
    LossCapBinds = TRUE
    LateFills = FALSE
    UnpricedFills = FALSE
    MaxCrashes = 1
SPECIFICATION RecoverySpec
INVARIANTS
    OpenWhileExecuting
    InFlightIsOpenNotional
    BreakerHearsEverything
    UnreportedPositionIsExplained
CHECK_DEADLOCK FALSE
