CONSTANTS
    h1 = h1
    h2 = h2
    a = a
    b = b
    coord = coord
    o1 = o1
    o2 = o2
    Hedges = {h1}
    Exchanges = {a, b}
    BuyExchange <- MCBuyExchange
    SellExchange <- MCSellExchange
    Notional <- MCNotional
    Coordinator = coord
    Operators = {o1, o2}
    Target = 3
    MaxRepairAttempts = 3
    Dust = 1
    LossCapBinds = TRUE
    LateFills = FALSE
    UnpricedFills = FALSE
SPECIFICATION Spec
SYMMETRY OperatorSymmetry
INVARIANTS
    RepairAttemptsBounded
    OneRepairInFlight
    EndsFlatOrExhausted
PROPERTIES
    RepairsShrinkTheResidual
CHECK_DEADLOCK FALSE
