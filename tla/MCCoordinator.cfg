CONSTANTS
    h1 = h1
    h2 = h2
    a = a
    b = b
    coord = coord
    o1 = o1
    o2 = o2
    Hedges = {h1}
    Exchanges = {a, b}
    BuyExchange <- MCBuyExchange
    SellExchange <- MCSellExchange
    Notional <- MCNotional
    Coordinator = coord
    Operators = {o1}
    Target = 3
    MaxRepairAttempts = 2
    Dust = 1
    LossCapBinds = TRUE
    LateFills = TRUE
    UnpricedFills = FALSE
SPECIFICATION FairSpec
INVARIANTS
    NetIsTheImbalance
    PnlCoversExecution
PROPERTIES
    ExecutionEnds
    ExhaustedStaysAborted
CHECK_DEADLOCK FALSE
