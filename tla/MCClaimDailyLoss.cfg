CONSTANTS
    p1 = p1
    p2 = p2
    p3 = p3
    a = a
    b = b
    c = c
    btc = btc
    eth = eth
    None = None
    Opps = {p1, p2}
    Symbols = {btc, eth}
    Exchanges = {a, b, c}
    SymbolOf <- MCSymbolOf
    BuyExchange <- MCBuyExchange
    SellExchange <- MCSellExchange
    Balance <- MCBalance
    Sizes = {1, 2, 5}
    MaxTrade = 4
    MinOrder = 2
    MaxExposure = 6
    MaxOpen = 2
    MaxDailyLoss = 1
    Modes = {"live"}
    Controls = {}
SPECIFICATION Spec
INVARIANTS
    DailyLossIsAccurate
CHECK_DEADLOCK FALSE
