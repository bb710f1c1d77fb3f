CONSTANTS
    Parts = {"pricing"}
    x = x
    y = y
    spot = spot
    market = market
    c1 = c1
    c2 = c2
    p1 = p1
    p2 = p2
    p3 = p3
    a = a
    b = b
    c = c
    btc = btc
    None = None
    NoRow = NoRow
    Adapters = {x, y}
    Strategies = {spot, market}
    Planned = {market}
    MinExchanges <- MCLength
    MaxExchanges <- MCLength
    RunModes = {"paper-trade", "live"}
    Limits = {1}
    EnvTweaks <- MCTweaks
    EnvEnabled <- MCEnabled
    EnvSelected <- MCSelected
    MaxWrites = 2
    MaxRequests = 3
    Opps = {p1, p2, p3}
    Symbols = {btc}
    Exchanges = {a, b, c}
    SymbolOf <- MCSymbolOf
    BuyExchange <- MCBuyExchange
    SellExchange <- MCSellExchange
    Balance <- MCBalance
    Sizes = {2, 5}
    MaxTrade = 4
    MinOrder = 2
    MaxExposure = 6
    MaxOpen = 2
    MaxDailyLoss = 1
    Modes = {"paper-trade", "live"}
    Controls = {"mode", "execution", "breaker", "midnight"}
    MaxFailures = 3
    Window = 1
    MinSamples = 3
    Ratio = 60
    Thresholds = {1, 2}
    MaxTime = 2
    MaxTold = 4
    Clients = {c1, c2}
    RequestLimits = {1, 2}
    MaxClients = 1
    Minute = 2
    MaxSeconds = 5
    AskLadders <- MCAsks
    BidLadders <- MCBids
    Probes = {5, 15}
    Amounts = {5, 10}
    BuyFee = 1
    SellFee = 1
    SafetyBuffer = 1
    MinEdge = 1
    MinProfit = 5
    MinLiquidity = 20
    PriceBuffer = 1
    DepthRatio = 90
    PartialRatio = 60
SPECIFICATION GuardsSpec
SYMMETRY Names
INVARIANTS
    GatedOrdersFill
CHECK_DEADLOCK FALSE
