CONSTANTS
    Jobs = {j1, j2, j3}
    MaxInflight = 2
    None = None
    Pollers = {"run", "ensured"}
    Socket = TRUE
    MaxStale = 1
    WsTimeout = 1
    RestTimeout = 1
    Interval = 1
    MaxBackoff = 1
    MaxFailures = 2
    Cooldown = 1
    Trades = {t1, t2}
    Sizes = {1}
    Fee = 1
    Opening = 1
    MaxHeld = 2
    MaxSwitches = 1
SPECIFICATION BackgroundSpec
INVARIANTS
    DrainLeavesNothing
    FreshMeansRecent
    PaperIsPaidFor
PROPERTIES
    ImplementsPool
    ShutdownEnds
    SubmittedIsWritten
    StaleBookRecovers
    BeliefFollowsExchange
CHECK_DEADLOCK FALSE
