CONSTANTS
    None = None
    Infinite = Infinite
    Jobs = {tool, timer}
    Scheduled = {timer}
    Days = {0, 1}
    DayOf <- MCDayOf
    Values = {v}
    MaxTime = 2
    MaxRuns = 1
    MaxOverwrites = 2
    k = k
    u = u
    k1 = k1
    k2 = k2
    u1 = u1
    TossSymbols = {k, u}
    Dividends = {k1, k2, u1}
    Currency <- mcCurrency
    Price <- mcPrice
    Schedule <- mcSchedule
    Announced = {k, u}
    TossLast = 2
    Mark <- mcMark
    Opening <- mcOpening
    OpeningShares <- mcShares
    External <- mcExternal
    Conversions <- mcConversions
    Small = 5
    Coarse = 85
    MaxMoves = 2
    MaxFaults = 1
    MaxScans = 2
    h1 = h1
    h2 = h2
    f1 = f1
    f2 = f2
    Orders = {h1, h2}
    OrderDate <- mcOrderDate
    OrderSide <- mcOrderSide
    Rows = {f1, f2}
    RowDate <- mcRowDate
    RowSide <- mcRowSide
    DomesticPrice = 100
    ForeignPrice = 4
    Fee = 2
    Revaluation = 15
    RevalueDays = 1
    Lookback = 2
    KisLast = 2
    Rate <- mcRate
    OpeningCash <- mcOpeningCash
    OpeningHeld = 1
    Deposits <- mcDeposits
    Exchanges <- mcExchanges
    SmallWon = 5
    CoarseWon = 85
    Unread = Unread
    MaxKisMoves = 2
    MaxMissed = 1
    Scenes <- mcScenes
    Brings <- mcBrings
    Trail = 8
    MaxPages = 2
    CutTolerance = 1
SPECIFICATION MCSpec
INVARIANTS
    DayRecordTrue
    InferredFlowsTrue
PROPERTIES
    SettledAfterStore
    ImplementsHistory
CHECK_DEADLOCK FALSE
