CONSTANTS
    early = early
    late = late
    other = other
    bought = bought
    resold = resold
    mine = mine
    theirs = theirs
    n1 = n1
    n2 = n2
    Processes = {p, q}
    Files = {early, other}
    Accounts = {mine, theirs}
    Numbers = {n1, n2}
    Salts = {x, y}
    NumberOf <- MCNumberOf
    OwnerOf <- MCOwnerOf
    SuffixOf <- MCSuffixOf
    Trades = {bought, resold}
    TradesOf <- MCTradesOf
    Clashes <- MCClashes
    None = None
    MaxPreviews = 1
    m1 = m1
    m2 = m2
    m3 = m3
    Moves = {}
    KindOf <- MCKindOf
    HappensAt <- MCHappensAt
    WholeSecond = {}
    DaySpan = 2
    LastDay = 0
    MaxFetches = 0
    MaxConflicting = 0
    LastInstant = 0
    Midnight = 3
    TradingDays <- mcSessions
    CloseOn <- mcCloses
    ReadBudget = 2
    MaxClosed = 1
    CoinsEnd = 0
    CoinsMidnight = 3
    MaxCaptureAge = 2
    Tolerance = 1
    Flight = 2
SPECIFICATION MCSpec
INVARIANT
    ReapplyIsNoOp
CHECK_DEADLOCK FALSE
