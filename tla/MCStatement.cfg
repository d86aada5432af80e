CONSTANTS
    early = early
    late = late
    other = other
    bought = bought
    resold = resold
    mine = mine
    theirs = theirs
    n1 = n1
    n2 = n2
    Processes = {p, q}
    Files = {early, late, other}
    Accounts = {mine, theirs}
    Numbers = {n1, n2}
    Salts = {x, y}
    NumberOf <- MCNumberOf
    OwnerOf <- MCOwnerOf
    SuffixOf <- MCSuffixOf
    Trades = {bought, resold}
    TradesOf <- MCTradesOf
    Clashes <- MCClashes
    None = None
    MaxPreviews = 1
    m1 = m1
    m2 = m2
    m3 = m3
    Moves = {m1, m2, m3}
    KindOf <- MCKindOf
    HappensAt <- MCHappensAt
    WholeSecond = {m1}
    DaySpan = 2
    LastDay = 1
    MaxFetches = 2
    MaxConflicting = 1
    LastInstant = 4
    Midnight = 3
    TradingDays <- mcSessions
    CloseOn <- mcCloses
    ReadBudget = 2
    MaxClosed = 1
    CoinsEnd = 4
    CoinsMidnight = 3
    MaxCaptureAge = 2
    Tolerance = 1
    Flight = 2
SPECIFICATION MCSpec
SYMMETRY MCSymmetry
INVARIANTS
    BindingOneToOne
    RowsOnce
    ClashesShownTogether
    FlowsWhole
    EvidenceTrue
PROPERTIES
    ConfirmationLasts
CHECK_DEADLOCK FALSE
