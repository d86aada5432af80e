CONSTANTS
    public = public
    account = account
    inference = inference
    Calls = {c1, c2, c3}
    Nobody = Nobody
    Brokers <- mcBrokers
    LocksOf <- mcLocksOf
    SharedSeconds = 1
    MaxPosTime = 2
    Requests = {public, account, inference}
    Supplemental = {inference}
    Hurried = {account}
    IntervalOf <- mcIntervalOf
    Cooldown = 3
    Patience = 2
    MaxPaceTime = 5
    Asked = {p1, p2, h1}
    Historic = {h1}
    Free = Free
    Reuse = 2
    BusyWait = 1
    MaxVenueTime = 4
    VenueRows = {r1, r2, r3}
    WindowEnd = 3
    SpanLength = 2
    PageSize = 2
    MaxPages = 5
    Wallets <- mcWallets
    Named <- mcNamed
    Modes <- mcModes
    Unreadable = Unreadable
    MaxNamed = 1
    MaxReads = 9
    MaxRefused = 1
    Orders = {1, 2, 3}
    Quantity = 2
    WindowFrom = 0
    WindowTo = 1
    ScanPage = 1
    ScanPages = 3
    ScanRows = 3
    MaxScanTime = 2
    Trades = {1, 2, 3, 4, 5}
    DayOfTrade <- mcDays
    FromDay = 1
    ToDay = 3
    MaxHistoryPages = 4
    MaxOddities = 2
    MaxFailures = 2
    Lockout = 2
    MaxTries = 2
    TryWindow = 2
    Caps = {1, 2}
    MaxGateTime = 4
    MaxRestarts = 1
SPECIFICATION MCSpec
INVARIANTS
    ReadsFresh
    RatesKept
    
PROPERTY
    ThreadsEnd
CHECK_DEADLOCK FALSE
