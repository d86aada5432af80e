CONSTANTS
    None = None
    Requests = {r1, r2}
    Clients = {a, b}
    Scopes = {write}
    ConsentTTL = 1
    CodeTTL = 1
    AccessTTL = 2
    RefreshTTL = 2
    Grace = 1
    Retention = 1
    MaxConsents = 1
    MaxGrants = 4
    MaxTime = 3
    Quantities = {1, 2}
    Amounts = {12}
    Rates = {1}
    Missing = Missing
    MaxTrades = 4
    a1 = a1
    a2 = a2
    Roster <- mcRoster
    Unit = 12
    LastDate = 1
    MaxEvents <- mcMaxEvents
    MaxAll = 4
    MaxOdd = 1
    x = x
    y = y
    Assets = {x, y}
    Foreign = {x}
    Leverage <- mcLeverage
    Prices = {1, 2}
    Dollar = 3
    Unvalued = Unvalued
    Reuse = 1
    MaxTicks = 1
    MaxReports = 2
    MaxChanges = 2
    MaxMisses = 2
    MaxBudget = 5
    Opening = 3
    NoFigure = NoFigure
    LastDay = 2
    MaxSnaps = 3
    MaxMoves = 2
SPECIFICATION MCSpec
INVARIANTS
    SingleUse
    RetryKeepsScopes
    CutBranchesEnd
    LateUseChooses
    
    ViewTrue
    PerformanceTrue
PROPERTIES
    ImplementsSessions
SYMMETRY MCSymmetry
CHECK_DEADLOCK FALSE
