CONSTANTS
    Quantities = {1, 2}
    Amounts = {12, 24}
    Rates = {1, 2}
    Missing = Missing
    MaxTrades = 4
    toss = toss
    kis = kis
    Scopes = {toss, kis}
    KisScopes = {kis}
    Composite = Composite
    LastDay = 3
    Navs <- mcNavs
    MaxRecaptures = 1
    o1 = o1
    o2 = o2
    i1 = i1
    oa = oa
    ia = ia
    ib = ib
    m1 = m1
    m2 = m2
    Outs = {o1, o2, oa}
    Ins = {i1, ia, ib}
    Owner = {oa, ia, ib}
    Close <- mcClose
    Shared <- mcShared
    Matchers = {m1, m2}
    Rule <- mcRule
    ImportRule = "v1"
    MaxConflicts = 1
SPECIFICATION MCSpec
INVARIANTS
    
    ReturnsStand
    MatchesAreFinal
PROPERTY
    PairedWithoutChoice
CHECK_DEADLOCK FALSE
