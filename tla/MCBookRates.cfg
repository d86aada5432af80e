CONSTANTS
    Quantities = {1, 2}
    Amounts = {12, 24}
    Rates = {1, 2}
    Missing = Missing
    MaxTrades = 4
SPECIFICATION BookSpec
INVARIANT FxSplitExact
CHECK_DEADLOCK FALSE
