CONSTANTS
    LastHistory = 2
    ProviderOf <- mcOwn
    ConnectionOf <- mcOwn
    LastWindow = 2
    Settled = {1}
    SessionSeconds = 1
    CacheSeconds = 1
    CooldownSeconds = 1
    MaxSessions = 2
    Anchorings <- mcAnchorings
    MaxRecTime = 2
    MaxRecCalls = 3
    MaxPoor = 1
    Processes = {p, q}
    MaxTokens = 3
    Refreshers = {p, q}
    DayLength = 2
    MaxClock = 5
    MaxSetBack = 1
    MaxFaults = 1
    Exporters = {x, y}
    Contents <- mcContents
    MaxDatasets = 2
    MaxFreezes = 4
SPECIFICATION MCSpec
INVARIANTS
    RecoveryTold
    ResendIsAnother
    ExportPages
PROPERTY
    NewestKept
CHECK_DEADLOCK FALSE
