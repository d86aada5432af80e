CONSTANTS
    None = None
    Requests = {r1}
    Clients = {a}
    Scopes = {}
    ConsentTTL = 1
    CodeTTL = 1
    AccessTTL = 1
    RefreshTTL = 4
    Grace = 1
    Retention = 1
    MaxConsents = 2
    MaxGrants = 5
    MaxTime = 6
SPECIFICATION Spec
INVARIANTS
    UseAlwaysChooses
CHECK_DEADLOCK FALSE
