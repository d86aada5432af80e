CONSTANTS
    None = None
    fill = fill
    oldFill = oldFill
    flow = flow
    fact = fact
    note = note
    x = x
    y = y
    done = done
    waiting = waiting
    o2 = o2
    o3 = o3
    d1 = d1
    Writers = {w1, w2}
    Ids <- MCIds
    LegacyOf <- MCLegacyOf
    FlowIds = {flow}
    Fields <- MCFields
    Annotations = {note}
    Values = {x, y}
    Statuses = {done, waiting}
    Terminal = {done}
    Pending = {waiting}
    Observations = {o2, o3, d1}
    Daily = {d1}
    Rows <- MCRows
    Incomplete = {}
    Qualified = {o2}
    BatchSize = 2
    Before <- MCBefore
SPECIFICATION LiveSpec
INVARIANTS
    RowsAccountedFor
    ClaimsAreReadable
    NoEventTwice
PROPERTIES
    SettledStaysSettled
    ImplementsFacts
    EventuallyPreserved
CHECK_DEADLOCK FALSE
