SPECIFICATION Spec
CONSTANTS
    t1 = t1
    t2 = t2
    e1 = e1
    e2 = e2
    Tabs = {t1}
    Editors = {t1}
    Conns = {1, 3}
    TabOf <- MCTabOf
    Edits = {e1}
    TypedAt <- MCTypedAt
    Writes = {w1, w2}
    FirstBody = {}
    Durable = TRUE
    MaxSessions = 2
    MaxDrops = 1
    MaxStoreErrs = 0
    MaxRestarts = 0
    None = None
INVARIANTS
    JoinedPastReset
CHECK_DEADLOCK FALSE
