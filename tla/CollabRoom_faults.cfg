SPECIFICATION Spec
CONSTANTS
    t1 = t1
    t2 = t2
    e1 = e1
    e2 = e2
    Tabs = {t1}
    Editors = {t1}
    Conns = {1, 3}
    TabOf <- MCTabOf
    Edits = {e1}
    TypedAt <- MCTypedAt
    Writes = {w1}
    FirstBody = {}
    Durable = TRUE
    MaxSessions = 2
    MaxDrops = 0
    MaxStoreErrs = 1
    MaxRestarts = 1
    None = None
INVARIANTS
    ReplayKeepsEdits
    
    ServerWriteWins
CHECK_DEADLOCK FALSE
