SPECIFICATION Spec
CONSTANTS
    t1 = t1
    t2 = t2
    e1 = e1
    e2 = e2
    Tabs = {t1, t2}
    Editors = {t1, t2}
    Conns = {1, 2, 3}
    TabOf <- MCTabOf
    Edits = {e1}
    TypedAt <- MCTypedAt
    Writes = {w1}
    FirstBody = {}
    Durable = TRUE
    MaxSessions = 2
    MaxDrops = 0
    MaxStoreErrs = 0
    MaxRestarts = 0
    None = None
INVARIANTS
    OpenEditorsCatchUp
    ServerWriteWins
    JoinedPastReset
CHECK_DEADLOCK FALSE
