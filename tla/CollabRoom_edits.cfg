SPECIFICATION Spec
CONSTANTS
    t1 = t1
    t2 = t2
    e1 = e1
    e2 = e2
    Tabs = {t1, t2}
    Editors = {t1, t2}
    Conns = {1, 2, 3}
    TabOf <- MCTabOf
    Edits = {e1}
    TypedAt <- MCTypedAt
    Writes = {}
    FirstBody = {}
    Durable = FALSE
    MaxSessions = 2
    MaxDrops = 1
    MaxStoreErrs = 0
    MaxRestarts = 0
    None = None
INVARIANTS
    TypeOK
    ReplayKeepsEdits
    OpenEditorsCatchUp
    RoomSeeded
CHECK_DEADLOCK FALSE
