SPECIFICATION Spec
CONSTANTS
    NEvents = 3
    Foreign = {2}
    Codes = {1}
    Conns = {1, 2}
    BatchSize = 2
    MaxLate = 1
    MaxCrashes = 1
    MaxFaults = 1
    MaxToggles = 0
    Subs <- MCSubs
INVARIANTS
    TypeOK
    PassedIsAccounted
    NotRunAgain
    NoLostWakeup
CHECK_DEADLOCK FALSE
