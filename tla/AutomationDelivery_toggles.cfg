SPECIFICATION Spec
CONSTANTS
    NEvents = 2
    Foreign = {}
    Codes = {1}
    Conns = {1, 2}
    BatchSize = 2
    MaxLate = 0
    MaxCrashes = 0
    MaxFaults = 0
    MaxToggles = 2
    Subs <- MCSubs
INVARIANTS
    PassedIsAccounted
    NoLostWakeup
    OffDeliversNothing
    SkippedStaysSkipped
CHECK_DEADLOCK FALSE
