SPECIFICATION Spec
CONSTANTS
  c1 = c1
  c2 = c2
  Events = {e1, e2}
  Consumers = {c1, c2}
  NoEvent = NoEvent
  SubsOf <- TwoSubs
  Replayers = {}
  ChanCap = 1
  BatchSize = 1
  MaxAttempts = 2
  MaxCrashes = 1
  MaxShutdowns = 0
  MaxStoreErrs = 1
  MaxReplays = 0
  HandlersTimeOut = FALSE
INVARIANTS TypeOK  RunsBounded NoLostWakeup CommitOrderKept 
SYMMETRY EventSymmetry
