SPECIFICATION FairSpec
CONSTANTS
  c1 = c1
  c2 = c2
  Events = {e1}
  Consumers = {c1}
  NoEvent = NoEvent
  SubsOf <- OneSub
  Replayers = {r1, r2}
  ChanCap = 1
  BatchSize = 1
  MaxAttempts = 2
  MaxCrashes = 0
  MaxShutdowns = 1
  MaxStoreErrs = 1
  MaxReplays = 2
  HandlersTimeOut = TRUE
INVARIANTS  RunsBounded
  
