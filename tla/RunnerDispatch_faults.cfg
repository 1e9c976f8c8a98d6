SPECIFICATION FairSpec
CONSTANTS
  j1 = j1
  j2 = j2
  r1 = r1
  r2 = r2
  c1 = c1
  c2 = c2
  c3 = c3
  None = None
  Jobs = {j1}
  Builds = {j1}
  Denied = {j1}
  StackOf <- OwnStack
  Runners = {r1}
  Conns = {c1, c2}
  RunnerOf <- OneRunner
  Fits <- AnyRunner
  MaxCancels = 1
  MaxDrops = 1
  MaxFrameErrs = 0
  MaxCrashes = 1
INVARIANTS  NoDeployVanishes
PROPERTY StartedJobEnds
CHECK_DEADLOCK FALSE
