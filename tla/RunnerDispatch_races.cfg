SPECIFICATION Spec
CONSTANTS
  j1 = j1
  j2 = j2
  r1 = r1
  r2 = r2
  c1 = c1
  c2 = c2
  c3 = c3
  None = None
  Jobs = {j1, j2}
  Builds = {}
  Denied = {}
  StackOf <- OwnStack
  Runners = {r1, r2}
  Conns = {c1, c2, c3}
  RunnerOf <- TwoRunners
  Fits <- AnyRunner
  MaxCancels = 0
  MaxDrops = 1
  MaxFrameErrs = 1
  MaxCrashes = 0
INVARIANTS TypeOK  NoDeployVanishes ConnectedIsRegistered
SYMMETRY JobSymmetry
CHECK_DEADLOCK FALSE
