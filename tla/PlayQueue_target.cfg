CONSTANTS
  i1 = i1  i2 = i2  p1 = p1  ann = ann  bob = bob  t1 = t1  t2 = t2  pc1 = pc1
  Items = {i1, i2}
  Presses = {p1}
  People = {ann, bob}
  Targets = {t1, t2}
  Computers = {pc1}
  Plays = {i1, p1}
  ItemPerson <- MCItemPerson
  ItemTarget <- MCItemTarget
  Pressers <- MCPressers
  PlayOf <- MCPlayOf
  ComputerOf <- MCComputerOf
  Prio <- MCPrio
  Room = 1
  DailyCap = 1
  MaxFaults = 0
SPECIFICATION Spec
INVARIANTS OneRunPerTarget
CHECK_DEADLOCK FALSE
