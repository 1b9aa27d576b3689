CONSTANTS
  n1 = n1
  n2 = n2
  n3 = n3
  t1 = t1
  t2 = t2
  Node <- ThreeNodes
  Task = {t1}
  Succ <- ThreeRing
  NoNode = NoNode
  CountModulus = 4
  Initiator = {n1}
  MaxTest = 2
  OneTestAtATime = TRUE
  Waits <- WaitsForOthers
  MaxChanges = 6
SPECIFICATION CmhSpec
INVARIANTS
  VerdictIsDeadlock
  LastingKnotIsDeclared
  OneVerdictPerTest
CHECK_DEADLOCK FALSE
