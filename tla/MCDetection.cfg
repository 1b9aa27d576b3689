CONSTANTS
  n1 = n1
  n2 = n2
  n3 = n3
  t1 = t1
  t2 = t2
  Node <- ThreeNodes
  Task = {t1, t2}
  Succ <- ThreeRing
  NoNode = NoNode
  CountModulus = 4
  Initiator = {n1, n2}
  MaxTest = 1
  OneTestAtATime = TRUE
SPECIFICATION PairSpec
INVARIANTS
  DetectionTypeOK
  DeclaredIsDeadlock
  KnotIsDeclared
  ProbeTree
PROPERTY TestsEnd
CHECK_DEADLOCK FALSE
