CONSTANTS
  n1 = n1
  n2 = n2
  n3 = n3
  t1 = t1
  r1 = r1
  NoNode = NoNode
  Node = {n1, n2, n3}
  Task = {t1}
  Resource = {r1}
  Owner <- Owners
  MaxQueue = 1
  MaxDown = 1
  KillBetween = FALSE
  ChangeWhileDown = FALSE
  StrayConnections = FALSE
  Slow = {n3}
  Rejoin = FALSE
SPECIFICATION FormedSpec
INVARIANTS
  RingResourcesTypeOK
  UserIsNoted
PROPERTY RingResourcesReturn
CONSTRAINT OneNodeDown
