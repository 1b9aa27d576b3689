CONSTANTS
  n1 = n1
  n2 = n2
  n3 = n3
  n4 = n4
  t1 = t1
  t2 = t2
  Node = {n1, n2, n3, n4}
  Task = {t1, t2}
  MaxDown = 1
  KillBetween = FALSE
  ChangeWhileDown = FALSE
  StrayConnections = TRUE
  Slow = {}
  Rejoin = FALSE
SPECIFICATION CrashSpec
INVARIANTS
  RingAgrees
  RepairHeals
PROPERTIES
  OrderRefined
  RingRequestsReturn
