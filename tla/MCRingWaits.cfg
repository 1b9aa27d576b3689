CONSTANTS
  n1 = n1
  n2 = n2
  n3 = n3
  t1 = t1
  Node = {n1, n2, n3}
  Task = {t1}
  MaxDown = 1
  KillBetween = TRUE
  ChangeWhileDown = FALSE
  StrayConnections = FALSE
  Slow = {n3}
  Rejoin = FALSE
  Waits <- WaitsOnEachOther
SPECIFICATION FormedSpec
INVARIANTS
  RingWaitsTypeOK
  MissingIsForgotten
PROPERTY RingWaitsReturn
CONSTRAINT OneNodeDown
