CONSTANTS
  n1 = n1
  n2 = n2
  n3 = n3
  t1 = t1
  t2 = t2
  Node <- ThreeNodes
  Task = {t1}
  Succ <- ThreeRing
  Waits <- WaitsForOthers
SPECIFICATION PermissionSpec
INVARIANT NoForgottenWaiter
