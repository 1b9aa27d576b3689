CONSTANTS
  n1 = n1
  n2 = n2
  n3 = n3
  t1 = t1
  t2 = t2
  r1 = r1
  r2 = r2
  Node <- ThreeNodes
  Task = {t1, t2}
  Succ <- ThreeRing
  Resource = {r1, r2}
  NoNode = NoNode
  Owner <- OneOwned
  MaxRequests <- TwoForOwned
  OneRequestPerNode = TRUE
SPECIFICATION FairResourcesSpec
INVARIANTS
  ResourcesTypeOK
  MutualExclusion
  UserIsAccounted
  FreeHasNoQueue
PROPERTIES
  LockRefined
  RequestsReturn
