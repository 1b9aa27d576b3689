CONSTANTS
  n1 = n1
  n2 = n2
  t1 = t1
  t2 = t2
  Node = {n1, n2}
  Task = {t1, t2}
  Succ <- TwoRing
  MaxTime = 3
SPECIFICATION ClockSpec
INVARIANTS
  ClockTypeOK
  TimesGrow
  TimeIsNew
SYMMETRY Tasks
