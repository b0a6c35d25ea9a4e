SPECIFICATION Spec
CONSTANTS
  s1 = s1
  r1 = r1
  r2 = r2
  Server = {s1}
  Request = {r1, r2}
  PerMin = 2
  Minute = 2
  Retention = 3
  MaxDelay = 1
  MaxTime = 3
  MaxCount = 4
  MaxLoss = 1
  MaxGrants = 4
SYMMETRY Symmetry
INVARIANTS
  WindowLimit
  LocalLimit
CHECK_DEADLOCK FALSE
