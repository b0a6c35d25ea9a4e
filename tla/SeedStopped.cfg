SPECIFICATION Spec
CONSTANTS
  s1 = s1
  s2 = s2
  s3 = s3
  Server = {s1, s2, s3}
  MaxStops = 2
INVARIANTS
  UnitsAreThere
CHECK_DEADLOCK FALSE
