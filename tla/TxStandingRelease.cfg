SPECIFICATION TxSpec
CONSTANTS
  brake = brake
  A = A
  B = B
  Unit = {1}
  Turnaround = {1, 2}
  Paddable = {}
  CheckCode = {brake}
  MaxVersion = 3
  Proc = {A, B}
  Target = {"available", "blocked"}
  Asker = {"inspector", "admin"}
  Verdict = {"passed"}
  Outcome = {"cleared", "restricted", "revoked"}
SYMMETRY ProcSymmetry
INVARIANTS
  ClearedUnitsAvailable
CHECK_DEADLOCK FALSE
