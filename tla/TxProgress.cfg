SPECIFICATION FairContendedSpec
CONSTANTS
  brake = brake
  A = A
  B = B
  Unit = {1, 2}
  Turnaround = {1, 2}
  Paddable = {1, 2}
  CheckCode = {brake}
  MaxVersion = 1
  Proc = {A, B}
  Target = {"blocked"}
  Asker = {"inspector"}
  Verdict = {}
  Outcome = {"cleared"}
INVARIANTS
  RingsNeedCreateOrPadding
PROPERTIES
  RequestsFinish
  CommitsAreSerial
CHECK_DEADLOCK FALSE
