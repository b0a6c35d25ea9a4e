SPECIFICATION ReadSpec
CONSTANTS
  Unit = {1, 2}
  Turnaround = {1}
  Paddable = {1}
  CheckCode = {brake}
  MaxVersion = 3
  NoTurnaround = 0
INVARIANTS
  BlockersAreReal
  ReportsAreConsistent
CHECK_DEADLOCK FALSE
