SPECIFICATION WorkflowSpec
CONSTANTS
  brake = brake
  seal = seal
  Unit = {1, 2, 4}
  NewUnits = {1, 2}
  NewStates = {"available", "inspection"}
  Turnaround = {1, 2}
  Paddable = {1}
  CheckCode = {brake, seal}
  MaxVersion = 3
  MaxEvents = 2
SYMMETRY CheckSymmetry
INVARIANTS
  TypeOK
  StatusFollowsDecision
  ExclusiveUnlessPadded
  ReleaseNeedsReview
  AuditExplains
  AvailableUnlessMissed
PROPERTIES
  DecisionsAreFinal
  EvidenceFrozen
  RevokedUnlessMissed
  VersionTellsStates
CHECK_DEADLOCK FALSE
