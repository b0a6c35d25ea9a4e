SPECIFICATION Spec
CONSTANTS
  r1 = r1
  r2 = r2
  ann = ann
  bob = bob
  Proc = {r1, r2}
  Phone = {1, 2}
  Name = {ann, bob}
  Founder = 1
  MaxRequests = 3
SYMMETRY Symmetry
INVARIANTS
  OneAccountPerPhone
  SuccessIsCommitted
  AuditIsTruthful
CHECK_DEADLOCK FALSE
