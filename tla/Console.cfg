SPECIFICATION Spec
CONSTANTS
  None = None
  a = a
  b = b
  Row = {a, b}
SYMMETRY RowSymmetry
INVARIANTS
  SavingHasRequest
  MisdirectedOnlyRevokes
  LoggedOutGoesToLogin
  ButtonsFitRole
PROPERTIES
  AuditOnlyForManagers
  SessionEndsForCause
  
CHECK_DEADLOCK FALSE
