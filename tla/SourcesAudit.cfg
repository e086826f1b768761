\* The source of a running audit: AuditKeepsItsSource does not hold.
SPECIFICATION Spec
CONSTANTS
  MaxSequence = 3
  MaxRejected = 0
INVARIANTS AuditKeepsItsSource
CHECK_DEADLOCK FALSE
