SPECIFICATION Spec
CONSTANTS
  Workers = {w1, w2, w3}
  Limit = 2
  Window = 2
  Faults = {"call", "restart"}
INVARIANTS
  TypeOK
  AdmittedWithinLimit
  RejectedOnlyWhenSpent
  NoTTLOnlyAfterLoss
PROPERTIES
  WindowNeverExtended
  TimedWindowEnds
