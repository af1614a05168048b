SPECIFICATION Spec
CONSTANTS
  Requests = {r1, r2}
  Instances = {i1, i2}
  NoNote = NoNote
  LongOutage = FALSE
  MaxStops = 1
  MaxOutages = 0
INVARIANTS
  TypeOK
  PlanBehindCompleted
  NeverAbandoned
CHECK_DEADLOCK FALSE
