SPECIFICATION SafetySpec
CONSTANTS
  Requests = {r1, r2}
  Instances = {i1}
  NoNote = NoNote
  LongOutage = FALSE
  MaxStops = 0
  MaxOutages = 0
PROPERTY LateWriteHarmless
CHECK_DEADLOCK FALSE
