SPECIFICATION SafetySpec
CONSTANTS
  Requests = {r1, r2}
  Instances = {i1}
  NoNote = NoNote
  LongOutage = FALSE
  MaxStops = 1
  MaxOutages = 0
INVARIANT StandingPlanKept
CHECK_DEADLOCK FALSE
