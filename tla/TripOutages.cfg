SPECIFICATION Spec
CONSTANTS
  Requests = {r1, r2}
  Instances = {i1}
  NoNote = NoNote
  LongOutage = FALSE
  MaxStops = 1
  MaxOutages = 1
INVARIANT OneRunForThePatient
PROPERTIES
  PlanningEnds
  NoteOutlivesItsRun
  KeepsThePromise
CHECK_DEADLOCK FALSE
