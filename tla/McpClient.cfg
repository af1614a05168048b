CONSTANTS
  Calls = {c1, c2}
  MaxDeaths = 3
  MaxCancels = 1

SPECIFICATION Spec

INVARIANTS
  TypeOK
  OneServerBetweenThem
  GoneMeansTwoServersGone

PROPERTIES
  OnlyTheDeadAreForgotten
  EveryCallReturns

CHECK_DEADLOCK FALSE
