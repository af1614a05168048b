SPECIFICATION Spec
CONSTANTS
  MAX_REPLAN_ATTEMPTS = 2
  MAX_EVALUATOR_RETRIES = 3
  StepCap = 30
INVARIANTS
  TypeOK
  SavedPlanPassed
  ErrorMeansEmpty
  BuiltOnWhatStands
  ToldTheTruth
PROPERTIES
  Ends
  WritesStatusOnce
CHECK_DEADLOCK FALSE
