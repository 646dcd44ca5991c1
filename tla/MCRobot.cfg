SPECIFICATION Spec
CONSTANTS
  HomeCheck = TRUE
  Fallible = {"arm"}
  FilterOutcomes = {"OK"}
  ServiceOutcomes = {TRUE, FALSE}
  MaterialReports = {TRUE, FALSE}
  ErrorReports = {TRUE, FALSE}
  Overrides = {}
  ForcedFaults = {"ML_PICK", "STOPPING"}
  OneGoalAtATime = FALSE
  QuiescentReset = TRUE
INVARIANTS
  TypeOK GoalOwnership ContinuousMotion PartAlwaysHeld DoorOpenInside
  HonestReport NoCommandUnderError AbortedMeansCanceled AtHomeWhenWaiting
PROPERTY ImplementsModes
