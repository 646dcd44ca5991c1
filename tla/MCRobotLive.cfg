SPECIFICATION LiveSpec
CONSTANTS
  HomeCheck = TRUE
  Fallible = {"arm"}
  FilterOutcomes = {"OK"}
  ServiceOutcomes = {TRUE}
  MaterialReports = {TRUE}
  ErrorReports = {TRUE, FALSE}
  Overrides = {}
  ForcedFaults = {}
  OneGoalAtATime = TRUE
  QuiescentReset = TRUE
PROPERTIES GoalsAnswered AbortCompletes StopHonoured
