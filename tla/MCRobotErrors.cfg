SPECIFICATION LiveSpec
CONSTANTS
  HomeCheck = TRUE
  Fallible = {}
  FilterOutcomes = {"OK"}
  ServiceOutcomes = {TRUE}
  MaterialReports = {TRUE}
  ErrorReports = {TRUE, FALSE}
  Overrides = {}
  ForcedFaults = {}
  OneGoalAtATime = TRUE
  QuiescentReset = TRUE
PROPERTY ErrorAbortsCycle
