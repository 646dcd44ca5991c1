SPECIFICATION FairSpec
CONSTANTS
  Actions = {"openDoor", "closeDoor"}
  OneAtATime = TRUE
  Disables = FALSE
  MaxAway = 2
INVARIANTS SucceededMeansMoved ReadyAnswersComplete
PROPERTY GoalsEnd
\* A goal whose answer was thrown away waits for ever.
CHECK_DEADLOCK FALSE
