SPECIFICATION FairSpec
CONSTANTS
  Materials = {"good", "bad"}
  CncAhead = 2
  RobotAhead = 1
INVARIANTS CompletionsEarned OneGoal ActiveMeansGoal
PROPERTIES RequestsAnswered
CHECK_DEADLOCK FALSE
