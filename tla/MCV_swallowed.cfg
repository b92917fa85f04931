SPECIFICATION FairSpec
CONSTANTS
  Tasks = {"a"}
  Deps <- Join
  MaxConcurrent = 1
  Starters = {"s1"}
  MaxIterations = 1
  MaxLaunches = 1
  MaxDisturbances = 1
CHECK_DEADLOCK FALSE
PROPERTIES
  EveryIterationSettles
