SPECIFICATION FairSpec
CONSTANTS
  Tasks = {"a","b","join"}
  Deps <- Join
  MaxConcurrent = 2
  Starters = {"s1","s2"}
  MaxIterations = 1
  MaxLaunches = 2
  MaxDisturbances = 1
CHECK_DEADLOCK FALSE
INVARIANTS
  TypeOK
  DependenciesAnsweredFirst
  LaunchedOnceUntilCleared
  CompletedMeansAnswered
PROPERTIES
  SettledIsFinal
  SettlesUnlessStranded
