SPECIFICATION FairSpec
CONSTANTS
  Loops = {1,2}
  GroupOf <- OwnGroups
  Gated = {2}
  Created = {1,2}
  Instances = {"a"}
  Requests = {"h"}
  RunnerMode = TRUE
  Vbm = TRUE
  AutoResume = FALSE
  MaxAutoResume = 1
  MaxRounds = 2
  MaxDevRuns = 1
  MaxReviewRedrives = 1
  Verdicts <- OpenOrClean
  GraceCovers = TRUE
  Commands = {"merge","retry","rereview"}
  MaxCommands = 3
  Faults = {"limited","broken","error"}
  MaxFaults = 2
CHECK_DEADLOCK FALSE
INVARIANTS
  RoundWithinCap
PROPERTIES
  ShippedWasConfirmed
  GateHolds
  LoopsComeToRest
