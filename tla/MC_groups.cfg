SPECIFICATION Spec
CONSTANTS
  Loops = {1,2,3}
  GroupOf <- TwoGroups
  Gated = {}
  Created = {1,3}
  Instances = {"a"}
  Requests = {"h","k"}
  RunnerMode = TRUE
  Vbm = FALSE
  AutoResume = FALSE
  MaxAutoResume = 1
  MaxRounds = 1
  MaxDevRuns = 1
  MaxReviewRedrives = 1
  Verdicts <- OnlyOpen
  GraceCovers = TRUE
  Commands = {"create","start","develop","cancel"}
  MaxCommands = 3
  Faults = {}
  MaxFaults = 0
CHECK_DEADLOCK FALSE
INVARIANTS
  OneActivePerGroup
  DevRunsWithinCap
PROPERTIES
  LifecycleSpec
