SPECIFICATION Spec
CONSTANTS
  Loops = {1}
  GroupOf <- OneGroup
  Gated = {}
  Created = {1}
  Instances = {"a"}
  Requests = {"h"}
  RunnerMode = FALSE
  Vbm = FALSE
  AutoResume = FALSE
  MaxAutoResume = 1
  MaxRounds = 2
  MaxDevRuns = 1
  MaxReviewRedrives = 1
  Verdicts <- OpenOrClean
  GraceCovers = TRUE
  Commands = {"merge"}
  MaxCommands = 1
  Faults = {"gitError"}
  MaxFaults = 1
CHECK_DEADLOCK FALSE
PROPERTIES
  EachRoundDecidedOnce
