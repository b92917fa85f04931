SPECIFICATION FairSpec
CONSTANTS
  Loops = {1}
  GroupOf <- OneGroup
  Gated = {}
  Created = {1}
  Instances = {"a"}
  Requests = {"h"}
  RunnerMode = FALSE
  Vbm = FALSE
  AutoResume = TRUE
  MaxAutoResume = 1
  MaxRounds = 4
  MaxDevRuns = 1
  MaxReviewRedrives = 1
  Verdicts <- OpenOrClean
  GraceCovers = TRUE
  Commands = {"merge","finish"}
  MaxCommands = 4
  Faults = {"error","badRef","limited","broken","auditLoss"}
  MaxFaults = 3
CHECK_DEADLOCK FALSE

PROPERTIES
  EachRoundDecidedOnce
  LoopsComeToRest
  
