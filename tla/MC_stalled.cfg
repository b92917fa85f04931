SPECIFICATION Spec
CONSTANTS
  Loops = {1}
  GroupOf <- OneGroup
  Gated = {}
  Created = {1}
  Instances = {"a","b"}
  Requests = {"h"}
  RunnerMode = FALSE
  Vbm = FALSE
  AutoResume = FALSE
  MaxAutoResume = 1
  MaxRounds = 1
  MaxDevRuns = 1
  MaxReviewRedrives = 1
  Verdicts <- OpenOrClean
  GraceCovers = TRUE
  Commands = {}
  MaxCommands = 0
  Faults = {"crash","error","gitError"}
  MaxFaults = 2
CHECK_DEADLOCK FALSE
INVARIANTS
  TypeOK
PROPERTIES
  DecidesOnLatestReview
