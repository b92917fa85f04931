SPECIFICATION Spec
CONSTANTS
  Loops = {1}
  GroupOf <- OneGroup
  Gated = {}
  Created = {1}
  Instances = {"a","b"}
  Requests = {"h"}
  RunnerMode = TRUE
  Vbm = FALSE
  AutoResume = FALSE
  MaxAutoResume = 1
  MaxRounds = 2
  MaxDevRuns = 1
  MaxReviewRedrives = 1
  Verdicts <- OpenOrClean
  GraceCovers = TRUE
  Commands = {"cancel","develop","merge"}
  MaxCommands = 2
  Faults = {"crash","limited","broken"}
  MaxFaults = 1
CHECK_DEADLOCK FALSE
INVARIANTS
  OneCoderPerLoop
  OneDispatchPerLoop
  SingleFlight
PROPERTIES
  EachRoundDecidedOnce
  DevelopingEndsAfterItsCoder
  RoundOnlyIncrements
  TerminalIsLeftByDevelop
