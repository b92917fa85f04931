SPECIFICATION FairSpec
CONSTANTS
  MaxConflicts = 2
  Capacity = 2
  MaxProposals = 1
  Threshold = 60
  Participants = 2
  Choices <- AnyStrategy
  Requests <- OneRequest
  SlowStorage = FALSE
  Observed = FALSE
  MaxFailures = 0
CHECK_DEADLOCK FALSE
PROPERTIES
  EveryConflictCloses
