SPECIFICATION FairSpec
CONSTANTS
  MaxConflicts = 2
  Capacity = 1
  MaxProposals = 2
  Threshold = 60
  Participants = 3
  Choices <- VoteThenDebate
  Requests <- TwoRequests
  SlowStorage = TRUE
  Observed = TRUE
  MaxFailures = 1
CHECK_DEADLOCK FALSE
INVARIANTS
  TypeOK
  QuorumDecides
  OneDecision
PROPERTIES
  ClosesUnlessLost
