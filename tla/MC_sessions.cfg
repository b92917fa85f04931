SPECIFICATION FairSpec
CONSTANTS
  Nodes = {1,2}
  Times = {1,2}
  UniqueTimes = TRUE
  Ticking <- MayNotTick
  MaxOps = 2
  MaxInFlight = 2
  MaxDisturbances = 1
CHECK_DEADLOCK FALSE
INVARIANTS
  TypeOK
  SameMutationsSameValue
  VotesAreCounted
PROPERTIES
  ReplicasOnlyGrow
  RemovedStaysRemoved
  PeersConverge
