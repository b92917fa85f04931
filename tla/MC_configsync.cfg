SPECIFICATION FairSpec
CONSTANTS
  Peers = {"p", "q"}
  Watched <- FirstEventAtP
  Events = {1, 2}
  EntityOf <- OneEntity
  Threshold = 1
  Publishers = 1
  Flushes = 1
  Batch = 2
  MaxThrows = 2
  MaxDisturbances = 1
  MaxStamps = 2
CHECK_DEADLOCK FALSE
INVARIANTS
  TypeOK
  FailuresAreKept
  AppliedOncePerKey
  OnePendingPerEntity
PROPERTIES
  OutboxDrains
