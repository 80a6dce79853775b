\* A turn of two rounds, a queue of three places and one operation that fails.
CONSTANTS
  MaxRounds = 2
  MaxPieces = 2
  QueueSize = 3
  MaxFaults = 1

SPECIFICATION FairSpec

INVARIANTS
  SyncedIsDurable
  RecoveryReadsIt

PROPERTIES
  BarriersReturn

CHECK_DEADLOCK FALSE
