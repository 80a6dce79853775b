\* Every interleaving of two tasks with a compaction, two cancellations, a
\* failing statement and a crash.
CONSTANTS
  agent = agent
  other = other
  main = main
  side = side
  spare = spare
  another = another
  Tasks <- TheTasks
  Sessions <- TheSessions
  Bound <- TheBound
  Before <- TheBefore
  Compacting = {agent}
  KeepRecent = 1
  MaxCalls = 2
  MaxCancels = 2
  MaxFaults = 1
  MaxCrashes = 1

SYMMETRY Symmetry
SPECIFICATION Spec

INVARIANTS
  LockIsNeverLost
  StoredAsTold

PROPERTIES
  KeepsLedger

CHECK_DEADLOCK FALSE
