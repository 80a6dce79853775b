CONSTANTS
  Streams = {a}
  MaxPieces = 3
  MaxShows = 1
  MaxPending = 2
  MaxBatch = 2
  MaxLate = 1
  MayFail = TRUE
SPECIFICATION FairSpec
CHECK_DEADLOCK FALSE
INVARIANTS
  LinesArrive
  RowsAreTheLiveLines
PROPERTIES
  DrainMeansShown
  WaitersReturn
