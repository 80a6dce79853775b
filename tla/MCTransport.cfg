SPECIFICATION Spec
CONSTANTS
  Apis <- Guarded
  MaxRetries = 2
  Talks <- Sayings
  Layouts <- LimitLayouts
  Chunks <- Sizes
  Limit = 4
INVARIANTS
  SplitsNeverMatter
  AnswerIsWhole
PROPERTIES
  KeepsContract
CHECK_DEADLOCK FALSE
