SPECIFICATION Spec
CONSTANTS
  Apis <- Compatible
  MaxRetries = 2
  Talks <- ShortSayings
  Layouts <- PlainLayout
  Chunks <- Sizes
  Limit = 4
INVARIANTS
  StartsOnce
CHECK_DEADLOCK FALSE
