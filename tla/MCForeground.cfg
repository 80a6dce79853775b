SPECIFICATION Spec
CONSTANTS
  p1 = p1
  x1 = x1
  x2 = x2
  Inputs <- Typed
  Peers <- OnePeer
  Escapes <- TwoEscapes
  MaxPending = 2
  Resumed = 3
  MaxRounds = 1
  MaxKeys = 3
SYMMETRY Interchangeable
INVARIANTS
  RecoveryIsExact
  ConversationOrder
  NoInputIsLost
PROPERTIES
  BoundaryMissesNoInput
