SPECIFICATION FairSpec
CONSTANTS
  p1 = p1
  x1 = x1
  x2 = x2
  Inputs <- Typed
  Peers <- OnePeer
  Escapes <- TwoEscapes
  MaxPending = 2
  Resumed = 0
  MaxRounds = 0
  MaxKeys = 2
PROPERTIES
  EnterIsAdmitted
