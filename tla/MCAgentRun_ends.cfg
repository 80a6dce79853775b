\* One batch of two calls, with a host that may defer a batch, under fair scheduling.
CONSTANTS
  c1 = c1
  c2 = c2
  Calls = {c1, c2}
  MaxIter = 1
  MaxDelta = 1
  HasSink = TRUE
  Store = "memory"
SPECIFICATION FairSpec
PROPERTIES
  StoresAConversation
  RunsEnd
  SinkLetsGo
