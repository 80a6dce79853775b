\* Two rounds of two calls with a host that may defer them, over a store that
\* appends message by message.
CONSTANTS
  c1 = c1
  c2 = c2
  Calls = {c1, c2}
  MaxIter = 2
  MaxDelta = 0
  HasSink = TRUE
  Store = "sequential"
SYMMETRY Symmetry
SPECIFICATION Spec
INVARIANTS
  TypeOK
  ToolsKeepToTheirRun
  HistoryIsSound
  ReportFollowsTheStore
PROPERTIES
  PreemptionSparesTools
