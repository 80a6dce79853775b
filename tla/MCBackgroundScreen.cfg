CONSTANTS
  Agents = {first, second}
  Ids = {one, two, three}
  MaxFrames = 3
  MaxQueued = 5
  MaxPerAgent = 2
  MaxFrame = 3
  MaxAgents = 1
  MaxTools = 3
  MaxAgentTools = 2
  MaxRetained = 6
  Marker = 2
  BoundaryFrames = 1
  BoundaryBytes = 100
  Plans <- MCPlans
  BodySizes <- MCBodySizes
SYMMETRY Symmetry
SPECIFICATION Spec
CHECK_DEADLOCK FALSE
INVARIANTS
  BooksBalance
  TakesTurns
PROPERTIES
  NothingSilentlyLost
  ResultsOutlastOutput
  MarkersAreTrue
  EveryTextOnce
