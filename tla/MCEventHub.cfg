\* Three clients and one subscriber, everyone may be cancelled, fair scheduling.
CONSTANTS
  p1 = p1
  p2 = p2
  p3 = p3
  s1 = s1
  Clients = {p1, p2, p3}
  Subscribers = {s1}
SPECIFICATION FairSpec
INVARIANTS
  OneOrder
  ReturnedMeansReceived
PROPERTIES
  NobodyWaitsForEver
  KeepsTheOrder
