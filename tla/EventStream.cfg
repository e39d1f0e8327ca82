\* A history that is trimmed while a client connects.
SPECIFICATION FairSpec
CONSTANTS
  p1 = p1
  p2 = p2
  c1 = c1
  c2 = c2
  Publishers = {p1, p2}
  Clients = {c1}
  MaxHistory = 3
  MaxEvents = 5
CHECK_DEADLOCK FALSE
INVARIANTS
  AtMostTwice
  LastWord
PROPERTIES
  ImplementsFeed
  DueIsSent
