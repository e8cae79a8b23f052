SPECIFICATION FairFeedSpec
CONSTANTS
  Sockets = {s1}
  Operations = {m1}
  QueueSize = 1
  MaxRevision = 2
  MaxVersion = 3
  MaxOutages = 1
PROPERTIES
  SamplesAreNewest
  CatchesUp
CHECK_DEADLOCK FALSE
