SPECIFICATION FairSpec
CONSTANTS
  Route = 2
  Jobs = {j1, j2}
  QueueSize = 2
  ConnectLimit = 1
  DecisionLimit = 3
INVARIANTS
  KeyBeforeCredentials
  EndsVisibly
PROPERTIES
  CloseReleases
  AcceptedJobsEnd
CHECK_DEADLOCK FALSE
