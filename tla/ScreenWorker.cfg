SPECIFICATION FairSpec
CONSTANTS
  Ids = {s1, s2}
  Outputs = {"query"}
  CheckpointOps = 2
  MaxTail = 2
  MaxOps = 3
PROPERTIES
  Recoverable
  CallReturns
