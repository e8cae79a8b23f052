SPECIFICATION FairVaultSpec
CONSTANT MaxGeneration = 5
INVARIANTS
  SessionFollowsKey
PROPERTY DeadlineLocks
CHECK_DEADLOCK FALSE
