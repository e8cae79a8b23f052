SPECIFICATION FairSpec
CONSTANTS
  Sessions = {s1}
  Rules = {local, remote}
  RemoteRules = {remote}
  Requests = {q1, q2}
  Conns = {c1}
  None = None
  MaxVersion = 1
INVARIANTS
  RunningIsRecorded
  
PROPERTY GateIsReleased
CHECK_DEADLOCK FALSE
