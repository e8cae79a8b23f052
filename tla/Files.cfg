SPECIFICATION UserSpec
CONSTANTS
  Jobs = {1, 2, 3}
  Kinds = {"upload", "entries", "copy", "save"}
  Old = old
  Other = other
  None = none
  Chunks = 2
  Paths = {p}
  Main = main
  Topic = topic
  NoBranch = nobranch
  Slots = {s1, s2}
  MaxRequests = 3
  MaxEvents = 1
  FileJobs = {1, 2}
  Entries = {a, b}
  MaxThings = 5
  LocalPaths = {p, q}
  NoPath = nopath
  MaxLog = 5
INVARIANTS
  SentAsPicked
  TargetIsWhole
  NothingLost
  DiscardsOnlySeen
  CommitsSurvive
PROPERTIES EditsSurvive OnlyAskedIsLost
SYMMETRY Symmetry
CHECK_DEADLOCK FALSE
