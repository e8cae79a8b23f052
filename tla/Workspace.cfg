SPECIFICATION WorkspaceSpec
CONSTANTS
  b1 = b1
  b2 = b2
  None = None
  Blocks = {b1, b2}
  Files = {b1}
  MaxSessions = 1
  MaxBlocks = 2
  MaxDrafts = 1
  MaxQueue = 1
  MaxLate = 1
  Limits <- MCLimits
INVARIANTS SessionsShown
PROPERTIES LayoutsDescend DraftsDescend
CHECK_DEADLOCK FALSE
