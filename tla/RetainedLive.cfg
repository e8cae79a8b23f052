SPECIFICATION FairSpec
CONSTANTS
  Viewers = {p, q}
  NoViewer = none
  Kinds = {"terminal"}
  Channel = 1
  Window = 1
  PtyInput = 1
  PtyOutput = 1
  MaxOutput = 0
  MaxResizes = 1
  MaxAttaches = 2
PROPERTIES
  SupersededPageEnds
  LivePageCatchesUp
  ClosedSessionReleasesScreen
CHECK_DEADLOCK FALSE
