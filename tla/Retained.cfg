SPECIFICATION Spec
CONSTANTS
  Viewers = {p, q}
  NoViewer = none
  Kinds = {"local"}
  Channel = 1
  Window = 1
  PtyInput = 1
  PtyOutput = 1
  MaxOutput = 2
  MaxResizes = 1
  MaxAttaches = 2
SYMMETRY Symmetry
VIEW Observed
INVARIANTS
  ViewIsHistory
  RepliesConserved
CHECK_DEADLOCK FALSE
