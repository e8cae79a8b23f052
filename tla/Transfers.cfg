SPECIFICATION PlacesSpec
CONSTANTS
  Requests = {t1, t2, t3}
  Ids = {i1}
  NoId = NoId
  Slots = 2
  MaxTickets = 2
  MaxRevision = 2
  MaxFlags = 2
  Sessions = {s1, s2}
  Pastes = {p1, p2}
  NoDir = NoDir
  MaxDays = 1
SYMMETRY Symmetry
INVARIANTS
  NoEffectAfterStop
  TypedPathsLead
  NothingStays
CHECK_DEADLOCK FALSE
