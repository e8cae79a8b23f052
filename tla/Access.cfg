SPECIFICATION Spec
CONSTANTS
  Clients = {c1, c2}
  NoClient = none
  Sockets = {s1}
  Requests = {r1}
  MaxPending = 1
  Abandonable = {"terminalUnlock"}
  Unreadable = {TRUE, FALSE}
  MaxOwners = 2
  MaxTransports = 2
  MaxRevision = 4
SYMMETRY Symmetry
INVARIANTS
  PermitRevisionSound
  TicketShowsOccupant
  OpenOnlyAfterVerification
PROPERTY ImplementsWorkbench
CHECK_DEADLOCK FALSE
