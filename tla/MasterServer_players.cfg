SPECIFICATION MasterSpec
CONSTANTS
  None = None
  Conns = {"c1", "c2"}
  Users = {"u1", "u2"}
  Personas = {"p1", "p2"}
  Owner <- MCOwner
  Creds <- OwnAccount
  LookupKinds = {}
  RandPerThread = TRUE
  MaxDraws = 2
  Clients = {"t1"}
  Lobbies = {"l1"}
  MaxRequests = 1
INVARIANT
  NamedByIssuedKey
PROPERTIES
  RefusedOnlyOnClash
CHECK_DEADLOCK FALSE
