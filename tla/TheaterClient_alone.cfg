SPECIFICATION SpecAlone
CONSTANTS
  None = None
  Clients = {"t1", "t2"}
  Personas = {"p1", "p2"}
  Keys = {"k1"}
  Lobbies = {"l1", "l2"}
  MaxRequests = 4
INVARIANT
  TidAgrees
CHECK_DEADLOCK FALSE
