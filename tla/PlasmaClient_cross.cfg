SPECIFICATION Spec
CONSTANTS
  None = None
  Conns = {"c1", "c2"}
  Users = {"u1", "u2"}
  Personas = {"p1", "p2"}
  Owner <- MCOwner
  Creds <- OwnAccount
  LookupKinds = {"names", "sites", "stats"}
  RandPerThread = TRUE
  MaxDraws = 2
INVARIANT
  LoginChecked
CHECK_DEADLOCK FALSE
