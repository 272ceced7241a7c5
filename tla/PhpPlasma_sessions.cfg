SPECIFICATION Spec
CONSTANTS
  None = None
  c1 = c1
  c2 = c2
  d1 = d1
  p1 = p1
  p2 = p2
  q1 = q1
  Conns <- MCConns
  Users = {"u1", "u2"}
  Nuids = {"a@x", "b@x", "B@x"}
  AccountOf <- MCAccountOf
  RowNuid <- MCRowNuid
  Personas <- MCPersonas
  Owner <- MCOwner
  Creds <- MCCreds
  Bannable <- MCBannable
  MaxLogins = 2
SYMMETRY Alike
INVARIANTS
  OwnSession
  KickTarget
  SoleSession
  OnlineExplained
PROPERTIES
  LookupKept
  RefusedStaysOut
  BannedByKeyOnly
CHECK_DEADLOCK FALSE
