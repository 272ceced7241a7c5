SPECIFICATION StatsSpec
CONSTANTS
  None = None
  Bare = Bare
  Conns = {"c1"}
  Users = {"u1", "u2"}
  Nuids = {"a@x", "b@x"}
  AccountOf <- MCAccountOf
  RowNuid <- MCRowNuid
  Personas = {"p1", "p2", "q1"}
  Owner <- MCOwner
  Creds <- MCCreds
  Bannable <- MCBannable
  MaxLogins = 2
  GameServers = {"g1"}
  Rowless = {"p2"}
  MaxReports = 2
INVARIANTS
  RowsOwn
  AnswerOwn
PROPERTIES
  ReportsKept
CHECK_DEADLOCK FALSE
