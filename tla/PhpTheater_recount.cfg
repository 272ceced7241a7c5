SPECIFICATION Spec
CONSTANTS
  None = None
  Servers = {"first", "second", "other"}
  Addr <- MCAddr
  Slots = {0, 1}
  MaxRestarts = 1
INVARIANT
  ActivePlayers
CHECK_DEADLOCK FALSE
