SPECIFICATION Spec
CONSTANTS
  None = None
  Servers = {"first", "second", "third", "other"}
  Addr <- MCAddr
  Slots = {0}
  MaxRestarts = 1
INVARIANTS
  RegistryPoints
  OnlineHasServer
  ServedListed
PROPERTIES
  TicketMeets
  DeadUnlisted
  ImplementsDirectory
CHECK_DEADLOCK FALSE
