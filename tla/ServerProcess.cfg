SPECIFICATION ProcessSpec
CONSTANTS
  c1 = c1
  c2 = c2
  f1 = f1
  NoSock = NoSock
  Listener = Listener
  Conns <- MCConns
  Fails <- MCFails
  MaxPlayers = 2
INVARIANTS
  Handover
  RegistryExact
PROPERTIES
  PeerGoneReleased
  GameServersServed
  PlayersServed
CHECK_DEADLOCK FALSE
