SPECIFICATION ConnectionSpec
CONSTANTS
  Queries <- MCQueries
  Chunk = 930
  ValueRoom = 932
  QueryRoom = 8
  Garbage = 2
  MaxRounds = 2
  MaxFlight = 2
INVARIANTS
  HeldIsSent
  ReplyCut
  PacketsFit
  StreamKept
PROPERTIES
  QueryAnswered
CHECK_DEADLOCK FALSE
