SPECIFICATION Spec
CONSTANTS
  None = None
  Threads = {t1, t2}
  Packets <- MCPackets
  Size <- MCSize
  Plain <- MCPlain
  Prints <- MCPrints
  Counts <- MCCounts
  Top <- MCTop
  MaxText = 5
  Base = 3
  Slack = 1
  Header = 12
  Numbers = 2
  MaxSends = 2
INVARIANTS
  FrameIntact
  FaultCause
  NumbersInOrder
CHECK_DEADLOCK FALSE
