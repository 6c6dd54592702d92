\* Two requests; the connection may be lost and replaced once.
SPECIFICATION TimerSpec
CONSTANTS
  r1 = r1
  r2 = r2
  g1 = g1
  g2 = g2
  Requests <- TwoRequests
  Sockets <- TwoSockets
  FirstSocket = g1
  MaxChunks = 2
  MaxPending = 1
  MaxBuffer = 1
  None = None
INVARIANTS
  SlotsAreOpenExchanges
  MemoryBounded
  WaiterHasNothingToRead
  OneTrueOutcome
  BodyKept
PROPERTIES
  LateFramesDropped
  StartAwaitSettles
CHECK_DEADLOCK FALSE
