SPECIFICATION FairSpec
CONSTANTS
  r1 = r1
  r2 = r2
  g1 = g1
  g2 = g2
  Requests <- OneRequest
  Sockets <- OneSocket
  FirstSocket = g1
  MaxChunks = 2
  MaxPending = 1
  MaxBuffer = 2
  None = None
PROPERTY FullExchangeTimesOut
CHECK_DEADLOCK FALSE
