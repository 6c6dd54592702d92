SPECIFICATION Spec
CONSTANTS
  r1 = r1
  r2 = r2
  g1 = g1
  g2 = g2
  Requests <- OneRequest
  Sockets <- TwoSockets
  FirstSocket = g1
  MaxChunks = 3
  MaxPending = 1
  MaxBuffer = 2
  None = None
INVARIANT BodyInSequence
CHECK_DEADLOCK FALSE
