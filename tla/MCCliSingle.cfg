SPECIFICATION CSpec
CONSTANTS
  s1 = s1
  s2 = s2
  s3 = s3
  Sockets <- TwoSockets
  NoSocket = NoSocket
SYMMETRY Symmetry
INVARIANT SingleConnection
CHECK_DEADLOCK FALSE
