SPECIFICATION FairSpec
CONSTANTS
  s1 = s1
  s2 = s2
  s3 = s3
  Sockets <- TwoSockets
  NoSocket = NoSocket
PROPERTY DisconnectResolves
CHECK_DEADLOCK FALSE
