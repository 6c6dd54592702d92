\* Three sockets alive at once; from some moment on the server stays up.
SPECIFICATION ServerBackSpec
CONSTANTS
  s1 = s1
  s2 = s2
  s3 = s3
  Sockets <- ThreeSockets
  NoSocket = NoSocket
INVARIANT KeepsTrying
INVARIANT ConnectedIsWatched
PROPERTY Recovers
CHECK_DEADLOCK FALSE
