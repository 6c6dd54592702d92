SPECIFICATION MSpec
CONSTANTS
  c1 = c1
  c2 = c2
  c3 = c3
  c4 = c4
  ip1 = ip1
  ip2 = ip2
  Clients <- FourClients
  Ips <- TwoIps
  IpOf <- SharedIp
  MaxGlobal = 3
  MaxPerIp = 2
  Timeout = 1
  SweepInterval = 1
  MaxTime = 3
  RateLimit = 2
  RateWindow = 2
  None = None
CHECK_DEADLOCK FALSE
SYMMETRY Symmetry
INVARIANT SlotsCountOpenSockets
INVARIANT ServedIsWatched
INVARIANT SilenceBounded
INVARIANT RateWindowTrue
