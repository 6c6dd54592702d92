SPECIFICATION Spec
CONSTANTS
  wa = wa
  wb = wb
  ta = ta
  tn = tn
  None = None
  Workspaces <- TwoWorkspaces
  Tunnels <- TwoTunnels
  First = wa
  WorkspaceOf <- TunnelTags
  MaxSockets = 2
  MaxQueue = 1
  MaxTunnels = 1
  MaxRenewals = 1
CHECK_DEADLOCK FALSE
INVARIANT ScopedFeed
INVARIANT ClientsAreOpen
PROPERTY Reconnects
