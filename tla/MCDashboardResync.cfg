SPECIFICATION Spec
CONSTANTS
  wa = wa
  wb = wb
  ta = ta
  tn = tn
  None = None
  Workspaces <- TwoWorkspaces
  Tunnels <- TwoTunnels
  First = wa
  WorkspaceOf <- TunnelTags
  MaxSockets = 3
  MaxQueue = 1
  MaxTunnels = 1
  MaxRenewals = 0
CHECK_DEADLOCK FALSE
PROPERTY ResyncedAfterReconnect
