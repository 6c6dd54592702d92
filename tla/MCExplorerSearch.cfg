SPECIFICATION ESpec
CONSTANTS
  wa = wa
  wb = wb
  r1 = r1
  r2 = r2
  text = text
  Nothing = Nothing
  Workspaces <- TwoWorkspaces
  Traffic <- TwoRequests
  Texts <- OneText
  HomeOf <- AllOfFirst
  Matches <- TextFinds
  First = wa
  Limit = 2
  Inspected <- OneInspected
  MaxTurns = 1
CHECK_DEADLOCK FALSE
PROPERTY SearchSettles
