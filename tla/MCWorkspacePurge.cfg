SPECIFICATION Spec
CONSTANTS
  a1 = a1
  a2 = a2
  a3 = a3
  i1 = i1
  i2 = i2
  p1 = p1
  p2 = p2
  Accounts <- TwoAccounts
  Invitations <- OneInvitation
  Calls <- OneCall
  None = None
SYMMETRY Symmetry
PROPERTY PurgedForItsOwner
\* Once every account is deleted, nobody calls.
CHECK_DEADLOCK FALSE
