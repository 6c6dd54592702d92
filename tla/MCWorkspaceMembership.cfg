\* Calls one after the other, each of whose requests may fail.
SPECIFICATION Spec
CONSTANTS
  a1 = a1
  a2 = a2
  a3 = a3
  i1 = i1
  i2 = i2
  p1 = p1
  p2 = p2
  Accounts <- ThreeAccounts
  Invitations <- TwoInvitations
  Calls <- OneCall
  None = None
SYMMETRY Symmetry
INVARIANTS
  ExactlyOneOwner
  MembersHaveOwner
  JoinedByInvitation
PROPERTY AcceptedFromPending
\* Once every account is deleted, nobody calls.
CHECK_DEADLOCK FALSE
