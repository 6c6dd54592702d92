\* What comments say of refreshes and of signing out, and the code does not
\* keep.  TLC stops at the first that it refutes, and refutes the other, too,
\* once the first is taken out.
SPECIFICATION Spec
CONSTANTS
  t1 = t1
  t2 = t2
  x1 = x1
  x2 = x2
  Tabs <- TwoTabs
  Requests <- TwoRequests
  MaxSessions = 2
  MaxLosses = 1
  NoTab = NoTab
INVARIANT SpentWhenDue
PROPERTY SignedOutStaysOut
CHECK_DEADLOCK FALSE
