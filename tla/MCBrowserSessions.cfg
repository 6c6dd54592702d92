\* Two tabs of one browser, two requests at a time.
SPECIFICATION Spec
CONSTANTS
  t1 = t1
  t2 = t2
  x1 = x1
  x2 = x2
  Tabs <- TwoTabs
  Requests <- TwoRequests
  MaxSessions = 2
  MaxLosses = 1
  NoTab = NoTab
PROPERTIES OnlyFeedSpendsGood RevokedTabSignsOut
CHECK_DEADLOCK FALSE
