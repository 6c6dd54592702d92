------------------------- MODULE MCBrowserSessions -------------------------
(* Model values for the runs of BrowserSessions.                            *)
EXTENDS BrowserSessions, TLC

CONSTANTS t1, t2, x1, x2

TwoTabs     == {t1, t2}
TwoRequests == {x1, x2}
=============================================================================
