------------------------- MODULE MCRequestExplorer -------------------------
(* Model values for the runs of RequestExplorer: two requests of the       *)
(* workspace that is shown first, of which a search finds one, and a       *)
(* workspace to switch to that has none.                                   *)
EXTENDS RequestExplorer

CONSTANTS wa, wb, r1, r2, text

TwoWorkspaces == {wa, wb}
TwoRequests   == {r1, r2}
OneText       == {text}
AllOfFirst == [r \in TwoRequests |-> wa]
OneInspected  == {r1}
TextFinds     == [t \in OneText |-> {r1}]
=============================================================================
