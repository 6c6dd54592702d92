-------------------------- MODULE MCDashboardFeed --------------------------
(* Model values for the runs of DashboardFeed: a tunnel of the workspace   *)
(* that is shown first, an anonymous one, and a workspace to switch to.    *)
EXTENDS DashboardFeed

CONSTANTS wa, wb, ta, tn

TwoWorkspaces == {wa, wb}
TwoTunnels    == {ta, tn}
TunnelTags    == [t \in TwoTunnels |-> IF t = ta THEN wa ELSE None]
=============================================================================
