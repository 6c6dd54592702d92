----------------------- MODULE MCWorkspaceMembership -----------------------
(* Model values for the runs of WorkspaceMembership.                        *)
EXTENDS WorkspaceMembership, TLC

CONSTANTS a1, a2, a3, i1, i2, p1, p2

TwoAccounts    == {a1, a2}
ThreeAccounts  == {a1, a2, a3}
OneInvitation  == {i1}
TwoInvitations == {i1, i2}
OneCall        == {p1}
TwoCalls       == {p1, p2}

Symmetry == Permutations(Accounts) \cup Permutations(Invitations) \cup Permutations(Calls)
=============================================================================
