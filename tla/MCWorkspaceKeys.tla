-------------------------- MODULE MCWorkspaceKeys --------------------------
(* Model values for the runs of WorkspaceKeys.                              *)
EXTENDS WorkspaceKeys, TLC

CONSTANTS a1, a2, k1, k2, p1, p2

TwoAccounts == {a1, a2}
TwoKeys     == {k1, k2}
TwoCalls    == {p1, p2}

Symmetry == Permutations(Accounts) \cup Permutations(Keys) \cup Permutations(Calls)
=============================================================================
