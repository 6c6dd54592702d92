-------------------------- MODULE MCCliConnection --------------------------
(* Model values and symmetry for the runs of CliConnection.                 *)
EXTENDS CliConnection, TLC

CONSTANTS s1, s2, s3

TwoSockets   == {s1, s2}
ThreeSockets == {s1, s2, s3}

Symmetry == Permutations(Sockets)
=============================================================================
