-------------------------- MODULE MCTunnelRegistry --------------------------
(* The registry with three sockets, two of one owner, and as many ids.     *)
EXTENDS TunnelRegistry, TLC

CONSTANTS c1, c2, c3, i1, i2, i3, s1, s2, s3, alice, bob

MCClients == {c1, c2, c3}
MCIds     == {i1, i2, i3}
MCSlugs   == {s1, s2, s3}
MCOwners  == {alice, bob}
MCOwnerOf == c1 :> alice @@ c2 :> alice @@ c3 :> bob
MCSlugOf  == i1 :> s1 @@ i2 :> s2 @@ i3 :> s3
=============================================================================
