-------------------------- MODULE MCGatewaySession --------------------------
(* Model values for the run of GatewayMessages: three sockets share an
   address.                                                                *)
EXTENDS GatewayMessages, TLC

CONSTANTS c1, c2, c3, c4, ip1, ip2

FourClients == {c1, c2, c3, c4}
TwoIps      == {ip1, ip2}
SharedIp    == [c \in FourClients |-> IF c = c4 THEN ip2 ELSE ip1]
Symmetry    == Permutations({c1, c2, c3})
=============================================================================
