--------------------------- MODULE MCHttpExchange ---------------------------
(* Model values for the runs of HttpExchange.                               *)
EXTENDS HttpExchange

CONSTANTS r1, r2, g1, g2

OneRequest  == {r1}
TwoRequests == {r1, r2}
OneSocket   == {g1}
TwoSockets  == {g1, g2}

=============================================================================
