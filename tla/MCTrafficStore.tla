--------------------------- MODULE MCTrafficStore ---------------------------
(* Model values and symmetry for the run of TrafficStore and TrafficReads.  *)
EXTENDS TrafficReads

CONSTANTS r1, r2, r3

ThreeRequests == {r1, r2, r3}

(* At most one of the requests is not what a search looks for.              *)
FewMisses ==
    {f \in [Requests -> Kinds] : Cardinality({r \in Requests : f[r] # "hit"}) <= 1}

Searches == {[search |-> TRUE, limit |-> 1], [search |-> FALSE, limit |-> 0],
             [search |-> FALSE, limit |-> None]}

Symmetry == Permutations(Requests)
=============================================================================
