------------------------ MODULE MCTrafficStatistics ------------------------
(* Values for the run of TrafficStatistics.                                 *)
EXTENDS TrafficStatistics

ThreeSources == {[tunnel |-> 1, method |-> 1, path |-> 1],
                 [tunnel |-> 1, method |-> 2, path |-> 1],
                 [tunnel |-> 2, method |-> 1, path |-> 1]}
=============================================================================
