-------------------------------- MODULE Places --------------------------------
(***************************************************************************)
(* Array.filter(), where it has to be reasoned about: some places of a     *)
(* sequence, taken in order.  (SelectSeq is recursive.)                    *)
(***************************************************************************)
EXTENDS Naturals, FiniteSets

(* The n-th of a set of places.                                            *)
Nth(places, n) == CHOOSE k \in places : Cardinality({j \in places : j < k}) = n - 1

(* What a sequence has at a set of its places.                             *)
Picked(s, places) == [n \in 1..Cardinality(places) |-> s[Nth(places, n)]]
=============================================================================
