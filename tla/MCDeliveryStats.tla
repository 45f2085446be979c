--------------------------- MODULE MCDeliveryStats ---------------------------
(* TLC instance of DeliveryStats. *)
EXTENDS DeliveryStats, TLC

Symmetry == Permutations(Requests)

\* Bound: after something has gone wrong, only behaviours of two requests.
ShortOnceDrifted == drift => begun <= 2
=============================================================================
