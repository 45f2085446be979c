------------------------- MODULE MCIndividualOrders -------------------------
(* TLC instance of IndividualOrders. *)
EXTENDS IndividualOrders, TLC

Symmetry == Permutations(Requests)

\* What requests do to the row after one of them has overwritten another is checked
\* for one more step only: too many states, and only WrittenTogether speaks of them.
UntilOverlap == ~overlapped
=============================================================================
