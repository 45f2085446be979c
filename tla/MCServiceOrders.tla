---------------------------- MODULE MCServiceOrders ----------------------------
(* TLC instance of ServiceOrders. *)
EXTENDS ServiceOrders, TLC

Symmetry ==
  Permutations(Orders) \cup Permutations(Units) \cup Permutations(Transactions)
=============================================================================
