-------------------------- MODULE ExclusiveSection --------------------------
(***************************************************************************)
(* What a lock promises to those who work under it: at most one is inside  *)
(* at a time, and they come and go one by one.                             *)
(***************************************************************************)
CONSTANT Jobs      \* those who may enter

VARIABLE inside    \* those inside

Init == inside = {}

Enter(j) == inside = {} /\ inside' = {j}

Leave(j) == j \in inside /\ inside' = inside \ {j}

Next == \E j \in Jobs : Enter(j) \/ Leave(j)

Spec == Init /\ [][Next]_inside
=============================================================================
