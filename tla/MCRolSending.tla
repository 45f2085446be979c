---------------------------- MODULE MCRolSending ----------------------------
(***************************************************************************)
(* Small instances of RolSending for TLC.                                  *)
(***************************************************************************)
EXTENDS RolSending, TLC

Breakdowns == {"crash", "lost"}
Everything == FaultKinds

\* Dialogs are alike, and so are lists: sound where no liveness is checked.
Symmetry == Permutations(Dialogs) \cup Permutations(Lists)
=============================================================================
