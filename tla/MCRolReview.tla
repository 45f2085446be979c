----------------------------- MODULE MCRolReview -----------------------------
(***************************************************************************)
(* A bounded instance: some clients keep their monthly reports, and scans  *)
(* overlap only while everybody is active and every invoice matches all    *)
(* clients, though one of them may have begun before.  What OncePerProgram *)
(* and OneClientPerFs exempt is not followed any further.                  *)
(***************************************************************************)
EXTENDS RolReview, TLC

CONSTANT Monthly

Bounded ==
  /\ \A p \in Monthly : frequency[p] = "month" /\ p \in active
  /\ (\E s, t \in Scans : s # t /\ todo[s] # {} /\ todo[t] # {}) =>
       active = Programs /\ \A f \in Fs : matches[f] = Programs
  /\ crossed = {} /\ blind = {}

Symmetry == Permutations(Scans)
=============================================================================
