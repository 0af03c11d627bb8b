-------------------------- MODULE MCTaskLifecycle --------------------------
(* Instances of TaskLifecycle for TLC. *)
EXTENDS TaskLifecycle, TLC

Symmetry == Permutations(Actors) \cup Permutations(Approvals)
=============================================================================
