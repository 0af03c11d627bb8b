------------------------------ MODULE MCTaskFlow ------------------------------
(* Instances of TaskFlow for TLC. *)
EXTENDS TaskFlow, TLC

CONSTANTS keyed, once

\* A call that may be retried, and one that may not.
MCMode == keyed :> "EXTERNAL_KEY" @@ once :> "NONE"
MCKeyed == keyed :> "EXTERNAL_KEY"

\* No definition tells one request or one Approval from another.
Symmetry == Permutations(Threads) \cup Permutations(Approvals)
=============================================================================
