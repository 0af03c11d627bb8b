------------------------- MODULE MCExecutionLedger -------------------------
(* Instances of ExecutionLedger for TLC. *)
EXTENDS ExecutionLedger, TLC

CONSTANTS c1, c2, p1, p2, p3

\* Two Approvals that name the same call without idempotency, for which the
\* model asked again, next to a call that may be retried.
MCRivalCallOf == p1 :> c1 @@ p2 :> c2 @@ p3 :> c2
MCRivalMode == c1 :> "INHERENT" @@ c2 :> "NONE"

\* One call, with a key.
MCKey == c1 :> "EXTERNAL_KEY"

MCOneCallOf == p1 :> c1

Symmetry == Permutations(Actors)
=============================================================================
