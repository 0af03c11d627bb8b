----------------------------- MODULE TaskContract -----------------------------
(***************************************************************************)
(* What a Task promises to whoever watches its status and its Approvals:   *)
(* the transitions of the domain models, each taken at once.  Threads,     *)
(* checkpoints, clocks, lost acknowledgements and crashes are the business *)
(* of the implementation, TaskLifecycle.                                   *)
(***************************************************************************)

CONSTANT Approvals

VARIABLES
    status,   \* of the Task, "ABSENT" before it exists
    question  \* Approval -> "UNASKED" or its status

contractVars == <<status, question>>

Init ==
    /\ status = "ABSENT"
    /\ question = [p \in Approvals |-> "UNASKED"]

Move(from, to) == status \in from /\ status' = to

Create == Move({"ABSENT"}, "PENDING") /\ UNCHANGED question

Start == Move({"PENDING"}, "RUNNING") /\ UNCHANGED question

\* A pause opens one question, and the Task waits from then on.
Ask(p) ==
    /\ question[p] = "UNASKED"
    /\ Move({"RUNNING"}, "WAITING_APPROVAL")
    /\ question' = [question EXCEPT ![p] = "PENDING"]

\* A decision answers an open question of a waiting Task, and moves the Task.
Approve(p) ==
    /\ question[p] = "PENDING"
    /\ Move({"WAITING_APPROVAL"}, "RUNNING")
    /\ question' = [question EXCEPT ![p] = "APPROVED"]

Reject(p) ==
    /\ question[p] = "PENDING"
    /\ Move({"WAITING_APPROVAL"}, "REJECTED")
    /\ question' = [question EXCEPT ![p] = "REJECTED"]

Succeed == Move({"RUNNING"}, "SUCCEEDED") /\ UNCHANGED question

Fail == Move({"RUNNING"}, "FAILED") /\ UNCHANGED question

RequireRecovery ==
    Move({"RUNNING", "WAITING_APPROVAL"}, "RECOVERY_REQUIRED") /\ UNCHANGED question

\* A claim of a RUNNING Task changes its generation only.
ClaimRecovery == Move({"RECOVERY_REQUIRED"}, "RUNNING") /\ UNCHANGED question

Next ==
    \/ Create \/ Start \/ Succeed \/ Fail \/ RequireRecovery \/ ClaimRecovery
    \/ \E p \in Approvals : Ask(p) \/ Approve(p) \/ Reject(p)

Spec == Init /\ [][Next]_contractVars

=============================================================================
