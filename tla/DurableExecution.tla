--------------------------- MODULE DurableExecution ---------------------------
(***************************************************************************)
(* What the ledger of protected Tool executions promises to whoever reads  *)
(* its rows: a call is claimed under one granted Approval, each claim ends *)
(* at most once and with what the Tool said to that claim, and only a call *)
(* whose Tool declares idempotency is claimed again.  Requests, snapshots, *)
(* fencing timestamps and crashes are the business of the implementation,  *)
(* ExecutionLedger.                                                        *)
(***************************************************************************)
EXTENDS Naturals

CONSTANTS
    Calls,
    Approvals,
    CallOf,       \* the call each Approval names
    Retryable,    \* the calls whose Tool declares an idempotent effect
    NoApproval

VARIABLES
    decision,  \* Approval -> its status
    record     \* call -> its status, its Approval, its claims, the claim it tells of

durableVars == <<decision, record>>

Init ==
    /\ decision = [p \in Approvals |-> "PENDING"]
    /\ record = [c \in Calls |->
                   [status |-> "ABSENT", appr |-> NoApproval, claims |-> 0, tells |-> 0]]

Decide(p) ==
    /\ decision[p] = "PENDING"
    /\ \E status \in {"APPROVED", "REJECTED"} :
         decision' = [decision EXCEPT ![p] = status]
    /\ UNCHANGED record

\* The call is handed to its Tool under Approval p.
Hand(c, p) ==
    /\ record' = [record EXCEPT ![c] = [status |-> "EXECUTING", appr |-> p,
                                        claims |-> @.claims + 1, tells |-> 0]]
    /\ UNCHANGED decision

Claim(c, p) ==
    /\ record[c].status = "ABSENT"
    /\ decision[p] = "APPROVED"
    /\ CallOf[p] = c
    /\ Hand(c, p)

\* Nobody reports on the last claim, or nobody knows what it did.
ClaimAgain(c) ==
    /\ record[c].status \in {"EXECUTING", "UNKNOWN"}
    /\ c \in Retryable
    /\ Hand(c, record[c].appr)

\* The latest claim, and no other, ends.
Tell(c, status) ==
    /\ record[c].status = "EXECUTING"
    /\ record' = [record EXCEPT ![c] =
                    [status |-> status, appr |-> @.appr, claims |-> @.claims,
                     tells |-> IF status = "SUCCEEDED" THEN @.claims ELSE 0]]
    /\ UNCHANGED decision

Next ==
    \/ \E p \in Approvals : Decide(p)
    \/ \E c \in Calls, p \in Approvals : Claim(c, p)
    \/ \E c \in Calls : ClaimAgain(c)
    \/ \E c \in Calls, status \in {"SUCCEEDED", "FAILED", "UNKNOWN"} : Tell(c, status)

Spec == Init /\ [][Next]_durableVars

=============================================================================
