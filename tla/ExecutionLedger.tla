--------------------------- MODULE ExecutionLedger ---------------------------
(***************************************************************************)
(* The durable ledger of protected Tool executions and the two services    *)
(* that drive it: ApprovedToolExecutionService.execute and                 *)
(* ExecutionRecoveryService.recover.                                       *)
(*                                                                         *)
(* A call is a pair (task_id, tool_call_id), the UNIQUE key of the table.  *)
(* An actor is a thread of some process that serves one request at a time. *)
(* Each action is one transaction, one clock reading or one crossing of    *)
(* the Tool boundary, so that every interleaving the code allows between   *)
(* its transactions is a behaviour.                                        *)
(***************************************************************************)
EXTENDS Integers, Sequences

CONSTANTS
    Calls,       \* protected Tool calls
    Approvals,   \* persisted Approval rows
    Actors,      \* request threads
    CallOf,      \* the call, Tool and arguments each Approval names
    Mode,        \* IdempotencyMode declared by the Tool of each call
    StaleAfter,  \* recovery_stale_after_seconds, in clock ticks
    Skew,        \* how far a host's clock may lag the most advanced one
    MaxClock,    \* bound on the clock, for TLC
    NoCall, NoApproval

IdempotencyMode == {"NONE", "EXTERNAL_KEY", "INHERENT"}

ASSUME ConstantsAssumption ==
    /\ CallOf \in [Approvals -> Calls]
    /\ Mode \in [Calls -> IdempotencyMode]
    /\ StaleAfter \in Nat \ {0}
    /\ Skew \in Nat
    /\ MaxClock \in Nat
    /\ NoCall \notin Calls
    /\ NoApproval \notin Approvals

VARIABLES
    approval,  \* Approval -> its persisted status
    ledger,    \* call -> its ToolExecution row
    actor,     \* actor -> program counter and local variables
    clock,     \* the most advanced wall clock of the hosts
    journal    \* history: call -> its committed claims, in order

vars == <<approval, ledger, actor, clock, journal>>

-----------------------------------------------------------------------------
ApprovalStatus == {"PENDING", "APPROVED", "REJECTED"}

\* "ABSENT" stands for a row that has not been inserted.
ExecutionStatus == {"ABSENT", "EXECUTING", "SUCCEEDED", "FAILED", "UNKNOWN"}

\* result is the journal index of the attempt whose content is stored, 0 for
\* a NULL result_content.
Row == [status : ExecutionStatus, appr : Approvals \cup {NoApproval},
        updated : Nat, result : Nat]

NoRow == [status |-> "ABSENT", appr |-> NoApproval, updated |-> 0, result |-> 0]

\* What the Tool said of an attempt: nothing yet, a result, explicit failure
\* without effect, or any other exception.
Answer == {"none", "ok", "noeffect", "unknown"}

Attempt == [appr : Approvals, answer : Answer, effect : BOOLEAN]

Outcome == {"none", "Result", "Unauthorized", "Error", "ReplayBlocked",
            "OutcomeUnknown", "IdentityConflict", "FailedWithoutEffect",
            "PersistenceConflict", "PersistenceUncertain"}

PC == {"idle", "candidate", "absent", "recovering", "stale", "won",
       "effected", "answered", "done"}

ActorState ==
    [pc : PC, call : Calls \cup {NoCall}, appr : Approvals \cup {NoApproval},
     stamp : Nat,        \* updated_at of the candidate, then of the held claim
     cutoff : Int,       \* stale_before
     seen : ExecutionStatus,  \* status of the row snapshot recovery claims from
     attempt : Nat,      \* journal index of the held claim
     answer : Answer, outcome : Outcome, result : Nat]

NoRequest ==
    [pc |-> "idle", call |-> NoCall, appr |-> NoApproval, stamp |-> 0,
     cutoff |-> 0, seen |-> "ABSENT", attempt |-> 0, answer |-> "none",
     outcome |-> "none", result |-> 0]

Later(s, t) == IF s >= t THEN s ELSE t

\* The readings of datetime.now(timezone.utc) an actor may get.
Now == Later(clock - Skew, 0) .. clock

\* Mutant: the status of the persisted Approval is not compared.
AuthorizesUndecided(p, c) == CallOf[p] = c

\* The comparison of a persisted Approval with the requested continuation.
Authorizes(p, c) == approval[p] = "APPROVED" /\ CallOf[p] = c

-----------------------------------------------------------------------------
Init ==
    /\ approval = [p \in Approvals |-> "PENDING"]
    /\ ledger = [c \in Calls |-> NoRow]
    /\ actor = [a \in Actors |-> NoRequest]
    /\ clock = 0
    /\ journal = [c \in Calls |-> <<>>]

Tick ==
    /\ clock < MaxClock
    /\ clock' = clock + 1
    /\ UNCHANGED <<approval, ledger, actor, journal>>

\* The human decision, taken by the approval service.
Decide(p) ==
    /\ approval[p] = "PENDING"
    /\ \E status \in {"APPROVED", "REJECTED"} :
         approval' = [approval EXCEPT ![p] = status]
    /\ UNCHANGED <<ledger, actor, clock, journal>>

\* An authorized request enters its first step with these locals.
Started(pc, c, p, stamp, cutoff) ==
    [NoRequest EXCEPT !.pc = pc, !.call = c, !.appr = p,
                      !.stamp = stamp, !.cutoff = cutoff]

\* A request that returned or raised; its other locals are dropped.
Ended(c, outcome, result) ==
    [NoRequest EXCEPT !.pc = "done", !.call = c,
                      !.outcome = outcome, !.result = result]

End(a, outcome, result) ==
    actor' = [actor EXCEPT ![a] = Ended(actor[a].call, outcome, result)]

Refuse(a, c, outcome) == actor' = [actor EXCEPT ![a] = Ended(c, outcome, 0)]

\* _replay: only the identical context sees the stored outcome.
ReplayOutcome(row, p) ==
    IF row.appr # p THEN "IdentityConflict"
    ELSE IF row.status = "SUCCEEDED" THEN "Result"
    ELSE IF row.status = "UNKNOWN" THEN "OutcomeUnknown"
    ELSE "ReplayBlocked"

Replay(a) ==
    LET row == ledger[actor[a].call]
        outcome == ReplayOutcome(row, actor[a].appr)
    IN  End(a, outcome, IF outcome = "Result" THEN row.result ELSE 0)

-----------------------------------------------------------------------------
(***************************************************************************)
(* ApprovedToolExecutionService.execute                                    *)
(***************************************************************************)

\* The candidate's timestamp is taken here, before the row is looked up.
StartExecute(a, p, c) ==
    /\ actor[a].pc = "idle"
    /\ IF Authorizes(p, c)
         THEN \E now \in Now :
                actor' = [actor EXCEPT ![a] = Started("candidate", c, p, now, 0)]
         ELSE Refuse(a, c, "Unauthorized")
    /\ UNCHANGED <<approval, ledger, clock, journal>>

ReadRow(a) ==
    /\ actor[a].pc = "candidate"
    /\ IF ledger[actor[a].call].status = "ABSENT"
         THEN actor' = [actor EXCEPT ![a].pc = "absent"]
         ELSE Replay(a)
    /\ UNCHANGED <<approval, ledger, clock, journal>>

\* An unregistered Tool or an invalid input is refused before any claim.
RefuseInput(a) ==
    /\ actor[a].pc = "absent"
    /\ End(a, "Error", 0)
    /\ UNCHANGED <<approval, ledger, clock, journal>>

\* The row the winner of a claim commits, and the history entry it opens.
CommitClaim(c, p, t) ==
    /\ ledger' = [ledger EXCEPT ![c] = [status |-> "EXECUTING", appr |-> p,
                                        updated |-> t, result |-> 0]]
    /\ journal' = [journal EXCEPT ![c] = Append(@,
                      [appr |-> p, answer |-> "none", effect |-> FALSE])]

Holder(state, t, n) ==
    [state EXCEPT !.pc = "won", !.stamp = t, !.attempt = n]

HoldClaim(a, c, t) ==
    actor' = [actor EXCEPT ![a] = Holder(@, t, Len(journal[c]) + 1)]

\* INSERT ... ON CONFLICT DO NOTHING: exactly one committed insertion wins.
\* A commit whose acknowledgement is lost leaves the row behind.
Claim(a) ==
    LET c == actor[a].call IN
    /\ actor[a].pc = "absent"
    /\ IF ledger[c].status = "ABSENT"
         THEN /\ CommitClaim(c, actor[a].appr, actor[a].stamp)
              /\ \/ HoldClaim(a, c, actor[a].stamp)
                 \/ End(a, "PersistenceUncertain", 0)
         ELSE Replay(a) /\ UNCHANGED <<ledger, journal>>
    /\ UNCHANGED <<approval, clock>>

\* The claim transaction rolls back, before or at its commit.
ClaimRollsBack(a) ==
    /\ actor[a].pc = "absent"
    /\ \E outcome \in {"Error", "PersistenceUncertain"} : End(a, outcome, 0)
    /\ UNCHANGED <<approval, ledger, clock, journal>>

-----------------------------------------------------------------------------
(***************************************************************************)
(* ExecutionRecoveryService.recover                                        *)
(***************************************************************************)

\* The caller computed stale_before from its own clock before the call.
StartRecover(a, p, c) ==
    /\ actor[a].pc = "idle"
    /\ IF Authorizes(p, c)
         THEN \E now \in Now :
                actor' = [actor EXCEPT ![a] =
                            Started("recovering", c, p, 0, now - StaleAfter)]
         ELSE Refuse(a, c, "Unauthorized")
    /\ UNCHANGED <<approval, ledger, clock, journal>>

\* Mutant: recovery does not look at the declared idempotency.
RecoverableAnyMode(c) == Mode[c] \in IdempotencyMode

Recoverable(c) == Mode[c] \in {"EXTERNAL_KEY", "INHERENT"}

\* The snapshot a recovery claims from.
Snapshot(state, row) ==
    [state EXCEPT !.pc = "stale", !.seen = row.status, !.stamp = row.updated]

\* The row snapshot decides: hand a durable result to execute, refuse, or go
\* on to claim from the snapshot.  FAILED is refused by claim_recovery.
ReadForRecovery(a) ==
    LET c == actor[a].call
        row == ledger[c]
    IN
    /\ actor[a].pc = "recovering"
    /\ CASE row.status = "ABSENT" -> End(a, "ReplayBlocked", 0)
         [] row.status # "ABSENT" /\ row.appr # actor[a].appr ->
              End(a, "IdentityConflict", 0)
         [] row.appr = actor[a].appr /\ row.status = "SUCCEEDED" ->
              \E now \in Now :
                actor' = [actor EXCEPT ![a].pc = "candidate", ![a].stamp = now]
         [] OTHER ->
              IF /\ row.updated <= actor[a].cutoff
                 /\ Recoverable(c)
                 /\ row.status \in {"EXECUTING", "UNKNOWN"}
              THEN actor' = [actor EXCEPT ![a] = Snapshot(@, row)]
              ELSE End(a, "ReplayBlocked", 0)
    /\ UNCHANGED <<approval, ledger, clock, journal>>

\* Mutant: only the status of the snapshot is compared.
SameStatusOnly(row, a) == row.status = actor[a].seen

SameSnapshot(row, a) ==
    /\ row.status = actor[a].seen
    /\ row.updated = actor[a].stamp
    /\ row.updated <= actor[a].cutoff

\* Mutant: the recovery claim is stamped with the bare clock reading.
RecoveryStampUnfenced(now, expected) == now

RecoveryStamp(now, expected) == Later(now, expected + 1)

\* UPDATE ... WHERE status, updated_at = snapshot AND updated_at <= cutoff.
ClaimRecovery(a) ==
    LET c == actor[a].call IN
    /\ actor[a].pc = "stale"
    /\ IF SameSnapshot(ledger[c], a)
         THEN \E now \in Now :
                LET t == RecoveryStamp(now, actor[a].stamp) IN
                /\ CommitClaim(c, actor[a].appr, t)
                /\ \/ HoldClaim(a, c, t)
                   \/ End(a, "PersistenceUncertain", 0)
         ELSE End(a, "ReplayBlocked", 0) /\ UNCHANGED <<ledger, journal>>
    /\ UNCHANGED <<approval, clock>>

ClaimRecoveryRollsBack(a) ==
    /\ actor[a].pc = "stale"
    /\ \E outcome \in {"Error", "PersistenceUncertain"} : End(a, outcome, 0)
    /\ UNCHANGED <<approval, ledger, clock, journal>>

-----------------------------------------------------------------------------
(***************************************************************************)
(* _execute_claimed: the Tool boundary and the fenced result write.        *)
(***************************************************************************)

\* The external system performs the operation; nothing local changes yet.
Effect(a) ==
    LET c == actor[a].call IN
    /\ actor[a].pc = "won"
    /\ actor' = [actor EXCEPT ![a].pc = "effected"]
    /\ journal' = [journal EXCEPT ![c][actor[a].attempt].effect = TRUE]
    /\ UNCHANGED <<approval, ledger, clock>>

\* A Tool that performed its operation returns a result or raises; one that
\* did not says so (the Tool's contract) or raises anything else.
Respond(a) ==
    LET c == actor[a].call IN
    /\ actor[a].pc \in {"won", "effected"}
    /\ \E said \in IF actor[a].pc = "effected" THEN {"ok", "unknown"}
                                               ELSE {"noeffect", "unknown"} :
         /\ actor' = [actor EXCEPT ![a].pc = "answered", ![a].answer = said]
         /\ journal' = [journal EXCEPT ![c][actor[a].attempt].answer = said]
    /\ UNCHANGED <<approval, ledger, clock>>

\* Mutant: a failure of unknown effect is recorded as FAILED.
TerminalStatusHidesUnknown(said) == IF said = "ok" THEN "SUCCEEDED" ELSE "FAILED"

TerminalStatus(said) ==
    CASE said = "ok"       -> "SUCCEEDED"
      [] said = "noeffect" -> "FAILED"
      [] OTHER             -> "UNKNOWN"

\* Mutant: a result that could not be persisted is returned all the same.
FinishOutcomeOptimistic(said, ifOk) ==
    IF said = "ok" THEN "Result" ELSE "OutcomeUnknown"

\* The original exception wins over a failure to persist it.
FinishOutcome(said, ifOk) ==
    CASE said = "ok"       -> ifOk
      [] said = "noeffect" -> "FailedWithoutEffect"
      [] OTHER             -> "OutcomeUnknown"

\* finish keeps the identity of the row and writes the rest.
Written(row, status, updated, result) ==
    [row EXCEPT !.status = status, !.updated = updated, !.result = result]

\* Mutant: the result write is not fenced by the claim's timestamp.
StillHeldUnfenced(row, a) == row.status = "EXECUTING"

StillHeld(row, a) ==
    row.status = "EXECUTING" /\ row.updated = actor[a].stamp

\* UPDATE ... WHERE status = EXECUTING AND updated_at = the claim's.
Finish(a) ==
    LET c == actor[a].call
        said == actor[a].answer
        result == IF said = "ok" THEN actor[a].attempt ELSE 0
    IN
    /\ actor[a].pc = "answered"
    /\ IF StillHeld(ledger[c], a)
         THEN /\ \E now \in Now :
                   ledger' = [ledger EXCEPT ![c] = Written(@, TerminalStatus(said),
                                Later(actor[a].stamp, now), result)]
              /\ \/ End(a, FinishOutcome(said, "Result"), result)
                 \/ End(a, FinishOutcome(said, "PersistenceUncertain"), 0)
         ELSE /\ End(a, FinishOutcome(said, "PersistenceConflict"), 0)
              /\ UNCHANGED ledger
    /\ UNCHANGED <<approval, clock, journal>>

FinishRollsBack(a) ==
    /\ actor[a].pc = "answered"
    /\ End(a, FinishOutcome(actor[a].answer, "PersistenceUncertain"), 0)
    /\ UNCHANGED <<approval, ledger, clock, journal>>

-----------------------------------------------------------------------------
\* The process dies, at any point; only the database survives.
Crash(a) ==
    /\ actor[a].pc \notin {"idle", "done"}
    /\ actor' = [actor EXCEPT ![a] = NoRequest]
    /\ UNCHANGED <<approval, ledger, clock, journal>>

NextRequest(a) ==
    /\ actor[a].pc = "done"
    /\ actor' = [actor EXCEPT ![a] = NoRequest]
    /\ UNCHANGED <<approval, ledger, clock, journal>>

Execute(a) ==
    \/ \E p \in Approvals, c \in Calls : StartExecute(a, p, c)
    \/ ReadRow(a)
    \/ RefuseInput(a)
    \/ Claim(a)
    \/ ClaimRollsBack(a)

Recover(a) ==
    \/ \E p \in Approvals, c \in Calls : StartRecover(a, p, c)
    \/ ReadForRecovery(a)
    \/ ClaimRecovery(a)
    \/ ClaimRecoveryRollsBack(a)

ExecuteClaimed(a) ==
    Effect(a) \/ Respond(a) \/ Finish(a) \/ FinishRollsBack(a)

Next ==
    \/ Tick
    \/ \E p \in Approvals : Decide(p)
    \/ \E a \in Actors :
         Execute(a) \/ Recover(a) \/ ExecuteClaimed(a) \/ Crash(a) \/ NextRequest(a)

Spec == Init /\ [][Next]_vars

-----------------------------------------------------------------------------
(***************************************************************************)
(* Properties                                                              *)
(***************************************************************************)

\* Types of the rows, the actors' locals and the history.
TypeOK ==
    /\ approval \in [Approvals -> ApprovalStatus]
    /\ ledger \in [Calls -> Row]
    /\ actor \in [Actors -> ActorState]
    /\ clock \in Nat
    /\ journal \in [Calls -> Seq(Attempt)]

\* A Tool that declares no idempotency is entered at most once per call,
\* whatever crashes, replays and recoveries happen: its single committed
\* claim is never renewed (ON CONFLICT DO NOTHING, and recover's mode test).
NoneAtMostOnce ==
    \A c \in Calls : Mode[c] = "NONE" => Len(journal[c]) <= 1

\* Every attempt at a call, first or recovered, is made under the one
\* Approval its row records, and that Approval is APPROVED for this call:
\* a second Approval naming the same tool_call_id never runs the Tool.
OneApprovalPerCall ==
    \A c \in Calls : \A i \in DOMAIN journal[c] :
        /\ journal[c][i].appr = ledger[c].appr
        /\ approval[ledger[c].appr] = "APPROVED"
        /\ CallOf[ledger[c].appr] = c

\* A terminal row says what the Tool answered to the latest claim, never to
\* an earlier one: a superseded actor cannot record its late answer.
RowTellsLatestAttempt ==
    \A c \in Calls :
        LET row == ledger[c]
            latest == Len(journal[c])
        IN  row.status \in {"SUCCEEDED", "FAILED", "UNKNOWN"} =>
              /\ latest > 0
              /\ row.status = TerminalStatus(journal[c][latest].answer)
              /\ journal[c][latest].answer # "none"
              /\ row.status = "SUCCEEDED" => row.result = latest

Holding(a) == actor[a].pc \in {"won", "effected", "answered"}

\* The claim timestamp identifies its holder: two live actors between claim
\* and result write of one call never carry the same fencing value.
DistinctClaims ==
    \A a, b \in Actors :
        /\ a # b
        /\ Holding(a)
        /\ Holding(b)
        /\ actor[a].call = actor[b].call
        => actor[a].stamp # actor[b].stamp

\* A result given to a caller is the durable one, so every caller that gets
\* a result of a call gets the same result (execute, replay and recovery).
ReturnedResultIsDurable ==
    \A a \in Actors :
        actor[a].outcome = "Result" =>
            /\ ledger[actor[a].call].status = "SUCCEEDED"
            /\ ledger[actor[a].call].result = actor[a].result

\* For a Tool without idempotency FAILED does mean that nothing happened.
NoneFailedMeansNoEffect ==
    \A c \in Calls :
        Mode[c] = "NONE" /\ ledger[c].status = "FAILED" =>
            \A i \in DOMAIN journal[c] : ~journal[c][i].effect

\* docs/DECISIONS.md, ADR-007: FAILED means explicit known no-effect failure.
FailedMeansNoEffect ==
    \A c \in Calls :
        ledger[c].status = "FAILED" =>
            \A i \in DOMAIN journal[c] : ~journal[c][i].effect

\* SUCCEEDED and FAILED rows never change again, whoever still holds an old
\* claim or an old snapshot of the row.
TerminalRowsAreFinal ==
    [][\A c \in Calls :
         ledger[c].status \in {"SUCCEEDED", "FAILED"} => ledger'[c] = ledger[c]]_vars

\* A claim over an existing row is a takeover: it is taken only from a row
\* nobody has written for StaleAfter, and it moves the fencing timestamp
\* strictly forward even when the claimant's clock lags.
TakeoverIsStaleAndFences ==
    [][\A c \in Calls :
         Len(journal'[c]) > Len(journal[c]) /\ ledger[c].status # "ABSENT" =>
            /\ ledger[c].updated + StaleAfter <= clock
            /\ ledger'[c].updated > ledger[c].updated]_vars

\* A reader of the database sees the Approvals and, of a row, its status, the
\* Approval and the claim its result came from.
Durable == INSTANCE DurableExecution WITH
    Retryable <- {c \in Calls : Recoverable(c)},
    decision <- approval,
    record <- [c \in Calls |-> [status |-> ledger[c].status, appr |-> ledger[c].appr,
                                claims |-> Len(journal[c]), tells |-> ledger[c].result]]

\* Whatever requests race, recover, lose acknowledgements or crash, the rows
\* live as DurableExecution says: a late answer to a superseded claim, a
\* second claim of a call that may not be repeated and a claim under another
\* Approval are not steps of it.
ImplementsDurableExecution == Durable!Spec

-----------------------------------------------------------------------------
(***************************************************************************)
(* The inductive invariant behind the safety properties.                   *)
(***************************************************************************)

\* A row exists exactly when a claim was committed, its attempts share its
\* Approval, and an attempt the Tool called effect-free had no effect.
RowInv(c) ==
    LET row == ledger[c]
        latest == Len(journal[c])
    IN
    /\ row.status = "ABSENT" <=> latest = 0
    /\ Mode[c] = "NONE" => latest <= 1
    /\ row.status # "ABSENT" =>
         /\ row.appr \in Approvals
         /\ approval[row.appr] = "APPROVED"
         /\ CallOf[row.appr] = c
    /\ \A i \in 1 .. latest :
         /\ journal[c][i].appr = row.appr
         /\ journal[c][i].effect => journal[c][i].answer # "noeffect"
    /\ row.status \in {"SUCCEEDED", "FAILED", "UNKNOWN"} =>
         /\ row.status = TerminalStatus(journal[c][latest].answer)
         /\ journal[c][latest].answer # "none"
         /\ row.status = "SUCCEEDED" => row.result = latest

\* A request in progress is authorized.
RequestInv(a) ==
    actor[a].pc \notin {"idle", "done"} =>
        /\ actor[a].call \in Calls
        /\ actor[a].appr \in Approvals
        /\ approval[actor[a].appr] = "APPROVED"
        /\ CallOf[actor[a].appr] = actor[a].call

\* A recovery about to claim read a recoverable row of the same Approval.
SnapshotInv(a) ==
    actor[a].pc = "stale" =>
        /\ Recoverable(actor[a].call)
        /\ actor[a].seen \in {"EXECUTING", "UNKNOWN"}
        /\ ledger[actor[a].call].status # "ABSENT"
        /\ ledger[actor[a].call].appr = actor[a].appr

\* Past its claim an actor either holds the row's current claim, and then
\* the row is still EXECUTING, or was superseded by a later timestamp.
HolderInv(a) ==
    LET c == actor[a].call
        n == actor[a].attempt
    IN
    Holding(a) =>
        /\ n \in 1 .. Len(journal[c])
        /\ IF n = Len(journal[c])
             THEN ledger[c].status = "EXECUTING" /\ ledger[c].updated = actor[a].stamp
             ELSE actor[a].stamp < ledger[c].updated
        /\ actor[a].pc \in {"won", "effected"} => journal[c][n].answer = "none"
        /\ actor[a].pc = "won" => ~journal[c][n].effect
        /\ actor[a].pc = "answered" =>
             actor[a].answer # "none" /\ journal[c][n].answer = actor[a].answer

\* Two holders of one call hold different claims.
SeparateHolders ==
    \A a, b \in Actors :
        /\ a # b
        /\ Holding(a)
        /\ Holding(b)
        /\ actor[a].call = actor[b].call
        => /\ actor[a].attempt # actor[b].attempt
           /\ actor[a].stamp # actor[b].stamp

ResultInv(a) ==
    /\ actor[a].outcome = "Result" =>
         /\ actor[a].call \in Calls
         /\ ledger[actor[a].call].status = "SUCCEEDED"
         /\ ledger[actor[a].call].result = actor[a].result
    /\ actor[a].pc # "done" => actor[a].outcome = "none"

IInv ==
    /\ TypeOK
    /\ \A c \in Calls : RowInv(c)
    /\ \A a \in Actors :
         RequestInv(a) /\ SnapshotInv(a) /\ HolderInv(a) /\ ResultInv(a)
    /\ SeparateHolders

\* stale_before lies at least StaleAfter behind the clock.
CutoffInv ==
    \A a \in Actors :
        actor[a].pc \in {"recovering", "stale"} => actor[a].cutoff + StaleAfter <= clock

=============================================================================
