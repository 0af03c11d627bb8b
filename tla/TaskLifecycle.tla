---------------------------- MODULE TaskLifecycle ----------------------------
(***************************************************************************)
(* The durable life of one Task: its row, the Approvals it asks for, the   *)
(* checkpoint of its workflow, and the requests that act on them: execute  *)
(* and its continuation, the human decision and the resume it dispatches,  *)
(* and operator recovery.  Tasks share no row, so one Task is the whole    *)
(* story.                                                                  *)
(*                                                                         *)
(* A transaction, a read, and a graph node up to its checkpoint are one    *)
(* action each.  What the ledger does is in ExecutionLedger; here its      *)
(* outcome and the age and status of its rows are any the code tells apart.*)
(***************************************************************************)
EXTENDS Integers, FiniteSets

CONSTANTS
    Actors,          \* request threads, of any process
    Approvals,       \* Approval ids that may be drawn
    StaleAfter,      \* recovery_stale_after_seconds, in clock ticks
    Skew,            \* lag of a reading: other hosts' clocks, slow commits
    MaxClock,        \* bound on the clock, for TLC
    MaxCheckpoints,  \* bound on checkpoint writes, for TLC
    NoApproval

ASSUME ConstantsAssumption ==
    /\ StaleAfter \in Nat \ {0}
    /\ Skew \in Nat
    /\ MaxClock \in Nat
    /\ MaxCheckpoints \in Nat
    /\ NoApproval \notin Approvals

VARIABLES
    task,        \* the row of the Task: status and updated_at
    approval,    \* Approval id -> its status
    checkpoint,  \* the latest checkpoint of the Task's workflow thread
    actor,       \* request -> where it is and what it read
    clock        \* the most advanced wall clock of the hosts

vars == <<task, approval, checkpoint, actor, clock>>

-----------------------------------------------------------------------------
\* "ABSENT" stands for a Task that has not been inserted.
TaskStatus == {"ABSENT", "PENDING", "RUNNING", "WAITING_APPROVAL", "SUCCEEDED",
               "FAILED", "REJECTED", "RECOVERY_REQUIRED"}

TaskRow == [status : TaskStatus, updated : Nat]

NoTask == [status |-> "ABSENT", updated |-> 0]

Row(status, t) == [status |-> status, updated |-> t]

\* "FREE" is an id not drawn yet, "DRAFT" an Approval that only a checkpoint
\* or a thread knows; the rest are persisted.
ApprovalStatus == {"FREE", "DRAFT", "PENDING", "APPROVED", "REJECTED"}

\* next is the node the thread would run, pending and resumed what the state
\* says of pending_approval and resume_approval_id, id the checkpoint_id.
Checkpoint == [next : {"none", "llm", "tool", "approval_pause", "end"},
               pending : Approvals \cup {NoApproval}, resumed : BOOLEAN, id : Nat]

NoCheckpoint == [next |-> "none", pending |-> NoApproval, resumed |-> FALSE, id |-> 0]

PC == {"idle", "created", "begin", "node", "pausing", "failing", "reviewing",
       "deciding", "resuming", "resume", "approved", "retool",
       "assessing", "weighing", "reconciling", "claimed"}

ActorState ==
    [pc : PC,
     task : TaskRow,        \* the row it expects to own, or its snapshot
     goal : TaskRow,        \* the candidate it is about to write
     graph : Checkpoint,    \* the workflow state it runs from or read
     appr : Approvals \cup {NoApproval}]  \* the Approval it decides or resumes

Idle == [pc |-> "idle", task |-> NoTask, goal |-> NoTask,
         graph |-> NoCheckpoint, appr |-> NoApproval]

Later(s, t) == IF s >= t THEN s ELSE t

\* The readings of utc_now() a request may stamp a write with.
Now == Later(clock - Skew, 0) .. clock

\* _transition_timestamp refuses a reading before updated_at.
NowSince(t) == {now \in Now : now >= t}

\* Inside the invocation that continue_running supervises.
InWorkflow(a) == actor[a].pc \in {"begin", "node", "resume", "approved", "retool"}

-----------------------------------------------------------------------------
Init ==
    /\ task = NoTask
    /\ approval = [p \in Approvals |-> "FREE"]
    /\ checkpoint = NoCheckpoint
    /\ actor = [a \in Actors |-> Idle]
    /\ clock = 0

Tick ==
    /\ clock < MaxClock
    /\ clock' = clock + 1
    /\ UNCHANGED <<task, approval, checkpoint, actor>>

Goto(a, pc) == actor' = [actor EXCEPT ![a].pc = pc]

\* The request returns or raises to its caller.
End(a) == actor' = [actor EXCEPT ![a] = Idle]

\* The process dies, or the request raises without having written anything:
\* a transaction rolled back, a clock behind updated_at.
Abandon(a) ==
    /\ actor[a].pc # "idle"
    /\ End(a)
    /\ UNCHANGED <<task, approval, checkpoint, clock>>

-----------------------------------------------------------------------------
(***************************************************************************)
(* TaskExecutionService.execute and continue_running.                      *)
(***************************************************************************)

\* The PENDING row is committed first; its acknowledgement may be lost.
Create(a) ==
    /\ actor[a].pc = "idle"
    /\ task.status = "ABSENT"
    /\ \E now \in Now :
         /\ task' = Row("PENDING", now)
         /\ \/ actor' = [actor EXCEPT ![a].pc = "created", ![a].task = task']
            \/ End(a)
    /\ UNCHANGED <<approval, checkpoint, clock>>

\* save overwrites the row whatever it holds.
Start(a) ==
    /\ actor[a].pc = "created"
    /\ \E now \in NowSince(actor[a].task.updated) :
         /\ task' = Row("RUNNING", now)
         /\ \/ actor' = [actor EXCEPT ![a].pc = "begin", ![a].task = task']
            \/ End(a)
    /\ UNCHANGED <<approval, checkpoint, clock>>

\* A node's output becomes the latest checkpoint before the next node runs.
WriteCheckpoint(a, next, pending, resumed) ==
    /\ checkpoint.id < MaxCheckpoints
    /\ checkpoint' = [next |-> next, pending |-> pending, resumed |-> resumed,
                      id |-> checkpoint.id + 1]
    /\ actor' = [actor EXCEPT ![a].pc = "node", ![a].graph = checkpoint']
    /\ UNCHANGED <<task, clock>>

\* run: a fresh thread only.
Begin(a) ==
    /\ actor[a].pc = "begin"
    /\ checkpoint.next = "none"
    /\ WriteCheckpoint(a, "llm", NoApproval, FALSE)
    /\ UNCHANGED approval

AtNode(a, node) == actor[a].pc = "node" /\ actor[a].graph.next = node

\* The model answers or asks for Tools.
LlmNode(a) ==
    /\ AtNode(a, "llm")
    /\ \E next \in {"tool", "end"} : WriteCheckpoint(a, next, NoApproval, FALSE)
    /\ UNCHANGED approval

\* The pending Approval must be resumed and APPROVED before its Tool runs.
MayRunTool(a) ==
    LET ck == actor[a].graph IN
    ck.pending # NoApproval => ck.resumed /\ approval[ck.pending] = "APPROVED"

\* Every Tool call of the batch ran, or the next one needs an Approval: the
\* results and the cursor are saved before the pause.
ToolNode(a) ==
    /\ AtNode(a, "tool")
    /\ MayRunTool(a)
    /\ \/ WriteCheckpoint(a, "llm", NoApproval, FALSE) /\ UNCHANGED approval
       \/ \E p \in Approvals :
            /\ approval[p] = "FREE"
            /\ approval' = [approval EXCEPT ![p] = "DRAFT"]
            /\ WriteCheckpoint(a, "approval_pause", p, FALSE)

\* interrupt leaves the graph with ApprovalRequired.
Interrupt(a) ==
    /\ AtNode(a, "approval_pause")
    /\ Goto(a, "pausing")
    /\ UNCHANGED <<task, approval, checkpoint, clock>>

\* Any other exception out of invoke: unknown or blocked Tool outcomes ask for
\* review, the rest is failure.  An uncertain ledger commit is Abandon.
Raise(a) ==
    /\ InWorkflow(a)
    /\ \/ Goto(a, "failing")
       \/ AtNode(a, "tool") /\ Goto(a, "reviewing")
    /\ UNCHANGED <<task, approval, checkpoint, clock>>

\* Mutant: the compare-and-set forgets the status.
OwnsByTimestamp(a) == task.updated = actor[a].task.updated

Owns(a) == task = actor[a].task

\* HITLPausePersistence.save: the Approval and the waiting Task in one
\* transaction.  A lost acknowledgement falls into the generic failure path.
Pause(a) ==
    LET p == actor[a].graph.pending IN
    /\ actor[a].pc = "pausing"
    /\ approval[p] = "DRAFT"
    /\ IF Owns(a)
         THEN /\ \E now \in NowSince(task.updated) : task' = Row("WAITING_APPROVAL", now)
              /\ approval' = [approval EXCEPT ![p] = "PENDING"]
              /\ End(a) \/ Goto(a, "failing")
         ELSE End(a) /\ UNCHANGED <<task, approval>>
    /\ UNCHANGED <<checkpoint, clock>>

\* The clock is behind, the INSERT fails or the transaction rolls back.
PauseRaises(a) ==
    /\ actor[a].pc = "pausing"
    /\ Goto(a, "failing")
    /\ UNCHANGED <<task, approval, checkpoint, clock>>

\* reconcile_if_unchanged: the row is written only while it is the expected one.
WriteIfUnchanged(a, new) ==
    task' = IF Owns(a) THEN new ELSE task

\* save_failed_if_running, require_recovery and succeed after the invocation.
Settle(a, status) ==
    /\ \E now \in NowSince(actor[a].task.updated) : WriteIfUnchanged(a, Row(status, now))
    /\ End(a)
    /\ UNCHANGED <<approval, checkpoint, clock>>

Fail(a) == actor[a].pc = "failing" /\ Settle(a, "FAILED")

Review(a) == actor[a].pc = "reviewing" /\ Settle(a, "RECOVERY_REQUIRED")

Succeed(a) == AtNode(a, "end") /\ Settle(a, "SUCCEEDED")

-----------------------------------------------------------------------------
(***************************************************************************)
(* ApprovalDecisionService.decide and TaskResumeService.resume.            *)
(***************************************************************************)

\* Candidates are built from what the request read.
ReadForDecision(a, p) ==
    /\ actor[a].pc = "idle"
    /\ approval[p] = "PENDING"
    /\ task.status = "WAITING_APPROVAL"
    /\ \E status \in {"RUNNING", "REJECTED"}, now \in NowSince(task.updated) :
         actor' = [actor EXCEPT ![a].pc = "deciding", ![a].appr = p,
                                ![a].goal = Row(status, now)]
    /\ UNCHANGED <<task, approval, checkpoint, clock>>

\* Both conditional updates hit or both roll back; they compare statuses only.
Accepts(p) == approval[p] = "PENDING" /\ task.status = "WAITING_APPROVAL"

Answer(status) == IF status = "RUNNING" THEN "APPROVED" ELSE "REJECTED"

Decide(a) ==
    LET p == actor[a].appr
        goal == actor[a].goal
    IN
    /\ actor[a].pc = "deciding"
    /\ IF Accepts(p)
         THEN /\ task' = goal
              /\ approval' = [approval EXCEPT ![p] = Answer(goal.status)]
              /\ \/ goal.status = "RUNNING" /\ Goto(a, "resuming")
                 \/ End(a)
         ELSE End(a) /\ UNCHANGED <<task, approval>>
    /\ UNCHANGED <<checkpoint, clock>>

\* The row that resume reads is the generation it will defend, whoever
\* committed it.
Resume(a) ==
    /\ actor[a].pc = "resuming"
    /\ IF task.status = "RUNNING"
         THEN actor' = [actor EXCEPT ![a].pc = "resume", ![a].task = task]
         ELSE End(a)
    /\ UNCHANGED <<task, approval, checkpoint, clock>>

\* The checkpoint must be paused on this very Approval; a mismatch raises.
LoadPaused(a) ==
    /\ actor[a].pc = "resume"
    /\ checkpoint.next = "approval_pause"
    /\ checkpoint.pending = actor[a].appr
    /\ approval[actor[a].appr] = "APPROVED"
    /\ actor' = [actor EXCEPT ![a].pc = "approved", ![a].graph = checkpoint]
    /\ UNCHANGED <<task, approval, checkpoint, clock>>

\* approval_pause returns and its checkpoint leads to the Tool.
PauseNode(a) ==
    /\ actor[a].pc = "approved"
    /\ WriteCheckpoint(a, "tool", actor[a].appr, TRUE)
    /\ UNCHANGED approval

-----------------------------------------------------------------------------
(***************************************************************************)
(* TaskRecoveryService.recover.                                            *)
(***************************************************************************)

\* Other statuses are reported without any write.
ReadForRecovery(a) ==
    /\ actor[a].pc = "idle"
    /\ task.status \in {"RUNNING", "WAITING_APPROVAL", "RECOVERY_REQUIRED"}
    /\ actor' = [actor EXCEPT ![a].pc = "assessing", ![a].task = task]
    /\ UNCHANGED <<task, approval, checkpoint, clock>>

ReadEvidence(a) ==
    /\ actor[a].pc = "assessing"
    /\ actor' = [actor EXCEPT ![a].pc = "weighing", ![a].graph = checkpoint,
                              ![a].appr = checkpoint.pending]
    /\ UNCHANGED <<task, approval, checkpoint, clock>>

\* Mutant: the threshold is left out of the cutoff.
RecentWithoutThreshold(row, now) == row.updated > now

Recent(row, now) == row.updated > now - StaleAfter

\* What recovery may make of a row and a checkpoint: the status it goes for,
\* "none" for no write.  Where ledger rows are read, they may be recent, or
\* forbid the retry, or allow it.
Verdicts(row, ck, now) ==
    IF row.status = "RUNNING" /\ Recent(row, now) THEN {"none"}
    ELSE IF ck.next = "none" THEN {"RECOVERY_REQUIRED"}
    ELSE IF ck.next = "end" THEN
        {"none", IF row.status = "RUNNING" THEN "SUCCEEDED" ELSE "RECOVERY_REQUIRED"}
    ELSE IF ck.next = "llm" \/ ck.pending = NoApproval THEN {"RECOVERY_REQUIRED"}
    ELSE IF approval[ck.pending] \in {"FREE", "DRAFT"} THEN {"RECOVERY_REQUIRED"}
    ELSE IF row.status = "WAITING_APPROVAL" /\ approval[ck.pending] = "PENDING"
            /\ ck.next = "approval_pause" THEN {"none"}
    ELSE IF approval[ck.pending] # "APPROVED" \/ row.status = "WAITING_APPROVAL" THEN
        {"RECOVERY_REQUIRED"}
    ELSE IF Recent(row, now) THEN {"none"}
    ELSE IF ck.next = "tool" /\ ~ck.resumed THEN {"RECOVERY_REQUIRED"}
    ELSE {"none", "RECOVERY_REQUIRED", "RUNNING"}

\* require_recovery and claim_recovery advance updated_at strictly; succeed
\* may tie it.
CandidateStamp(status, row, now) ==
    IF status = "SUCCEEDED" THEN now ELSE Later(now, row.updated + 1)

\* The candidate update of the snapshot; a Task already in review stays as is.
Propose(a, row, status) ==
    IF status = "none" \/ (status = row.status /\ status = "RECOVERY_REQUIRED")
    THEN End(a)
    ELSE \E now \in IF status = "RECOVERY_REQUIRED" THEN Now ELSE NowSince(row.updated) :
           actor' = [actor EXCEPT ![a].pc = "reconciling", ![a].task = row,
                       ![a].goal = Row(status, CandidateStamp(status, row, now))]

Weigh(a) ==
    /\ actor[a].pc = "weighing"
    /\ \E now \in Now :
         \E status \in Verdicts(actor[a].task, actor[a].graph, now) :
           Propose(a, actor[a].task, status)
    /\ UNCHANGED <<task, approval, checkpoint, clock>>

\* The winner of a RUNNING candidate goes on to dispatch.
Reconcile(a) ==
    LET goal == actor[a].goal IN
    /\ actor[a].pc = "reconciling"
    /\ WriteIfUnchanged(a, goal)
    /\ \/ /\ Owns(a) /\ goal.status = "RUNNING"
          /\ actor' = [actor EXCEPT ![a].pc = "claimed", ![a].task = goal]
       \/ End(a)
    /\ UNCHANGED <<approval, checkpoint, clock>>

\* The checkpoint is read again; a stale EXECUTING or UNKNOWN row is retried
\* through the ledger, and if that raises the Task goes to review.
Dispatch(a) ==
    /\ actor[a].pc = "claimed"
    /\ \/ checkpoint.id # actor[a].graph.id /\ End(a)
       \/ /\ checkpoint.id = actor[a].graph.id
          /\ \/ actor[a].graph.next = "approval_pause" /\ Goto(a, "resuming")
             \/ actor[a].graph.next = "tool" /\ Goto(a, "retool")
             \/ Propose(a, actor[a].task, "RECOVERY_REQUIRED")
    /\ UNCHANGED <<task, approval, checkpoint, clock>>

\* resume_pending_tool: the same checkpoint still, else it raises.
ReloadTool(a) ==
    /\ actor[a].pc = "retool"
    /\ checkpoint.id = actor[a].graph.id
    /\ approval[actor[a].appr] = "APPROVED"
    /\ Goto(a, "node")
    /\ UNCHANGED <<task, approval, checkpoint, clock>>

-----------------------------------------------------------------------------
Execute(a) ==
    \/ Create(a) \/ Start(a) \/ Begin(a) \/ LlmNode(a) \/ ToolNode(a) \/ Interrupt(a)
    \/ Raise(a) \/ Pause(a) \/ PauseRaises(a) \/ Fail(a) \/ Review(a) \/ Succeed(a)

DecideAndResume(a) ==
    \/ \E p \in Approvals : ReadForDecision(a, p)
    \/ Decide(a) \/ Resume(a) \/ LoadPaused(a) \/ PauseNode(a)

Recover(a) ==
    \/ ReadForRecovery(a) \/ ReadEvidence(a) \/ Weigh(a) \/ Reconcile(a)
    \/ Dispatch(a) \/ ReloadTool(a)

Next ==
    \/ Tick
    \/ \E a \in Actors : Execute(a) \/ DecideAndResume(a) \/ Recover(a) \/ Abandon(a)

Spec == Init /\ [][Next]_vars

-----------------------------------------------------------------------------
(***************************************************************************)
(* Properties                                                              *)
(***************************************************************************)

\* Types of the row, the Approvals, the checkpoint and the requests' locals.
TypeOK ==
    /\ task \in TaskRow
    /\ approval \in [Approvals -> ApprovalStatus]
    /\ checkpoint \in Checkpoint
    /\ actor \in [Actors -> ActorState]
    /\ clock \in Nat

Ask(status) == {p \in Approvals : approval[p] = status}

\* A waiting Task can be decided: the pause commits the Approval with it.
WaitingCanBeDecided ==
    task.status = "WAITING_APPROVAL" => Ask("PENDING") # {}

\* The human's no ends the Task, and only the human's no rejects it.
RejectionEndsTask == Ask("REJECTED") # {} <=> task.status = "REJECTED"

Terminal == {"SUCCEEDED", "FAILED", "REJECTED"}

\* A finished Task is never written again.
FinishedTasksStay == [][task.status \in Terminal => task' = task]_vars

\* app/tasks/models.py: updated_at cannot move backwards, whatever candidates
\* are in flight.
TimestampsAdvance == [][task'.updated >= task.updated]_vars

\* docs/ARCHITECTURE.md, recovery: continuation writers are fenced against a
\* newer recovery owner while that owner is still RUNNING.  So no two threads
\* run the workflow under one generation.
SoleOwner ==
    \A a, b \in Actors :
        /\ task.status = "RUNNING"
        /\ InWorkflow(a) /\ Owns(a)
        /\ InWorkflow(b) /\ Owns(b)
        => a = b

\* A claim over a RUNNING Task waits until its owner has been silent for
\* StaleAfter, and its generation is strictly later.
ClaimIsStaleAndFences ==
    [][task.status = "RUNNING" /\ task'.status = "RUNNING" /\ task' # task =>
         /\ task.updated + StaleAfter <= clock
         /\ task'.updated > task.updated]_vars

\* A client sees the status, and of an Approval what is persisted.
Contract == INSTANCE TaskContract WITH
    status <- task.status,
    question <- [p \in Approvals |->
                   IF approval[p] \in {"FREE", "DRAFT"} THEN "UNASKED" ELSE approval[p]]

\* Whatever threads race, crash, lose acknowledgements or recover, what a
\* client sees of the Task is a run of TaskContract: no transition outside the
\* domain model's, and each moves the Task and its Approval together.
ImplementsContract == Contract!Spec

-----------------------------------------------------------------------------
(***************************************************************************)
(* The inductive invariant behind the safety properties.                   *)
(***************************************************************************)

\* A workflow paused for an Approval names it.
NamesApproval(ck) == ck.next = "approval_pause" => ck.pending \in Approvals

Active == {"RUNNING", "WAITING_APPROVAL", "RECOVERY_REQUIRED"}

Supervised == {"begin", "node", "resume", "approved", "retool",
               "pausing", "failing", "reviewing", "claimed"}

\* A recovery candidate is a legal transition of its snapshot; a claim was
\* weighed when the snapshot was already stale.
Candidate(row, goal) ==
    \/ /\ goal.status = "RECOVERY_REQUIRED"
       /\ row.status \in {"RUNNING", "WAITING_APPROVAL"}
    \/ goal.status = "SUCCEEDED" /\ row.status = "RUNNING"
    \/ /\ goal.status = "RUNNING"
       /\ row.status \in {"RUNNING", "RECOVERY_REQUIRED"}
       /\ row.updated + StaleAfter <= clock
       /\ goal.updated > row.updated

\* What a request's locals x say at each place it can be in.
Coherent(x) ==
    /\ NamesApproval(x.graph)
    /\ x.pc \in Supervised => x.task.status = "RUNNING"
    /\ x.pc = "pausing" => x.graph.next = "approval_pause"
    /\ x.pc \in {"assessing", "weighing"} => x.task.status \in Active
    /\ x.pc = "deciding" => x.appr \in Approvals /\ x.goal.status \in {"RUNNING", "REJECTED"}
    /\ x.pc = "reconciling" => Candidate(x.task, x.goal)

\* Between its two saves only the creator knows the Task.
CreatorInv ==
    \A a \in Actors :
        actor[a].pc = "created" =>
            /\ task.status = "PENDING"
            /\ actor[a].task = task
            /\ \A b \in Actors : actor[b].pc = "created" => b = a

IInv ==
    /\ TypeOK
    /\ NamesApproval(checkpoint)
    /\ \A a \in Actors : Coherent(actor[a])
    /\ CreatorInv

=============================================================================
