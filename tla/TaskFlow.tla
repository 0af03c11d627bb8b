------------------------------- MODULE TaskFlow -------------------------------
(***************************************************************************)
(* One Task end to end: its row, its Approvals, its checkpoint and the     *)
(* ledger rows of its protected calls, driven by the requests that execute *)
(* it, decide its Approvals and recover it.  Recovery here weighs the real *)
(* rows, each read at its own time.                                        *)
(*                                                                         *)
(* Two things stand for time.  A conditional write compares a timestamp    *)
(* with one the request took note of, and succeeds while nobody wrote in   *)
(* between: a request keeps the set of things still as it noted them.  And *)
(* a row is fresh from its last write until StaleAfter has passed.         *)
(* Timestamps that tie or run backwards are the subject of TaskLifecycle   *)
(* and ExecutionLedger.                                                    *)
(***************************************************************************)
EXTENDS Naturals

CONSTANTS
    Threads,         \* requests served at a time, of any process
    Calls,           \* protected Tool calls the model may ask for
    Mode,            \* IdempotencyMode of each call's Tool
    Approvals,       \* Approval ids that may be drawn
    MaxSteps,        \* max_steps: the model calls a run may make
    MaxCrashes,      \* bound on requests that stop with their process
    MaxSuspicions,   \* bound on rows that age while a live request owns them
    NoCall, NoApproval

ASSUME ConstantsAssumption ==
    /\ Mode \in [Calls -> {"NONE", "EXTERNAL_KEY", "INHERENT"}]
    /\ MaxSteps \in Nat /\ MaxCrashes \in Nat /\ MaxSuspicions \in Nat
    /\ NoCall \notin Calls
    /\ NoApproval \notin Approvals
    /\ {"task", "checkpoint"} \cap Calls = {}

VARIABLES
    task,        \* the status of the Task's row
    approval,    \* Approval id -> the call it asks for and its status
    checkpoint,  \* the latest checkpoint of the Task's workflow thread
    ledger,      \* call -> the status and the Approval of its row
    fresh,       \* the rows written less than StaleAfter ago
    thread,      \* request -> where it is and what it took note of
    history      \* crashes, suspicions, and whether a Tool's answer was in doubt

vars == <<task, approval, checkpoint, ledger, fresh, thread, history>>

-----------------------------------------------------------------------------
TaskStatus == {"ABSENT", "PENDING", "RUNNING", "WAITING_APPROVAL", "SUCCEEDED",
               "FAILED", "REJECTED", "RECOVERY_REQUIRED"}

\* "FREE" is an id not drawn yet; a "DRAFT" only checkpoints and threads know.
Question == [status : {"FREE", "DRAFT", "PENDING", "APPROVED", "REJECTED"},
             call : Calls \cup {NoCall}]

Row == [status : {"ABSENT", "EXECUTING", "SUCCEEDED", "FAILED", "UNKNOWN"},
        appr : Approvals \cup {NoApproval}]

\* A batch is one protected call; answered is the calls whose results are in
\* the messages.  At "tool" a pending Approval has been resumed.
Graph == [next : {"none", "llm", "tool", "approval_pause", "end"},
          call : Calls \cup {NoCall}, pending : Approvals \cup {NoApproval},
          steps : Nat, answered : SUBSET Calls]

NoGraph == [next |-> "none", call |-> NoCall, pending |-> NoApproval,
            steps |-> 0, answered |-> {}]

Things == {"task", "checkpoint"} \cup Calls

PC == {"idle", "created", "begin", "node", "won", "answered", "pausing",
       "failing", "reviewing", "resuming", "resume", "approved", "retool",
       "assessing", "weighing", "reconciling", "claimed", "recovering", "rewon"}

Request ==
    [pc : PC,
     valid : SUBSET Things,  \* what nobody wrote since the request noted it
     seen : TaskStatus,      \* the status recovery read, then the one it goes for
     retry : BOOLEAN,        \* the row recovery read is EXECUTING or UNKNOWN
     graph : Graph,          \* the state the request runs from, or the evidence
     appr : Approvals \cup {NoApproval}]  \* the Approval it resumes

Idle == [pc |-> "idle", valid |-> {}, seen |-> "ABSENT", retry |-> FALSE,
         graph |-> NoGraph, appr |-> NoApproval]

-----------------------------------------------------------------------------
Init ==
    /\ task = "ABSENT"
    /\ approval = [p \in Approvals |-> [status |-> "FREE", call |-> NoCall]]
    /\ checkpoint = NoGraph
    /\ ledger = [c \in Calls |-> [status |-> "ABSENT", appr |-> NoApproval]]
    /\ fresh = {}
    /\ thread = [t \in Threads |-> Idle]
    /\ history = [crashes |-> 0, suspicions |-> 0, doubted |-> FALSE]

Goto(t, pc) == thread' = [thread EXCEPT ![t].pc = pc]

End(t) == thread' = [thread EXCEPT ![t] = Idle]

\* A request with nothing in hand but what it may still write.
Bare(pc, valid) == [Idle EXCEPT !.pc = pc, !.valid = valid]

\* Only its generation of the Task matters to a request that is about to settle.
Settling(x, pc) == Bare(pc, x.valid \cap {"task"})

Settle(t, pc) == thread' = [thread EXCEPT ![t] = Settling(@, pc)]

Unwritten == UNCHANGED <<task, approval, checkpoint, ledger, fresh, history>>

\* Everybody else's note of x is out of date; the writer goes on as new.
Noted(t, x, new) ==
    thread' = [u \in Threads |-> IF u = t THEN new ELSE
                                   [thread[u] EXCEPT !.valid = @ \ {x}]]

WriteTask(t, status, new) ==
    /\ task' = status
    /\ fresh' = fresh \cup {"task"}
    /\ Noted(t, "task", new)

WriteRow(t, c, row, new) ==
    /\ ledger' = [ledger EXCEPT ![c] = row]
    /\ fresh' = fresh \cup {c}
    /\ Noted(t, c, new)

\* A node's output becomes the latest checkpoint; the request goes on from it.
WriteCheckpoint(t, graph, pc) ==
    /\ checkpoint' = graph
    /\ Noted(t, "checkpoint", [thread[t] EXCEPT !.pc = pc, !.graph = graph])
    /\ UNCHANGED <<task, ledger, fresh, history>>

\* Mutant: whoever comes last writes the row.
OwnsAlways(t) == thread[t].pc # "idle"

\* The row is the very generation the request expects.
Owns(t) == "task" \in thread[t].valid

AtNode(t, node) == thread[t].pc = "node" /\ thread[t].graph.next = node

-----------------------------------------------------------------------------
(***************************************************************************)
(* TaskExecutionService.execute and continue_running, and the workflow.    *)
(***************************************************************************)

\* Mutant: the request returns once the Task is saved.
CreateOnly(t) ==
    /\ thread[t].pc = "idle"
    /\ task = "ABSENT"
    /\ WriteTask(t, "PENDING", Idle)
    /\ UNCHANGED <<approval, checkpoint, ledger, history>>

Create(t) ==
    /\ thread[t].pc = "idle"
    /\ task = "ABSENT"
    /\ WriteTask(t, "PENDING", Bare("created", {}))
    /\ UNCHANGED <<approval, checkpoint, ledger, history>>

Start(t) ==
    /\ thread[t].pc = "created"
    /\ WriteTask(t, "RUNNING", Bare("begin", {"task"}))
    /\ UNCHANGED <<approval, checkpoint, ledger, history>>

\* run: a fresh thread only.
Begin(t) ==
    /\ thread[t].pc = "begin"
    /\ checkpoint = NoGraph
    /\ WriteCheckpoint(t, [NoGraph EXCEPT !.next = "llm"], "node")
    /\ UNCHANGED approval

\* Mutant: the model call is not counted.
LlmNodeUncounted(t) ==
    LET g == thread[t].graph IN
    /\ AtNode(t, "llm")
    /\ g.steps < MaxSteps
    /\ \/ WriteCheckpoint(t, [g EXCEPT !.next = "end"], "node")
       \/ \E c \in Calls : WriteCheckpoint(t, [g EXCEPT !.next = "tool", !.call = c], "node")
    /\ UNCHANGED approval

\* The model answers, or asks for a call, even one it asked for before.
LlmNode(t) ==
    LET g == thread[t].graph IN
    /\ AtNode(t, "llm")
    /\ g.steps < MaxSteps
    /\ \/ WriteCheckpoint(t, [g EXCEPT !.next = "end", !.steps = @ + 1], "node")
       \/ \E c \in Calls :
            WriteCheckpoint(t, [g EXCEPT !.next = "tool", !.call = c, !.steps = @ + 1], "node")
    /\ UNCHANGED approval

\* Anything in the workflow may raise before it has written: the model, a Tool
\* that is unknown or refuses its input, a statement, a checkpoint.  Recovery
\* sends to review what is raised while it runs the call.
Raise(t) ==
    /\ \/ /\ thread[t].pc \in {"begin", "node", "answered", "pausing", "resume", "approved", "retool"}
          /\ Settle(t, "failing")
       \/ /\ thread[t].pc = "recovering"
          /\ Settle(t, "reviewing")
    /\ Unwritten

\* The Tool demands an Approval: it is in the checkpoint before the pause.
Ask(t) ==
    LET g == thread[t].graph IN
    /\ AtNode(t, "tool")
    /\ g.pending = NoApproval
    /\ \E p \in Approvals :
         /\ approval[p].status = "FREE"
         /\ approval' = [approval EXCEPT ![p] = [status |-> "DRAFT", call |-> g.call]]
         /\ WriteCheckpoint(t, [g EXCEPT !.next = "approval_pause", !.pending = p], "pausing")

\* The Approval and the waiting Task in one transaction, or neither.
Pause(t) ==
    LET p == thread[t].graph.pending IN
    /\ thread[t].pc = "pausing"
    /\ IF Owns(t)
         THEN /\ WriteTask(t, "WAITING_APPROVAL", Idle)
              /\ approval' = [approval EXCEPT ![p].status = "PENDING"]
         ELSE End(t) /\ UNCHANGED <<task, fresh, approval>>
    /\ UNCHANGED <<checkpoint, ledger, history>>

\* The row of a call handed to its Tool under p.
Executing(p) == [status |-> "EXECUTING", appr |-> p]

\* validate: the persisted Approval has been given to this very call.
Authorized(g) == approval[g.pending] = [status |-> "APPROVED", call |-> g.call]

\* execute: the first request to commit the row runs the Tool; the others get
\* its stored result, or are refused.
Execute(t) ==
    LET g == thread[t].graph
        row == ledger[g.call]
    IN
    /\ AtNode(t, "tool")
    /\ g.pending # NoApproval
    /\ IF Authorized(g) /\ row.status = "ABSENT"
         THEN WriteRow(t, g.call, Executing(g.pending),
                       [thread[t] EXCEPT !.pc = "won", !.valid = @ \cup {g.call}])
         ELSE /\ IF ~Authorized(g) \/ row.appr # g.pending THEN Settle(t, "failing")
                 ELSE IF row.status = "SUCCEEDED" THEN Goto(t, "answered")
                 ELSE Settle(t, "reviewing")
              /\ UNCHANGED <<ledger, fresh>>
    /\ UNCHANGED <<task, approval, checkpoint, history>>

\* The ordinary resume of a paused workflow, on its Approval.
Resuming(p) == [Idle EXCEPT !.pc = "resuming", !.appr = p]

\* Recovery goes on: to the ordinary resume of a paused workflow, or to the
\* pending Tool of this very checkpoint.
Dispatched(x) ==
    IF x.graph.next = "approval_pause"
    THEN Resuming(x.graph.pending)
    ELSE [x EXCEPT !.pc = "retool", !.valid = @ \cap {"task", "checkpoint"}, !.retry = FALSE]

\* The result is at hand: the batch goes on with it, or recovery does.
Answered(x) ==
    IF x.pc = "won" THEN [x EXCEPT !.pc = "answered", !.valid = @ \cap {"task"}]
                    ELSE Dispatched(x)

\* Mutant: an answer of unknown effect is a known failure.
ResultingFailed(x, said, held) ==
    IF said = "ok" /\ held THEN Answered(x) ELSE Settling(x, "failing")

\* Mutant: an answer of unknown effect counts as one.
ResultingTrusted(x, said, held) ==
    IF said # "noeffect" /\ held THEN Answered(x)
    ELSE Settling(x, IF x.pc = "won" /\ said # "unknown" THEN "failing" ELSE "reviewing")

\* Where the Tool's answer leads the request that ran it, and whether the
\* fenced result write hit.  Recovery sends every exception to review.
Resulting(x, said, held) ==
    IF said = "ok" /\ held THEN Answered(x)
    ELSE Settling(x, IF x.pc = "won" /\ said # "unknown" THEN "failing" ELSE "reviewing")

Terminal(said) ==
    CASE said = "ok" -> "SUCCEEDED" [] said = "noeffect" -> "FAILED" [] OTHER -> "UNKNOWN"

\* Mutant: the result is written whoever has claimed the row since.
FinishUnfenced(t) ==
    /\ thread[t].pc \in {"won", "rewon"}
    /\ \E said \in {"ok", "noeffect", "unknown"} :
         /\ WriteRow(t, thread[t].graph.call,
                     [ledger[thread[t].graph.call] EXCEPT !.status = Terminal(said)],
                     Resulting(thread[t], said, TRUE))
         /\ history' = [history EXCEPT !.doubted = @ \/ said = "unknown"]
    /\ UNCHANGED <<task, approval, checkpoint>>

\* The Tool has answered, and its answer is recorded while the claim stands.
Finish(t) ==
    LET c == thread[t].graph.call
        held == c \in thread[t].valid
    IN
    /\ thread[t].pc \in {"won", "rewon"}
    /\ \E said \in {"ok", "noeffect", "unknown"} :
         /\ LET new == Resulting(thread[t], said, held) IN
            IF held
              THEN WriteRow(t, c, [ledger[c] EXCEPT !.status = Terminal(said)], new)
              ELSE thread' = [thread EXCEPT ![t] = new] /\ UNCHANGED <<ledger, fresh>>
         /\ history' = [history EXCEPT !.doubted = @ \/ said = "unknown"]
    /\ UNCHANGED <<task, approval, checkpoint>>

\* Mutant: the answered question stays with the workflow.
ToolDoneKeepsPending(t) ==
    LET g == thread[t].graph IN
    /\ thread[t].pc = "answered"
    /\ WriteCheckpoint(t, [g EXCEPT !.next = "llm", !.call = NoCall,
                                    !.answered = @ \cup {g.call}], "node")
    /\ UNCHANGED approval

\* The result joins the messages, and the batch is done.
ToolDone(t) ==
    LET g == thread[t].graph IN
    /\ thread[t].pc = "answered"
    /\ WriteCheckpoint(t, [g EXCEPT !.next = "llm", !.call = NoCall, !.pending = NoApproval,
                                    !.answered = @ \cup {g.call}], "node")
    /\ UNCHANGED approval

\* reconcile_if_unchanged: only the expected generation is written.
SettleTask(t, status) ==
    /\ IF Owns(t)
         THEN WriteTask(t, status, Idle)
         ELSE End(t) /\ UNCHANGED <<task, fresh>>
    /\ UNCHANGED <<approval, checkpoint, ledger, history>>

Fail(t) == thread[t].pc = "failing" /\ SettleTask(t, "FAILED")

Review(t) == thread[t].pc = "reviewing" /\ SettleTask(t, "RECOVERY_REQUIRED")

Succeed(t) == AtNode(t, "end") /\ SettleTask(t, "SUCCEEDED")

-----------------------------------------------------------------------------
(***************************************************************************)
(* ApprovalDecisionService.decide and TaskResumeService.resume.            *)
(***************************************************************************)

\* What the request read is compared again by the two conditional updates, so
\* reading and writing are one step; a loser writes nothing.
Decide(t, p, yes) ==
    /\ thread[t].pc = "idle"
    /\ approval[p].status = "PENDING"
    /\ task = "WAITING_APPROVAL"
    /\ approval' = [approval EXCEPT ![p].status = IF yes THEN "APPROVED" ELSE "REJECTED"]
    /\ IF yes
         THEN WriteTask(t, "RUNNING", Resuming(p))
         ELSE WriteTask(t, "REJECTED", Idle)
    /\ UNCHANGED <<checkpoint, ledger, history>>

\* The generation to defend is the one it reads, whoever committed it.
Resume(t) ==
    /\ thread[t].pc = "resuming"
    /\ IF task = "RUNNING"
         THEN thread' = [thread EXCEPT ![t].pc = "resume", ![t].valid = {"task"}]
         ELSE End(t)
    /\ Unwritten

\* A workflow that is not paused on this Approval fails the continuation.
LoadPaused(t) ==
    /\ thread[t].pc = "resume"
    /\ IF /\ checkpoint.next = "approval_pause"
          /\ checkpoint.pending = thread[t].appr
          /\ approval[thread[t].appr].status = "APPROVED"
         THEN thread' = [thread EXCEPT ![t].pc = "approved", ![t].graph = checkpoint]
         ELSE Settle(t, "failing")
    /\ Unwritten

\* approval_pause returns: the Tool may run.
PauseNode(t) ==
    /\ thread[t].pc = "approved"
    /\ WriteCheckpoint(t, [thread[t].graph EXCEPT !.next = "tool"], "node")
    /\ UNCHANGED approval

-----------------------------------------------------------------------------
(***************************************************************************)
(* TaskRecoveryService.recover.                                            *)
(***************************************************************************)

\* A request that has read the Task it may recover.
Assessing(status) == [Idle EXCEPT !.pc = "assessing", !.valid = {"task"}, !.seen = status]

\* Other statuses are reported and nothing is written.
ReadForRecovery(t) ==
    /\ thread[t].pc = "idle"
    /\ task \in {"RUNNING", "WAITING_APPROVAL", "RECOVERY_REQUIRED"}
    /\ thread' = [thread EXCEPT ![t] = Assessing(task)]
    /\ Unwritten

ReadCheckpoint(t) ==
    /\ thread[t].pc = "assessing"
    /\ thread' = [thread EXCEPT ![t].pc = "weighing", ![t].graph = checkpoint,
                                ![t].valid = @ \cup {"checkpoint"}]
    /\ Unwritten

\* Mutant: the cutoff is not read.
RecentNever(t) == thread[t].pc = "idle"

\* Mutant: every snapshot is young.
RecentAlways(t) == thread[t].pc # "idle"

\* The snapshot is younger than the cutoff; one that was overwritten since may
\* pass, and then no write of this recovery hits.
RecentTask(t) == "task" \in fresh /\ Owns(t)

RecentRows == fresh \cap Calls # {}

InDoubt(row) == row.status \in {"EXECUTING", "UNKNOWN"}

\* What the row of the pending call says of going on under p.
MayGoOn(c, p) ==
    LET row == ledger[c] IN
    row.status # "ABSENT" =>
      /\ row.appr = p
      /\ row.status # "FAILED"
      /\ InDoubt(row) => Mode[c] # "NONE"

\* What _recover makes of the Task it read, its checkpoint, the Approval that
\* names, and the rows: the status it goes for, "none" to leave all alone.
Verdict(t) ==
    LET seen == thread[t].seen
        g == thread[t].graph
        said == approval[g.pending].status
    IN
    IF seen = "RUNNING" /\ RecentTask(t) THEN "none"
    ELSE IF g.next = "none" THEN "RECOVERY_REQUIRED"
    ELSE IF g.next = "end" THEN
        IF RecentRows THEN "none" ELSE IF seen = "RUNNING" THEN "SUCCEEDED" ELSE "RECOVERY_REQUIRED"
    ELSE IF g.pending = NoApproval THEN "RECOVERY_REQUIRED"
    ELSE IF seen = "WAITING_APPROVAL" /\ said = "PENDING" /\ g.next = "approval_pause" THEN "none"
    ELSE IF said # "APPROVED" \/ seen = "WAITING_APPROVAL" THEN "RECOVERY_REQUIRED"
    ELSE IF RecentTask(t) \/ RecentRows THEN "none"
    ELSE IF MayGoOn(g.call, g.pending) THEN "RUNNING" ELSE "RECOVERY_REQUIRED"

\* The cutoff is read, then the rows and the Approval: from here on a call is
\* noted as stale.
Weigh(t) ==
    LET verdict == Verdict(t) IN
    /\ thread[t].pc = "weighing"
    /\ IF verdict = "none" \/ (verdict = thread[t].seen /\ verdict = "RECOVERY_REQUIRED")
         THEN End(t)
         ELSE thread' = [thread EXCEPT ![t].pc = "reconciling", ![t].seen = verdict,
                ![t].valid = @ \cup Calls,
                ![t].retry = verdict = "RUNNING" /\ InDoubt(ledger[thread[t].graph.call])]
    /\ Unwritten

\* Mutant: the claim commits and the request returns.
ReconcileOnly(t) == thread[t].pc = "reconciling" /\ SettleTask(t, thread[t].seen)

\* The winner of a RUNNING candidate goes on to dispatch.
Reconcile(t) ==
    LET x == thread[t] IN
    /\ x.pc = "reconciling"
    /\ IF ~Owns(t) THEN End(t) /\ UNCHANGED <<task, fresh>>
       ELSE WriteTask(t, x.seen,
              IF x.seen = "RUNNING" THEN [x EXCEPT !.pc = "claimed", !.seen = "ABSENT"] ELSE Idle)
    /\ UNCHANGED <<approval, checkpoint, ledger, history>>

\* A checkpoint that changed meanwhile suppresses the dispatch.
Recheck(t) ==
    LET x == thread[t] IN
    /\ x.pc = "claimed"
    /\ IF "checkpoint" \notin x.valid THEN End(t)
       ELSE thread' = [thread EXCEPT ![t] = IF x.retry THEN [x EXCEPT !.pc = "recovering"]
                                                       ELSE Dispatched(x)]
    /\ Unwritten

\* ExecutionRecoveryService.recover: one more attempt at a row that is stale
\* still, or its stored result.
RecoverExecution(t) ==
    LET x == thread[t]
        c == x.graph.call
        row == ledger[c]
    IN
    /\ x.pc = "recovering"
    /\ IF row.appr = x.graph.pending /\ InDoubt(row) /\ c \in x.valid /\ Mode[c] # "NONE"
         THEN WriteRow(t, c, Executing(row.appr), [x EXCEPT !.pc = "rewon"])
         ELSE /\ thread' = [thread EXCEPT ![t] =
                    IF row.appr = x.graph.pending /\ row.status = "SUCCEEDED"
                    THEN Dispatched(x) ELSE Settling(x, "reviewing")]
              /\ UNCHANGED <<ledger, fresh>>
    /\ UNCHANGED <<task, approval, checkpoint, history>>

\* resume_pending_tool: this checkpoint still, else the continuation fails.
ReloadTool(t) ==
    LET x == thread[t] IN
    /\ x.pc = "retool"
    /\ IF "checkpoint" \in x.valid
         THEN thread' = [thread EXCEPT ![t].pc = "node", ![t].valid = @ \cap {"task"}]
         ELSE Settle(t, "failing")
    /\ Unwritten

-----------------------------------------------------------------------------
\* Requests that own, or are about to own, the Task they act on.
Working(t) == thread[t].pc \notin {"idle", "assessing", "weighing", "reconciling"}

\* The process dies, or its transaction fails or is not acknowledged.
Crash(t) ==
    /\ thread[t].pc # "idle"
    /\ history.crashes < MaxCrashes
    /\ history' = [history EXCEPT !.crashes = @ + 1]
    /\ End(t)
    /\ UNCHANGED <<task, approval, checkpoint, ledger, fresh>>

\* StaleAfter passes since the last write of x.
Age(x) ==
    /\ x \in fresh
    /\ fresh' = fresh \ {x}
    /\ UNCHANGED <<task, approval, checkpoint, ledger, thread>>

AgeUnattended == (\A t \in Threads : ~Working(t)) /\ (\E x \in fresh : Age(x)) /\ UNCHANGED history

\* It passes although a live request is at work.
Suspect ==
    /\ \E t \in Threads : Working(t)
    /\ history.suspicions < MaxSuspicions
    /\ history' = [history EXCEPT !.suspicions = @ + 1]
    /\ \E x \in fresh : Age(x)

Work(t) ==
    \/ Start(t) \/ Begin(t) \/ LlmNode(t) \/ Raise(t) \/ Ask(t) \/ Pause(t)
    \/ Execute(t) \/ Finish(t) \/ ToolDone(t) \/ Fail(t) \/ Review(t) \/ Succeed(t)
    \/ Resume(t) \/ LoadPaused(t) \/ PauseNode(t)
    \/ ReadCheckpoint(t) \/ Weigh(t) \/ Reconcile(t) \/ Recheck(t) \/ RecoverExecution(t)
    \/ ReloadTool(t)

Recovery == \E t \in Threads : ReadForRecovery(t)

Next ==
    \/ \E t \in Threads :
         \/ Create(t) \/ Work(t) \/ Crash(t)
         \/ \E p \in Approvals, yes \in BOOLEAN : Decide(t, p, yes)
    \/ Recovery \/ AgeUnattended \/ Suspect

Spec == Init /\ [][Next]_vars

\* Threads run on, time passes, and the operator asks again; nobody has to
\* decide, create or crash.
FairSpec ==
    /\ Spec
    /\ \A t \in Threads : WF_vars(Work(t))
    /\ WF_vars(Recovery)
    /\ WF_vars(AgeUnattended)

-----------------------------------------------------------------------------
(***************************************************************************)
(* Properties                                                              *)
(***************************************************************************)

\* Types of the rows, the checkpoint and the requests' locals.
TypeOK ==
    /\ task \in TaskStatus
    /\ approval \in [Approvals -> Question]
    /\ checkpoint \in Graph
    /\ ledger \in [Calls -> Row]
    /\ fresh \subseteq Things
    /\ thread \in [Threads -> Request]
    /\ history \in [crashes : Nat, suspicions : Nat, doubted : BOOLEAN]

\* A result is in the messages, of the checkpoint or of a request that runs
\* from an older one, only if the ledger has it as SUCCEEDED: the transcript
\* the model reads never runs ahead of the durable truth.
TranscriptTellsLedger ==
    \A g \in {checkpoint} \cup {thread[t].graph : t \in Threads} :
        \A c \in g.answered : ledger[c].status = "SUCCEEDED"

\* The human's yes is honoured: unless a live request was taken for dead, a
\* Task never succeeds past an approved call that the ledger does not have as
\* SUCCEEDED.
ApprovedCallsRan ==
    history.suspicions = 0 /\ task = "SUCCEEDED" =>
        \A p \in Approvals :
            approval[p].status = "APPROVED" => ledger[approval[p].call].status = "SUCCEEDED"

\* recover may be called at any moment: without a crash, a live request taken
\* for dead or a Tool in doubt, it never sends a Task to review.
HealthyTaskLeftAlone ==
    history.crashes = 0 /\ history.suspicions = 0 /\ ~history.doubted =>
        task # "RECOVERY_REQUIRED"

\* docs/ARCHITECTURE.md, recovery: uncertain executions stay eligible for
\* evidence-based recovery.  Unless a live request was taken for dead, a Task
\* does not end over a row in doubt.
NoDoubtBuried ==
    history.suspicions = 0 /\ task \in {"SUCCEEDED", "FAILED", "REJECTED"} =>
        \A c \in Calls : ~InDoubt(ledger[c])

\* Unless a live request was taken for dead, one request at most works on a
\* Task, on the generation the row is of: no call is in two hands at once.
OneHandPerTask ==
    history.suspicions = 0 =>
        \A t \in Threads :
            Working(t) =>
                /\ \A u \in Threads \ {t} : ~Working(u)
                /\ thread[t].pc \notin {"created", "resuming"} => Owns(t) /\ task = "RUNNING"

\* Unless a live request was taken for dead, the workflow of a SUCCEEDED Task
\* is at its end: no superseded request has written its checkpoint since.
SucceededIsAtEnd ==
    history.suspicions = 0 /\ task = "SUCCEEDED" => checkpoint.next = "end"

\* Whatever requests race, die or are taken for dead: a call has a row, and so
\* reached its Tool, only under an Approval that was asked for this very call
\* and that a human approved; and no request ever brings another one to
\* validate.
OnlyApprovedCallsRun ==
    /\ \A c \in Calls :
         ledger[c].status # "ABSENT" =>
            /\ ledger[c].appr \in Approvals
            /\ approval[ledger[c].appr] = [status |-> "APPROVED", call |-> c]
    /\ \A t \in Threads :
         AtNode(t, "tool") /\ thread[t].graph.pending # NoApproval => Authorized(thread[t].graph)

\* Whatever else happens, a row stays with its Approval, is final once the
\* outcome is known, and goes back to its Tool only if that may be retried.
RowsKeepTheirWord ==
    [][\A c \in Calls :
         ledger'[c] # ledger[c] /\ ledger[c].status # "ABSENT" =>
            /\ ledger'[c].appr = ledger[c].appr
            /\ InDoubt(ledger[c])
            /\ ledger'[c].status = "EXECUTING" => Mode[c] # "NONE"]_vars

\* A client sees the status, and of an Approval what is persisted.
Shown(p) == IF approval[p].status \in {"FREE", "DRAFT"} THEN "UNASKED" ELSE approval[p].status

Contract == INSTANCE TaskContract WITH
    status <- task,
    question <- [p \in Approvals |-> Shown(p)]

\* With the checkpoint and the ledger it is driven by, and whatever was taken
\* for dead, what a client sees of the Task is still a run of TaskContract.
ImplementsContract == Contract!Spec

\* How far a request is from its end, apart from the rounds it has left.
Distance(pc) ==
    CASE pc = "idle" -> 0
      [] pc \in {"failing", "reviewing"} -> 1
      [] pc = "pausing" -> 2
      [] pc = "node" -> 3
      [] pc = "answered" -> 4
      [] pc = "won" -> 5
      [] pc = "approved" -> 7
      [] pc \in {"resume", "begin", "retool"} -> 8
      [] pc \in {"resuming", "created"} -> 9
      [] pc = "rewon" -> 10
      [] pc = "recovering" -> 11
      [] pc = "claimed" -> 12
      [] pc = "reconciling" -> 13
      [] pc = "weighing" -> 14
      [] pc = "assessing" -> 15

\* A request that runs from its own state has the rounds left that its state
\* leaves it; one that has still to load a checkpoint may have them all.
Remaining(x) ==
    IF x.pc \in {"idle", "failing", "reviewing"} THEN Distance(x.pc)
    ELSE IF x.pc \in {"pausing", "node", "answered", "won", "approved"} THEN
        8 * (MaxSteps - x.graph.steps)
        + (IF x.pc = "node" /\ x.graph.next = "tool" THEN 6 ELSE Distance(x.pc))
    ELSE 8 * MaxSteps + Distance(x.pc)

\* No request works for ever: each of its steps brings it nearer to its end,
\* and no step of another sets it back.
RequestsRunDown ==
    [][\A t \in Threads :
         thread[t].pc # "idle" =>
            \/ Remaining(thread'[t]) < Remaining(thread[t])
            \/ thread'[t] = [thread[t] EXCEPT !.valid = thread'[t].valid]]_vars

\* A Task whose requests die does not stay RUNNING while the operator asks.
RunningIsLeft == task = "RUNNING" ~> task # "RUNNING"

\* app/tasks/service.py: only a crash between the two saves of execute leaves
\* a Task PENDING.
PendingIsLeft == task = "PENDING" ~> (task # "PENDING" \/ history.crashes > 0)

\* A paused or pending Tool the human approved, whose row is missing, stored
\* or allowed to be retried.
Resumable ==
    /\ checkpoint.next \in {"approval_pause", "tool"}
    /\ checkpoint.pending # NoApproval
    /\ approval[checkpoint.pending].status = "APPROVED"
    /\ MayGoOn(checkpoint.call, checkpoint.pending)

\* Evidence that allows it gets a Task out of review.
ReviewIsLeft == (task = "RECOVERY_REQUIRED" /\ Resumable) ~> (task # "RECOVERY_REQUIRED" \/ ~Resumable)

=============================================================================
