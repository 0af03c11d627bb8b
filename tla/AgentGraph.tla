----------------------------- MODULE AgentGraph -----------------------------
(***************************************************************************)
(* The workflow of one Task: the nodes llm, tool and approval_pause, the   *)
(* state they hand on through checkpoints, and the invocations that run    *)
(* them: AgentRuntime.run, resume and resume_pending_tool.                 *)
(*                                                                         *)
(* TaskLifecycle keeps of a checkpoint only its node and its Approval.     *)
(* Here are the transcript, the batch of Tool calls with its cursor, the   *)
(* step budget and the Agent on whose behalf Tools are entered.  Who may   *)
(* start a continuation, and when, is TaskLifecycle's: here any may, at    *)
(* any time, so that invocations overlap.  What the ledger does with an    *)
(* approved call is ExecutionLedger's: here it gives a result or raises.   *)
(***************************************************************************)
EXTENDS Integers, Sequences, FiniteSets

CONSTANTS
    Runs,       \* threads that invoke the graph
    Calls,      \* Tool calls (id, Tool and arguments) the model may ask for
    Protected,  \* those whose Tool is not declared free of side effects
    Batches,    \* the tool_calls lists of an LLM response
    Agents,     \* definitions the trusted loader knows
    Grants,     \* the calls whose Tool an Agent is allowed
    Budgets,    \* the max_steps a runtime may be configured with
    Approvals,  \* Approval ids that may be drawn: a bound, for TLC
    NoCall, NoAgent, NoApproval

ASSUME ConstantsAssumption ==
    /\ Protected \subseteq Calls
    /\ Batches \subseteq Seq(Calls) \ {<<>>}
    /\ Grants \in [Agents -> SUBSET Calls]
    /\ Budgets \subseteq Nat \ {0}
    /\ NoCall \notin Calls
    /\ NoAgent \notin Agents
    /\ NoApproval \notin Approvals

VARIABLES
    checkpoint,  \* the latest checkpoint: the next node and the state
    run,         \* thread -> the invocation it is in
    approval,    \* Approval id -> its status and the call it names
    origin,      \* history: the Agent and the budget the workflow began with
    entered      \* history: the calls whose Tool was entered, and under what

vars == <<checkpoint, run, approval, origin, entered>>

-----------------------------------------------------------------------------
Message == [role : {"user", "assistant", "tool"}, calls : Batches \cup {<<>>},
            call : Calls \cup {NoCall}]

UserSays == [role |-> "user", calls |-> <<>>, call |-> NoCall]
Asking(batch) == [role |-> "assistant", calls |-> batch, call |-> NoCall]
Answering(c) == [role |-> "tool", calls |-> <<>>, call |-> c]

\* AgentGraphState; agent stands for execution_mode and agent_identity.
State ==
    [agent : Agents \cup {NoAgent}, budget : Nat, step : Nat,
     messages : Seq(Message), calls : Batches \cup {<<>>}, cursor : Nat,
     pending : Approvals \cup {NoApproval}, resumed : Approvals \cup {NoApproval},
     answered : BOOLEAN]

InitialState(agent, budget) ==
    [agent |-> agent, budget |-> budget, step |-> 0, messages |-> <<UserSays>>,
     calls |-> <<>>, cursor |-> 0, pending |-> NoApproval, resumed |-> NoApproval,
     answered |-> FALSE]

NoState == InitialState(NoAgent, 0)

Node == {"llm", "tool", "approval_pause"}

Checkpoint == [next : Node \cup {"none", "end"}, st : State]

\* own is the runtime's configured max_steps, scope the Agent in the context
\* variable, resume the value of Command(resume), fuel the supersteps left.
Invocation ==
    [pc : Node \cup {"idle", "entering", "paused"}, own : Nat,
     scope : Agents \cup {NoAgent}, resume : Approvals \cup {NoApproval},
     fuel : Int, st : State]

Idle == [pc |-> "idle", own |-> 0, scope |-> NoAgent, resume |-> NoApproval,
         fuel |-> 0, st |-> NoState]

\* FREE: not drawn; DRAFT: known to a checkpoint only; the rest are persisted.
ApprovalRow == [status : {"FREE", "DRAFT", "PENDING", "APPROVED", "REJECTED"},
                call : Calls \cup {NoCall}]

Authorized(p, c) == approval[p] = [status |-> "APPROVED", call |-> c]

\* ensure_tool_permission: without an Agent in scope there is no restriction.
Permitted(scope, c) == scope # NoAgent => c \in Grants[scope]

\* tool_calls[tool_cursor], sequences being counted from 1.
Current(st) == st.calls[st.cursor + 1]

\* The graph library ends an invocation that asks for one superstep more; the
\* last one may only find that there is nothing left to do.
Supersteps(limit) == limit - 1

Init ==
    /\ checkpoint = [next |-> "none", st |-> NoState]
    /\ run = [r \in Runs |-> Idle]
    /\ approval = [p \in Approvals |-> [status |-> "FREE", call |-> NoCall]]
    /\ origin = [agent |-> NoAgent, budget |-> 0]
    /\ entered = {}

\* The invocation returns to its caller, raises, or its process dies: what
\* its current node has done so far is lost.
End(r) == run' = [run EXCEPT ![r] = Idle]

Raise(r) ==
    /\ run[r].pc # "idle"
    /\ End(r)
    /\ UNCHANGED <<checkpoint, approval, origin, entered>>

-----------------------------------------------------------------------------
(***************************************************************************)
(* Invocations                                                             *)
(***************************************************************************)

Begun(budget, agent) ==
    [pc |-> "llm", own |-> budget, scope |-> agent, resume |-> NoApproval,
     fuel |-> Supersteps(2 * budget + 4), st |-> InitialState(agent, budget)]

\* run: a fresh workflow on behalf of the Agent in scope, if any.
Run(r) ==
    /\ run[r].pc = "idle"
    /\ checkpoint.next = "none"
    /\ \E budget \in Budgets, agent \in Agents \cup {NoAgent} :
         /\ run' = [run EXCEPT ![r] = Begun(budget, agent)]
         /\ checkpoint' = [next |-> "llm", st |-> InitialState(agent, budget)]
         /\ origin' = [agent |-> agent, budget |-> budget]
    /\ UNCHANGED <<approval, entered>>

\* Mutant: the continuation runs with the limit of its own configuration.
ResumeLimitOfOwn(st, own) == 2 * own + 4

ResumeLimit(st, own) == 2 * st.budget + 4

\* Mutant: provenance is not restored, the caller's scope is all there is.
RestoredAmbient(agent, ambient) == ambient

\* _workflow_permission: a workflow of no Agent keeps the caller's scope.
Restored(agent, ambient) == IF agent = NoAgent THEN ambient ELSE agent

Continuing(st, own, scope, resume) ==
    [pc |-> "entering", own |-> own, scope |-> scope, resume |-> resume,
     fuel |-> Supersteps(ResumeLimit(st, own)), st |-> NoState]

\* The snapshot must name the Approval, the persisted Approval the call at
\* the cursor; a conflicting ambient Agent is refused.
Continue(r, p, resume) ==
    LET st == checkpoint.st IN
    /\ run[r].pc = "idle"
    /\ st.pending = p
    /\ Authorized(p, Current(st))
    /\ \E own \in Budgets, ambient \in Agents \cup {NoAgent} :
         LET scope == Restored(st.agent, ambient) IN
         /\ st.agent = NoAgent \/ ambient \in {NoAgent, st.agent}
         /\ Permitted(scope, Current(st))
         /\ run' = [run EXCEPT ![r] = Continuing(st, own, scope, resume)]
    /\ UNCHANGED <<checkpoint, approval, origin, entered>>

Resume(r, p) ==
    /\ checkpoint.next = "approval_pause"
    /\ Continue(r, p, p)

ResumePendingTool(r, p) ==
    /\ checkpoint.next = "tool"
    /\ checkpoint.st.resumed = p
    /\ Continue(r, p, NoApproval)

\* invoke loads the latest checkpoint, which may be newer than the snapshot
\* that was compared.
Entered(inv, ck) == [inv EXCEPT !.pc = ck.next, !.st = ck.st]

Enter(r) ==
    /\ run[r].pc = "entering"
    /\ IF checkpoint.next = "end"
         THEN End(r)
         ELSE run' = [run EXCEPT ![r] = Entered(@, checkpoint)]
    /\ UNCHANGED <<checkpoint, approval, origin, entered>>

-----------------------------------------------------------------------------
(***************************************************************************)
(* Nodes                                                                   *)
(***************************************************************************)

AtNode(r, node) == run[r].pc = node

Moved(inv, next, st) ==
    [inv EXCEPT !.pc = next, !.st = st, !.fuel = @ - 1, !.resume = NoApproval]

\* A node returns: its output is the latest checkpoint before the next node
\* runs.  A value of Command(resume) serves one superstep only.
Return(r, next, st) ==
    /\ checkpoint' = [next |-> next, st |-> st]
    /\ run' = [run EXCEPT ![r] =
                 IF next = "end" THEN Idle ELSE Moved(@, next, st)]
    /\ UNCHANGED <<origin, entered>>

\* Mutant: the runtime's own max_steps instead of the persisted one.
OwnBudget(st, own) == own

Budget(st, own) == st.budget

WithBatch(st, batch) ==
    [st EXCEPT !.step = @ + 1, !.messages = Append(@, Asking(batch)),
               !.calls = batch, !.cursor = 0,
               !.pending = NoApproval, !.resumed = NoApproval]

WithAnswer(st) == [st EXCEPT !.step = @ + 1, !.answered = TRUE]

\* The model answers, or asks for a batch of Tool calls.
LlmNode(r) ==
    LET st == run[r].st IN
    /\ AtNode(r, "llm")
    /\ st.step < Budget(st, run[r].own)
    /\ \/ Return(r, "end", WithAnswer(st))
       \/ \E batch \in Batches : Return(r, "tool", WithBatch(st, batch))
    /\ UNCHANGED approval

\* Mutant: the loop goes on to the next call without clearing the Approval.
CallDoneKeepsPending(st) ==
    [st EXCEPT !.messages = Append(@, Answering(Current(st))), !.cursor = @ + 1]

\* One call of the batch has its result.
CallDone(st) ==
    [st EXCEPT !.messages = Append(@, Answering(Current(st))),
               !.cursor = @ + 1, !.pending = NoApproval]

ToolCallsLeft(r) == AtNode(r, "tool") /\ run[r].st.cursor < Len(run[r].st.calls)

EnterTool(r, p) ==
    LET st == run[r].st IN
    /\ Permitted(run[r].scope, Current(st))
    /\ entered' = entered \cup {[call |-> Current(st), appr |-> p]}
    /\ run' = [run EXCEPT ![r].st = CallDone(st)]
    /\ UNCHANGED <<checkpoint, approval, origin>>

\* Mutant: every Tool may run automatically.
AutomaticAlways(c) == c \in Calls

\* is_automatic_execution_allowed.
Automatic(c) == c \notin Protected

\* A safe Tool is executed within the node.
RunTool(r) ==
    /\ ToolCallsLeft(r)
    /\ run[r].st.pending = NoApproval
    /\ Automatic(Current(run[r].st))
    /\ EnterTool(r, NoApproval)

\* The call at the cursor runs under the Approval that was resumed.
RunApproved(r) ==
    LET st == run[r].st IN
    /\ ToolCallsLeft(r)
    /\ st.pending # NoApproval
    /\ st.resumed = st.pending
    /\ Authorized(st.pending, Current(st))
    /\ EnterTool(r, st.pending)

\* Mutant: the pause saves the messages the node began with.
PausedWithoutResults(st, p) ==
    [st EXCEPT !.messages = SubSeq(@, 1, Len(@) - st.cursor),
               !.pending = p, !.resumed = NoApproval]

\* Results and cursor are returned before the pause.
PausedFor(st, p) == [st EXCEPT !.pending = p, !.resumed = NoApproval]

\* Any other Tool needs an Approval of its own.
Ask(r) ==
    LET st == run[r].st IN
    /\ ToolCallsLeft(r)
    /\ st.pending = NoApproval
    /\ ~Automatic(Current(st))
    /\ Permitted(run[r].scope, Current(st))
    /\ \E p \in Approvals :
         /\ approval[p].status = "FREE"
         /\ approval' = [approval EXCEPT ![p] =
                           [status |-> "DRAFT", call |-> Current(st)]]
         /\ Return(r, "approval_pause", PausedFor(st, p))

BatchDone(st) == [st EXCEPT !.pending = NoApproval, !.resumed = NoApproval]

ToolsDone(r) ==
    /\ AtNode(r, "tool")
    /\ run[r].st.cursor = Len(run[r].st.calls)
    /\ Return(r, "llm", BatchDone(run[r].st))
    /\ UNCHANGED approval

\* interrupt without a value to resume with leaves the graph.
Interrupt(r) ==
    /\ AtNode(r, "approval_pause")
    /\ run[r].resume = NoApproval
    /\ run' = [run EXCEPT ![r].pc = "paused"]
    /\ UNCHANGED <<checkpoint, approval, origin, entered>>

ResumedFor(st) == [st EXCEPT !.resumed = st.pending]

\* The replayed node takes the value only if it names its own Approval.
PauseNode(r) ==
    LET st == run[r].st IN
    /\ AtNode(r, "approval_pause")
    /\ run[r].resume = st.pending
    /\ Return(r, "tool", ResumedFor(st))
    /\ UNCHANGED approval

-----------------------------------------------------------------------------
\* The caller of the graph persists the Approval it was interrupted for.
Pause(r) ==
    LET p == run[r].st.pending IN
    /\ run[r].pc = "paused"
    /\ approval[p].status = "DRAFT"
    /\ approval' = [approval EXCEPT ![p].status = "PENDING"]
    /\ End(r)
    /\ UNCHANGED <<checkpoint, origin, entered>>

Decide(p) ==
    /\ approval[p].status = "PENDING"
    /\ \E status \in {"APPROVED", "REJECTED"} :
         approval' = [approval EXCEPT ![p].status = status]
    /\ UNCHANGED <<checkpoint, run, origin, entered>>

Invoke(r) ==
    \/ Run(r)
    \/ \E p \in Approvals : Resume(r, p) \/ ResumePendingTool(r, p)
    \/ Enter(r)

RunNode(r) ==
    \/ LlmNode(r)
    \/ RunTool(r) \/ RunApproved(r) \/ Ask(r) \/ ToolsDone(r)
    \/ Interrupt(r) \/ PauseNode(r)

Next ==
    \/ \E r \in Runs : Invoke(r) \/ RunNode(r) \/ Raise(r) \/ Pause(r)
    \/ \E p \in Approvals : Decide(p)

Spec == Init /\ [][Next]_vars

-----------------------------------------------------------------------------
(***************************************************************************)
(* Properties                                                              *)
(***************************************************************************)

\* Types of the checkpoint, the invocations, the Approvals and the history.
TypeOK ==
    /\ checkpoint \in Checkpoint
    /\ run \in [Runs -> Invocation]
    /\ approval \in [Approvals -> ApprovalRow]
    /\ origin \in [agent : Agents \cup {NoAgent}, budget : Nat]
    /\ entered \subseteq [call : Calls, appr : Approvals \cup {NoApproval}]

\* The transcripts a node runs from, each with that node.
Transcripts ==
    {<<checkpoint.next, checkpoint.st>>} \cup
    {<<run[r].pc, run[r].st>> : r \in {q \in Runs : run[q].pc \in Node}}

\* Each call of an assistant message at i is answered at its own place after
\* it, and nothing else is: no result is lost, repeated or out of order.
EveryCallAnswered(m) ==
    /\ \A i \in DOMAIN m : m[i].role = "assistant" =>
         \A k \in DOMAIN m[i].calls :
            i + k \in DOMAIN m /\ m[i + k] = Answering(m[i].calls[k])
    /\ \A i \in DOMAIN m : m[i].role = "tool" =>
         \E j \in 1 .. i : m[j].role = "assistant" /\ i - j \in DOMAIN m[j].calls

\* Whatever pauses, crashes and overlapping continuations happen, the model
\* is only called with, and a Task only ends with, a complete transcript.
TranscriptIsComplete ==
    \A t \in Transcripts : t[1] \in {"llm", "end"} => EveryCallAnswered(t[2].messages)

Rounds(st) == {i \in DOMAIN st.messages : st.messages[i].role = "assistant"}

\* docs/ARCHITECTURE.md, Approved continuation: the original budget bounds the
\* rounds of a workflow, the answer included, even when a runtime with another
\* max_steps continues it.
BudgetSpansResumes ==
    \A t \in Transcripts :
        t[1] # "none" =>
            Cardinality(Rounds(t[2])) + (IF t[2].answered THEN 1 ELSE 0)
                <= origin.budget

\* docs/ARCHITECTURE.md: recursion_limit is an extra guard.  No invocation,
\* fresh or continued, reaches it before the step budget ends it.
LimitIsOnlyAGuard ==
    \A r \in Runs : run[r].pc \in Node => run[r].fuel > 0

\* The Approval a paused or resumed state carries is the one drawn for the
\* call at its cursor, so an APPROVED decision always applies to that call.
PendingNamesItsCall ==
    \A t \in Transcripts :
        t[2].pending # NoApproval =>
            /\ t[2].cursor < Len(t[2].calls)
            /\ approval[t[2].pending].call = Current(t[2])

\* A protected Tool is entered only under an Approval a human APPROVED for
\* exactly that call, whichever invocation got there and how.
ProtectedEntriesApproved ==
    \A e \in entered :
        e.call \in Protected => e.appr \in Approvals /\ Authorized(e.appr, e.call)

\* A workflow begun for an Agent enters that Agent's Tools only, also after a
\* pause, in another process, under any other caller's scope.
GrantsSurvivePauses ==
    origin.agent # NoAgent => \A e \in entered : e.call \in Grants[origin.agent]

-----------------------------------------------------------------------------
(***************************************************************************)
(* The inductive invariant behind the properties.                          *)
(***************************************************************************)

InBatch(next) == next \in {"tool", "approval_pause"}

\* Where the open batch was asked for; past the end when there is none.
OpenAt(next, st) ==
    Len(st.messages) + (IF InBatch(next) THEN - st.cursor ELSE 1)

\* Batches asked for before position b are complete before it, answers stand
\* at their place, and there is no other.
AnswersBefore(m, b) ==
    /\ \A i \in DOMAIN m : m[i].role = "assistant" =>
         /\ i < b => i + Len(m[i].calls) < b
         /\ \A k \in DOMAIN m[i].calls :
              i + k <= Len(m) => m[i + k] = Answering(m[i].calls[k])
    /\ \A i \in DOMAIN m : m[i].role = "tool" =>
         \E j \in 1 .. i : m[j].role = "assistant" /\ i - j \in DOMAIN m[j].calls

\* The open batch is the last one, and its answers end the transcript.
OpenBatch(m, b, calls) ==
    /\ b \in DOMAIN m
    /\ m[b] = Asking(calls)
    /\ \A i \in DOMAIN m : i > b => m[i].role = "tool"

\* Rounds are counted, within the budget; an answer ends the workflow.
StepsInv(next, st) ==
    /\ st.step <= st.budget
    /\ InBatch(next) => st.step >= 1
    /\ st.answered => next = "end"
    /\ Cardinality(Rounds(st)) + (IF st.answered THEN 1 ELSE 0) = st.step

\* The Approval in a state was drawn for the call at the cursor.
PendingInv(next, st, appr) ==
    /\ next = "approval_pause" => st.pending # NoApproval
    /\ st.pending # NoApproval =>
         /\ InBatch(next)
         /\ st.cursor < Len(st.calls)
         /\ appr[st.pending].call = Current(st)
         /\ appr[st.pending].status # "FREE"

TranscriptInv(next, st) ==
    /\ st.cursor <= Len(st.calls)
    /\ AnswersBefore(st.messages, OpenAt(next, st))
    /\ InBatch(next) => OpenBatch(st.messages, OpenAt(next, st), st.calls)

\* What holds of a state together with the node that runs next from it.
Legit(next, st, org, appr) ==
    /\ st.agent = org.agent /\ st.budget = org.budget
    /\ StepsInv(next, st)
    /\ PendingInv(next, st, appr)
    /\ TranscriptInv(next, st)

\* The supersteps that the budget still allows from a node, its own included.
Needed(inv) ==
    LET left == 2 * (inv.st.budget - inv.st.step) IN
    CASE inv.pc = "llm"  -> left + 1
      [] inv.pc = "tool" -> left + 2
      [] OTHER           -> IF inv.resume = NoApproval THEN 1 ELSE left + 3

RunInv(inv, org, appr) ==
    /\ inv.pc \in Node => Legit(inv.pc, inv.st, org, appr) /\ inv.fuel >= Needed(inv)
    /\ inv.pc = "entering" => inv.fuel = 2 * org.budget + 3
    /\ inv.pc \in Node \cup {"entering"} /\ org.agent # NoAgent => inv.scope = org.agent

CheckpointInv ==
    IF checkpoint.next = "none"
      THEN checkpoint.st = NoState /\ entered = {} /\ \A r \in Runs : run[r].pc = "idle"
      ELSE Legit(checkpoint.next, checkpoint.st, origin, approval)

IInv ==
    /\ TypeOK
    /\ CheckpointInv
    /\ \A r \in Runs : RunInv(run[r], origin, approval)
    /\ ProtectedEntriesApproved
    /\ GrantsSurvivePauses
=============================================================================
