------------------------------ MODULE Delegation ------------------------------
(***************************************************************************)
(* A Task that a Supervisor delegates to a Worker (tasks/delegation.py,    *)
(* agents/supervisor.py): the REQUEST its caller may keep, the Task's row  *)
(* and the workflow's checkpoint, which change independently, and the      *)
(* replies projected from both for whoever holds the REQUEST.              *)
(*                                                                         *)
(* The Task moves as TaskContract allows; of continuations and recoveries  *)
(* the parts are kept that decide who writes its result and what the       *)
(* checkpoint says.  How long a recovery waits is left to TaskLifecycle:   *)
(* here it may come at any time.                                           *)
(***************************************************************************)
EXTENDS FiniteSets

CONSTANTS
    Supervisors,    \* Agents that a caller passes as supervisor
    Registry,       \* Agents of the AgentRegistry, by their names
    Continuations,  \* invocations of the workflow and recoveries, each used once
    Approvals,
    Readers,        \* calls of read_delegation_result
    Answers,        \* final answers of the Worker
    NoAgent, NoAnswer, NoRequest, NoOwner

Agent == [name : {a.name : a \in Supervisors \cup Registry},
          role : {"SUPERVISOR", "DEVELOPER", "OTHER"}]

ASSUME ConstantsAssumption ==
    /\ Supervisors \cup Registry \subseteq Agent
    /\ \A a, b \in Registry : a.name = b.name => a = b
    /\ NoAgent \notin {a.name : a \in Supervisors \cup Registry}
    /\ NoAnswer \notin Answers
    /\ NoRequest \notin [sender : {a.name : a \in Supervisors},
                         receiver : {a.name : a \in Registry}]
    /\ NoOwner \notin Continuations \cup Approvals

VARIABLES
    status,      \* of the Task
    question,    \* of its Approvals
    result,      \* Task.result
    owner,       \* who wrote the row last: with the status, its generation
    checkpoint,  \* what workflow_evidence reads
    run,         \* continuation -> its place and its locals
    request,     \* the REQUEST the caller keeps
    reader,      \* reader -> the row it read
    replies      \* replies given to the caller

vars == <<status, question, result, owner, checkpoint, run, request, reader, replies>>

Contract == INSTANCE TaskContract

-----------------------------------------------------------------------------
(***************************************************************************)
(* Data                                                                    *)
(***************************************************************************)

Request == [sender : {a.name : a \in Supervisors}, receiver : {a.name : a \in Registry}]

\* final # NoAnswer: no node is next.
Checkpoint == [agent : {a.name : a \in Registry} \cup {NoAgent},
               final : Answers \cup {NoAnswer}]

Statuses == {"ABSENT", "PENDING", "RUNNING", "WAITING_APPROVAL", "SUCCEEDED", "FAILED",
             "REJECTED", "RECOVERY_REQUIRED"}

Generation == [status : Statuses, owner : Continuations \cup Approvals \cup {NoOwner}]

Run == [pc : {"idle", "created", "delegating", "exposed", "working", "answered",
              "resuming", "loading", "looking", "ended"},
        expects : Generation,
        answer : Answers \cup {NoAnswer},
        request : Request \cup {NoRequest}]

Fresh == [pc |-> "idle", expects |-> [status |-> "ABSENT", owner |-> NoOwner],
          answer |-> NoAnswer, request |-> NoRequest]

\* Mutant: a Task under review counts as failed.
ErrorWithReview == {"REJECTED", "FAILED", "RECOVERY_REQUIRED"}

Error == {"REJECTED", "FAILED"}

Reply == [kind : {"RESULT", "ERROR"}, status : {"SUCCEEDED"} \cup Error,
          sender : {a.name : a \in Registry}, receiver : {a.name : a \in Supervisors},
          content : Answers \cup {NoAnswer}]

Init ==
    /\ Contract!Init
    /\ result = NoAnswer
    /\ owner = NoOwner
    /\ checkpoint = [agent |-> NoAgent, final |-> NoAnswer]
    /\ run = [c \in Continuations |-> Fresh]
    /\ request = NoRequest
    /\ reader = [d \in Readers |-> [pc |-> "idle", status |-> "ABSENT", result |-> NoAnswer]]
    /\ replies = {}

At(c, pc) == run[c].pc = pc

Goto(c, pc) == run' = [run EXCEPT ![c].pc = pc]

\* The row as it is now.
Row == [status |-> status, owner |-> owner]

\* The generation a continuation defends is still the row's.
Owns(c) == run[c].expects = Row

-----------------------------------------------------------------------------
(***************************************************************************)
(* execute_delegated_task                                                  *)
(***************************************************************************)

Create(c) ==
    /\ At(c, "idle")
    /\ Contract!Create
    /\ Goto(c, "created")
    /\ UNCHANGED <<result, owner, checkpoint, request, reader, replies>>

Start(c) ==
    /\ At(c, "created")
    /\ Contract!Start
    /\ owner' = c
    /\ run' = [run EXCEPT ![c].pc = "delegating", ![c].expects = Row']
    /\ UNCHANGED <<result, checkpoint, request, reader, replies>>

\* The checks of delegate_task and select_worker.
MayDelegate(supervisor, worker) ==
    /\ supervisor.role = "SUPERVISOR"
    /\ worker.role = "DEVELOPER"
    /\ worker.name # supervisor.name

Message(supervisor, worker) == [sender |-> supervisor.name, receiver |-> worker.name]

\* on_request: the REQUEST is in the caller's list, which it sees on return only.
Delegate(c) ==
    /\ At(c, "delegating")
    /\ \E supervisor \in Supervisors, worker \in Registry :
         /\ MayDelegate(supervisor, worker)
         /\ run' = [run EXCEPT ![c].pc = "exposed",
                               ![c].request = Message(supervisor, worker)]
    /\ UNCHANGED <<status, question, result, owner, checkpoint, request, reader, replies>>

\* The Worker's workflow begins with a checkpoint bound to the Worker.
Begin(c) ==
    /\ At(c, "exposed")
    /\ checkpoint.agent = NoAgent
    /\ checkpoint' = [agent |-> run[c].request.receiver, final |-> NoAnswer]
    /\ Goto(c, "working")
    /\ UNCHANGED <<status, question, result, owner, request, reader, replies>>

-----------------------------------------------------------------------------
(***************************************************************************)
(* The workflow, and what continue_running makes of its end                *)
(***************************************************************************)

\* A node's output; a superseded continuation writes the same checkpoint.
Work(c) ==
    /\ At(c, "working")
    /\ checkpoint' = [checkpoint EXCEPT !.final = NoAnswer]
    /\ UNCHANGED <<status, question, result, owner, run, request, reader, replies>>

Answer(c) ==
    /\ At(c, "working")
    /\ \E a \in Answers :
         /\ checkpoint' = [checkpoint EXCEPT !.final = a]
         /\ run' = [run EXCEPT ![c].pc = "answered", ![c].answer = a]
    /\ UNCHANGED <<status, question, result, owner, request, reader, replies>>

\* What the caller has when the call of continuation c returns.
Returned(c) == IF run[c].request # NoRequest THEN run[c].request ELSE request

\* A commit whose acknowledgement is lost raises.
ReturnOrRaise(c) == request' \in {Returned(c), request}

\* Mutant: the REQUEST is given out by an exception too.
ReturnedByRaise(c) == Returned(c)

KeptByRaise(c) == request

\* The paused Task and the REQUEST are returned.
Pause(c) ==
    /\ At(c, "working")
    /\ Owns(c)
    /\ \E p \in Approvals : Contract!Ask(p) /\ owner' = p
    /\ checkpoint' = [checkpoint EXCEPT !.final = NoAnswer]
    /\ ReturnOrRaise(c)
    /\ Goto(c, "ended")
    /\ UNCHANGED <<result, reader, replies>>

Succeed(c) ==
    /\ At(c, "answered")
    /\ Owns(c)
    /\ Contract!Succeed
    /\ result' = run[c].answer
    /\ ReturnOrRaise(c)
    /\ Goto(c, "ended")
    /\ UNCHANGED <<owner, checkpoint, reader, replies>>

\* Anything raised in the invocation; its exception goes to the caller.
Fail(c) ==
    /\ \E pc \in {"delegating", "exposed", "loading", "working"} : At(c, pc)
    /\ Owns(c)
    /\ Contract!Fail
    /\ request' = KeptByRaise(c)
    /\ Goto(c, "ended")
    /\ UNCHANGED <<result, owner, checkpoint, reader, replies>>

\* An uncertain Tool outcome, or what recovery finds.
Review(c) ==
    /\ \E pc \in {"loading", "working", "looking"} : At(c, pc)
    /\ Owns(c)
    /\ Contract!RequireRecovery
    /\ owner' = c
    /\ Goto(c, "ended")
    /\ UNCHANGED <<result, checkpoint, request, reader, replies>>

\* The process dies, or the row has another owner: nothing is written.
Abandon(c) ==
    /\ run[c].pc \notin {"idle", "ended"}
    /\ Goto(c, "ended")
    /\ UNCHANGED <<status, question, result, owner, checkpoint, request, reader, replies>>

-----------------------------------------------------------------------------
(***************************************************************************)
(* Decisions and recoveries                                                *)
(***************************************************************************)

Approve(c) ==
    /\ At(c, "idle")
    /\ \E p \in Approvals : Contract!Approve(p)
    /\ owner' = c
    /\ Goto(c, "resuming")
    /\ UNCHANGED <<result, checkpoint, request, reader, replies>>

Reject(p) ==
    /\ Contract!Reject(p)
    /\ UNCHANGED <<result, owner, checkpoint, run, request, reader, replies>>

\* resume adopts the row it reads.
Resume(c) ==
    /\ At(c, "resuming")
    /\ status = "RUNNING"
    /\ run' = [run EXCEPT ![c].pc = "loading", ![c].expects = Row]
    /\ UNCHANGED <<status, question, result, owner, checkpoint, request, reader, replies>>

\* The workflow goes on from a paused checkpoint, or Fail.
Load(c) ==
    /\ At(c, "loading")
    /\ checkpoint.agent # NoAgent /\ checkpoint.final = NoAnswer
    /\ Goto(c, "working")
    /\ UNCHANGED <<status, question, result, owner, checkpoint, request, reader, replies>>

\* Recovery reads the row before the checkpoint.
Look(c) ==
    /\ At(c, "idle")
    /\ status \in {"RUNNING", "WAITING_APPROVAL", "RECOVERY_REQUIRED"}
    /\ run' = [run EXCEPT ![c].pc = "looking", ![c].expects = Row]
    /\ UNCHANGED <<status, question, result, owner, checkpoint, request, reader, replies>>

\* The workflow has ended: recovery is about to write its answer.
Adopt(c) ==
    /\ At(c, "looking")
    /\ checkpoint.final # NoAnswer
    /\ run' = [run EXCEPT ![c].pc = "answered", ![c].answer = checkpoint.final]
    /\ UNCHANGED <<status, question, result, owner, checkpoint, request, reader, replies>>

\* A claim makes a generation of its own, and goes on through resume or with
\* the pending Tool.
Claim(c) ==
    /\ At(c, "looking")
    /\ Owns(c)
    /\ status \in {"RUNNING", "RECOVERY_REQUIRED"}
    /\ status' = "RUNNING"
    /\ owner' = c
    /\ \/ Goto(c, "resuming")
       \/ run' = [run EXCEPT ![c].pc = "loading", ![c].expects = Row']
    /\ UNCHANGED <<question, result, checkpoint, request, reader, replies>>

-----------------------------------------------------------------------------
(***************************************************************************)
(* read_delegation_result                                                  *)
(***************************************************************************)

\* The Task is read, and the transaction ended.
ReadTask(d) ==
    /\ reader[d].pc = "idle"
    /\ request # NoRequest
    /\ reader' = [reader EXCEPT ![d] = [pc |-> "holding", status |-> status, result |-> result]]
    /\ UNCHANGED <<status, question, result, owner, checkpoint, run, request, replies>>

\* The checkpoint is read.  Evidence that does not agree raises; a Task that
\* has not ended has no reply.
Project(d) ==
    LET row == reader[d]
        Answered(kind, content) ==
            replies' = replies \cup {[kind |-> kind, status |-> row.status,
                                      sender |-> checkpoint.agent,
                                      receiver |-> request.sender, content |-> content]}
    IN
    /\ row.pc = "holding"
    /\ \/ /\ row.status = "SUCCEEDED"
          /\ checkpoint.agent = request.receiver /\ checkpoint.final = row.result
          /\ Answered("RESULT", row.result)
       \/ /\ row.status \in Error
          /\ checkpoint.agent = request.receiver
          /\ Answered("ERROR", NoAnswer)
       \/ /\ \/ row.status \notin Error \cup {"SUCCEEDED"}
             \/ checkpoint.agent # request.receiver
             \/ row.status = "SUCCEEDED" /\ checkpoint.final # row.result
          /\ UNCHANGED replies
    /\ reader' = [reader EXCEPT ![d] = [pc |-> "idle", status |-> "ABSENT", result |-> NoAnswer]]
    /\ UNCHANGED <<status, question, result, owner, checkpoint, run, request>>

-----------------------------------------------------------------------------
Execute(c) == Create(c) \/ Start(c) \/ Delegate(c) \/ Begin(c)

Continue(c) ==
    Work(c) \/ Answer(c) \/ Pause(c) \/ Succeed(c) \/ Fail(c) \/ Review(c) \/ Abandon(c)

Dispatch(c) == Approve(c) \/ Resume(c) \/ Load(c) \/ Look(c) \/ Adopt(c) \/ Claim(c)

Next ==
    \/ \E c \in Continuations : Execute(c) \/ Continue(c) \/ Dispatch(c)
    \/ \E p \in Approvals : Reject(p)
    \/ \E d \in Readers : ReadTask(d) \/ Project(d)

Spec == Init /\ [][Next]_vars

-----------------------------------------------------------------------------
(***************************************************************************)
(* Properties                                                              *)
(***************************************************************************)

\* Types of the row, the checkpoint, the continuations and the messages.
TypeOK ==
    /\ status \in Statuses
    /\ question \in [Approvals -> {"UNASKED", "PENDING", "APPROVED", "REJECTED"}]
    /\ result \in Answers \cup {NoAnswer}
    /\ owner \in Continuations \cup Approvals \cup {NoOwner}
    /\ checkpoint \in Checkpoint
    /\ run \in [Continuations -> Run]
    /\ request \in Request \cup {NoRequest}
    /\ reader \in [Readers -> [pc : {"idle", "holding"}, status : Statuses,
                               result : Answers \cup {NoAnswer}]]
    /\ replies \subseteq Reply

\* docs/ARCHITECTURE.md, TASK-040: a reply is a projection of the durable
\* outcome.  Replies come from a row and a checkpoint read at different times,
\* while recoveries and superseded continuations go on; still each tells how
\* the Task has ended for good, and so no two of them disagree.
RepliesTellTheEnd ==
    \A r \in replies :
        /\ r.status = status
        /\ r.kind = "RESULT" <=> status = "SUCCEEDED"
        /\ r.kind = "RESULT" => r.content = result

\* A caller that keeps a REQUEST finds the Worker's workflow behind it: only
\* calls that raised leave a Task without one, and they return no REQUEST.
RequestHasProvenance ==
    request # NoRequest => checkpoint.agent = request.receiver

-----------------------------------------------------------------------------
(***************************************************************************)
(* The inductive invariant behind them                                     *)
(***************************************************************************)

Finished == Error \cup {"SUCCEEDED"}

\* Only execute has a REQUEST to return, and from its first checkpoint on the
\* workflow is the receiver's.
RunSound(local, agent) ==
    /\ local.pc \in {"idle", "created", "delegating", "resuming", "loading", "looking"} =>
         local.request = NoRequest
    /\ local.pc = "exposed" => local.request # NoRequest
    /\ local.pc \in {"working", "answered"} /\ local.request # NoRequest =>
         agent = local.request.receiver

RunInv == \A c \in Continuations : RunSound(run[c], checkpoint.agent)

\* A finished row that a reader holds is the row still.
ReaderInv ==
    \A d \in Readers :
        reader[d].pc = "holding" =>
            /\ request # NoRequest
            /\ reader[d].status \in Finished =>
                 reader[d].status = status /\ reader[d].result = result

IInv ==
    /\ TypeOK
    /\ RunInv
    /\ RequestHasProvenance
    /\ ReaderInv
    /\ RepliesTellTheEnd

=============================================================================
