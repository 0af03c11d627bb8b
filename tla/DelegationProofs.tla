---------------------------- MODULE DelegationProofs ----------------------------
(***************************************************************************)
(* Proofs about Delegation: IInv is inductive and implies its properties,  *)
(* for any Agents, numbers of continuations, Approvals and readers.        *)
(***************************************************************************)
EXTENDS Delegation, TLAPS

-----------------------------------------------------------------------------
(***************************************************************************)
(* What all steps have in common                                           *)
(***************************************************************************)

LEMMA NamesDiffer ==
    /\ NoRequest \notin Request
    /\ \A message \in Request : message.receiver # NoAgent
<1>1. \A message \in Request : \E a \in Registry : message.receiver = a.name
  BY DEF Request
<1> QED BY <1>1, ConstantsAssumption DEF Request

\* Replies and what readers hold stay true while finished rows stay.
LEMMA RowStep ==
    ASSUME IInv, UNCHANGED <<reader, replies>>,
           status \in Finished => UNCHANGED <<status, result>>,
           request # NoRequest => request' # NoRequest
    PROVE  ReaderInv' /\ RepliesTellTheEnd'
<1>1. ReaderInv'
  BY DEF IInv, ReaderInv
<1>2. \A r \in replies : status \in Finished
  BY DEF IInv, TypeOK, RepliesTellTheEnd, Reply, Finished
<1>3. RepliesTellTheEnd'
  BY <1>2 DEF IInv, RepliesTellTheEnd
<1> QED BY <1>1, <1>3

\* The step of a continuation c that comes to be x.
LEMMA RunStep ==
    ASSUME IInv, NEW c \in Continuations, NEW x \in Run,
           run' = [run EXCEPT ![c] = x],
           RunSound(x, checkpoint'.agent),
           checkpoint' \in Checkpoint,
           checkpoint.agent \in {checkpoint'.agent, NoAgent},
           status' \in Statuses,
           question' \in [Approvals -> {"UNASKED", "PENDING", "APPROVED", "REJECTED"}],
           result' \in Answers \cup {NoAnswer},
           owner' \in Continuations \cup Approvals \cup {NoOwner},
           \/ request' = request
           \/ request' \in Request /\ checkpoint'.agent = request'.receiver,
           status \in Finished => UNCHANGED <<status, result>>,
           UNCHANGED <<reader, replies>>
    PROVE  IInv'
<1>1. TypeOK'
  BY DEF IInv, TypeOK
<1>2. RunInv'
  <2>1. ASSUME NEW u \in Continuations, u # c PROVE RunSound(run'[u], checkpoint'.agent)
    <3>1. run'[u] = run[u] /\ run[u] \in Run
      BY <2>1 DEF IInv, TypeOK
    <3>2. RunSound(run[u], checkpoint.agent)
      BY DEF IInv, RunInv
    <3>3. run[u].request # NoRequest => run[u].request.receiver # NoAgent
      BY <3>1, NamesDiffer DEF Run
    <3> QED BY <3>1, <3>2, <3>3 DEF RunSound
  <2>2. run'[c] = x
    BY DEF IInv, TypeOK
  <2> QED BY <2>1, <2>2 DEF RunInv
<1>3. RequestHasProvenance'
  <2>1. CASE request' = request
    <3>1. request # NoRequest => request.receiver # NoAgent
      BY NamesDiffer DEF IInv, TypeOK
    <3> QED BY <2>1, <3>1 DEF IInv, RequestHasProvenance
  <2>2. CASE request' \in Request /\ checkpoint'.agent = request'.receiver
    BY <2>2 DEF RequestHasProvenance
  <2> QED BY <2>1, <2>2
<1>4. ReaderInv' /\ RepliesTellTheEnd'
  BY RowStep, NamesDiffer
<1> QED BY <1>1, <1>2, <1>3, <1>4 DEF IInv

\* What a continuation's step begins from.
LEMMA Before ==
    ASSUME IInv, NEW c \in Continuations
    PROVE  /\ run[c] \in Run /\ RunSound(run[c], checkpoint.agent)
           /\ run \in [Continuations -> Run]
           /\ checkpoint \in Checkpoint
           /\ status \in Statuses
           /\ question \in [Approvals -> {"UNASKED", "PENDING", "APPROVED", "REJECTED"}]
           /\ result \in Answers \cup {NoAnswer}
           /\ owner \in Continuations \cup Approvals \cup {NoOwner}
BY DEF IInv, TypeOK, RunInv

\* A step that moves c to another place and writes nothing but the checkpoint's
\* answer.
LEMMA QuietStep ==
    ASSUME IInv, NEW c \in Continuations, NEW x \in Run,
           run' = [run EXCEPT ![c] = x], RunSound(x, checkpoint.agent),
           checkpoint' \in Checkpoint, checkpoint'.agent = checkpoint.agent,
           UNCHANGED <<status, question, result, owner, request, reader, replies>>
    PROVE  IInv'
BY Before, RunStep

-----------------------------------------------------------------------------
(***************************************************************************)
(* The steps of the workflow and of recovery that write no row             *)
(***************************************************************************)

\* A continuation that only goes to another place keeps its locals.
LEMMA PlaceStep ==
    ASSUME IInv, NEW c \in Continuations,
           NEW pc \in {"working", "resuming", "loading", "ended"}, Goto(c, pc),
           pc \in {"resuming", "loading"} => run[c].request = NoRequest,
           pc = "working" /\ run[c].request # NoRequest =>
               checkpoint.agent = run[c].request.receiver
    PROVE  \E x \in Run :
             /\ run' = [run EXCEPT ![c] = x]
             /\ RunSound(x, checkpoint.agent)
<1> DEFINE x == [run[c] EXCEPT !.pc = pc]
<1>1. x \in Run /\ x.pc = pc /\ x.request = run[c].request
  BY Before DEF Run
<1>2. run' = [run EXCEPT ![c] = x]
  BY DEF Goto
<1>3. RunSound(x, checkpoint.agent)
  BY <1>1 DEF RunSound
<1> QED BY <1>1, <1>2, <1>3

LEMMA DelegateKeeps ==
    ASSUME IInv, NEW c \in Continuations, Delegate(c)
    PROVE  IInv'
<1>1. PICK supervisor \in Supervisors, worker \in Registry :
        run' = [run EXCEPT ![c].pc = "exposed", ![c].request = Message(supervisor, worker)]
  BY DEF Delegate
<1> DEFINE x == [run[c] EXCEPT !.pc = "exposed", !.request = Message(supervisor, worker)]
<1>2. Message(supervisor, worker) \in Request
  BY DEF Message, Request
<1>3. x \in Run /\ x.pc = "exposed" /\ x.request # NoRequest
  BY <1>2, Before, NamesDiffer DEF Run
<1>4. run' = [run EXCEPT ![c] = x]
  BY <1>1
<1>5. RunSound(x, checkpoint.agent)
  BY <1>3 DEF RunSound
<1>6. UNCHANGED <<status, question, result, owner, checkpoint, request, reader, replies>>
  BY DEF Delegate
<1> HIDE DEF x
<1> QED BY <1>3, <1>4, <1>5, <1>6, Before, QuietStep

\* The first checkpoint is the receiver's.
LEMMA BeginKeeps ==
    ASSUME IInv, NEW c \in Continuations, Begin(c)
    PROVE  IInv'
<1> DEFINE x == [run[c] EXCEPT !.pc = "working"]
<1>1. run[c].request \in Request
  BY Before DEF Begin, At, RunSound, Run
<1>2. checkpoint' = [agent |-> run[c].request.receiver, final |-> NoAnswer]
  BY DEF Begin
<1>3. checkpoint' \in Checkpoint /\ checkpoint'.agent = run[c].request.receiver
  BY <1>1, <1>2 DEF Checkpoint, Request
<1>4. x \in Run /\ x.pc = "working" /\ x.request = run[c].request
  BY Before DEF Run
<1>5. run' = [run EXCEPT ![c] = x]
  BY DEF Begin, Goto
<1>6. RunSound(x, checkpoint'.agent)
  BY <1>3, <1>4 DEF RunSound
<1>7. checkpoint.agent = NoAgent
      /\ UNCHANGED <<status, question, result, owner, request, reader, replies>>
  BY DEF Begin
<1> HIDE DEF x
<1> QED BY <1>3, <1>4, <1>5, <1>6, <1>7, Before, RunStep

LEMMA WorkKeeps ==
    ASSUME IInv, NEW c \in Continuations, Work(c)
    PROVE  IInv'
<1> DEFINE x == run[c]
<1>1. checkpoint' \in Checkpoint /\ checkpoint'.agent = checkpoint.agent
  BY Before DEF Work, Checkpoint
<1>2. run' = [run EXCEPT ![c] = x]
  BY Before DEF Work
<1>3. UNCHANGED <<status, question, result, owner, request, reader, replies>>
  BY DEF Work
<1>4. x \in Run /\ RunSound(x, checkpoint.agent)
  BY Before
<1> HIDE DEF x
<1> QED BY <1>1, <1>2, <1>3, <1>4, QuietStep

LEMMA AnswerKeeps ==
    ASSUME IInv, NEW c \in Continuations, Answer(c)
    PROVE  IInv'
<1>1. PICK a \in Answers :
        /\ checkpoint' = [checkpoint EXCEPT !.final = a]
        /\ run' = [run EXCEPT ![c].pc = "answered", ![c].answer = a]
  BY DEF Answer
<1> DEFINE x == [run[c] EXCEPT !.pc = "answered", !.answer = a]
<1>2. checkpoint' \in Checkpoint /\ checkpoint'.agent = checkpoint.agent
  BY <1>1, Before DEF Checkpoint
<1>3. x \in Run /\ x.pc = "answered" /\ x.request = run[c].request
  BY Before DEF Run
<1>4. run' = [run EXCEPT ![c] = x]
  BY <1>1
<1>5. RunSound(x, checkpoint.agent)
  BY <1>3, Before DEF RunSound, Answer, At
<1>6. UNCHANGED <<status, question, result, owner, request, reader, replies>>
  BY DEF Answer
<1> HIDE DEF x
<1> QED BY <1>2, <1>3, <1>4, <1>5, <1>6, QuietStep

LEMMA AbandonKeeps ==
    ASSUME IInv, NEW c \in Continuations, Abandon(c)
    PROVE  IInv'
<1>1. Goto(c, "ended")
      /\ UNCHANGED <<status, question, result, owner, checkpoint, request, reader, replies>>
  BY DEF Abandon
<1>3. PICK x \in Run : run' = [run EXCEPT ![c] = x] /\ RunSound(x, checkpoint.agent)
  BY <1>1, PlaceStep
<1> QED BY <1>1, <1>3, Before, QuietStep

LEMMA LoadKeeps ==
    ASSUME IInv, NEW c \in Continuations, Load(c)
    PROVE  IInv'
<1>1. Goto(c, "working")
      /\ UNCHANGED <<status, question, result, owner, checkpoint, request, reader, replies>>
  BY DEF Load
<1>2. run[c].request = NoRequest
  BY Before DEF Load, At, RunSound
<1>3. PICK x \in Run : run' = [run EXCEPT ![c] = x] /\ RunSound(x, checkpoint.agent)
  BY <1>1, <1>2, PlaceStep
<1> QED BY <1>1, <1>3, Before, QuietStep

LEMMA ResumeKeeps ==
    ASSUME IInv, NEW c \in Continuations, Resume(c)
    PROVE  IInv'
<1> DEFINE x == [run[c] EXCEPT !.pc = "loading", !.expects = Row]
<1>1. Row \in Generation
  BY Before DEF Row, Generation
<1>2. x \in Run /\ x.pc = "loading" /\ x.request = run[c].request
  BY <1>1, Before DEF Run
<1>3. run[c].request = NoRequest
  BY Before DEF Resume, At, RunSound
<1>4. run' = [run EXCEPT ![c] = x]
  BY DEF Resume
<1>5. RunSound(x, checkpoint.agent)
  BY <1>2, <1>3 DEF RunSound
<1>6. UNCHANGED <<status, question, result, owner, checkpoint, request, reader, replies>>
  BY DEF Resume
<1> HIDE DEF x
<1> QED BY <1>2, <1>4, <1>5, <1>6, Before, QuietStep

LEMMA LookKeeps ==
    ASSUME IInv, NEW c \in Continuations, Look(c)
    PROVE  IInv'
<1> DEFINE x == [run[c] EXCEPT !.pc = "looking", !.expects = Row]
<1>1. Row \in Generation
  BY Before DEF Row, Generation
<1>2. x \in Run /\ x.pc = "looking" /\ x.request = run[c].request
  BY <1>1, Before DEF Run
<1>3. run[c].request = NoRequest
  BY Before DEF Look, At, RunSound
<1>4. run' = [run EXCEPT ![c] = x]
  BY DEF Look
<1>5. RunSound(x, checkpoint.agent)
  BY <1>2, <1>3 DEF RunSound
<1>6. UNCHANGED <<status, question, result, owner, checkpoint, request, reader, replies>>
  BY DEF Look
<1> HIDE DEF x
<1> QED BY <1>2, <1>4, <1>5, <1>6, Before, QuietStep

LEMMA AdoptKeeps ==
    ASSUME IInv, NEW c \in Continuations, Adopt(c)
    PROVE  IInv'
<1> DEFINE x == [run[c] EXCEPT !.pc = "answered", !.answer = checkpoint.final]
<1>1. checkpoint.final \in Answers \cup {NoAnswer}
  BY Before DEF Checkpoint
<1>2. x \in Run /\ x.pc = "answered" /\ x.request = run[c].request
  BY <1>1, Before DEF Run
<1>3. run[c].request = NoRequest
  BY Before DEF Adopt, At, RunSound
<1>4. run' = [run EXCEPT ![c] = x]
  BY DEF Adopt
<1>5. RunSound(x, checkpoint.agent)
  BY <1>2, <1>3 DEF RunSound
<1>6. UNCHANGED <<status, question, result, owner, checkpoint, request, reader, replies>>
  BY DEF Adopt
<1> HIDE DEF x
<1> QED BY <1>2, <1>4, <1>5, <1>6, Before, QuietStep

-----------------------------------------------------------------------------
(***************************************************************************)
(* The steps that write the row                                            *)
(***************************************************************************)

\* A move of the contract that creates, starts, ends or reviews the Task
\* begins where the Task has not finished.
LEMMA ContractMoves ==
    ASSUME IInv,
           \/ Contract!Create \/ Contract!Start \/ Contract!Succeed
           \/ Contract!Fail \/ Contract!RequireRecovery
    PROVE  /\ status \notin Finished
           /\ status' \in Statuses
           /\ question' = question
BY DEF Contract!Create, Contract!Start, Contract!Succeed, Contract!Fail,
       Contract!RequireRecovery, Contract!Move, Finished, Error, Statuses

\* So do a question and its answer.
LEMMA ContractQuestions ==
    ASSUME IInv, NEW p \in Approvals,
           Contract!Ask(p) \/ Contract!Approve(p) \/ Contract!Reject(p)
    PROVE  /\ status \notin Finished
           /\ status' \in Statuses
           /\ question' \in [Approvals -> {"UNASKED", "PENDING", "APPROVED", "REJECTED"}]
BY DEF Contract!Ask, Contract!Approve, Contract!Reject, Contract!Move, Finished, Error,
       Statuses, IInv, TypeOK

LEMMA CreateKeeps ==
    ASSUME IInv, NEW c \in Continuations, Create(c)
    PROVE  IInv'
<1> DEFINE x == [run[c] EXCEPT !.pc = "created"]
<1>1. x \in Run /\ x.pc = "created" /\ x.request = run[c].request
  BY Before DEF Run
<1>2. run' = [run EXCEPT ![c] = x]
  BY DEF Create, Goto
<1>3. RunSound(x, checkpoint.agent)
  BY <1>1, Before DEF RunSound, Create, At
<1>4. status \notin Finished /\ status' \in Statuses /\ question' = question
  BY ContractMoves DEF Create
<1>5. UNCHANGED <<result, owner, checkpoint, request, reader, replies>>
  BY DEF Create
<1> HIDE DEF x
<1> QED BY <1>1, <1>2, <1>3, <1>4, <1>5, Before, RunStep

LEMMA StartKeeps ==
    ASSUME IInv, NEW c \in Continuations, Start(c)
    PROVE  IInv'
<1> DEFINE x == [run[c] EXCEPT !.pc = "delegating", !.expects = Row']
<1>1. status \notin Finished /\ status' \in Statuses /\ question' = question
  BY ContractMoves DEF Start
<1>2. owner' = c /\ UNCHANGED <<result, checkpoint, request, reader, replies>>
  BY DEF Start
<1>3. Row' \in Generation
  BY <1>1, <1>2 DEF Row, Generation
<1>4. x \in Run /\ x.pc = "delegating" /\ x.request = run[c].request
  BY <1>3, Before DEF Run
<1>5. run' = [run EXCEPT ![c] = x]
  BY DEF Start
<1>6. RunSound(x, checkpoint.agent)
  BY <1>4, Before DEF RunSound, Start, At
<1> HIDE DEF x
<1> QED BY <1>1, <1>2, <1>4, <1>5, <1>6, Before, RunStep

\* What a call returns names the Agent of the checkpoint.
LEMMA ReturnedHasProvenance ==
    ASSUME IInv, NEW c \in Continuations, At(c, "working") \/ At(c, "answered"),
           ReturnOrRaise(c), checkpoint'.agent = checkpoint.agent
    PROVE  \/ request' = request
           \/ request' \in Request /\ checkpoint'.agent = request'.receiver
BY Before DEF At, ReturnOrRaise, Returned, Run, RunSound

LEMMA PauseKeeps ==
    ASSUME IInv, NEW c \in Continuations, Pause(c)
    PROVE  IInv'
<1>1. PICK p \in Approvals : Contract!Ask(p) /\ owner' = p
  BY DEF Pause
<1>2. /\ status \notin Finished
      /\ status' \in Statuses
      /\ question' \in [Approvals -> {"UNASKED", "PENDING", "APPROVED", "REJECTED"}]
  BY <1>1, ContractQuestions
<1>3. Goto(c, "ended") /\ UNCHANGED <<result, reader, replies>>
  BY DEF Pause
<1>4. checkpoint' \in Checkpoint /\ checkpoint'.agent = checkpoint.agent
  BY Before DEF Pause, Checkpoint
<1>5. \/ request' = request
      \/ request' \in Request /\ checkpoint'.agent = request'.receiver
  BY <1>4, ReturnedHasProvenance DEF Pause
<1>6. PICK x \in Run : run' = [run EXCEPT ![c] = x] /\ RunSound(x, checkpoint.agent)
  BY <1>3, PlaceStep
<1> QED BY <1>1, <1>2, <1>3, <1>4, <1>5, <1>6, Before, RunStep

LEMMA SucceedKeeps ==
    ASSUME IInv, NEW c \in Continuations, Succeed(c)
    PROVE  IInv'
<1>1. status \notin Finished /\ status' \in Statuses /\ question' = question
  BY ContractMoves DEF Succeed
<1>2. Goto(c, "ended") /\ UNCHANGED <<owner, checkpoint, reader, replies>>
  BY DEF Succeed
<1>3. result' \in Answers \cup {NoAnswer}
  BY Before DEF Succeed, Run
<1>4. \/ request' = request
      \/ request' \in Request /\ checkpoint'.agent = request'.receiver
  BY <1>2, ReturnedHasProvenance DEF Succeed
<1>5. PICK x \in Run : run' = [run EXCEPT ![c] = x] /\ RunSound(x, checkpoint.agent)
  BY <1>2, PlaceStep
<1> QED BY <1>1, <1>2, <1>3, <1>4, <1>5, Before, RunStep

LEMMA FailKeeps ==
    ASSUME IInv, NEW c \in Continuations, Fail(c)
    PROVE  IInv'
<1>1. status \notin Finished /\ status' \in Statuses /\ question' = question
  BY ContractMoves DEF Fail
<1>2. Goto(c, "ended") /\ UNCHANGED <<result, owner, checkpoint, request, reader, replies>>
  BY DEF Fail, KeptByRaise
<1>3. PICK x \in Run : run' = [run EXCEPT ![c] = x] /\ RunSound(x, checkpoint.agent)
  BY <1>2, PlaceStep
<1> QED BY <1>1, <1>2, <1>3, Before, RunStep

LEMMA ReviewKeeps ==
    ASSUME IInv, NEW c \in Continuations, Review(c)
    PROVE  IInv'
<1>1. status \notin Finished /\ status' \in Statuses /\ question' = question
  BY ContractMoves DEF Review
<1>2. /\ Goto(c, "ended") /\ owner' = c
      /\ UNCHANGED <<result, checkpoint, request, reader, replies>>
  BY DEF Review
<1>3. PICK x \in Run : run' = [run EXCEPT ![c] = x] /\ RunSound(x, checkpoint.agent)
  BY <1>2, PlaceStep
<1> QED BY <1>1, <1>2, <1>3, Before, RunStep

LEMMA ApproveKeeps ==
    ASSUME IInv, NEW c \in Continuations, Approve(c)
    PROVE  IInv'
<1>1. PICK p \in Approvals : Contract!Approve(p)
  BY DEF Approve
<1>2. /\ status \notin Finished
      /\ status' \in Statuses
      /\ question' \in [Approvals -> {"UNASKED", "PENDING", "APPROVED", "REJECTED"}]
  BY <1>1, ContractQuestions
<1>3. /\ Goto(c, "resuming") /\ owner' = c
      /\ UNCHANGED <<result, checkpoint, request, reader, replies>>
  BY DEF Approve
<1>4. run[c].request = NoRequest
  BY Before DEF Approve, At, RunSound
<1>5. PICK x \in Run : run' = [run EXCEPT ![c] = x] /\ RunSound(x, checkpoint.agent)
  BY <1>3, <1>4, PlaceStep
<1> QED BY <1>2, <1>3, <1>5, Before, RunStep

LEMMA RejectKeeps ==
    ASSUME IInv, NEW p \in Approvals, Reject(p)
    PROVE  IInv'
<1>1. /\ status \notin Finished
      /\ status' \in Statuses
      /\ question' \in [Approvals -> {"UNASKED", "PENDING", "APPROVED", "REJECTED"}]
  BY ContractQuestions DEF Reject
<1>2. UNCHANGED <<result, owner, checkpoint, run, request, reader, replies>>
  BY DEF Reject
<1>3. ReaderInv' /\ RepliesTellTheEnd'
  BY <1>1, <1>2, RowStep
<1>4. TypeOK'
  BY <1>1, <1>2 DEF IInv, TypeOK
<1>5. RunInv' /\ RequestHasProvenance'
  BY <1>2 DEF IInv, RunInv, RequestHasProvenance
<1> QED BY <1>3, <1>4, <1>5 DEF IInv

LEMMA ClaimKeeps ==
    ASSUME IInv, NEW c \in Continuations, Claim(c)
    PROVE  IInv'
<1>1. status \notin Finished /\ status' = "RUNNING"
  BY DEF Claim, Finished, Error
<1>2. owner' = c /\ UNCHANGED <<question, result, checkpoint, request, reader, replies>>
  BY DEF Claim
<1>3. run[c].request = NoRequest
  BY Before DEF Claim, At, RunSound
<1>4. Row' \in Generation
  BY <1>1, <1>2 DEF Row, Generation, Statuses
<1>5. \E x \in Run : run' = [run EXCEPT ![c] = x] /\ RunSound(x, checkpoint.agent)
  <2>1. CASE Goto(c, "resuming")
    BY <2>1, <1>3, PlaceStep
  <2>2. CASE run' = [run EXCEPT ![c].pc = "loading", ![c].expects = Row']
    <3> DEFINE x == [run[c] EXCEPT !.pc = "loading", !.expects = Row']
    <3>1. x \in Run /\ x.pc = "loading" /\ x.request = NoRequest
      BY <1>3, <1>4, Before DEF Run
    <3>2. run' = [run EXCEPT ![c] = x]
      BY <2>2
    <3>3. RunSound(x, checkpoint.agent)
      BY <3>1 DEF RunSound
    <3> HIDE DEF x
    <3> QED BY <3>1, <3>2, <3>3
  <2> QED BY <2>1, <2>2 DEF Claim
<1>6. PICK x \in Run : run' = [run EXCEPT ![c] = x] /\ RunSound(x, checkpoint.agent)
  BY <1>5
<1>7. status' \in Statuses
  BY <1>1 DEF Statuses
<1> QED BY <1>1, <1>2, <1>6, <1>7, Before, RunStep

-----------------------------------------------------------------------------
(***************************************************************************)
(* Reading                                                                 *)
(***************************************************************************)

LEMMA ReadTaskKeeps ==
    ASSUME IInv, NEW d \in Readers, ReadTask(d)
    PROVE  IInv'
<1>1. /\ request # NoRequest
      /\ reader' = [reader EXCEPT ![d] = [pc |-> "holding", status |-> status, result |-> result]]
      /\ UNCHANGED <<status, question, result, owner, checkpoint, run, request, replies>>
  BY DEF ReadTask
<1>2. TypeOK'
  BY <1>1 DEF IInv, TypeOK
<1>3. ReaderInv'
  <2>1. ASSUME NEW e \in Readers, reader'[e].pc = "holding", reader'[e].status \in Finished
        PROVE  reader'[e].status = status /\ reader'[e].result = result
    BY <1>1, <2>1 DEF IInv, TypeOK, ReaderInv
  <2> QED BY <1>1, <2>1 DEF ReaderInv
<1>4. RunInv' /\ RequestHasProvenance' /\ RepliesTellTheEnd'
  BY <1>1 DEF IInv, RunInv, RequestHasProvenance, RepliesTellTheEnd
<1> QED BY <1>2, <1>3, <1>4 DEF IInv

\* A reply repeats a finished row that is the row still.
LEMMA ProjectKeeps ==
    ASSUME IInv, NEW d \in Readers, Project(d)
    PROVE  IInv'
<1> DEFINE row == reader[d]
           given(kind, content) ==
             [kind |-> kind, status |-> row.status, sender |-> checkpoint.agent,
              receiver |-> request.sender, content |-> content]
<1>1. /\ row.pc = "holding"
      /\ reader' = [reader EXCEPT ![d] = [pc |-> "idle", status |-> "ABSENT", result |-> NoAnswer]]
      /\ UNCHANGED <<status, question, result, owner, checkpoint, run, request>>
  BY DEF Project
<1>2. /\ request \in Request
      /\ row.status \in Finished => row.status = status /\ row.result = result
  BY <1>1 DEF IInv, ReaderInv, TypeOK
<1>3. reader' \in [Readers -> [pc : {"idle", "holding"}, status : Statuses,
                               result : Answers \cup {NoAnswer}]]
  BY <1>1 DEF IInv, TypeOK, Statuses
<1>4. replies' \subseteq Reply /\ RepliesTellTheEnd'
  <2>1. CASE /\ row.status = "SUCCEEDED" /\ checkpoint.agent = request.receiver
             /\ replies' = replies \cup {given("RESULT", row.result)}
    <3>1. status = "SUCCEEDED" /\ row.result = result
      BY <1>2, <2>1 DEF Finished
    <3>2. given("RESULT", row.result) \in Reply
      BY <1>2, <2>1, <3>1 DEF Reply, Request, IInv, TypeOK
    <3>3. replies' \subseteq Reply
      BY <2>1, <3>2 DEF IInv, TypeOK
    <3>4. RepliesTellTheEnd'
      BY <1>1, <2>1, <3>1 DEF IInv, RepliesTellTheEnd
    <3> QED BY <3>3, <3>4
  <2>2. CASE /\ row.status \in Error /\ checkpoint.agent = request.receiver
             /\ replies' = replies \cup {given("ERROR", NoAnswer)}
    <3>1. status \in Error /\ row.status = status
      BY <1>2, <2>2 DEF Finished
    <3>2. given("ERROR", NoAnswer) \in Reply
      BY <1>2, <2>2 DEF Reply, Request
    <3>3. replies' \subseteq Reply
      BY <2>2, <3>2 DEF IInv, TypeOK
    <3>4. status # "SUCCEEDED"
      BY <3>1 DEF Error
    <3>5. RepliesTellTheEnd'
      BY <1>1, <2>2, <3>1, <3>4 DEF IInv, RepliesTellTheEnd
    <3> QED BY <3>3, <3>5
  <2>3. CASE replies' = replies
    BY <1>1, <2>3 DEF IInv, TypeOK, RepliesTellTheEnd
  <2> QED BY <2>1, <2>2, <2>3 DEF Project
<1>5. TypeOK'
  BY <1>1, <1>3, <1>4 DEF IInv, TypeOK
<1>6. ReaderInv'
  BY <1>1 DEF IInv, TypeOK, ReaderInv
<1>7. RunInv' /\ RequestHasProvenance'
  BY <1>1 DEF IInv, RunInv, RequestHasProvenance
<1> QED BY <1>4, <1>5, <1>6, <1>7 DEF IInv

-----------------------------------------------------------------------------
(***************************************************************************)
(* Invariance, and what follows                                            *)
(***************************************************************************)

LEMMA InitIsSound == Init => IInv
<1> SUFFICES ASSUME Init PROVE IInv
  OBVIOUS
<1>1. Fresh \in Run
  BY DEF Fresh, Run, Generation, Statuses
<1>2. RunSound(Fresh, NoAgent)
  BY DEF Fresh, RunSound
<1>3. status = "ABSENT" /\ question = [p \in Approvals |-> "UNASKED"]
  BY DEF Init, Contract!Init
<1>4. TypeOK
  BY <1>1, <1>3 DEF Init, TypeOK, Statuses, Checkpoint
<1>5. RunInv
  BY <1>2 DEF Init, RunInv
<1>6. RequestHasProvenance /\ ReaderInv /\ RepliesTellTheEnd
  BY DEF Init, RequestHasProvenance, ReaderInv, RepliesTellTheEnd
<1> QED BY <1>4, <1>5, <1>6 DEF IInv

LEMMA NextKeeps == IInv /\ [Next]_vars => IInv'
<1> SUFFICES ASSUME IInv, [Next]_vars PROVE IInv'
  OBVIOUS
<1>1. ASSUME NEW c \in Continuations, Execute(c) PROVE IInv'
  BY <1>1, CreateKeeps, StartKeeps, DelegateKeeps, BeginKeeps DEF Execute
<1>2. ASSUME NEW c \in Continuations, Continue(c) PROVE IInv'
  BY <1>2, WorkKeeps, AnswerKeeps, PauseKeeps, SucceedKeeps, FailKeeps, ReviewKeeps, AbandonKeeps
     DEF Continue
<1>3. ASSUME NEW c \in Continuations, Dispatch(c) PROVE IInv'
  BY <1>3, ApproveKeeps, ResumeKeeps, LoadKeeps, LookKeeps, AdoptKeeps, ClaimKeeps DEF Dispatch
<1>4. ASSUME NEW p \in Approvals, Reject(p) PROVE IInv'
  BY <1>4, RejectKeeps
<1>5. ASSUME NEW d \in Readers, ReadTask(d) \/ Project(d) PROVE IInv'
  BY <1>5, ReadTaskKeeps, ProjectKeeps
<1>6. CASE UNCHANGED vars
  BY <1>6 DEF vars, IInv, TypeOK, RunInv, RequestHasProvenance, ReaderInv, RepliesTellTheEnd
<1> QED BY <1>1, <1>2, <1>3, <1>4, <1>5, <1>6 DEF Next

\* IInv holds in every reachable state.
THEOREM Invariance == Spec => []IInv
<1>1. Init => IInv
  BY InitIsSound
<1>2. IInv /\ [Next]_vars => IInv'
  BY NextKeeps
<1> QED BY <1>1, <1>2, PTL DEF Spec

\* Row, checkpoint, continuations and messages keep their types.
THEOREM TypeCorrect == Spec => []TypeOK
<1>1. IInv => TypeOK
  BY DEF IInv
<1> QED BY <1>1, Invariance, PTL

\* No reply is ever contradicted by the Task or by another reply.
THEOREM RepliesAreFinal == Spec => []RepliesTellTheEnd
<1>1. IInv => RepliesTellTheEnd
  BY DEF IInv
<1> QED BY <1>1, Invariance, PTL

\* A REQUEST that its caller keeps has the receiver's workflow behind it.
THEOREM RequestsHaveProvenance == Spec => []RequestHasProvenance
<1>1. IInv => RequestHasProvenance
  BY DEF IInv
<1> QED BY <1>1, Invariance, PTL

=============================================================================
