------------------------- MODULE TaskLifecycleProofs -------------------------
(***************************************************************************)
(* Proofs about TaskLifecycle, for any number of threads and Approvals,    *)
(* any clock lag and any staleness threshold: IInv is inductive, every     *)
(* step is a step of TaskContract or leaves what it shows unchanged, and   *)
(* the properties of the row follow.                                       *)
(***************************************************************************)
EXTENDS TaskLifecycle, TLAPS

\* A clock reading is a natural number that the clock has reached.
LEMMA Readings ==
    ASSUME clock \in Nat, NEW now \in Now
    PROVE  now \in Nat /\ now <= clock
  BY ConstantsAssumption DEF Now, Later

\* A thread without a request has well-typed, harmless locals.
LEMMA IdleState == Idle \in ActorState /\ Coherent(Idle) /\ Idle.pc = "idle"
  BY DEF Idle, ActorState, Coherent, PC, TaskRow, NoTask, TaskStatus, NoCheckpoint,
    Checkpoint, NamesApproval, Supervised

\* A timestamped status is a row.
LEMMA RowType ==
    ASSUME NEW s \in TaskStatus, NEW t \in Nat
    PROVE  Row(s, t) \in TaskRow /\ Row(s, t).status = s /\ Row(s, t).updated = t
  BY DEF Row, TaskRow

\* No thread, one reading of the clock and an empty database.
LEMMA InitEstablishes == Init => IInv
<1> SUFFICES ASSUME Init PROVE IInv
  OBVIOUS
<1>1. TypeOK
  BY IdleState DEF Init, TypeOK, TaskRow, NoTask, TaskStatus, ApprovalStatus, NoCheckpoint,
    Checkpoint
<1>2. NamesApproval(checkpoint)
  BY DEF Init, NamesApproval, NoCheckpoint
<1>3. (\A a \in Actors : Coherent(actor[a])) /\ CreatorInv
  BY IdleState DEF Init, CreatorInv
<1> QED BY <1>1, <1>2, <1>3 DEF IInv

\* A step of one thread keeps the invariant if it leaves coherent locals and,
\* while a creator is between its saves, the row alone.
LEMMA ActorStep ==
    ASSUME IInv, NEW a \in Actors, NEW x \in ActorState, Coherent(x), x.pc # "created",
           actor' = [actor EXCEPT ![a] = x],
           task' \in TaskRow, approval' \in [Approvals -> ApprovalStatus],
           checkpoint' \in Checkpoint, NamesApproval(checkpoint'), clock' = clock,
           task' = task \/ task.status # "PENDING" \/ actor[a].pc = "created"
    PROVE  IInv'
<1>1. TypeOK'
  BY DEF IInv, TypeOK
<1>2. ASSUME NEW b \in Actors PROVE Coherent(actor[b])'
  <2>1. actor'[b] = IF b = a THEN x ELSE actor[b]
    BY DEF IInv, TypeOK
  <2>2. Coherent(actor'[b])
    BY <2>1 DEF IInv
  <2> QED
    BY <2>2 DEF Coherent, Candidate
<1>3. CreatorInv'
  <2> SUFFICES ASSUME NEW b \in Actors, actor'[b].pc = "created"
               PROVE  /\ task'.status = "PENDING"
                      /\ actor'[b].task = task'
                      /\ \A d \in Actors : actor'[d].pc = "created" => d = b
    BY DEF CreatorInv
  <2>1. \A d \in Actors : actor'[d] = IF d = a THEN x ELSE actor[d]
    BY DEF IInv, TypeOK
  <2>2. b # a /\ actor[b].pc = "created" /\ actor'[b] = actor[b]
    BY <2>1
  <2>3. task.status = "PENDING" /\ actor[b].task = task
        /\ \A d \in Actors : actor[d].pc = "created" => d = b
    BY <2>2 DEF IInv, CreatorInv
  <2> QED BY <2>1, <2>2, <2>3
<1>4. NamesApproval(checkpoint)'
  BY DEF NamesApproval
<1> QED BY <1>1, <1>2, <1>3, <1>4 DEF IInv

\* What stays unchanged keeps its type.
LEMMA Kept ==
    ASSUME IInv
    PROVE  /\ task \in TaskRow
           /\ approval \in [Approvals -> ApprovalStatus]
           /\ checkpoint \in Checkpoint
           /\ NamesApproval(checkpoint)
           /\ clock \in Nat
           /\ \A a \in Actors : actor[a] \in ActorState /\ Coherent(actor[a])
  BY DEF IInv, TypeOK

\* A request that ends leaves harmless locals.
LEMMA Ends ==
    ASSUME IInv, NEW a \in Actors, End(a),
           task' \in TaskRow, approval' \in [Approvals -> ApprovalStatus],
           UNCHANGED <<checkpoint, clock>>,
           task' = task \/ task.status # "PENDING" \/ actor[a].pc = "created"
    PROVE  IInv'
  BY ActorStep, IdleState, Kept DEF End

\* A supervised continuation moves to another supervised place.
LEMMA Moves ==
    ASSUME IInv, NEW a \in Actors, NEW pc \in Supervised \cup {"resuming"}, Goto(a, pc),
           actor[a].task.status = "RUNNING" \/ pc = "resuming",
           pc = "pausing" => actor[a].graph.next = "approval_pause",
           task' \in TaskRow, approval' \in [Approvals -> ApprovalStatus],
           UNCHANGED <<checkpoint, clock>>,
           task' = task \/ task.status # "PENDING"
    PROVE  IInv'
<1> DEFINE x == [actor[a] EXCEPT !.pc = pc]
<1>1. actor[a] \in ActorState /\ Coherent(actor[a])
  BY Kept
<1>2. /\ x \in ActorState /\ x.pc = pc /\ x.graph = actor[a].graph /\ x.task = actor[a].task
  BY <1>1 DEF ActorState, PC, Supervised
<1>3. Coherent(x)
  BY <1>1, <1>2 DEF Coherent, Supervised
<1>4. actor' = [actor EXCEPT ![a] = x]
  BY DEF Goto, IInv, TypeOK
<1>5. x.pc # "created"
  BY <1>2 DEF Supervised
<1> HIDE DEF x
<1> QED BY <1>2, <1>3, <1>4, <1>5, ActorStep, Kept

-----------------------------------------------------------------------------
(***************************************************************************)
(* The steps of execute and continue_running.                              *)
(***************************************************************************)

\* The PENDING row is known to its creator alone.
LEMMA CreateStep ==
    ASSUME IInv, NEW a \in Actors, Create(a)
    PROVE  IInv'
<1>1. PICK now \in Now : /\ task' = Row("PENDING", now)
                         /\ \/ actor' = [actor EXCEPT ![a].pc = "created", ![a].task = task']
                            \/ End(a)
  BY DEF Create
<1>2. task' \in TaskRow /\ task'.status = "PENDING" /\ task.status = "ABSENT"
      /\ UNCHANGED <<approval, checkpoint, clock>>
  BY <1>1, Readings, RowType, Kept DEF Create, TaskStatus
<1>3. CASE End(a)
  BY <1>2, <1>3, Ends, Kept
<1>4. CASE actor' = [actor EXCEPT ![a].pc = "created", ![a].task = task']
  <2> DEFINE x == [actor[a] EXCEPT !.pc = "created", !.task = task']
  <2>1. x \in ActorState /\ x.pc = "created" /\ x.task = task' /\ x.graph = actor[a].graph
    BY <1>2, Kept DEF ActorState, PC
  <2>2. Coherent(x)
    BY <2>1, Kept DEF Coherent, Supervised
  <2>3. actor' = [actor EXCEPT ![a] = x]
    BY <1>4 DEF IInv, TypeOK
  <2> HIDE DEF x
  <2>4. \A b \in Actors : actor'[b] = IF b = a THEN x ELSE actor[b]
    BY <2>3 DEF IInv, TypeOK
  <2>5. \A b \in Actors : actor[b].pc # "created"
    BY <1>2 DEF IInv, CreatorInv
  <2>6. CreatorInv'
    BY <1>2, <2>1, <2>4, <2>5 DEF CreatorInv
  <2>7. \A b \in Actors : Coherent(actor[b])'
    <3> SUFFICES ASSUME NEW b \in Actors PROVE Coherent(actor[b])'
      OBVIOUS
    <3>1. Coherent(actor'[b])
      BY <2>2, <2>4, Kept
    <3> QED BY <1>2, <3>1 DEF Coherent, Candidate
  <2>8. TypeOK' /\ NamesApproval(checkpoint)'
    BY <1>2, <2>1, <2>3, Kept DEF IInv, TypeOK, NamesApproval
  <2> QED BY <2>6, <2>7, <2>8 DEF IInv
<1> QED BY <1>1, <1>3, <1>4

\* The unconditional save of RUNNING meets the PENDING row its thread wrote.
LEMMA StartStep ==
    ASSUME IInv, NEW a \in Actors, Start(a)
    PROVE  IInv'
<1>1. PICK now \in NowSince(actor[a].task.updated) :
        /\ task' = Row("RUNNING", now)
        /\ \/ actor' = [actor EXCEPT ![a].pc = "begin", ![a].task = task']
           \/ End(a)
  BY DEF Start
<1>2. task' \in TaskRow /\ task'.status = "RUNNING" /\ actor[a].pc = "created"
      /\ UNCHANGED <<approval, checkpoint, clock>>
  BY <1>1, Readings, RowType, Kept DEF Start, TaskStatus, NowSince
<1>3. CASE End(a)
  BY <1>2, <1>3, Ends, Kept
<1>4. CASE actor' = [actor EXCEPT ![a].pc = "begin", ![a].task = task']
  <2> DEFINE x == [actor[a] EXCEPT !.pc = "begin", !.task = task']
  <2>1. x \in ActorState /\ x.pc = "begin" /\ x.task = task' /\ x.graph = actor[a].graph
    BY <1>2, Kept DEF ActorState, PC
  <2>2. Coherent(x)
    BY <1>2, <2>1, Kept DEF Coherent, Supervised
  <2>3. actor' = [actor EXCEPT ![a] = x]
    BY <1>4 DEF IInv, TypeOK
  <2> HIDE DEF x
  <2> QED BY <1>2, <2>1, <2>2, <2>3, ActorStep, Kept
<1> QED BY <1>1, <1>3, <1>4

\* A checkpoint write, by any node of a supervised continuation.
LEMMA WriteStep ==
    ASSUME IInv, NEW a \in Actors,
           NEW next \in {"llm", "tool", "approval_pause", "end"},
           NEW p \in Approvals \cup {NoApproval}, NEW resumed \in BOOLEAN,
           next = "approval_pause" => p \in Approvals,
           actor[a].pc \in Supervised,
           WriteCheckpoint(a, next, p, resumed),
           approval' \in [Approvals -> ApprovalStatus]
    PROVE  IInv'
<1> DEFINE x == [actor[a] EXCEPT !.pc = "node", !.graph = checkpoint']
<1>1. /\ actor[a] \in ActorState /\ Coherent(actor[a]) /\ checkpoint \in Checkpoint
      /\ actor[a].task.status = "RUNNING"
  BY Kept DEF Coherent
<1>2. checkpoint' \in Checkpoint /\ NamesApproval(checkpoint')
  BY <1>1 DEF WriteCheckpoint, Checkpoint, NamesApproval
<1>3. x \in ActorState /\ x.pc = "node" /\ x.task = actor[a].task /\ x.graph = checkpoint'
  BY <1>1, <1>2 DEF ActorState, PC
<1>4. Coherent(x)
  BY <1>1, <1>2, <1>3 DEF Coherent
<1>5. actor' = [actor EXCEPT ![a] = x] /\ task' = task /\ clock' = clock
  BY DEF WriteCheckpoint, IInv, TypeOK
<1> HIDE DEF x
<1> QED BY <1>2, <1>3, <1>4, <1>5, ActorStep, Kept

\* The nodes of the graph.
LEMMA NodeStep ==
    ASSUME IInv, NEW a \in Actors,
           Begin(a) \/ LlmNode(a) \/ ToolNode(a) \/ PauseNode(a)
    PROVE  IInv'
<1>1. CASE Begin(a)
  BY <1>1, WriteStep, Kept DEF Begin, Supervised
<1>2. CASE LlmNode(a)
  BY <1>2, WriteStep, Kept DEF LlmNode, AtNode, Supervised
<1>3. CASE ToolNode(a)
  <2>1. CASE WriteCheckpoint(a, "llm", NoApproval, FALSE) /\ UNCHANGED approval
    BY <1>3, <2>1, WriteStep, Kept DEF ToolNode, AtNode, Supervised
  <2>2. ASSUME NEW p \in Approvals, approval' = [approval EXCEPT ![p] = "DRAFT"],
               WriteCheckpoint(a, "approval_pause", p, FALSE)
        PROVE  IInv'
    <3>1. approval' \in [Approvals -> ApprovalStatus]
      BY <2>2, Kept DEF ApprovalStatus
    <3> QED BY <1>3, <2>2, <3>1, WriteStep DEF ToolNode, AtNode, Supervised
  <2> QED BY <1>3, <2>1, <2>2 DEF ToolNode
<1>4. CASE PauseNode(a)
  <2>1. actor[a].appr \in Approvals \cup {NoApproval}
    BY Kept DEF ActorState
  <2> QED BY <1>4, <2>1, WriteStep, Kept DEF PauseNode, Supervised
<1> QED BY <1>1, <1>2, <1>3, <1>4

\* The ways out of the invocation that write nothing.
LEMMA LeaveStep ==
    ASSUME IInv, NEW a \in Actors, Interrupt(a) \/ Raise(a) \/ PauseRaises(a)
    PROVE  IInv'
<1>1. Coherent(actor[a]) /\ UNCHANGED <<task, approval, checkpoint, clock>>
  BY Kept DEF Interrupt, Raise, PauseRaises
<1>2. actor[a].task.status = "RUNNING"
  BY <1>1 DEF Interrupt, Raise, PauseRaises, AtNode, InWorkflow, Coherent, Supervised
<1>3. \/ Goto(a, "pausing") /\ actor[a].graph.next = "approval_pause"
      \/ Goto(a, "failing")
      \/ Goto(a, "reviewing")
  BY DEF Interrupt, Raise, PauseRaises, AtNode
<1> QED BY <1>1, <1>2, <1>3, Moves, Kept DEF Supervised

\* An owner writes a row that is RUNNING.
LEMMA OwnersRun ==
    ASSUME IInv, NEW a \in Actors, actor[a].pc \in Supervised, Owns(a)
    PROVE  task.status = "RUNNING"
  BY Kept DEF Owns, Coherent

\* The pause commits the Approval and the waiting Task together.
LEMMA PauseStep ==
    ASSUME IInv, NEW a \in Actors, Pause(a)
    PROVE  IInv'
<1>1. actor[a].pc = "pausing" /\ Coherent(actor[a]) /\ UNCHANGED <<checkpoint, clock>>
  BY Kept DEF Pause
<1>2. CASE ~Owns(a)
  BY <1>1, <1>2, Ends, Kept DEF Pause
<1>3. CASE Owns(a)
  <2>1. actor[a].task.status = "RUNNING" /\ task.status = "RUNNING"
    BY <1>1, <1>3, OwnersRun DEF Coherent, Supervised
  <2>2. PICK now \in NowSince(task.updated) : task' = Row("WAITING_APPROVAL", now)
    BY <1>3 DEF Pause
  <2>3. task' \in TaskRow
    BY <2>2, Readings, RowType, Kept DEF TaskStatus, NowSince
  <2>4. approval' \in [Approvals -> ApprovalStatus]
    BY <1>3, Kept DEF Pause, ApprovalStatus
  <2>5. End(a) \/ Goto(a, "failing")
    BY <1>3 DEF Pause
  <2> QED BY <1>1, <2>1, <2>3, <2>4, <2>5, Ends, Moves DEF Supervised
<1> QED BY <1>2, <1>3

\* A compare-and-set from a RUNNING expectation writes a well-typed row over a
\* RUNNING one, or nothing.
LEMMA SettleStep ==
    ASSUME IInv, NEW a \in Actors, Fail(a) \/ Review(a) \/ Succeed(a)
    PROVE  IInv'
<1>1. PICK status \in {"FAILED", "RECOVERY_REQUIRED", "SUCCEEDED"} : Settle(a, status)
  BY DEF Fail, Review, Succeed
<1>2. actor[a].pc \in Supervised
  BY DEF Fail, Review, Succeed, AtNode, Supervised
<1>3. PICK now \in NowSince(actor[a].task.updated) : WriteIfUnchanged(a, Row(status, now))
  BY <1>1 DEF Settle
<1>4. task' \in TaskRow /\ (task' = task \/ task.status = "RUNNING")
  BY <1>2, <1>3, OwnersRun, Readings, RowType, Kept
    DEF WriteIfUnchanged, TaskStatus, NowSince
<1> QED BY <1>1, <1>4, Ends, Kept DEF Settle

-----------------------------------------------------------------------------
(***************************************************************************)
(* The steps of decide and resume.                                         *)
(***************************************************************************)

\* A request builds its candidates from an open question of a waiting Task.
LEMMA ReadForDecisionStep ==
    ASSUME IInv, NEW a \in Actors, NEW p \in Approvals, ReadForDecision(a, p)
    PROVE  IInv'
<1>1. PICK status \in {"RUNNING", "REJECTED"}, now \in NowSince(task.updated) :
        actor' = [actor EXCEPT ![a].pc = "deciding", ![a].appr = p,
                               ![a].goal = Row(status, now)]
  BY DEF ReadForDecision
<1> DEFINE x == [actor[a] EXCEPT !.pc = "deciding", !.appr = p, !.goal = Row(status, now)]
<1>2. Row(status, now) \in TaskRow /\ Row(status, now).status = status
  BY Readings, RowType, Kept DEF TaskStatus, NowSince
<1>3. /\ x \in ActorState /\ x.pc = "deciding" /\ x.appr = p
      /\ x.goal = Row(status, now) /\ x.graph = actor[a].graph
  BY <1>2, Kept DEF ActorState, PC
<1>4. Coherent(x)
  BY <1>2, <1>3, Kept DEF Coherent, Supervised
<1>5. actor' = [actor EXCEPT ![a] = x]
  BY <1>1 DEF IInv, TypeOK
<1> HIDE DEF x
<1> QED BY <1>3, <1>4, <1>5, ActorStep, Kept DEF ReadForDecision

\* The two conditional updates of a decision.
LEMMA DecideStep ==
    ASSUME IInv, NEW a \in Actors, Decide(a)
    PROVE  IInv'
<1>1. /\ actor[a].pc = "deciding" /\ actor[a] \in ActorState
      /\ UNCHANGED <<checkpoint, clock>>
  BY Kept DEF Decide
<1>2. CASE ~Accepts(actor[a].appr)
  BY <1>1, <1>2, Ends, Kept DEF Decide
<1>3. CASE Accepts(actor[a].appr)
  <2>1. task' = actor[a].goal /\ task.status = "WAITING_APPROVAL"
    BY <1>3 DEF Decide, Accepts
  <2>2. task' \in TaskRow
    BY <1>1, <2>1 DEF ActorState
  <2>3. approval' \in [Approvals -> ApprovalStatus]
    BY <1>3, Kept DEF Decide, Answer, ApprovalStatus
  <2>4. End(a) \/ Goto(a, "resuming")
    BY <1>3 DEF Decide
  <2> QED BY <1>1, <2>1, <2>2, <2>3, <2>4, Ends, Moves
<1> QED BY <1>2, <1>3

\* resume takes the RUNNING row it reads for its own.
LEMMA ResumeStep ==
    ASSUME IInv, NEW a \in Actors, Resume(a)
    PROVE  IInv'
<1>1. CASE task.status # "RUNNING"
  BY <1>1, Ends, Kept DEF Resume
<1>2. CASE task.status = "RUNNING"
  <2> DEFINE x == [actor[a] EXCEPT !.pc = "resume", !.task = task]
  <2>1. x \in ActorState /\ x.pc = "resume" /\ x.task = task /\ x.graph = actor[a].graph
    BY Kept DEF ActorState, PC
  <2>2. Coherent(x)
    BY <1>2, <2>1, Kept DEF Coherent
  <2>3. actor' = [actor EXCEPT ![a] = x] /\ UNCHANGED <<task, approval, checkpoint, clock>>
    BY <1>2 DEF Resume, IInv, TypeOK
  <2> HIDE DEF x
  <2> QED BY <2>1, <2>2, <2>3, ActorStep, Kept
<1> QED BY <1>1, <1>2

\* The resumed workflow starts from the paused checkpoint.
LEMMA LoadPausedStep ==
    ASSUME IInv, NEW a \in Actors, LoadPaused(a)
    PROVE  IInv'
<1> DEFINE x == [actor[a] EXCEPT !.pc = "approved", !.graph = checkpoint]
<1>1. /\ x \in ActorState /\ x.pc = "approved" /\ x.task = actor[a].task
      /\ x.graph = checkpoint
  BY Kept DEF ActorState, PC
<1>2. Coherent(x)
  BY <1>1, Kept DEF LoadPaused, Coherent, Supervised
<1>3. actor' = [actor EXCEPT ![a] = x] /\ UNCHANGED <<task, approval, checkpoint, clock>>
  BY DEF LoadPaused, IInv, TypeOK
<1> HIDE DEF x
<1> QED BY <1>1, <1>2, <1>3, ActorStep, Kept

-----------------------------------------------------------------------------
(***************************************************************************)
(* The steps of recover.                                                   *)
(***************************************************************************)

\* A recovery looks at an active Task only.
LEMMA ReadForRecoveryStep ==
    ASSUME IInv, NEW a \in Actors, ReadForRecovery(a)
    PROVE  IInv'
<1> DEFINE x == [actor[a] EXCEPT !.pc = "assessing", !.task = task]
<1>1. x \in ActorState /\ x.pc = "assessing" /\ x.task = task /\ x.graph = actor[a].graph
  BY Kept DEF ActorState, PC
<1>2. Coherent(x)
  BY <1>1, Kept DEF ReadForRecovery, Coherent, Supervised, Active
<1>3. actor' = [actor EXCEPT ![a] = x] /\ UNCHANGED <<task, approval, checkpoint, clock>>
  BY DEF ReadForRecovery, IInv, TypeOK
<1> HIDE DEF x
<1> QED BY <1>1, <1>2, <1>3, ActorStep, Kept

\* The evidence is the latest checkpoint.
LEMMA ReadEvidenceStep ==
    ASSUME IInv, NEW a \in Actors, ReadEvidence(a)
    PROVE  IInv'
<1> DEFINE x == [actor[a] EXCEPT !.pc = "weighing", !.graph = checkpoint,
                                 !.appr = checkpoint.pending]
<1>1. checkpoint.pending \in Approvals \cup {NoApproval}
  BY Kept DEF Checkpoint
<1>2. /\ x \in ActorState /\ x.pc = "weighing" /\ x.task = actor[a].task
      /\ x.graph = checkpoint
  BY <1>1, Kept DEF ActorState, PC
<1>3. Coherent(x)
  BY <1>2, Kept DEF ReadEvidence, Coherent, Supervised
<1>4. actor' = [actor EXCEPT ![a] = x] /\ UNCHANGED <<task, approval, checkpoint, clock>>
  BY DEF ReadEvidence, IInv, TypeOK
<1> HIDE DEF x
<1> QED BY <1>2, <1>3, <1>4, ActorStep, Kept

\* What recovery goes for is a transition of the snapshot, and it claims a
\* snapshot only when that is stale.
LEMMA VerdictsAreLegal ==
    ASSUME NEW row \in TaskRow, row.status \in Active, NEW ck, NEW now \in Nat,
           NEW status \in Verdicts(row, ck, now)
    PROVE  \/ status \in {"none", "RECOVERY_REQUIRED"}
           \/ status = "SUCCEEDED" /\ row.status = "RUNNING"
           \/ /\ status = "RUNNING"
              /\ row.status \in {"RUNNING", "RECOVERY_REQUIRED"}
              /\ row.updated + StaleAfter <= now
<1>1. row.updated \in Nat /\ StaleAfter \in Nat
  BY ConstantsAssumption DEF TaskRow
<1>2. ASSUME status = "RUNNING" PROVE ~Recent(row, now) /\ row.status # "WAITING_APPROVAL"
  BY <1>2 DEF Verdicts
<1>3. ASSUME status = "SUCCEEDED" PROVE row.status = "RUNNING"
  BY <1>3 DEF Verdicts
<1>4. status \in {"none", "RECOVERY_REQUIRED", "SUCCEEDED", "RUNNING"}
  BY DEF Verdicts
<1> QED BY <1>1, <1>2, <1>3, <1>4 DEF Recent, Active

\* A proposed candidate is a legal transition of the row it expects.
LEMMA ProposeStep ==
    ASSUME IInv, NEW a \in Actors, NEW row \in TaskRow, row.status \in Active,
           NEW status,
           \/ status \in {"none", "RECOVERY_REQUIRED"}
           \/ status = "SUCCEEDED" /\ row.status = "RUNNING"
           \/ /\ status = "RUNNING"
              /\ row.status \in {"RUNNING", "RECOVERY_REQUIRED"}
              /\ row.updated + StaleAfter <= clock,
           Propose(a, row, status), UNCHANGED <<task, approval, checkpoint, clock>>
    PROVE  IInv'
<1>1. CASE End(a)
  BY <1>1, Ends, Kept
<1>2. CASE ~End(a)
  <2>0. /\ status # "none"
        /\ status = "RECOVERY_REQUIRED" => row.status \in {"RUNNING", "WAITING_APPROVAL"}
    BY <1>2 DEF Propose, Active
  <2>1. PICK now \in Now :
          actor' = [actor EXCEPT ![a].pc = "reconciling", ![a].task = row,
                      ![a].goal = Row(status, CandidateStamp(status, row, now))]
    BY <1>2 DEF Propose, NowSince
  <2> DEFINE t == CandidateStamp(status, row, now)
             x == [actor[a] EXCEPT !.pc = "reconciling", !.task = row, !.goal = Row(status, t)]
  <2>2. row.updated \in Nat /\ now \in Nat /\ clock \in Nat
    BY Readings, Kept DEF TaskRow
  <2>3. t \in Nat /\ (status # "SUCCEEDED" => t > row.updated)
    BY <2>2 DEF CandidateStamp, Later
  <2> HIDE DEF t
  <2>4. /\ Row(status, t) \in TaskRow /\ Row(status, t).status = status
        /\ Row(status, t).updated = t
    BY <2>0, <2>3, RowType DEF TaskStatus
  <2>5. /\ x \in ActorState /\ x.pc = "reconciling" /\ x.task = row
        /\ x.goal = Row(status, t) /\ x.graph = actor[a].graph
    BY <2>4, Kept DEF ActorState, PC
  <2>6. actor' = [actor EXCEPT ![a] = x]
    BY <2>1 DEF t, IInv, TypeOK
  <2> HIDE DEF x
  <2>7. Candidate(x.task, x.goal)
    BY <2>0, <2>3, <2>4, <2>5 DEF Candidate
  <2>8. Coherent(x)
    BY <2>5, <2>7, Kept DEF Coherent, Supervised
  <2> QED BY <2>5, <2>6, <2>8, ActorStep, Kept
<1> QED BY <1>1, <1>2

\* The classification of a recovery.
LEMMA WeighStep ==
    ASSUME IInv, NEW a \in Actors, Weigh(a)
    PROVE  IInv'
<1>0. PICK now \in Now :
        \E status \in Verdicts(actor[a].task, actor[a].graph, now) :
          Propose(a, actor[a].task, status)
  BY DEF Weigh
<1>1. PICK status \in Verdicts(actor[a].task, actor[a].graph, now) :
        Propose(a, actor[a].task, status)
  BY <1>0
<1>2. /\ actor[a].task \in TaskRow /\ actor[a].task.status \in Active
      /\ now \in Nat /\ now <= clock /\ clock \in Nat
  BY Readings, Kept DEF Weigh, ActorState, Coherent
<1>3. actor[a].task.updated \in Nat /\ StaleAfter \in Nat
  BY <1>2, ConstantsAssumption DEF TaskRow
<1>4. \/ status \in {"none", "RECOVERY_REQUIRED"}
      \/ status = "SUCCEEDED" /\ actor[a].task.status = "RUNNING"
      \/ /\ status = "RUNNING"
         /\ actor[a].task.status \in {"RUNNING", "RECOVERY_REQUIRED"}
         /\ actor[a].task.updated + StaleAfter <= now
  BY <1>2, VerdictsAreLegal
<1> QED BY <1>1, <1>2, <1>3, <1>4, ProposeStep DEF Weigh

\* The compare-and-set of recovery.
LEMMA ReconcileStep ==
    ASSUME IInv, NEW a \in Actors, Reconcile(a)
    PROVE  IInv'
<1>1. /\ actor[a].pc = "reconciling" /\ actor[a] \in ActorState /\ Coherent(actor[a])
      /\ Candidate(actor[a].task, actor[a].goal) /\ UNCHANGED <<approval, checkpoint, clock>>
  BY Kept DEF Reconcile, Coherent
<1>2. task' \in TaskRow /\ (task' = task \/ task.status # "PENDING")
  BY <1>1, Kept DEF Reconcile, WriteIfUnchanged, Owns, Candidate, ActorState
<1>3. CASE End(a)
  BY <1>1, <1>2, <1>3, Ends, Kept
<1>4. CASE /\ actor[a].goal.status = "RUNNING"
           /\ actor' = [actor EXCEPT ![a].pc = "claimed", ![a].task = actor[a].goal]
  <2> DEFINE x == [actor[a] EXCEPT !.pc = "claimed", !.task = actor[a].goal]
  <2>1. /\ x \in ActorState /\ x.pc = "claimed" /\ x.task = actor[a].goal
        /\ x.graph = actor[a].graph
    BY <1>1 DEF ActorState, PC
  <2>2. Coherent(x)
    BY <1>1, <1>4, <2>1 DEF Coherent
  <2>3. actor' = [actor EXCEPT ![a] = x]
    BY <1>4 DEF IInv, TypeOK
  <2> HIDE DEF x
  <2> QED BY <1>1, <1>2, <2>1, <2>2, <2>3, ActorStep, Kept
<1> QED BY <1>3, <1>4 DEF Reconcile

\* The claimant goes on, gives up or sends the Task to review.
LEMMA DispatchStep ==
    ASSUME IInv, NEW a \in Actors, Dispatch(a)
    PROVE  IInv'
<1>1. /\ actor[a].pc = "claimed" /\ actor[a] \in ActorState /\ Coherent(actor[a])
      /\ UNCHANGED <<task, approval, checkpoint, clock>>
  BY Kept DEF Dispatch
<1>2. actor[a].task.status = "RUNNING" /\ actor[a].task \in TaskRow
  BY <1>1 DEF Coherent, Supervised, ActorState
<1>3. CASE End(a)
  BY <1>1, <1>3, Ends, Kept
<1>4. CASE Goto(a, "resuming")
  BY <1>1, <1>4, Moves, Kept
<1>5. CASE Goto(a, "retool")
  BY <1>1, <1>2, <1>5, Moves, Kept DEF Supervised
<1>6. CASE Propose(a, actor[a].task, "RECOVERY_REQUIRED")
  BY <1>1, <1>2, <1>6, ProposeStep DEF Active
<1> QED BY <1>3, <1>4, <1>5, <1>6 DEF Dispatch

\* The pending Tool node is entered from the checkpoint that was weighed.
LEMMA ReloadToolStep ==
    ASSUME IInv, NEW a \in Actors, ReloadTool(a)
    PROVE  IInv'
<1>1. Goto(a, "node") /\ actor[a].task.status = "RUNNING"
  BY Kept DEF ReloadTool, Coherent, Supervised
<1> QED BY <1>1, Moves, Kept DEF ReloadTool, Supervised

-----------------------------------------------------------------------------
(***************************************************************************)
(* The invariant.                                                          *)
(***************************************************************************)

\* Time passes: a stale snapshot stays stale.
LEMMA TickStep ==
    ASSUME IInv, Tick
    PROVE  IInv'
<1>1. /\ UNCHANGED <<task, approval, checkpoint, actor>> /\ clock \in Nat
      /\ clock' = clock + 1 /\ StaleAfter \in Nat
  BY Kept, ConstantsAssumption DEF Tick
<1>2. TypeOK' /\ NamesApproval(checkpoint)' /\ CreatorInv'
  BY <1>1 DEF IInv, TypeOK, NamesApproval, CreatorInv
<1>3. ASSUME NEW a \in Actors PROVE Coherent(actor[a])'
  <2>1. Coherent(actor[a]) /\ actor[a].task.updated \in Nat
    BY Kept DEF ActorState, TaskRow
  <2> QED BY <1>1, <2>1 DEF Coherent, Candidate
<1> QED BY <1>2, <1>3 DEF IInv

\* A process dies or a request raises.
LEMMA AbandonStep ==
    ASSUME IInv, NEW a \in Actors, Abandon(a)
    PROVE  IInv'
  BY Ends, Kept DEF Abandon

\* Every step of every request, and of the clock, preserves the invariant.
LEMMA NextPreserves == IInv /\ [Next]_vars => IInv'
<1> SUFFICES ASSUME IInv, [Next]_vars PROVE IInv'
  OBVIOUS
<1>1. CASE UNCHANGED vars
  BY <1>1 DEF vars, IInv, TypeOK, NamesApproval, Coherent, Candidate, CreatorInv
<1>2. CASE Tick
  BY <1>2, TickStep
<1>3. ASSUME NEW a \in Actors, Execute(a) PROVE IInv'
  BY <1>3, CreateStep, StartStep, NodeStep, LeaveStep, PauseStep, SettleStep DEF Execute
<1>4. ASSUME NEW a \in Actors, DecideAndResume(a) PROVE IInv'
  BY <1>4, ReadForDecisionStep, DecideStep, ResumeStep, LoadPausedStep, NodeStep
    DEF DecideAndResume
<1>5. ASSUME NEW a \in Actors, Recover(a) PROVE IInv'
  BY <1>5, ReadForRecoveryStep, ReadEvidenceStep, WeighStep, ReconcileStep, DispatchStep,
    ReloadToolStep DEF Recover
<1>6. ASSUME NEW a \in Actors, Abandon(a) PROVE IInv'
  BY <1>6, AbandonStep
<1> QED BY <1>1, <1>2, <1>3, <1>4, <1>5, <1>6 DEF Next

\* IInv holds in every reachable state.
THEOREM Invariance == Spec => []IInv
  BY InitEstablishes, NextPreserves, PTL DEF Spec

\* The row, the Approvals, the checkpoint and the locals keep their types.
THEOREM TypeCorrect == Spec => []TypeOK
<1>1. IInv => TypeOK
  BY DEF IInv
<1> QED BY Invariance, <1>1, PTL

-----------------------------------------------------------------------------
(***************************************************************************)
(* What one step can do to the row and the Approvals together.             *)
(***************************************************************************)

\* Neither changes, but for an id that is drawn.
Silent ==
    /\ task' = task
    /\ \/ approval' = approval
       \/ \E p \in Approvals : approval[p] = "FREE" /\ approval' = [approval EXCEPT ![p] = "DRAFT"]

\* The row alone moves: its owner's saves, or recovery sending it to review.
RowMoves ==
    /\ approval' = approval
    /\ \/ task.status = "ABSENT" /\ task'.status = "PENDING"
       \/ task.status = "PENDING" /\ task'.status = "RUNNING"
       \/ task.status = "RUNNING" /\ task'.status \in {"SUCCEEDED", "FAILED"}
       \/ /\ task.status \in {"RUNNING", "WAITING_APPROVAL"}
          /\ task'.status = "RECOVERY_REQUIRED"

\* Recovery claims a stale row.
RowClaimed ==
    /\ approval' = approval
    /\ task.status \in {"RUNNING", "RECOVERY_REQUIRED"}
    /\ task'.status = "RUNNING"
    /\ task.updated + StaleAfter <= clock
    /\ task'.updated > task.updated

\* A pause opens a question.
Asked(p) ==
    /\ approval[p] = "DRAFT"
    /\ approval' = [approval EXCEPT ![p] = "PENDING"]
    /\ task.status = "RUNNING"
    /\ task'.status = "WAITING_APPROVAL"

\* A decision answers it.
Decided(p) ==
    /\ approval[p] = "PENDING"
    /\ task.status = "WAITING_APPROVAL"
    /\ task'.status \in {"RUNNING", "REJECTED"}
    /\ approval' = [approval EXCEPT ![p] = Answer(task'.status)]

RowStep ==
    \/ Silent \/ RowMoves \/ RowClaimed
    \/ \E p \in Approvals : Asked(p) \/ Decided(p)

\* execute and continue_running write what they own.
LEMMA ExecuteRow ==
    ASSUME IInv, NEW a \in Actors, Execute(a)
    PROVE  RowStep
<1>1. CASE Create(a)
  BY <1>1 DEF Create, Row, RowStep, RowMoves
<1>2. CASE Start(a)
  BY <1>2 DEF Start, Row, RowStep, RowMoves, IInv, CreatorInv
<1>3. CASE Begin(a) \/ LlmNode(a) \/ ToolNode(a)
  BY <1>3 DEF Begin, LlmNode, ToolNode, WriteCheckpoint, RowStep, Silent
<1>4. CASE Interrupt(a) \/ Raise(a) \/ PauseRaises(a)
  BY <1>4 DEF Interrupt, Raise, PauseRaises, RowStep, Silent
<1>5. CASE Pause(a)
  <2>1. CASE ~Owns(a)
    BY <1>5, <2>1 DEF Pause, RowStep, Silent
  <2>2. CASE Owns(a)
    <3>1. task.status = "RUNNING"
      BY <1>5, <2>2, OwnersRun DEF Pause, Supervised
    <3>2. actor[a].graph.pending \in Approvals
      BY <1>5, Kept DEF Pause, Coherent, NamesApproval
    <3> QED BY <1>5, <2>2, <3>1, <3>2 DEF Pause, Row, RowStep, Asked
  <2> QED BY <2>1, <2>2
<1>6. CASE Fail(a) \/ Review(a) \/ Succeed(a)
  <2>1. actor[a].pc \in Supervised
    BY <1>6 DEF Fail, Review, Succeed, AtNode, Supervised
  <2>2. PICK status \in {"FAILED", "RECOVERY_REQUIRED", "SUCCEEDED"} : Settle(a, status)
    BY <1>6 DEF Fail, Review, Succeed
  <2> QED BY <2>1, <2>2, OwnersRun DEF Settle, WriteIfUnchanged, Row, RowStep, Silent, RowMoves
<1> QED BY <1>1, <1>2, <1>3, <1>4, <1>5, <1>6 DEF Execute

\* A decision moves both, the rest of the resume neither.
LEMMA DecisionRow ==
    ASSUME IInv, NEW a \in Actors, DecideAndResume(a)
    PROVE  RowStep
<1>1. CASE Decide(a)
  <2>1. CASE ~Accepts(actor[a].appr)
    BY <1>1, <2>1 DEF Decide, RowStep, Silent
  <2>2. CASE Accepts(actor[a].appr)
    <3>1. actor[a].appr \in Approvals /\ actor[a].goal.status \in {"RUNNING", "REJECTED"}
      BY <1>1, Kept DEF Decide, Coherent
    <3>2. /\ task' = actor[a].goal
          /\ approval' = [approval EXCEPT ![actor[a].appr] = Answer(actor[a].goal.status)]
      BY <1>1, <2>2 DEF Decide
    <3> QED BY <2>2, <3>1, <3>2 DEF Accepts, RowStep, Decided
  <2> QED BY <2>1, <2>2
<1>2. CASE PauseNode(a)
  BY <1>2 DEF PauseNode, WriteCheckpoint, RowStep, Silent
<1>3. CASE (\E p \in Approvals : ReadForDecision(a, p)) \/ Resume(a) \/ LoadPaused(a)
  BY <1>3 DEF ReadForDecision, Resume, LoadPaused, RowStep, Silent
<1> QED BY <1>1, <1>2, <1>3 DEF DecideAndResume

\* Recovery moves the row by its compare-and-set alone.
LEMMA RecoverRow ==
    ASSUME IInv, NEW a \in Actors, Recover(a)
    PROVE  RowStep
<1>1. CASE Reconcile(a)
  <2>1. Candidate(actor[a].task, actor[a].goal) /\ approval' = approval
    BY <1>1, Kept DEF Reconcile, Coherent
  <2>2. task' = task \/ (task = actor[a].task /\ task' = actor[a].goal)
    BY <1>1 DEF Reconcile, WriteIfUnchanged, Owns
  <2> QED BY <2>1, <2>2 DEF Candidate, RowStep, Silent, RowMoves, RowClaimed
<1>2. CASE ReadForRecovery(a) \/ ReadEvidence(a) \/ Weigh(a) \/ Dispatch(a) \/ ReloadTool(a)
  BY <1>2 DEF ReadForRecovery, ReadEvidence, Weigh, Dispatch, ReloadTool, RowStep, Silent
<1> QED BY <1>1, <1>2 DEF Recover

\* No step does anything else to the row and the Approvals.
LEMMA EveryRowStep ==
    ASSUME IInv, [Next]_vars
    PROVE  RowStep
<1>1. CASE UNCHANGED vars \/ Tick \/ \E a \in Actors : Abandon(a)
  BY <1>1 DEF vars, Tick, Abandon, RowStep, Silent
<1> QED BY <1>1, ExecuteRow, DecisionRow, RecoverRow DEF Next

-----------------------------------------------------------------------------
(***************************************************************************)
(* The properties.                                                         *)
(***************************************************************************)

\* A SUCCEEDED, FAILED or REJECTED Task is never written again, by late
\* continuations, decisions or recoveries.
THEOREM FinishedTasksAreFinal == Spec => FinishedTasksStay
<1>1. IInv /\ [Next]_vars => [task.status \in Terminal => task' = task]_vars
  BY EveryRowStep DEF RowStep, Silent, RowMoves, RowClaimed, Asked, Decided, Terminal
<1> QED BY Invariance, <1>1, PTL DEF Spec, FinishedTasksStay

\* A recovery claims a RUNNING Task only after StaleAfter of silence, and its
\* generation is strictly later than the one it replaces.
THEOREM ClaimsFence == Spec => ClaimIsStaleAndFences
<1>1. IInv /\ [Next]_vars =>
        [task.status = "RUNNING" /\ task'.status = "RUNNING" /\ task' # task =>
           /\ task.updated + StaleAfter <= clock
           /\ task'.updated > task.updated]_vars
  BY EveryRowStep DEF RowStep, Silent, RowMoves, RowClaimed, Asked, Decided
<1> QED BY Invariance, <1>1, PTL DEF Spec, ClaimIsStaleAndFences

\* A Task that waits has an Approval to decide: pause and decision move the
\* two rows together, whatever crashes between.
THEOREM WaitingIsDecidable == Spec => []WaitingCanBeDecided
<1>1. Init => WaitingCanBeDecided
  BY DEF Init, NoTask, WaitingCanBeDecided
<1>2. IInv /\ WaitingCanBeDecided /\ [Next]_vars => WaitingCanBeDecided'
  <2> SUFFICES ASSUME IInv, WaitingCanBeDecided, [Next]_vars, task'.status = "WAITING_APPROVAL"
               PROVE  \E p \in Approvals : approval'[p] = "PENDING"
    BY DEF WaitingCanBeDecided, Ask
  <2>1. approval \in [Approvals -> ApprovalStatus] /\ RowStep
    BY Kept, EveryRowStep
  <2>2. CASE Silent
    <3>1. PICK p \in Approvals : approval[p] = "PENDING"
      BY <2>2 DEF Silent, WaitingCanBeDecided, Ask
    <3> QED BY <2>1, <2>2, <3>1 DEF Silent
  <2>3. CASE \E p \in Approvals : Asked(p)
    BY <2>1, <2>3 DEF Asked
  <2> QED BY <2>1, <2>2, <2>3 DEF RowStep, RowMoves, RowClaimed, Decided
<1> QED BY <1>1, <1>2, Invariance, PTL DEF Spec

\* A rejected Approval and a REJECTED Task come together and stay.
THEOREM RejectionIsFinal == Spec => []RejectionEndsTask
<1> DEFINE Refused == \E p \in Approvals : approval[p] = "REJECTED"
<1>1. Init => (Refused <=> task.status = "REJECTED")
  BY DEF Init, NoTask
<1>3. ASSUME IInv, Refused <=> task.status = "REJECTED", [Next]_vars
      PROVE  (Refused <=> task.status = "REJECTED")'
  <2>1. approval \in [Approvals -> ApprovalStatus] /\ RowStep
    BY <1>3, Kept, EveryRowStep
  <2>2. CASE Silent
    <3>1. task' = task /\ \A p \in Approvals : approval'[p] = "REJECTED" <=> approval[p] = "REJECTED"
      BY <2>1, <2>2 DEF Silent
    <3> QED BY <1>3, <3>1
  <2>3. CASE RowMoves \/ RowClaimed
    BY <1>3, <2>3 DEF RowMoves, RowClaimed
  <2>4. ASSUME NEW p \in Approvals, Asked(p) PROVE (Refused <=> task.status = "REJECTED")'
    BY <1>3, <2>1, <2>4 DEF Asked
  <2>5. ASSUME NEW p \in Approvals, Decided(p) PROVE (Refused <=> task.status = "REJECTED")'
    BY <1>3, <2>1, <2>5 DEF Decided, Answer
  <2> QED BY <2>1, <2>2, <2>3, <2>4, <2>5 DEF RowStep
<1>4. Init => RejectionEndsTask
  BY <1>1 DEF RejectionEndsTask, Ask
<1>5. IInv /\ RejectionEndsTask /\ [Next]_vars => RejectionEndsTask'
  BY <1>3 DEF RejectionEndsTask, Ask
<1> QED BY <1>4, <1>5, Invariance, PTL DEF Spec
-----------------------------------------------------------------------------
(***************************************************************************)
(* The refinement.                                                         *)
(***************************************************************************)

\* What a client sees of an Approval.
Seen(s) == IF s \in {"FREE", "DRAFT"} THEN "UNASKED" ELSE s

\* One Approval changes, and its question with it.
LEMMA OneQuestion ==
    ASSUME approval \in [Approvals -> ApprovalStatus], NEW p \in Approvals,
           NEW s \in {"PENDING", "APPROVED", "REJECTED"},
           approval' = [approval EXCEPT ![p] = s]
    PROVE  [r \in Approvals |-> Seen(approval'[r])] =
             [[r \in Approvals |-> Seen(approval[r])] EXCEPT ![p] = s]
  BY DEF Seen

\* Every step is a step of TaskContract or changes nothing a client sees.
LEMMA StepRefines == IInv /\ [Next]_vars => [Contract!Next]_(Contract!contractVars)
<1> DEFINE Q == [r \in Approvals |-> Seen(approval[r])]
<1> SUFFICES ASSUME IInv, [Next]_vars PROVE [Contract!Next]_<<task.status, Q>>
  BY DEF Contract!contractVars, Seen
<1>1. approval \in [Approvals -> ApprovalStatus] /\ RowStep
  BY Kept, EveryRowStep
<1>2. CASE Silent
  <2>1. \A r \in Approvals : Seen(approval'[r]) = Seen(approval[r])
    BY <1>1, <1>2 DEF Silent, Seen
  <2> QED BY <1>2, <2>1 DEF Silent
<1>3. CASE RowMoves
  BY <1>3 DEF RowMoves, Seen, Contract!Next, Contract!Create, Contract!Start,
    Contract!Succeed, Contract!Fail, Contract!RequireRecovery, Contract!Move
<1>4. CASE RowClaimed
  BY <1>4 DEF RowClaimed, Seen, Contract!Next, Contract!ClaimRecovery, Contract!Move
<1>5. ASSUME NEW p \in Approvals, Asked(p) PROVE Contract!Next
  <2>1. Q' = [Q EXCEPT ![p] = "PENDING"] /\ Q[p] = "UNASKED"
    BY <1>1, <1>5, OneQuestion DEF Asked, Seen
  <2>2. Contract!Ask(p)
    BY <1>5, <2>1 DEF Asked, Seen, Contract!Ask, Contract!Move
  <2> QED BY <2>2 DEF Contract!Next
<1>6. ASSUME NEW p \in Approvals, Decided(p) PROVE Contract!Next
  <2>1. Q' = [Q EXCEPT ![p] = Answer(task'.status)] /\ Q[p] = "PENDING"
    BY <1>1, <1>6, OneQuestion DEF Decided, Seen, Answer
  <2>2. Contract!Approve(p) \/ Contract!Reject(p)
    BY <1>6, <2>1 DEF Decided, Answer, Seen, Contract!Approve, Contract!Reject, Contract!Move
  <2> QED BY <2>2 DEF Contract!Next
<1> QED BY <1>1, <1>2, <1>3, <1>4, <1>5, <1>6 DEF RowStep

\* The life of a Task, with its crashes, races, lost acknowledgements and
\* recoveries, is a run of TaskContract for whoever watches its status and its
\* Approvals.
THEOREM ContractImplemented == Spec => ImplementsContract
<1>1. Init => Contract!Init
  BY DEF Init, NoTask, Contract!Init
<1> QED BY <1>1, StepRefines, Invariance, PTL DEF Spec, ImplementsContract, Contract!Spec
=============================================================================
