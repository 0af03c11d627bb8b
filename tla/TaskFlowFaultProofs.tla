-------------------------- MODULE TaskFlowFaultProofs --------------------------
(***************************************************************************)
(* Proofs about TaskFlow under any faults: whatever requests race, die or  *)
(* are taken for dead while they live, for every number of each.           *)
(*                                                                         *)
(* Robust is the inductive invariant.  Two requests may be at work on one  *)
(* Task here, each from its own checkpoint, so nothing relates what a      *)
(* request holds to the latest checkpoint; what it holds is sound by       *)
(* itself, and a write of the Task is of the generation the request noted. *)
(***************************************************************************)
EXTENDS TaskFlowProofs

-----------------------------------------------------------------------------
(***************************************************************************)
(* The inductive invariant                                                 *)
(***************************************************************************)

\* What a request holds, however old: a question asked for its call, rounds
\* within the budget, and a place in the workflow that its own place goes with.
Fits(x) ==
    /\ QuestionOf(x.graph) /\ x.graph.steps <= MaxSteps
    /\ x.pc = "node" => x.graph.next \in {"llm", "tool", "end"}
    /\ x.pc = "pausing" =>
         x.graph.next = "approval_pause" /\ approval[x.graph.pending].status = "DRAFT"
    /\ x.pc = "approved" =>
         x.graph.next = "approval_pause" /\ approval[x.graph.pending].status = "APPROVED"
    /\ x.pc = "retool" => x.graph.next = "tool"
    /\ x.pc \in {"claimed", "recovering", "rewon"} \/ (x.pc = "reconciling" /\ x.seen = "RUNNING") =>
         x.graph.next \in {"approval_pause", "tool"}

\* The Task as a request noted it, for as long as nobody has written it since.
Generation(x) ==
    "task" \in x.valid =>
        /\ x.pc \notin {"idle", "created", "resuming", "assessing", "weighing", "reconciling"} =>
             task = "RUNNING"
        /\ x.pc \in {"assessing", "weighing"} =>
             x.seen = task /\ task \in {"RUNNING", "WAITING_APPROVAL", "RECOVERY_REQUIRED"}
        /\ x.pc = "reconciling" =>
             /\ x.seen = "RUNNING" => task \in {"RUNNING", "RECOVERY_REQUIRED"}
             /\ x.seen = "SUCCEEDED" => task = "RUNNING"
             /\ x.seen = "RECOVERY_REQUIRED" => task \in {"RUNNING", "WAITING_APPROVAL"}

\* A draft is in the hands of the one request that drew it.
OwnDrafts ==
    \A t, u \in Threads :
        t # u /\ thread[t].pc = "pausing" /\ thread[u].pc = "pausing" =>
            thread[t].graph.pending # thread[u].graph.pending

\* A recovery that has found no checkpoint yet goes for a review at most.
Bystander(x) ==
    \/ x.pc \in {"idle", "assessing"}
    \/ x.pc = "weighing" /\ x.graph.next = "none"
    \/ x.pc = "reconciling" /\ x.seen = "RECOVERY_REQUIRED"

Untouched == checkpoint = NoGraph /\ \A p \in Approvals : approval[p].status = "FREE"

\* Nothing precedes the Task, and until its run begins there is nothing that
\* another request could go on from.
Beginnings ==
    /\ task = "ABSENT" => Untouched /\ \A t \in Threads : thread[t].pc = "idle"
    /\ \A t \in Threads :
         /\ thread[t].pc = "created" =>
              task = "PENDING" /\ \A u \in Threads \ {t} : thread[u].pc = "idle"
         /\ thread[t].pc \in {"created", "begin"} =>
              Untouched /\ \A u \in Threads \ {t} : Bystander(thread[u])

\* A call that has a row was approved.
RowsAreApproved ==
    \A c \in Calls :
        ledger[c].status # "ABSENT" =>
            /\ ledger[c].appr \in Approvals
            /\ approval[ledger[c].appr] = [status |-> "APPROVED", call |-> c]

Robust ==
    /\ QuestionOf(checkpoint) /\ checkpoint.steps <= MaxSteps
    /\ RowsAreApproved
    /\ \A t \in Threads : Fits(thread[t]) /\ Generation(thread[t])
    /\ OwnDrafts
    /\ Beginnings

-----------------------------------------------------------------------------
(***************************************************************************)
(* How far a request is from its end                                       *)
(***************************************************************************)

\* The budget is a number.
LEMMA Budget == MaxSteps \in Nat
  BY ConstantsAssumption DEF ConstantsAssumption

\* A request within its budget that has not settled has more than one step left.
LEMMA RemainingBounds ==
    ASSUME NEW x \in Request, x.graph.steps <= MaxSteps
    PROVE  /\ Remaining(x) \in Nat
           /\ x.pc # "idle" => Remaining(x) > 0
           /\ x.pc \notin {"idle", "failing", "reviewing"} => Remaining(x) > 1
  <1>1. MaxSteps \in Nat /\ x.graph.steps \in Nat /\ x.pc \in PC
    BY ConstantsAssumption DEF ConstantsAssumption, Request, Graph
  <1>2. 8 * (MaxSteps - x.graph.steps) \in Nat
    BY <1>1
  <1> QED
    BY <1>1, <1>2 DEF PC, Remaining, Distance

-----------------------------------------------------------------------------
(***************************************************************************)
(* What a step leaves of the invariant to check                            *)
(***************************************************************************)

\* A request that does not move: some of what it noted may be written by now.
Stays(u) ==
    /\ thread'[u] = [thread[u] EXCEPT !.valid = thread'[u].valid]
    /\ thread'[u].pc = thread[u].pc /\ thread'[u].graph = thread[u].graph
    /\ thread'[u].seen = thread[u].seen /\ thread'[u].valid \subseteq thread[u].valid
    /\ task' # task => "task" \notin thread'[u].valid

Moves(t, new) == thread'[t] = new /\ \A u \in Threads \ {t} : Stays(u)

LEMMA LocalMove ==
    ASSUME TypeOK, NEW t \in Threads, NEW new \in Request,
           thread' = [thread EXCEPT ![t] = new], UNCHANGED task
    PROVE  Moves(t, new)
  <1>1. ASSUME NEW u \in Threads \ {t}
        PROVE  Stays(u)
    <2> PICK x : x = thread[u]
      OBVIOUS
    <2>1. x \in Request /\ thread'[u] = x
      BY <1>1 DEF TypeOK
    <2>2. x = [x EXCEPT !.valid = x.valid]
      BY <2>1 DEF Request
    <2> QED
      BY <2>1, <2>2 DEF Stays
  <1>2. thread'[t] = new
    BY DEF TypeOK
  <1> QED
    BY <1>1, <1>2 DEF Moves

LEMMA NotedMove ==
    ASSUME TypeOK, NEW t \in Threads, NEW new \in Request, NEW x, Noted(t, x, new),
           x = "task" \/ UNCHANGED task
    PROVE  Moves(t, new)
  <1>1. ASSUME NEW u \in Threads \ {t}
        PROVE  Stays(u)
    <2> PICK y : y = thread[u]
      OBVIOUS
    <2> PICK z : z = thread'[u]
      OBVIOUS
    <2>1. y \in Request /\ z = [y EXCEPT !.valid = y.valid \ {x}]
      BY <1>1 DEF TypeOK, Noted
    <2>2. /\ z.valid = y.valid \ {x} /\ z.pc = y.pc /\ z.graph = y.graph /\ z.seen = y.seen
          /\ z = [y EXCEPT !.valid = z.valid]
      BY <2>1 DEF Request
    <2> QED
      BY <2>2 DEF Stays
  <1>2. thread'[t] = new
    BY DEF Noted
  <1> QED
    BY <1>1, <1>2 DEF Moves

\* Nobody is set back, and whoever moved got nearer to its end.
RunsDown ==
    \A t \in Threads :
        thread[t].pc # "idle" =>
            \/ Remaining(thread'[t]) < Remaining(thread[t])
            \/ thread'[t] = [thread[t] EXCEPT !.valid = thread'[t].valid]

\* Asked questions stay asked for their call, and a yes stays a yes.
Grows ==
    \A p \in Approvals :
        approval[p].status # "FREE" =>
            /\ approval'[p].call = approval[p].call /\ approval'[p].status # "FREE"
            /\ approval[p].status = "APPROVED" => approval'[p].status = "APPROVED"

LEMMA GrowsKeeps ==
    ASSUME Grows, NEW g \in Graph, QuestionOf(g)
    PROVE  QuestionOf(g)'
  BY DEF Grows, QuestionOf, Graph

\* What a request that stays holds, it still holds.
LEMMA StaysFits ==
    ASSUME TypeOK, TypeOK', NEW u \in Threads, Stays(u), Grows, Fits(thread[u]), Generation(thread[u]),
           thread[u].pc = "pausing" =>
             approval'[thread[u].graph.pending] = approval[thread[u].graph.pending]
    PROVE  Fits(thread[u])' /\ Generation(thread[u])'
  <1> PICK x : x = thread[u]
    OBVIOUS
  <1> PICK y : y = thread'[u]
    OBVIOUS
  <1>1. x \in Request /\ x.graph \in Graph /\ Fits(x) /\ Generation(x)
    BY ThreadTypes
  <1>2. /\ y.pc = x.pc /\ y.graph = x.graph /\ y.seen = x.seen /\ y.valid \subseteq x.valid
        /\ task' # task => "task" \notin y.valid
    BY DEF Stays
  <1>3. QuestionOf(y.graph)'
    BY <1>1, <1>2, GrowsKeeps DEF Fits
  <1>4. x.pc \in {"pausing", "approved"} => x.graph.pending \in Approvals
    BY <1>1 DEF Fits, QuestionOf, Graph
  <1>5. Fits(y)'
    BY <1>1, <1>2, <1>3, <1>4 DEF Fits, Grows
  <1>6. Generation(y)'
    BY <1>1, <1>2 DEF Generation
  <1> QED
    BY <1>5, <1>6

\* The step of one request.
LEMMA RobustStep ==
    ASSUME TypeOK, TypeOK', Robust, NEW t \in Threads, NEW new \in Request, Moves(t, new), Grows,
           \A u \in Threads \ {t} :
             thread[u].pc = "pausing" =>
               /\ approval'[thread[u].graph.pending] = approval[thread[u].graph.pending]
               /\ new.pc = "pausing" => thread[u].graph.pending # new.graph.pending,
           QuestionOf(checkpoint)', checkpoint'.steps <= MaxSteps,
           RowsAreApproved', Beginnings', Fits(new)', Generation(new)',
           thread[t].pc # "idle" => Remaining(new) < Remaining(thread[t])
    PROVE  Robust' /\ RunsDown
  <1>1. thread'[t] = new /\ \A u \in Threads \ {t} : Stays(u)
    BY DEF Moves
  <1>2. ASSUME NEW u \in Threads
        PROVE  (Fits(thread[u]) /\ Generation(thread[u]))'
    <2>1. CASE u = t
      <3> PICK y : y = thread'[u]
        OBVIOUS
      <3>1. Fits(y)' /\ Generation(y)'
        BY <1>1, <2>1
      <3> QED
        BY <3>1
    <2>2. CASE u # t
      BY <1>1, <2>2, StaysFits DEF Robust
    <2> QED
      BY <2>1, <2>2
  <1>3. OwnDrafts'
    <2> SUFFICES ASSUME NEW u \in Threads, NEW v \in Threads, u # v,
                        thread'[u].pc = "pausing", thread'[v].pc = "pausing"
                 PROVE  thread'[u].graph.pending # thread'[v].graph.pending
      BY DEF OwnDrafts
    <2>1. \A w \in Threads \ {t} :
            thread'[w].pc = thread[w].pc /\ thread'[w].graph = thread[w].graph
      BY <1>1 DEF Stays
    <2>2. CASE u = t
      BY <1>1, <2>1, <2>2
    <2>3. CASE v = t
      BY <1>1, <2>1, <2>3
    <2>4. CASE u # t /\ v # t
      BY <2>1, <2>4 DEF Robust, OwnDrafts
    <2> QED
      BY <2>2, <2>3, <2>4
  <1>4. RunsDown
    BY <1>1 DEF RunsDown, Stays
  <1>5. (QuestionOf(checkpoint) /\ checkpoint.steps <= MaxSteps)'
    OBVIOUS
  <1> QED
    BY <1>2, <1>3, <1>4, <1>5 DEF Robust

\* Nothing of the beginning is left once a request is on its way.
LEMMA UnderWay ==
    ASSUME Robust, NEW t \in Threads, ~Bystander(thread[t])
    PROVE  task # "ABSENT" /\ \A u \in Threads \ {t} : thread[u].pc \notin {"created", "begin"}
  BY DEF Robust, Beginnings, Bystander

LEMMA BeginningsPast ==
    ASSUME NEW t \in Threads, NEW new, Moves(t, new), task' # "ABSENT",
           new.pc \notin {"created", "begin"},
           \A u \in Threads \ {t} : thread[u].pc \notin {"created", "begin"}
    PROVE  Beginnings'
  <1>1. ASSUME NEW u \in Threads
        PROVE  thread'[u].pc \notin {"created", "begin"}
    BY DEF Moves, Stays
  <1> QED
    BY <1>1 DEF Beginnings

LEMMA BystanderMoves ==
    ASSUME Robust, NEW t \in Threads, NEW new, Moves(t, new), UNCHANGED <<approval, checkpoint>>,
           Bystander(new), task' # task => task' # "ABSENT",
           (task = "ABSENT" \/ \E u \in Threads \ {t} : thread[u].pc = "created") =>
             new.pc = "idle" /\ UNCHANGED task
    PROVE  Beginnings'
  <1>1. thread'[t] = new /\ new.pc \notin {"created", "begin"}
    BY DEF Moves, Bystander
  <1>2. \A u \in Threads \ {t} : Bystander(thread[u]) => Bystander(thread'[u])
    BY DEF Moves, Stays, Bystander
  <1>3. \A u \in Threads \ {t} : thread'[u].pc = thread[u].pc
    BY DEF Moves, Stays
  <1>4. Untouched => Untouched'
    BY DEF Untouched
  <1>5. task' = "ABSENT" => Untouched' /\ \A u \in Threads : thread'[u].pc = "idle"
    BY <1>1, <1>3, <1>4 DEF Robust, Beginnings
  <1>6. ASSUME NEW u \in Threads, thread'[u].pc \in {"created", "begin"}
        PROVE  /\ thread'[u].pc = "created" =>
                    task' = "PENDING" /\ \A v \in Threads \ {u} : thread'[v].pc = "idle"
               /\ Untouched' /\ \A v \in Threads \ {u} : Bystander(thread'[v])
    <2>1. u # t /\ thread[u].pc = thread'[u].pc
      BY <1>1, <1>3, <1>6
    <2>2. /\ thread[u].pc = "created" =>
               task = "PENDING" /\ \A v \in Threads \ {u} : thread[v].pc = "idle"
          /\ Untouched /\ \A v \in Threads \ {u} : Bystander(thread[v])
      BY <1>6, <2>1 DEF Robust, Beginnings
    <2> QED
      BY <1>1, <1>2, <1>3, <1>4, <2>1, <2>2
  <1> QED
    BY <1>5, <1>6 DEF Beginnings, Bystander, Untouched

\* The step of one request: the invariant is kept, and the request gets on.
Advances == Robust' /\ RunsDown

\* A request that is on its way moves on.
LEMMA WayStep ==
    ASSUME TypeOK, TypeOK', Robust, NEW t \in Threads, NEW new \in Request, Moves(t, new), Grows,
           ~Bystander(thread[t]), new.pc \notin {"created", "begin"}, task' # "ABSENT",
           \A u \in Threads \ {t} :
             thread[u].pc = "pausing" =>
               /\ approval'[thread[u].graph.pending] = approval[thread[u].graph.pending]
               /\ new.pc = "pausing" => thread[u].graph.pending # new.graph.pending,
           QuestionOf(checkpoint)', checkpoint'.steps <= MaxSteps,
           RowsAreApproved', Fits(new)', Generation(new)',
           Remaining(new) < Remaining(thread[t])
    PROVE  Advances
  <1>1. Beginnings'
    BY UnderWay, BeginningsPast
  <1> QED
    BY <1>1, RobustStep DEF Advances

\* Questions that only grow keep the ledger's Approvals.
LEMMA LedgerKept ==
    ASSUME TypeOK, TypeOK', Robust, Grows, UNCHANGED ledger
    PROVE  RowsAreApproved'
  <1> SUFFICES ASSUME NEW c \in Calls, ledger[c].status # "ABSENT"
               PROVE  /\ ledger[c].appr \in Approvals
                      /\ approval'[ledger[c].appr] = [status |-> "APPROVED", call |-> c]
    BY DEF RowsAreApproved
  <1> PICK p : p = ledger[c].appr
    OBVIOUS
  <1>1. p \in Approvals /\ approval[p] = [status |-> "APPROVED", call |-> c]
    BY DEF Robust, RowsAreApproved
  <1>2. approval'[p].status = "APPROVED" /\ approval'[p].call = c
    BY <1>1 DEF Grows
  <1>3. approval'[p] \in Question
    BY <1>1 DEF TypeOK
  <1> QED
    BY <1>1, <1>2, <1>3 DEF Question

\* Nothing that a client or the workflow sees has changed.
LEMMA NothingWritten ==
    ASSUME TypeOK, Robust, UNCHANGED <<approval, checkpoint>>
    PROVE  /\ Grows /\ QuestionOf(checkpoint)' /\ checkpoint'.steps <= MaxSteps
           /\ \A g \in Graph : QuestionOf(g)' <=> QuestionOf(g)
           /\ \A x \in Request : Fits(x)' <=> Fits(x)
  <1>1. \A g : QuestionOf(g)' <=> QuestionOf(g)
    BY DEF QuestionOf
  <1>2. \A x \in Request : Fits(x)' <=> Fits(x)
    BY <1>1 DEF Fits
  <1>3. QuestionOf(checkpoint)' /\ checkpoint'.steps <= MaxSteps
    BY <1>1 DEF Robust
  <1> QED
    BY <1>1, <1>2, <1>3 DEF Grows

\* A step that moves one request and writes neither Task, question, checkpoint
\* nor ledger.
LEMMA QuietStep ==
    ASSUME IInv, TypeOK', Robust, NEW t \in Threads, NEW new \in Request,
           thread' = [thread EXCEPT ![t] = new], UNCHANGED <<task, approval, checkpoint, ledger>>,
           Fits(new), Generation(new), new.pc \notin {"created", "begin", "pausing"},
           Bystander(new) \/ ~Bystander(thread[t]),
           IF thread[t].pc = "idle"
             THEN task \in {"RUNNING", "WAITING_APPROVAL", "RECOVERY_REQUIRED"}
             ELSE Remaining(new) < Remaining(thread[t])
    PROVE  Advances
  <1>0. TypeOK /\ Moves(t, new)
    BY LocalMove DEF IInv, Sound
  <1>1. Fits(new)' /\ Generation(new)'
    BY <1>0, NothingWritten DEF Generation
  <1>2. Beginnings'
    <2>1. CASE Bystander(new)
      <3>1. ~(task = "ABSENT" \/ \E u \in Threads \ {t} : thread[u].pc = "created") \/ new.pc = "idle"
        BY DEF Robust, Beginnings
      <3> QED
        BY <1>0, <2>1, <3>1, BystanderMoves
    <2>2. CASE ~Bystander(thread[t])
      BY <1>0, <2>2, UnderWay, BeginningsPast
    <2> QED
      BY <2>1, <2>2
  <1>3. Grows /\ QuestionOf(checkpoint)' /\ checkpoint'.steps <= MaxSteps /\ RowsAreApproved'
    BY <1>0, NothingWritten, LedgerKept
  <1> QED
    BY <1>0, <1>1, <1>2, <1>3, RobustStep DEF Advances

-----------------------------------------------------------------------------
(***************************************************************************)
(* Steps that move a request and write nothing                             *)
(***************************************************************************)

\* What a request holds of a thread's state.
LEMMA Holds ==
    ASSUME IInv, Robust, NEW t \in Threads
    PROVE  /\ TypeOK /\ thread[t] \in Request /\ thread[t].graph \in Graph /\ thread[t].pc \in PC
           /\ Fits(thread[t]) /\ Generation(thread[t]) /\ RequestSound(thread[t])
           /\ thread[t].graph.steps <= MaxSteps
  BY ThreadTypes DEF IInv, Sound, Robust, Fits

\* A request without a graph holds nothing.
LEMMA BareHolds ==
    ASSUME NEW x \in Request, x.graph = NoGraph,
           x.pc \in {"idle", "created", "begin", "failing", "reviewing", "resuming", "assessing"}
    PROVE  Fits(x) /\ Fits(x)'
  <1>1. MaxSteps \in Nat
    BY ConstantsAssumption DEF ConstantsAssumption
  <1>2. QuestionOf(NoGraph) /\ QuestionOf(NoGraph)' /\ NoGraph.steps <= MaxSteps
    BY <1>1 DEF QuestionOf, NoGraph
  <1> QED
    BY <1>2 DEF Fits

\* A request gives up, or its process dies.
LEMMA EndAdvances ==
    ASSUME IInv, TypeOK', Robust, NEW t \in Threads, thread[t].pc # "idle", End(t),
           UNCHANGED <<task, approval, checkpoint, ledger>>
    PROVE  Advances
  <1> PICK new : new = Idle
    OBVIOUS
  <1>1. new \in Request /\ new.pc = "idle" /\ new.graph = NoGraph /\ "task" \notin new.valid
    BY IdleFits DEF Idle
  <1>2. Fits(new) /\ Generation(new) /\ Bystander(new)
    BY <1>1, BareHolds DEF Generation, Bystander
  <1>3. thread' = [thread EXCEPT ![t] = new]
    BY DEF End
  <1>4. Remaining(new) < Remaining(thread[t])
    BY <1>1, Holds, RemainingBounds DEF Remaining, Distance
  <1> QED
    BY <1>1, <1>2, <1>3, <1>4, QuietStep

\* A request that works on the Task is about to settle it.
LEMMA SettleAdvances ==
    ASSUME IInv, TypeOK', Robust, NEW t \in Threads, NEW pc \in {"failing", "reviewing"},
           thread' = [thread EXCEPT ![t] = Settling(thread[t], pc)],
           UNCHANGED <<task, approval, checkpoint, ledger>>,
           Working(t), thread[t].pc \notin {"created", "resuming", "failing", "reviewing"}
    PROVE  Advances
  <1>0. thread[t] \in Request /\ Generation(thread[t]) /\ pc \in PC
    BY Holds DEF PC
  <1> PICK new : new = Settling(thread[t], pc)
    OBVIOUS
  <1>1. new \in Request /\ new.pc = pc /\ new.graph = NoGraph /\ new.valid = thread[t].valid \cap {"task"}
    BY <1>0, SettlingFits
  <1>2. Fits(new) /\ Generation(new)
    BY <1>0, <1>1, BareHolds DEF Generation, Working
  <1>3. Remaining(new) < Remaining(thread[t])
    BY <1>1, Holds, RemainingBounds DEF Working, Remaining, Distance
  <1>4. ~Bystander(thread[t]) /\ thread[t].pc # "idle"
    BY DEF Bystander, Working
  <1> QED
    BY <1>1, <1>2, <1>3, <1>4, QuietStep

LEMMA RaiseAdvances ==
    ASSUME IInv, TypeOK', Robust, NEW t \in Threads, Raise(t)
    PROVE  Advances
  <1>1. Working(t) /\ thread[t].pc \notin {"created", "resuming", "failing", "reviewing"}
    BY DEF Raise, Working
  <1>2. Unwritten /\ (Settle(t, "failing") \/ Settle(t, "reviewing"))
    BY DEF Raise
  <1> QED
    BY <1>1, <1>2, SettleAdvances DEF Settle, Unwritten

LEMMA CrashAdvances ==
    ASSUME IInv, TypeOK', Robust, NEW t \in Threads, Crash(t)
    PROVE  Advances
  BY EndAdvances DEF Crash

LEMMA ResumeAdvances ==
    ASSUME IInv, TypeOK', Robust, NEW t \in Threads, Resume(t)
    PROVE  Advances
  <1> PICK x : x = thread[t]
    OBVIOUS
  <1>0. TypeOK /\ x \in Request /\ x.graph \in Graph /\ Fits(x) /\ x.pc = "resuming"
    BY Holds DEF Resume
  <1>1. CASE task = "RUNNING"
    <2> PICK new : new = [x EXCEPT !.pc = "resume", !.valid = {"task"}]
      OBVIOUS
    <2>1. new \in Request /\ new.pc = "resume" /\ new.valid = {"task"} /\ new.graph = x.graph
      BY <1>0 DEF Request, PC, Things
    <2>2. thread' = [thread EXCEPT ![t] = new]
      BY <1>0, <1>1 DEF Resume, TypeOK
    <2>3. Fits(new) /\ Generation(new)
      BY <1>0, <1>1, <2>1 DEF Fits, Generation
    <2>4. Remaining(new) < Remaining(x)
      BY <1>0, <2>1, Budget DEF Remaining, Distance
    <2> QED
      BY <1>0, <2>1, <2>2, <2>3, <2>4, QuietStep DEF Resume, Unwritten, Bystander
  <1>2. CASE task # "RUNNING"
    BY <1>0, <1>2, EndAdvances DEF Resume, Unwritten
  <1> QED
    BY <1>1, <1>2

LEMMA LoadPausedAdvances ==
    ASSUME IInv, TypeOK', Robust, NEW t \in Threads, LoadPaused(t)
    PROVE  Advances
  <1> PICK x : x = thread[t]
    OBVIOUS
  <1> PICK g : g = checkpoint
    OBVIOUS
  <1>0. TypeOK /\ x \in Request /\ Generation(x) /\ x.pc = "resume"
    BY Holds DEF LoadPaused
  <1> DEFINE Paused == g.next = "approval_pause" /\ g.pending = x.appr
                       /\ approval[x.appr].status = "APPROVED"
  <1>1. CASE Paused
    <2> PICK new : new = [x EXCEPT !.pc = "approved", !.graph = g]
      OBVIOUS
    <2>1. g \in Graph /\ QuestionOf(g) /\ g.steps <= MaxSteps
      BY <1>0 DEF TypeOK, Robust
    <2>2. new \in Request /\ new.pc = "approved" /\ new.valid = x.valid /\ new.graph = g
      BY <1>0, <2>1 DEF Request, PC
    <2>3. thread' = [thread EXCEPT ![t] = new]
      BY <1>0, <1>1 DEF LoadPaused, TypeOK
    <2>4. Fits(new) /\ Generation(new)
      BY <1>0, <1>1, <2>1, <2>2 DEF Fits, Generation
    <2>5. Remaining(new) < Remaining(x)
      BY <1>0, <2>1, <2>2, Budget DEF Remaining, Distance, Graph
    <2> QED
      BY <1>0, <2>2, <2>3, <2>4, <2>5, QuietStep DEF LoadPaused, Unwritten, Bystander
  <1>2. CASE ~Paused
    BY <1>0, <1>2, SettleAdvances DEF LoadPaused, Unwritten, Settle, Working
  <1> QED
    BY <1>1, <1>2

LEMMA ReadForRecoveryAdvances ==
    ASSUME IInv, TypeOK', Robust, NEW t \in Threads, ReadForRecovery(t)
    PROVE  Advances
  <1> PICK seen : seen = task
    OBVIOUS
  <1> PICK new : new = Assessing(seen)
    OBVIOUS
  <1>0. /\ thread[t].pc = "idle" /\ seen \in {"RUNNING", "WAITING_APPROVAL", "RECOVERY_REQUIRED"}
        /\ thread' = [thread EXCEPT ![t] = new] /\ Unwritten
    BY DEF ReadForRecovery
  <1>1. new \in Request /\ new.pc = "assessing" /\ new.seen = seen /\ new.graph = NoGraph
    BY <1>0, AssessingFits DEF TaskStatus
  <1>2. Fits(new) /\ Generation(new) /\ Bystander(new)
    BY <1>0, <1>1, BareHolds DEF Generation, Bystander
  <1> QED
    BY <1>0, <1>1, <1>2, QuietStep DEF Unwritten

LEMMA ReadCheckpointAdvances ==
    ASSUME IInv, TypeOK', Robust, NEW t \in Threads, ReadCheckpoint(t)
    PROVE  Advances
  <1> PICK x : x = thread[t]
    OBVIOUS
  <1> PICK g : g = checkpoint
    OBVIOUS
  <1> PICK new : new = [x EXCEPT !.pc = "weighing", !.graph = g, !.valid = x.valid \cup {"checkpoint"}]
    OBVIOUS
  <1>0. TypeOK /\ x \in Request /\ x.graph.steps <= MaxSteps /\ Generation(x) /\ x.pc = "assessing"
    BY Holds DEF ReadCheckpoint
  <1>1. g \in Graph /\ QuestionOf(g) /\ g.steps <= MaxSteps
    BY <1>0 DEF TypeOK, Robust
  <1>2. /\ new \in Request /\ new.pc = "weighing" /\ new.valid = x.valid \cup {"checkpoint"}
        /\ new.graph = g /\ new.seen = x.seen
    BY <1>0, <1>1 DEF Request, PC, Things
  <1>3. thread' = [thread EXCEPT ![t] = new] /\ Unwritten
    BY <1>0 DEF ReadCheckpoint, TypeOK
  <1>4. Fits(new) /\ Generation(new)
    BY <1>0, <1>1, <1>2 DEF Fits, Generation
  <1>5. Remaining(new) < Remaining(x)
    BY <1>0, <1>2, Budget DEF Remaining, Distance
  <1>6. /\ Moves(t, new) /\ Fits(new)' /\ Generation(new)' /\ RowsAreApproved'
        /\ Grows /\ QuestionOf(checkpoint)' /\ checkpoint'.steps <= MaxSteps
    BY <1>0, <1>2, <1>3, <1>4, LocalMove, NothingWritten, LedgerKept DEF Unwritten, Generation
  <1>7. Beginnings'
    <2>1. CASE \E u \in Threads : thread[u].pc \in {"created", "begin"}
      <3>1. g.next = "none"
        BY <2>1 DEF Robust, Beginnings, Untouched, NoGraph
      <3>2. Bystander(new)
        BY <1>2, <3>1 DEF Bystander
      <3>3. ~(task = "ABSENT" \/ \E u \in Threads \ {t} : thread[u].pc = "created")
        BY <1>0 DEF Robust, Beginnings
      <3> QED
        BY <1>3, <1>6, <3>2, <3>3, BystanderMoves DEF Unwritten
    <2>2. CASE ~ \E u \in Threads : thread[u].pc \in {"created", "begin"}
      <3>1. task # "ABSENT"
        BY <1>0 DEF Robust, Beginnings
      <3> QED
        BY <1>2, <1>3, <1>6, <2>2, <3>1, BeginningsPast DEF Unwritten
    <2> QED
      BY <2>1, <2>2
  <1> QED
    BY <1>0, <1>2, <1>3, <1>5, <1>6, <1>7, RobustStep DEF Unwritten, Advances

LEMMA WeighAdvances ==
    ASSUME IInv, TypeOK', Robust, NEW t \in Threads, Weigh(t)
    PROVE  Advances
  <1> PICK x : x = thread[t]
    OBVIOUS
  <1> PICK verdict : verdict = Verdict(t)
    OBVIOUS
  <1> PICK retry : retry = (verdict = "RUNNING" /\ InDoubt(ledger[x.graph.call]))
    OBVIOUS
  <1>0. /\ TypeOK /\ x \in Request /\ Fits(x) /\ Generation(x) /\ RequestSound(x)
        /\ x.pc = "weighing"
    BY Holds DEF Weigh
  <1> DEFINE Leaves == verdict = "none" \/ (verdict = x.seen /\ verdict = "RECOVERY_REQUIRED")
  <1>1. CASE Leaves
    BY <1>0, <1>1, EndAdvances DEF Weigh, Unwritten
  <1>2. CASE ~Leaves
    <2> PICK new : new = [x EXCEPT !.pc = "reconciling", !.seen = verdict,
                                   !.valid = x.valid \cup Calls, !.retry = retry]
      OBVIOUS
    <2>1. thread' = [thread EXCEPT ![t] = new]
      BY <1>0, <1>2 DEF Weigh, TypeOK
    <2>2. /\ verdict \in {"RECOVERY_REQUIRED", "SUCCEEDED", "RUNNING"}
          /\ verdict = "SUCCEEDED" => x.seen = "RUNNING"
          /\ verdict = "RUNNING" => x.graph.pending # NoApproval /\ x.seen # "WAITING_APPROVAL"
          /\ x.graph.next = "none" => verdict = "RECOVERY_REQUIRED"
      <3> PICK said : said = approval[x.graph.pending].status
        OBVIOUS
      <3> QED
        BY <1>2, VerdictRests
    <2>3. /\ new \in Request /\ new.pc = "reconciling" /\ new.valid = x.valid \cup Calls
          /\ new.graph = x.graph /\ new.seen = verdict
      BY <1>0, <2>2 DEF Request, PC, Things, TaskStatus
    <2>4. Fits(new)
      BY <1>0, <2>2, <2>3 DEF Fits, RequestSound, WellFormed
    <2>5. Generation(new)
      BY <1>0, <1>2, <2>2, <2>3, Constants DEF Generation
    <2>6. Bystander(new) \/ ~Bystander(x)
      BY <1>0, <2>2, <2>3 DEF Bystander
    <2>7. Remaining(new) < Remaining(x)
      BY <1>0, <2>3, Budget DEF Remaining, Distance
    <2> QED
      BY <1>0, <2>1, <2>3, <2>4, <2>5, <2>6, <2>7, QuietStep DEF Weigh, Unwritten
  <1> QED
    BY <1>1, <1>2

\* A recovery that goes on holds what it held.
LEMMA DispatchedHold ==
    ASSUME IInv, Robust, NEW t \in Threads, thread[t].pc \in {"claimed", "recovering", "rewon"},
           NEW new, new = Dispatched(thread[t])
    PROVE  /\ new \in Request /\ new.pc \in {"resuming", "retool"} /\ Fits(new)
           /\ "task" \in new.valid => new.pc = "retool" /\ "task" \in thread[t].valid
           /\ Remaining(new) < Remaining(thread[t])
  <1> PICK x : x = thread[t]
    OBVIOUS
  <1>0. x \in Request /\ Fits(x) /\ x.pc \in {"claimed", "recovering", "rewon"}
    BY Holds
  <1>1. /\ new \in Request /\ new.pc \in {"resuming", "retool"}
        /\ "task" \in new.valid => new.pc = "retool" /\ "task" \in x.valid
    BY <1>0, DispatchedFits
  <1>2. CASE x.graph.next = "approval_pause"
    <2>1. new.pc = "resuming" /\ new.graph = NoGraph
      BY <1>0, <1>2, DispatchedFits
    <2>2. Fits(new)
      BY <1>1, <2>1, BareHolds
    <2>3. Remaining(new) < Remaining(x)
      BY <1>0, <2>1, Budget DEF Remaining, Distance
    <2> QED
      BY <1>1, <2>2, <2>3
  <1>3. CASE x.graph.next # "approval_pause"
    <2>1. new.pc = "retool" /\ new.graph = x.graph
      BY <1>0, <1>3, DispatchedFits
    <2>2. Fits(new)
      BY <1>0, <1>3, <2>1 DEF Fits
    <2>3. Remaining(new) < Remaining(x)
      BY <1>0, <2>1, Budget DEF Remaining, Distance
    <2> QED
      BY <1>1, <2>2, <2>3
  <1> QED
    BY <1>2, <1>3

\* A recovery goes on without a write.
LEMMA DispatchAdvances ==
    ASSUME IInv, TypeOK', Robust, NEW t \in Threads, thread[t].pc \in {"claimed", "recovering", "rewon"},
           thread' = [thread EXCEPT ![t] = Dispatched(thread[t])],
           UNCHANGED <<task, approval, checkpoint, ledger>>
    PROVE  Advances
  <1> PICK new : new = Dispatched(thread[t])
    OBVIOUS
  <1>1. /\ new \in Request /\ new.pc \in {"resuming", "retool"} /\ Fits(new)
        /\ "task" \in new.valid => new.pc = "retool" /\ "task" \in thread[t].valid
        /\ Remaining(new) < Remaining(thread[t])
    BY DispatchedHold
  <1>2. Generation(new)
    BY <1>1, Holds DEF Generation
  <1>3. ~Bystander(thread[t])
    BY DEF Bystander
  <1> QED
    BY <1>1, <1>2, <1>3, QuietStep

LEMMA RecheckAdvances ==
    ASSUME IInv, TypeOK', Robust, NEW t \in Threads, Recheck(t)
    PROVE  Advances
  <1> PICK x : x = thread[t]
    OBVIOUS
  <1>0. /\ x \in Request /\ Fits(x) /\ Generation(x) /\ x.pc = "claimed"
        /\ UNCHANGED <<task, approval, checkpoint, ledger>>
    BY Holds DEF Recheck, Unwritten
  <1>1. CASE "checkpoint" \notin x.valid
    BY <1>0, <1>1, EndAdvances DEF Recheck
  <1>2. CASE "checkpoint" \in x.valid /\ x.retry
    <2> PICK new : new = [x EXCEPT !.pc = "recovering"]
      OBVIOUS
    <2>1. new \in Request /\ new.pc = "recovering" /\ new.graph = x.graph /\ new.valid = x.valid
      BY <1>0 DEF Request, PC
    <2>2. thread' = [thread EXCEPT ![t] = new]
      BY <1>2 DEF Recheck
    <2>3. Fits(new) /\ Generation(new) /\ ~Bystander(x)
      BY <1>0, <2>1 DEF Fits, Generation, Bystander
    <2>4. Remaining(new) < Remaining(x)
      BY <1>0, <2>1, Budget DEF Remaining, Distance
    <2> QED
      BY <1>0, <2>1, <2>2, <2>3, <2>4, QuietStep
  <1>3. CASE "checkpoint" \in x.valid /\ ~x.retry
    BY <1>0, <1>3, DispatchAdvances DEF Recheck
  <1> QED
    BY <1>1, <1>2, <1>3

LEMMA ReloadToolAdvances ==
    ASSUME IInv, TypeOK', Robust, NEW t \in Threads, ReloadTool(t)
    PROVE  Advances
  <1> PICK x : x = thread[t]
    OBVIOUS
  <1>0. /\ TypeOK /\ x \in Request /\ x.graph \in Graph /\ Fits(x) /\ Generation(x) /\ x.pc = "retool"
        /\ UNCHANGED <<task, approval, checkpoint, ledger>>
    BY Holds DEF ReloadTool, Unwritten
  <1>1. CASE "checkpoint" \in x.valid
    <2> PICK valid : valid = x.valid \cap {"task"}
      OBVIOUS
    <2> PICK new : new = [x EXCEPT !.pc = "node", !.valid = valid]
      OBVIOUS
    <2>0. valid \in SUBSET Things /\ "node" \in PC
      BY DEF Things, PC
    <2>1. new \in Request /\ new.pc = "node" /\ new.graph = x.graph /\ new.valid = valid
      BY <1>0, <2>0 DEF Request
    <2>2. thread' = [thread EXCEPT ![t] = new]
      BY <1>0, <1>1 DEF ReloadTool, TypeOK
    <2>3. Fits(new) /\ Generation(new) /\ ~Bystander(x)
      BY <1>0, <2>1 DEF Fits, Generation, Bystander
    <2>4. Remaining(new) < Remaining(x)
      BY <1>0, <2>1, Budget DEF Remaining, Distance, Graph
    <2> QED
      BY <1>0, <2>1, <2>2, <2>3, <2>4, QuietStep
  <1>2. CASE "checkpoint" \notin x.valid
    BY <1>0, <1>2, SettleAdvances DEF ReloadTool, Settle, Working
  <1> QED
    BY <1>1, <1>2

-----------------------------------------------------------------------------
(***************************************************************************)
(* Steps that write a row of the ledger                                    *)
(***************************************************************************)

\* A row is written that is there already, or under an Approval a human gave.
LEMMA WriteRowAdvances ==
    ASSUME IInv, TypeOK', Robust, NEW t \in Threads, NEW c \in Calls, NEW row \in Row, NEW new \in Request,
           WriteRow(t, c, row, new), UNCHANGED <<task, approval, checkpoint>>,
           \/ ledger[c].status # "ABSENT" /\ row.appr = ledger[c].appr
           \/ row.appr \in Approvals /\ approval[row.appr] = [status |-> "APPROVED", call |-> c],
           ~Bystander(thread[t]), new.pc \notin {"created", "begin", "pausing"},
           Fits(new), Generation(new), Remaining(new) < Remaining(thread[t])
    PROVE  Advances
  <1>0. TypeOK /\ Moves(t, new)
    BY NotedMove DEF IInv, Sound, WriteRow
  <1>1. /\ Grows /\ QuestionOf(checkpoint)' /\ checkpoint'.steps <= MaxSteps
        /\ Fits(new)' /\ Generation(new)'
    BY <1>0, NothingWritten DEF Generation
  <1>2. RowsAreApproved'
    <2> SUFFICES ASSUME NEW d \in Calls, ledger'[d].status # "ABSENT"
                 PROVE  /\ ledger'[d].appr \in Approvals
                        /\ approval[ledger'[d].appr] = [status |-> "APPROVED", call |-> d]
      BY DEF RowsAreApproved
    <2>1. CASE d = c
      <3>1. ledger'[d] = row
        BY <1>0, <2>1 DEF WriteRow, TypeOK
      <3> QED
        BY <2>1, <3>1 DEF Robust, RowsAreApproved
    <2>2. CASE d # c
      <3>1. ledger'[d] = ledger[d]
        BY <1>0, <2>2 DEF WriteRow, TypeOK
      <3> QED
        BY <3>1 DEF Robust, RowsAreApproved
    <2> QED
      BY <2>1, <2>2
  <1>3. task' # "ABSENT"
    BY UnderWay
  <1> QED
    BY <1>0, <1>1, <1>2, <1>3, WayStep

LEMMA ExecuteAdvances ==
    ASSUME IInv, TypeOK', Robust, NEW t \in Threads, Execute(t)
    PROVE  Advances
  <1> PICK x : x = thread[t]
    OBVIOUS
  <1> PICK c : c = x.graph.call
    OBVIOUS
  <1> PICK p : p = x.graph.pending
    OBVIOUS
  <1>0. /\ TypeOK /\ x \in Request /\ x.graph \in Graph /\ x.pc = "node" /\ x.graph.next = "tool"
        /\ c \in Calls /\ p \in Approvals /\ p # NoApproval /\ ledger[c] \in Row
        /\ Fits(x) /\ Generation(x) /\ UNCHANGED <<task, approval, checkpoint>>
        /\ ~Bystander(x)
    BY AtTool, Holds DEF Execute, AtNode, Bystander
  <1>4. approval[p] = [status |-> "APPROVED", call |-> c] /\ Authorized(x.graph)
    <2>1. approval[p].status = "APPROVED" /\ approval[p].call = c
      BY <1>0 DEF Fits, QuestionOf
    <2>2. approval[p] = [status |-> "APPROVED", call |-> c]
      BY <1>0, <2>1 DEF TypeOK, Question
    <2> QED
      BY <2>2 DEF Authorized
  <1>1. CASE ledger[c].status = "ABSENT"
    <2> PICK valid : valid = x.valid \cup {c}
      OBVIOUS
    <2> PICK row : row = Executing(p)
      OBVIOUS
    <2> PICK new : new = [x EXCEPT !.pc = "won", !.valid = valid]
      OBVIOUS
    <2>0. valid \in SUBSET Things /\ "won" \in PC
      BY <1>0, ThreadTypes DEF Things, PC
    <2>1. /\ new \in Request /\ new.pc = "won" /\ new.graph = x.graph /\ new.valid = valid
          /\ row \in Row /\ row.appr = p
      BY <1>0, <2>0 DEF Request, Row, Executing
    <2>2. WriteRow(t, c, row, new)
      BY <1>0, <1>1, <1>4 DEF Execute
    <2>4. Fits(new) /\ Generation(new)
      BY <1>0, <2>1, Constants DEF Fits, Generation
    <2>5. Remaining(new) < Remaining(x)
      BY <1>0, <2>1, Budget DEF Remaining, Distance, Graph
    <2> QED
      BY <1>0, <1>4, <2>1, <2>2, <2>4, <2>5, WriteRowAdvances
  <1>2. CASE ledger[c].status = "SUCCEEDED" /\ ledger[c].appr = p
    <2> PICK new : new = [x EXCEPT !.pc = "answered"]
      OBVIOUS
    <2>1. new \in Request /\ new.pc = "answered" /\ new.graph = x.graph /\ new.valid = x.valid
      BY <1>0 DEF Request, PC
    <2>2. thread' = [thread EXCEPT ![t] = new] /\ UNCHANGED ledger
      BY <1>0, <1>2, <1>4 DEF Execute, Goto, TypeOK
    <2>3. Fits(new) /\ Generation(new)
      BY <1>0, <2>1 DEF Fits, Generation
    <2>4. Remaining(new) < Remaining(x)
      BY <1>0, <2>1, Budget DEF Remaining, Distance, Graph
    <2> QED
      BY <1>0, <2>1, <2>2, <2>3, <2>4, QuietStep
  <1>3. CASE ledger[c].status # "ABSENT" /\ ~(ledger[c].status = "SUCCEEDED" /\ ledger[c].appr = p)
    <2>1. (Settle(t, "failing") \/ Settle(t, "reviewing")) /\ UNCHANGED ledger
      BY <1>3 DEF Execute
    <2> QED
      BY <1>0, <2>1, SettleAdvances DEF Settle, Working
  <1> QED
    BY <1>1, <1>2, <1>3

LEMMA RecoverExecutionAdvances ==
    ASSUME IInv, TypeOK', Robust, NEW t \in Threads, RecoverExecution(t)
    PROVE  Advances
  <1> PICK x : x = thread[t]
    OBVIOUS
  <1> PICK c : c = x.graph.call
    OBVIOUS
  <1>0. /\ TypeOK /\ x \in Request /\ x.pc = "recovering" /\ Fits(x) /\ Generation(x)
        /\ c \in Calls /\ ledger[c] \in Row /\ ~Bystander(x)
        /\ UNCHANGED <<task, approval, checkpoint>>
    BY Holds DEF TypeOK, RequestSound, RecoverExecution, Bystander
  <1> DEFINE May == /\ ledger[c].appr = x.graph.pending /\ InDoubt(ledger[c])
                    /\ c \in x.valid /\ Mode[c] # "NONE"
  <1>1. CASE May
    <2> PICK row : row = Executing(ledger[c].appr)
      OBVIOUS
    <2> PICK new : new = [x EXCEPT !.pc = "rewon"]
      OBVIOUS
    <2>1. /\ new \in Request /\ new.pc = "rewon" /\ new.graph = x.graph /\ new.valid = x.valid
          /\ row \in Row /\ row.appr = ledger[c].appr
      BY <1>0, <1>1 DEF Request, PC, Row, Executing
    <2>2. WriteRow(t, c, row, new) /\ ledger[c].status # "ABSENT"
      BY <1>1 DEF RecoverExecution, InDoubt
    <2>3. Fits(new) /\ Generation(new)
      BY <1>0, <2>1 DEF Fits, Generation
    <2>4. Remaining(new) < Remaining(x)
      BY <1>0, <2>1, Budget DEF Remaining, Distance
    <2> QED
      BY <1>0, <2>1, <2>2, <2>3, <2>4, WriteRowAdvances
  <1>2. CASE ~May /\ ledger[c].appr = x.graph.pending /\ ledger[c].status = "SUCCEEDED"
    BY <1>0, <1>2, DispatchAdvances DEF RecoverExecution
  <1>3. CASE ~May /\ ~(ledger[c].appr = x.graph.pending /\ ledger[c].status = "SUCCEEDED")
    BY <1>0, <1>3, SettleAdvances DEF RecoverExecution, Working
  <1> QED
    BY <1>1, <1>2, <1>3

\* What becomes of the request whose Tool has answered.
LEMMA ResultingHold ==
    ASSUME IInv, Robust, NEW t \in Threads, thread[t].pc \in {"won", "rewon"},
           NEW said, NEW held \in BOOLEAN, NEW new, new = Resulting(thread[t], said, held)
    PROVE  /\ new \in Request /\ Fits(new) /\ Generation(new)
           /\ new.pc \in {"answered", "resuming", "retool", "failing", "reviewing"}
           /\ Remaining(new) < Remaining(thread[t])
  <1> PICK x : x = thread[t]
    OBVIOUS
  <1>0. /\ x \in Request /\ x.graph \in Graph /\ Fits(x) /\ Generation(x) /\ x.pc \in {"won", "rewon"}
        /\ x.graph.steps <= MaxSteps
    BY Holds
  <1>1. CASE said = "ok" /\ held /\ x.pc = "won"
    <2>1. new = Answered(x)
      BY <1>1 DEF Resulting
    <2>2. /\ new \in Request /\ new.pc = "answered" /\ new.graph = x.graph
          /\ new.valid = x.valid \cap {"task"}
      BY <1>0, <1>1, <2>1, AnsweredFits
    <2>3. Fits(new) /\ Generation(new)
      BY <1>0, <2>2 DEF Fits, Generation
    <2>4. x.pc = "won" /\ x.graph.steps \in Nat
      BY <1>0, <1>1 DEF Graph
    <2>5. Remaining(new) < Remaining(x)
      BY <2>2, <2>4, Budget DEF Remaining, Distance
    <2> QED
      BY <2>2, <2>3, <2>5
  <1>2. CASE said = "ok" /\ held /\ x.pc = "rewon"
    <2>1. new = Dispatched(x)
      BY <1>2 DEF Resulting, Answered
    <2>2. /\ new \in Request /\ new.pc \in {"resuming", "retool"} /\ Fits(new)
          /\ "task" \in new.valid => new.pc = "retool" /\ "task" \in x.valid
          /\ Remaining(new) < Remaining(x)
      BY <1>2, <2>1, DispatchedHold
    <2>3. Generation(new)
      BY <1>0, <2>2 DEF Generation
    <2> QED
      BY <2>2, <2>3
  <1>3. CASE ~(said = "ok" /\ held)
    <2> PICK pc : pc = IF x.pc = "won" /\ said # "unknown" THEN "failing" ELSE "reviewing"
      OBVIOUS
    <2>1. new = Settling(x, pc) /\ pc \in {"failing", "reviewing"} /\ pc \in PC
      BY <1>3 DEF Resulting, PC
    <2>2. new \in Request /\ new.pc = pc /\ new.graph = NoGraph /\ new.valid = x.valid \cap {"task"}
      BY <1>0, <2>1, SettlingFits
    <2>3. Fits(new) /\ Generation(new)
      BY <1>0, <2>1, <2>2, BareHolds DEF Generation
    <2>4. Remaining(new) < Remaining(x)
      BY <1>0, <2>1, <2>2, RemainingBounds DEF Remaining, Distance
    <2> QED
      BY <2>1, <2>2, <2>3, <2>4
  <1> QED
    BY <1>0, <1>1, <1>2, <1>3

LEMMA FinishAdvances ==
    ASSUME IInv, TypeOK', Robust, NEW t \in Threads, Finish(t)
    PROVE  Advances
  <1> PICK x : x = thread[t]
    OBVIOUS
  <1> PICK c : c = x.graph.call
    OBVIOUS
  <1> PICK held : held = (c \in x.valid)
    OBVIOUS
  <1>1. PICK said \in {"ok", "noeffect", "unknown"} :
          IF held
            THEN WriteRow(t, c, [ledger[c] EXCEPT !.status = Terminal(said)], Resulting(x, said, held))
            ELSE thread' = [thread EXCEPT ![t] = Resulting(x, said, held)] /\ UNCHANGED <<ledger, fresh>>
    BY DEF Finish
  <1> PICK new : new = Resulting(x, said, held)
    OBVIOUS
  <1> PICK row : row = [ledger[c] EXCEPT !.status = Terminal(said)]
    OBVIOUS
  <1>2. /\ x.pc \in {"won", "rewon"} /\ UNCHANGED <<task, approval, checkpoint>> /\ ~Bystander(x)
        /\ held \in BOOLEAN
    BY DEF Finish, Bystander
  <1>3. /\ c \in Calls /\ ledger[c] \in Row
        /\ held => ledger[c].status = "EXECUTING"
    BY <1>2, Holds DEF RequestSound, TypeOK
  <1>4. /\ new \in Request /\ Fits(new) /\ Generation(new)
        /\ new.pc \in {"answered", "resuming", "retool", "failing", "reviewing"}
        /\ Remaining(new) < Remaining(x)
    BY <1>2, ResultingHold
  <1>5. CASE held
    <2>1. row \in Row /\ row.appr = ledger[c].appr
      BY <1>3, TerminalFits DEF Row
    <2>2. WriteRow(t, c, row, new)
      BY <1>1, <1>5
    <2> QED
      BY <1>2, <1>3, <1>4, <1>5, <2>1, <2>2, WriteRowAdvances
  <1>6. CASE ~held
    <2>1. thread' = [thread EXCEPT ![t] = new] /\ UNCHANGED ledger
      BY <1>1, <1>6
    <2> QED
      BY <1>2, <1>4, <2>1, QuietStep
  <1> QED
    BY <1>5, <1>6

-----------------------------------------------------------------------------
(***************************************************************************)
(* Steps that write the checkpoint                                         *)
(***************************************************************************)

\* A node's output, whose budget is kept and whose question is asked.
LEMMA WriteCheckpointAdvances ==
    ASSUME IInv, TypeOK', Robust, NEW t \in Threads, NEW graph \in Graph, NEW pc \in {"node", "pausing"},
           WriteCheckpoint(t, graph, pc), Grows,
           thread[t].pc \in {"begin", "node", "answered", "approved"},
           \A u \in Threads \ {t} :
             thread[u].pc = "pausing" =>
               /\ approval'[thread[u].graph.pending] = approval[thread[u].graph.pending]
               /\ pc = "pausing" => thread[u].graph.pending # graph.pending,
           QuestionOf(graph)', graph.steps <= MaxSteps,
           pc = "node" => graph.next \in {"llm", "tool", "end"},
           pc = "pausing" => graph.next = "approval_pause" /\ approval'[graph.pending].status = "DRAFT",
           LET rest == 8 * (MaxSteps - graph.steps) IN
             (IF pc = "pausing" THEN rest + 2
              ELSE rest + IF graph.next = "tool" THEN 6 ELSE 3) < Remaining(thread[t])
    PROVE  Advances
  <1>0. /\ TypeOK /\ thread[t] \in Request /\ Generation(thread[t]) /\ checkpoint' = graph
        /\ UNCHANGED <<task, ledger>> /\ pc \in PC
    BY Holds DEF WriteCheckpoint, PC
  <1> PICK new : new = [thread[t] EXCEPT !.pc = pc, !.graph = graph]
    OBVIOUS
  <1>1. new \in Request /\ new.pc = pc /\ new.graph = graph /\ new.valid = thread[t].valid
    BY <1>0 DEF Request
  <1>2. Moves(t, new)
    BY <1>0, <1>1, NotedMove DEF WriteCheckpoint
  <1>3. QuestionOf(checkpoint)' /\ checkpoint'.steps <= MaxSteps
    BY <1>0
  <1>4. QuestionOf(new.graph)'
    BY <1>1
  <1>5. Fits(new)' /\ Generation(new)'
    BY <1>0, <1>1, <1>4 DEF Fits, Generation
  <1>6. Remaining(new) < Remaining(thread[t])
    BY <1>1 DEF Remaining, Distance
  <1>7. ~Bystander(thread[t]) /\ task' # "ABSENT"
    BY <1>0, UnderWay DEF Bystander
  <1>8. RowsAreApproved'
    BY <1>0, LedgerKept
  <1> QED
    BY <1>0, <1>1, <1>2, <1>3, <1>5, <1>6, <1>7, <1>8, WayStep

LEMMA BeginAdvances ==
    ASSUME IInv, TypeOK', Robust, NEW t \in Threads, Begin(t)
    PROVE  Advances
  <1> PICK graph : graph = [NoGraph EXCEPT !.next = "llm"]
    OBVIOUS
  <1>1. graph \in Graph /\ graph.next = "llm" /\ graph.pending = NoApproval
    BY DEF NoGraph, Graph
  <1>2. WriteCheckpoint(t, graph, "node") /\ thread[t].pc = "begin" /\ approval' = approval
    BY DEF Begin
  <1>3. QuestionOf(graph)' /\ Grows
    BY <1>1, <1>2 DEF QuestionOf, Grows
  <1>4. graph.steps <= MaxSteps
    BY Budget DEF NoGraph
  <1>5. 8 * (MaxSteps - graph.steps) + 3 < Remaining(thread[t])
    BY <1>2, Budget DEF NoGraph, Remaining, Distance
  <1> QED
    BY <1>1, <1>2, <1>3, <1>4, <1>5, WriteCheckpointAdvances

LEMMA LlmNodeAdvances ==
    ASSUME IInv, TypeOK', Robust, NEW t \in Threads, LlmNode(t)
    PROVE  Advances
  <1> PICK g : g = thread[t].graph
    OBVIOUS
  <1>0. /\ thread[t].pc = "node" /\ g.next = "llm" /\ g \in Graph /\ g.pending = NoApproval
        /\ approval' = approval /\ Grows /\ g.steps < MaxSteps
    BY Holds DEF LlmNode, AtNode, RequestSound, WellFormed, Grows
  <1> PICK steps : steps = g.steps + 1
    OBVIOUS
  <1>1. steps \in Nat /\ steps <= MaxSteps
    BY <1>0, Budget DEF Graph
  <1>2. 8 * (MaxSteps - steps) + 6 < Remaining(thread[t])
    BY <1>0, Budget DEF Remaining, Distance, Graph
  <1>3. ASSUME NEW graph \in Graph, graph.next \in {"end", "tool"}, graph.pending = NoApproval,
               graph.steps = steps, WriteCheckpoint(t, graph, "node")
        PROVE  Advances
    <2>1. QuestionOf(graph)'
      BY <1>3 DEF QuestionOf
    <2>2. 8 * (MaxSteps - graph.steps) + (IF graph.next = "tool" THEN 6 ELSE 3) < Remaining(thread[t])
      <3>1. Remaining(thread[t]) \in Nat
        BY Holds, RemainingBounds
      <3> QED
        BY <1>1, <1>2, <1>3, <3>1, Budget
    <2> QED
      BY <1>0, <1>1, <1>3, <2>1, <2>2, WriteCheckpointAdvances
  <1>4. CASE WriteCheckpoint(t, [g EXCEPT !.next = "end", !.steps = steps], "node")
    <2> PICK graph : graph = [g EXCEPT !.next = "end", !.steps = steps]
      OBVIOUS
    <2>1. graph \in Graph /\ graph.next = "end" /\ graph.pending = g.pending /\ graph.steps = steps
      BY <1>0, <1>1 DEF Graph
    <2> QED
      BY <1>0, <1>3, <1>4, <2>1
  <1>5. ASSUME NEW c \in Calls,
               WriteCheckpoint(t, [g EXCEPT !.next = "tool", !.call = c, !.steps = steps], "node")
        PROVE  Advances
    <2> PICK graph : graph = [g EXCEPT !.next = "tool", !.call = c, !.steps = steps]
      OBVIOUS
    <2>1. graph \in Graph /\ graph.next = "tool" /\ graph.pending = g.pending /\ graph.steps = steps
      BY <1>0, <1>1 DEF Graph
    <2> QED
      BY <1>0, <1>3, <1>5, <2>1
  <1> QED
    BY <1>4, <1>5 DEF LlmNode

LEMMA AskAdvances ==
    ASSUME IInv, TypeOK', Robust, NEW t \in Threads, Ask(t)
    PROVE  Advances
  <1> PICK g : g = thread[t].graph
    OBVIOUS
  <1>0. /\ TypeOK /\ thread[t].pc = "node" /\ g.next = "tool" /\ g \in Graph /\ g.call \in Calls
        /\ g.steps <= MaxSteps
    BY Holds DEF Ask, AtNode, RequestSound, WellFormed
  <1> PICK p \in Approvals :
        /\ approval[p].status = "FREE"
        /\ approval' = [approval EXCEPT ![p] = [status |-> "DRAFT", call |-> g.call]]
        /\ WriteCheckpoint(t, [g EXCEPT !.next = "approval_pause", !.pending = p], "pausing")
    BY DEF Ask
  <1> PICK graph : graph = [g EXCEPT !.next = "approval_pause", !.pending = p]
    OBVIOUS
  <1>1. /\ graph \in Graph /\ graph.next = "approval_pause" /\ graph.pending = p
        /\ graph.call = g.call /\ graph.steps = g.steps
    BY <1>0 DEF Graph
  <1>2. /\ approval'[p].status = "DRAFT" /\ approval'[p].call = g.call
        /\ \A q \in Approvals \ {p} : approval'[q] = approval[q]
    BY <1>0 DEF TypeOK
  <1>3. Grows
    BY <1>2 DEF Grows
  <1>4. QuestionOf(graph)'
    BY <1>1, <1>2, Constants DEF QuestionOf
  <1>5. ASSUME NEW u \in Threads \ {t}, thread[u].pc = "pausing"
        PROVE  /\ approval'[thread[u].graph.pending] = approval[thread[u].graph.pending]
               /\ thread[u].graph.pending # graph.pending
    <2>1. thread[u].graph \in Graph /\ Fits(thread[u])
      BY Holds
    <2>2. approval[thread[u].graph.pending].status = "DRAFT" /\ thread[u].graph.pending # NoApproval
      BY <1>5, <2>1 DEF Fits, QuestionOf
    <2>3. thread[u].graph.pending \in Approvals \ {p}
      BY <2>1, <2>2 DEF Graph
    <2> QED
      BY <1>1, <1>2, <2>3
  <1>6. 8 * (MaxSteps - graph.steps) + 2 < Remaining(thread[t])
    BY <1>0, <1>1, Budget DEF Remaining, Distance, Graph
  <1> QED
    BY <1>0, <1>1, <1>2, <1>3, <1>4, <1>5, <1>6, WriteCheckpointAdvances

LEMMA ToolDoneAdvances ==
    ASSUME IInv, TypeOK', Robust, NEW t \in Threads, ToolDone(t)
    PROVE  Advances
  <1> PICK g : g = thread[t].graph
    OBVIOUS
  <1> PICK answered : answered = g.answered \cup {g.call}
    OBVIOUS
  <1> PICK graph : graph = [g EXCEPT !.next = "llm", !.call = NoCall, !.pending = NoApproval,
                                     !.answered = answered]
    OBVIOUS
  <1>0. /\ thread[t].pc = "answered" /\ approval' = approval /\ WriteCheckpoint(t, graph, "node")
        /\ g \in Graph /\ g.call \in Calls /\ g.steps <= MaxSteps
    BY Holds DEF ToolDone, RequestSound
  <1>1. answered \in SUBSET Calls
    BY <1>0 DEF Graph
  <1>2. graph \in Graph /\ graph.next = "llm" /\ graph.pending = NoApproval /\ graph.steps = g.steps
    BY <1>0, <1>1 DEF Graph
  <1>3. QuestionOf(graph)' /\ Grows
    BY <1>0, <1>2 DEF QuestionOf, Grows
  <1>4. 8 * (MaxSteps - graph.steps) + 3 < Remaining(thread[t])
    BY <1>0, <1>2, Budget DEF Remaining, Distance, Graph
  <1> QED
    BY <1>0, <1>2, <1>3, <1>4, WriteCheckpointAdvances

LEMMA PauseNodeAdvances ==
    ASSUME IInv, TypeOK', Robust, NEW t \in Threads, PauseNode(t)
    PROVE  Advances
  <1> PICK g : g = thread[t].graph
    OBVIOUS
  <1> PICK graph : graph = [g EXCEPT !.next = "tool"]
    OBVIOUS
  <1>0. /\ thread[t].pc = "approved" /\ approval' = approval /\ WriteCheckpoint(t, graph, "node")
        /\ g \in Graph /\ g.steps <= MaxSteps /\ Fits(thread[t])
    BY Holds DEF PauseNode
  <1>1. /\ graph \in Graph /\ graph.next = "tool" /\ graph.pending = g.pending /\ graph.call = g.call
        /\ graph.steps = g.steps
    BY <1>0 DEF Graph
  <1>2. QuestionOf(graph)' /\ Grows
    BY <1>0, <1>1 DEF Fits, QuestionOf, Grows
  <1>3. 8 * (MaxSteps - graph.steps) + 6 < Remaining(thread[t])
    BY <1>0, <1>1, Budget DEF Remaining, Distance, Graph
  <1> QED
    BY <1>0, <1>1, <1>2, <1>3, WriteCheckpointAdvances

-----------------------------------------------------------------------------
(***************************************************************************)
(* Steps that write the Task                                               *)
(***************************************************************************)

\* A write of the Task, with the questions it opens or answers.
LEMMA WriteTaskAdvances ==
    ASSUME IInv, TypeOK', Robust, NEW t \in Threads, NEW status, NEW new \in Request,
           WriteTask(t, status, new), UNCHANGED <<checkpoint, ledger>>, Grows, Beginnings',
           new.pc # "pausing",
           \A u \in Threads \ {t} :
             thread[u].pc = "pausing" =>
               approval'[thread[u].graph.pending] = approval[thread[u].graph.pending],
           Fits(new)', Generation(new)',
           thread[t].pc # "idle" => Remaining(new) < Remaining(thread[t])
    PROVE  Advances
  <1>0. TypeOK /\ checkpoint \in Graph /\ QuestionOf(checkpoint) /\ checkpoint.steps <= MaxSteps
    BY DEF IInv, Sound, TypeOK, Robust
  <1>1. Moves(t, new)
    BY <1>0, NotedMove DEF WriteTask
  <1> PICK g : g = checkpoint
    OBVIOUS
  <1>2. QuestionOf(g)'
    BY <1>0, GrowsKeeps
  <1>3. QuestionOf(checkpoint)' /\ checkpoint'.steps <= MaxSteps
    BY <1>0, <1>2
  <1>4. RowsAreApproved'
    BY <1>0, LedgerKept
  <1> QED
    BY <1>0, <1>1, <1>3, <1>4, RobustStep DEF Advances

LEMMA CreateAdvances ==
    ASSUME IInv, TypeOK', Robust, NEW t \in Threads, Create(t)
    PROVE  Advances
  <1> PICK new : new = Bare("created", {})
    OBVIOUS
  <1>1. /\ thread[t].pc = "idle" /\ task = "ABSENT" /\ WriteTask(t, "PENDING", new)
        /\ UNCHANGED <<approval, checkpoint, ledger>>
    BY DEF Create
  <1>2. new \in Request /\ new.pc = "created" /\ new.graph = NoGraph /\ new.valid = {}
    <2>1. "created" \in PC /\ {} \in SUBSET Things
      BY DEF PC
    <2> QED
      BY <2>1, BareFits
  <1>3. Fits(new)' /\ Generation(new)'
    BY <1>2, BareHolds DEF Generation
  <1>4. thread'[t] = new /\ \A u \in Threads \ {t} : thread'[u].pc = thread[u].pc
    <2>1. Moves(t, new)
      BY <1>1, <1>2, NotedMove DEF IInv, Sound, WriteTask
    <2> QED
      BY <2>1 DEF Moves, Stays
  <1>5. Untouched /\ \A u \in Threads : thread[u].pc = "idle"
    BY <1>1 DEF Robust, Beginnings
  <1>6. task' = "PENDING" /\ Untouched'
    BY <1>1, <1>5 DEF WriteTask, Untouched
  <1>7. \A u \in Threads \ {t} : thread'[u].pc = "idle"
    BY <1>4, <1>5
  <1>8. Beginnings'
    BY <1>2, <1>4, <1>6, <1>7 DEF Beginnings, Bystander
  <1> QED
    BY <1>1, <1>2, <1>3, <1>8, WriteTaskAdvances DEF Grows

LEMMA StartAdvances ==
    ASSUME IInv, TypeOK', Robust, NEW t \in Threads, Start(t)
    PROVE  Advances
  <1> PICK new : new = Bare("begin", {"task"})
    OBVIOUS
  <1>1. /\ thread[t].pc = "created" /\ WriteTask(t, "RUNNING", new)
        /\ UNCHANGED <<approval, checkpoint, ledger>>
    BY DEF Start
  <1>2. new \in Request /\ new.pc = "begin" /\ new.graph = NoGraph /\ new.valid = {"task"}
    <2>1. "begin" \in PC /\ {"task"} \in SUBSET Things
      BY DEF PC, Things
    <2> QED
      BY <2>1, BareFits
  <1>3. Fits(new)' /\ Generation(new)'
    BY <1>1, <1>2, BareHolds DEF Generation, WriteTask
  <1>4. thread'[t] = new /\ \A u \in Threads \ {t} : thread'[u].pc = thread[u].pc
    <2>1. Moves(t, new)
      BY <1>1, <1>2, NotedMove DEF IInv, Sound, WriteTask
    <2> QED
      BY <2>1 DEF Moves, Stays
  <1>5. Untouched /\ \A u \in Threads \ {t} : thread[u].pc = "idle"
    BY <1>1 DEF Robust, Beginnings
  <1>6. task' = "RUNNING" /\ Untouched'
    BY <1>1, <1>5 DEF WriteTask, Untouched
  <1>7. \A u \in Threads \ {t} : thread'[u].pc = "idle"
    BY <1>4, <1>5
  <1>8. Beginnings'
    BY <1>2, <1>4, <1>6, <1>7 DEF Beginnings, Bystander
  <1>9. Remaining(new) < Remaining(thread[t])
    BY <1>1, <1>2, Budget DEF Remaining, Distance
  <1> QED
    BY <1>1, <1>2, <1>3, <1>5, <1>8, <1>9, WriteTaskAdvances DEF Grows

\* A request on its way ends with a write of the Task.
LEMMA LastWriteAdvances ==
    ASSUME IInv, TypeOK', Robust, NEW t \in Threads, NEW status, status # "ABSENT",
           ~Bystander(thread[t]), WriteTask(t, status, Idle), UNCHANGED <<checkpoint, ledger>>, Grows,
           \A u \in Threads \ {t} :
             thread[u].pc = "pausing" =>
               approval'[thread[u].graph.pending] = approval[thread[u].graph.pending]
    PROVE  Advances
  <1> PICK new : new = Idle
    OBVIOUS
  <1>1. new \in Request /\ new.pc = "idle" /\ new.graph = NoGraph /\ "task" \notin new.valid
    BY IdleFits DEF Idle
  <1>2. Fits(new)' /\ Generation(new)'
    BY <1>1, BareHolds DEF Generation
  <1>3. Moves(t, new) /\ task' = status
    BY <1>1, NotedMove DEF IInv, Sound, WriteTask
  <1>4. Beginnings'
    BY <1>1, <1>3, UnderWay, BeginningsPast
  <1>5. Remaining(new) < Remaining(thread[t])
    BY <1>1, Holds, RemainingBounds DEF Remaining, Distance, Bystander
  <1> QED
    BY <1>1, <1>2, <1>4, <1>5, WriteTaskAdvances

\* A question that was only a draft, or is open, is another request's no more
\* than before.
LEMMA QuestionMoves ==
    ASSUME IInv, Robust, NEW p \in Approvals, NEW status \in {"PENDING", "APPROVED", "REJECTED"},
           approval[p].status \in {"DRAFT", "PENDING"},
           approval' = [approval EXCEPT ![p].status = status]
    PROVE  /\ Grows /\ approval'[p].status = status
           /\ \A q \in Approvals \ {p} : approval'[q] = approval[q]
           /\ \A u \in Threads :
                thread[u].pc = "pausing" /\ thread[u].graph.pending # p =>
                  approval'[thread[u].graph.pending] = approval[thread[u].graph.pending]
  <1>0. approval \in [Approvals -> Question]
    BY DEF IInv, Sound, TypeOK
  <1>1. /\ approval'[p].status = status /\ approval'[p].call = approval[p].call
        /\ \A q \in Approvals \ {p} : approval'[q] = approval[q]
    BY <1>0 DEF Question
  <1>2. Grows
    BY <1>1 DEF Grows
  <1>3. ASSUME NEW u \in Threads, thread[u].pc = "pausing"
        PROVE  thread[u].graph.pending \in Approvals
    BY <1>3, Holds DEF Fits, QuestionOf, Graph
  <1> QED
    BY <1>1, <1>2, <1>3

LEMMA PauseAdvances ==
    ASSUME IInv, TypeOK', Robust, NEW t \in Threads, Pause(t)
    PROVE  Advances
  <1> PICK p : p = thread[t].graph.pending
    OBVIOUS
  <1>0. /\ thread[t].pc = "pausing" /\ UNCHANGED <<checkpoint, ledger>> /\ ~Bystander(thread[t])
        /\ p \in Approvals /\ approval[p].status = "DRAFT"
    BY Holds DEF Pause, Bystander, Fits, QuestionOf, Graph
  <1>1. CASE ~Owns(t)
    BY <1>0, <1>1, EndAdvances DEF Pause
  <1>2. CASE Owns(t)
    <2>1. /\ WriteTask(t, "WAITING_APPROVAL", Idle)
          /\ approval' = [approval EXCEPT ![p].status = "PENDING"]
      BY <1>2 DEF Pause
    <2>2. ASSUME NEW u \in Threads \ {t}, thread[u].pc = "pausing"
          PROVE  thread[u].graph.pending # p
      BY <1>0, <2>2 DEF Robust, OwnDrafts
    <2>3. /\ Grows
          /\ \A u \in Threads \ {t} :
               thread[u].pc = "pausing" =>
                 approval'[thread[u].graph.pending] = approval[thread[u].graph.pending]
      BY <1>0, <2>1, <2>2, QuestionMoves
    <2> QED
      BY <1>0, <2>1, <2>3, LastWriteAdvances
  <1> QED
    BY <1>1, <1>2

LEMMA SettleTaskAdvances ==
    ASSUME IInv, TypeOK', Robust, NEW t \in Threads, ~Bystander(thread[t]),
           NEW status \in {"FAILED", "RECOVERY_REQUIRED", "SUCCEEDED"}, SettleTask(t, status)
    PROVE  Advances
  <1>0. UNCHANGED <<approval, checkpoint, ledger>> /\ thread[t].pc # "idle"
    BY DEF SettleTask, Bystander
  <1>1. CASE ~Owns(t)
    BY <1>0, <1>1, EndAdvances DEF SettleTask
  <1>2. CASE Owns(t)
    BY <1>0, <1>2, LastWriteAdvances DEF SettleTask, Grows
  <1> QED
    BY <1>1, <1>2

LEMMA SettlesAdvance ==
    ASSUME IInv, TypeOK', Robust, NEW t \in Threads, Fail(t) \/ Review(t) \/ Succeed(t)
    PROVE  Advances
  BY SettleTaskAdvances DEF Fail, Review, Succeed, AtNode, Bystander

LEMMA DecideAdvances ==
    ASSUME IInv, TypeOK', Robust, NEW t \in Threads, NEW p \in Approvals, NEW yes \in BOOLEAN,
           Decide(t, p, yes)
    PROVE  Advances
  <1>0. /\ thread[t].pc = "idle" /\ approval[p].status = "PENDING" /\ UNCHANGED <<checkpoint, ledger>>
    BY DEF Decide
  <1>1. ASSUME NEW said \in {"APPROVED", "REJECTED"}, approval' = [approval EXCEPT ![p].status = said],
               NEW status \in {"RUNNING", "REJECTED"}, NEW new \in Request, WriteTask(t, status, new),
               new.pc \in {"idle", "resuming"}, new.graph = NoGraph, new.valid = {}
        PROVE  Advances
    <2>1. Fits(new)' /\ Generation(new)'
      BY <1>1, BareHolds DEF Generation
    <2>2. \A u \in Threads : thread[u].pc \notin {"created", "begin"}
      BY <1>0 DEF Robust, Beginnings, Untouched
    <2>3. Moves(t, new) /\ task' = status
      BY <1>1, NotedMove DEF IInv, Sound, WriteTask
    <2>4. Beginnings'
      BY <1>1, <2>2, <2>3, BeginningsPast
    <2>5. ASSUME NEW u \in Threads, thread[u].pc = "pausing"
          PROVE  thread[u].graph.pending # p
      BY <1>0, <2>5, Holds DEF Fits
    <2>6. /\ Grows
          /\ \A u \in Threads \ {t} :
               thread[u].pc = "pausing" =>
                 approval'[thread[u].graph.pending] = approval[thread[u].graph.pending]
      BY <1>0, <1>1, <2>5, QuestionMoves
    <2> QED
      BY <1>0, <1>1, <2>1, <2>4, <2>6, WriteTaskAdvances
  <1>2. CASE yes
    <2> PICK new : new = Resuming(p)
      OBVIOUS
    <2>1. new \in Request /\ new.pc = "resuming" /\ new.graph = NoGraph /\ new.valid = {}
      BY ResumingFits
    <2>2. WriteTask(t, "RUNNING", new) /\ approval' = [approval EXCEPT ![p].status = "APPROVED"]
      BY <1>2 DEF Decide
    <2> QED
      BY <1>1, <2>1, <2>2
  <1>3. CASE ~yes
    <2> PICK new : new = Idle
      OBVIOUS
    <2>1. new \in Request /\ new.pc = "idle" /\ new.graph = NoGraph /\ new.valid = {}
      BY IdleFits DEF Idle
    <2>2. WriteTask(t, "REJECTED", new) /\ approval' = [approval EXCEPT ![p].status = "REJECTED"]
      BY <1>3 DEF Decide
    <2> QED
      BY <1>1, <2>1, <2>2
  <1> QED
    BY <1>2, <1>3

LEMMA ReconcileAdvances ==
    ASSUME IInv, TypeOK', Robust, NEW t \in Threads, Reconcile(t)
    PROVE  Advances
  <1> PICK x : x = thread[t]
    OBVIOUS
  <1>0. /\ x \in Request /\ Fits(x) /\ x.pc = "reconciling" /\ UNCHANGED <<approval, checkpoint, ledger>>
        /\ x.seen \in {"RUNNING", "SUCCEEDED", "RECOVERY_REQUIRED"}
    BY Holds DEF Reconcile, RequestSound
  <1>1. CASE ~Owns(t)
    BY <1>0, <1>1, EndAdvances DEF Reconcile
  <1>2. ASSUME Owns(t), NEW new \in Request, WriteTask(t, x.seen, new), Fits(new), Generation(new)',
               (new.pc = "claimed" /\ ~Bystander(x)) \/ new.pc = "idle",
               Remaining(new) < Remaining(x)
        PROVE  Advances
    <2>1. Moves(t, new) /\ task' = x.seen
      BY <1>2, NotedMove DEF IInv, Sound, WriteTask
    <2>2. Beginnings'
      <3>1. CASE new.pc = "idle"
        <4>1. ~(task = "ABSENT" \/ \E u \in Threads \ {t} : thread[u].pc = "created")
          BY <1>0 DEF Robust, Beginnings
        <4> QED
          BY <1>0, <2>1, <3>1, <4>1, BystanderMoves DEF Bystander
      <3>2. CASE new.pc = "claimed" /\ ~Bystander(x)
        BY <1>0, <2>1, <3>2, UnderWay, BeginningsPast
      <3> QED
        BY <1>2, <3>1, <3>2
    <2>3. Fits(new)' /\ Grows
      BY <1>0, <1>2, NothingWritten DEF IInv, Sound
    <2> QED
      BY <1>0, <1>2, <2>2, <2>3, WriteTaskAdvances
  <1>3. CASE Owns(t) /\ x.seen = "RUNNING"
    <2> PICK new : new = [x EXCEPT !.pc = "claimed", !.seen = "ABSENT"]
      OBVIOUS
    <2>1. new \in Request /\ new.pc = "claimed" /\ new.graph = x.graph /\ new.valid = x.valid
      BY <1>0 DEF Request, PC, TaskStatus
    <2>2. WriteTask(t, x.seen, new)
      BY <1>3 DEF Reconcile
    <2>3. Fits(new) /\ ~Bystander(x)
      BY <1>0, <1>3, <2>1 DEF Fits, Bystander
    <2>4. Generation(new)'
      BY <1>3, <2>1, <2>2 DEF Generation, WriteTask
    <2>5. Remaining(new) < Remaining(x)
      BY <1>0, <2>1, Budget DEF Remaining, Distance
    <2> QED
      BY <1>2, <1>3, <2>1, <2>2, <2>3, <2>4, <2>5
  <1>4. CASE Owns(t) /\ x.seen # "RUNNING"
    <2> PICK new : new = Idle
      OBVIOUS
    <2>1. new \in Request /\ new.pc = "idle" /\ new.graph = NoGraph /\ "task" \notin new.valid
      BY IdleFits DEF Idle
    <2>2. WriteTask(t, x.seen, new)
      BY <1>4 DEF Reconcile
    <2>3. Fits(new) /\ Generation(new)'
      BY <2>1, BareHolds DEF Generation
    <2>4. Remaining(new) < Remaining(x)
      BY <1>0, <2>1, Budget DEF Remaining, Distance
    <2> QED
      BY <1>2, <1>4, <2>1, <2>2, <2>3, <2>4
  <1> QED
    BY <1>1, <1>3, <1>4

-----------------------------------------------------------------------------
(***************************************************************************)
(* The whole next-state relation                                           *)
(***************************************************************************)

\* Time passes, or nothing happens: no row, no question and no request changes.
LEMMA RestAdvances ==
    ASSUME Robust, TypeOK, UNCHANGED <<task, approval, checkpoint, ledger, thread>>
    PROVE  Advances
  <1>1. Grows /\ QuestionOf(checkpoint)' /\ checkpoint'.steps <= MaxSteps
    BY NothingWritten
  <1>2. RowsAreApproved'
    BY DEF Robust, RowsAreApproved
  <1>3. ASSUME NEW u \in Threads
        PROVE  (Fits(thread[u]) /\ Generation(thread[u]))'
    <2> PICK x : x = thread[u]
      OBVIOUS
    <2>1. x \in Request /\ Fits(x) /\ Generation(x) /\ thread'[u] = x
      BY DEF Robust, TypeOK
    <2>2. Fits(x)' /\ Generation(x)'
      BY <2>1, NothingWritten DEF Generation
    <2> QED
      BY <2>1, <2>2
  <1>4. OwnDrafts' /\ Beginnings'
    BY DEF Robust, OwnDrafts, Beginnings, Untouched, Bystander
  <1>5. RunsDown
    <2> SUFFICES ASSUME NEW u \in Threads
                 PROVE  thread'[u] = [thread[u] EXCEPT !.valid = thread'[u].valid]
      BY DEF RunsDown
    <2> PICK x : x = thread[u]
      OBVIOUS
    <2>1. x \in Request /\ thread'[u] = x
      BY DEF TypeOK
    <2>2. x = [x EXCEPT !.valid = x.valid]
      BY <2>1 DEF Request
    <2> QED
      BY <2>1, <2>2
  <1> QED
    BY <1>1, <1>2, <1>3, <1>4, <1>5 DEF Robust, Advances

LEMMA RobustInit == Init => Robust
  <1> SUFFICES ASSUME Init PROVE Robust
    OBVIOUS
  <1> PICK idle : idle = Idle
    OBVIOUS
  <1>1. idle \in Request /\ idle.pc = "idle" /\ idle.graph = NoGraph /\ idle.valid = {}
    BY IdleFits DEF Idle
  <1>2. Fits(idle) /\ Generation(idle)
    BY <1>1, BareHolds DEF Generation
  <1>3. \A t \in Threads : thread[t] = idle
    BY DEF Init
  <1>4. QuestionOf(checkpoint) /\ checkpoint.steps <= MaxSteps
    BY Budget DEF Init, NoGraph, QuestionOf
  <1>5. RowsAreApproved
    BY DEF Init, RowsAreApproved
  <1>6. OwnDrafts /\ Beginnings
    BY <1>1, <1>3 DEF Init, OwnDrafts, Beginnings, Untouched
  <1> QED
    BY <1>2, <1>3, <1>4, <1>5, <1>6 DEF Robust

LEMMA WorkAdvances ==
    ASSUME IInv, TypeOK', Robust, NEW t \in Threads, Work(t)
    PROVE  Advances
  BY StartAdvances, BeginAdvances, LlmNodeAdvances, RaiseAdvances, AskAdvances, PauseAdvances,
     ExecuteAdvances, FinishAdvances, ToolDoneAdvances, SettlesAdvance,
     ResumeAdvances, LoadPausedAdvances, PauseNodeAdvances, ReadCheckpointAdvances, WeighAdvances,
     ReconcileAdvances, RecheckAdvances, RecoverExecutionAdvances, ReloadToolAdvances
  DEF Work

LEMMA NextAdvances == IInv /\ Robust /\ [Next]_vars => Advances
  <1> SUFFICES ASSUME IInv, Robust, [Next]_vars PROVE Advances
    OBVIOUS
  <1>0. TypeOK /\ TypeOK'
    BY InvNext DEF IInv, Sound
  <1>1. ASSUME NEW t \in Threads, Create(t) \/ Work(t) \/ Crash(t)
        PROVE  Advances
    BY <1>0, <1>1, CreateAdvances, WorkAdvances, CrashAdvances
  <1>2. ASSUME NEW t \in Threads, NEW p \in Approvals, NEW yes \in BOOLEAN, Decide(t, p, yes)
        PROVE  Advances
    BY <1>0, <1>2, DecideAdvances
  <1>3. CASE Recovery
    BY <1>0, <1>3, ReadForRecoveryAdvances DEF Recovery
  <1>4. CASE AgeUnattended \/ Suspect \/ UNCHANGED vars
    BY <1>0, <1>4, RestAdvances DEF AgeUnattended, Suspect, Age, vars
  <1> QED
    BY <1>1, <1>2, <1>3, <1>4 DEF Next

-----------------------------------------------------------------------------
(***************************************************************************)
(* The ledger                                                              *)
(***************************************************************************)

\* Whatever a step does to a row that is there, it keeps the row's word.
KeepsWord ==
    \A c \in Calls :
        ledger'[c] # ledger[c] /\ ledger[c].status # "ABSENT" =>
            /\ ledger'[c].appr = ledger[c].appr
            /\ InDoubt(ledger[c])
            /\ ledger'[c].status = "EXECUTING" => Mode[c] # "NONE"

LEMMA ExecuteKeepsWord ==
    ASSUME IInv, NEW t \in Threads, Execute(t)
    PROVE  KeepsWord
  <1> PICK c : c = thread[t].graph.call
    OBVIOUS
  <1>1. ledger[c].status # "ABSENT" => UNCHANGED ledger
    BY DEF Execute
  <1>2. \A d \in Calls \ {c} : ledger'[d] = ledger[d]
    BY DEF Execute, WriteRow, IInv, Sound, TypeOK
  <1> QED
    BY <1>1, <1>2 DEF KeepsWord

LEMMA FinishKeepsWord ==
    ASSUME IInv, NEW t \in Threads, Finish(t)
    PROVE  KeepsWord
  <1> PICK x : x = thread[t]
    OBVIOUS
  <1> PICK c : c = x.graph.call
    OBVIOUS
  <1>1. /\ ledger \in [Calls -> Row] /\ c \in Calls
        /\ c \in x.valid => ledger[c].status = "EXECUTING"
    BY DEF Finish, IInv, Sound, TypeOK, RequestSound
  <1>2. PICK said \in {"ok", "noeffect", "unknown"} :
          IF c \in x.valid
            THEN ledger' = [ledger EXCEPT ![c] = [ledger[c] EXCEPT !.status = Terminal(said)]]
            ELSE UNCHANGED ledger
    BY DEF Finish, WriteRow
  <1>3. CASE c \in x.valid
    <2>1. ledger'[c] = [ledger[c] EXCEPT !.status = Terminal(said)]
      BY <1>1, <1>2, <1>3
    <2>2. ledger'[c].appr = ledger[c].appr /\ ledger'[c].status # "EXECUTING"
      BY <1>1, <2>1, TerminalFits DEF Row
    <2>3. \A d \in Calls \ {c} : ledger'[d] = ledger[d]
      BY <1>1, <1>2, <1>3
    <2> QED
      BY <1>1, <1>3, <2>2, <2>3 DEF KeepsWord, InDoubt
  <1>4. CASE c \notin x.valid
    BY <1>2, <1>4 DEF KeepsWord
  <1> QED
    BY <1>3, <1>4

LEMMA RecoverExecutionKeepsWord ==
    ASSUME IInv, NEW t \in Threads, RecoverExecution(t)
    PROVE  KeepsWord
  <1> PICK x : x = thread[t]
    OBVIOUS
  <1> PICK c : c = x.graph.call
    OBVIOUS
  <1>1. ledger \in [Calls -> Row] /\ c \in Calls
    BY DEF RecoverExecution, IInv, Sound, TypeOK, RequestSound
  <1>2. CASE /\ InDoubt(ledger[c]) /\ Mode[c] # "NONE"
             /\ ledger' = [ledger EXCEPT ![c] = Executing(ledger[c].appr)]
    <2>1. ledger'[c].appr = ledger[c].appr
      BY <1>1, <1>2 DEF Executing
    <2>2. \A d \in Calls \ {c} : ledger'[d] = ledger[d]
      BY <1>1, <1>2
    <2> QED
      BY <1>2, <2>1, <2>2 DEF KeepsWord
  <1>3. CASE UNCHANGED ledger
    BY <1>3 DEF KeepsWord
  <1> QED
    BY <1>2, <1>3 DEF RecoverExecution, WriteRow

\* Everybody else leaves the ledger alone.
LEMMA NextKeepsWord == IInv /\ [Next]_vars => KeepsWord
  <1> SUFFICES ASSUME IInv, [Next]_vars PROVE KeepsWord
    OBVIOUS
  <1>1. UNCHANGED ledger => KeepsWord
    BY DEF KeepsWord
  <1>2. ASSUME NEW t \in Threads, Work(t)
        PROVE  KeepsWord
    <2>1. CASE Start(t) \/ Begin(t) \/ LlmNode(t) \/ Raise(t) \/ Ask(t) \/ Pause(t)
      BY <1>1, <2>1 DEF Start, Begin, LlmNode, Raise, Ask, Pause, WriteCheckpoint,
         Unwritten
    <2>2. CASE ToolDone(t) \/ Fail(t) \/ Review(t) \/ Succeed(t) \/ Resume(t) \/ LoadPaused(t) \/ PauseNode(t)
      BY <1>1, <2>2 DEF ToolDone, Fail, Review, Succeed, SettleTask, Resume, LoadPaused, PauseNode,
         WriteCheckpoint, Unwritten
    <2>3. CASE ReadCheckpoint(t) \/ Weigh(t) \/ Reconcile(t) \/ Recheck(t) \/ ReloadTool(t)
      BY <1>1, <2>3 DEF ReadCheckpoint, Weigh, Reconcile, Recheck, ReloadTool, Unwritten
    <2> QED
      BY <1>2, <2>1, <2>2, <2>3, ExecuteKeepsWord, FinishKeepsWord, RecoverExecutionKeepsWord DEF Work
  <1>3. ASSUME NEW t \in Threads,
               Create(t) \/ Crash(t) \/ \E p \in Approvals, yes \in BOOLEAN : Decide(t, p, yes)
        PROVE  KeepsWord
    BY <1>1, <1>3 DEF Create, Crash, Decide
  <1>4. CASE Recovery \/ AgeUnattended \/ Suspect \/ UNCHANGED vars
    BY <1>1, <1>4 DEF Recovery, ReadForRecovery, Unwritten, AgeUnattended, Suspect, Age, vars
  <1> QED
    BY <1>2, <1>3, <1>4 DEF Next

-----------------------------------------------------------------------------
(***************************************************************************)
(* What a client sees                                                      *)
(***************************************************************************)

\* Nothing a client sees changes.
Hidden == UNCHANGED <<task, [p \in Approvals |-> Shown(p)]>>

LEMMA HiddenIf ==
    ASSUME UNCHANGED <<task, approval>>
    PROVE  Hidden
  BY DEF Hidden, Shown

\* Only the status changes, along one of the contract's moves.
LEMMA StatusMoves ==
    ASSUME UNCHANGED approval,
           \/ task = "ABSENT" /\ task' = "PENDING"
           \/ task = "PENDING" /\ task' = "RUNNING"
           \/ task = "RUNNING" /\ task' \in {"SUCCEEDED", "FAILED", "RECOVERY_REQUIRED"}
           \/ task = "WAITING_APPROVAL" /\ task' = "RECOVERY_REQUIRED"
           \/ task = "RECOVERY_REQUIRED" /\ task' = "RUNNING"
    PROVE  Contract!Next
  <1>1. UNCHANGED [p \in Approvals |-> Shown(p)]
    BY DEF Shown
  <1> QED
    BY <1>1 DEF Contract!Next, Contract!Create, Contract!Start, Contract!Succeed, Contract!Fail,
       Contract!RequireRecovery, Contract!ClaimRecovery, Contract!Move

\* One question changes.
LEMMA QuestionShown ==
    ASSUME TypeOK, NEW p \in Approvals, NEW status \in {"DRAFT", "PENDING", "APPROVED", "REJECTED"},
           approval'[p].status = status, \A q \in Approvals \ {p} : approval'[q] = approval[q]
    PROVE  [q \in Approvals |-> Shown(q)]' =
             [[q \in Approvals |-> Shown(q)] EXCEPT ![p] = IF status = "DRAFT" THEN "UNASKED" ELSE status]
  BY DEF Shown

LEMMA AskHidden ==
    ASSUME IInv, NEW t \in Threads, Ask(t)
    PROVE  Hidden
  <1>1. PICK p \in Approvals :
          /\ approval[p].status = "FREE"
          /\ approval' = [approval EXCEPT ![p] = [status |-> "DRAFT", call |-> thread[t].graph.call]]
    BY DEF Ask
  <1>2. approval'[p].status = "DRAFT" /\ \A q \in Approvals \ {p} : approval'[q] = approval[q]
    BY <1>1 DEF IInv, Sound, TypeOK
  <1>3. \A q \in Approvals : Shown(q)' = Shown(q)
    BY <1>1, <1>2 DEF Shown
  <1> QED
    BY <1>3 DEF Hidden, Ask, WriteCheckpoint

LEMMA PauseRefines ==
    ASSUME IInv, Robust, NEW t \in Threads, Pause(t)
    PROVE  Hidden \/ Contract!Next
  <1> PICK p : p = thread[t].graph.pending
    OBVIOUS
  <1>1. /\ thread[t].pc = "pausing" /\ p \in Approvals /\ approval[p].status = "DRAFT" /\ TypeOK
        /\ Owns(t) => task = "RUNNING"
    BY Holds DEF Pause, Fits, QuestionOf, Graph, Generation, Owns
  <1>2. CASE ~Owns(t)
    BY <1>2, HiddenIf DEF Pause
  <1>3. CASE Owns(t)
    <2>1. task' = "WAITING_APPROVAL" /\ approval' = [approval EXCEPT ![p].status = "PENDING"]
      BY <1>3 DEF Pause, WriteTask
    <2>2. approval'[p].status = "PENDING" /\ \A q \in Approvals \ {p} : approval'[q] = approval[q]
      BY <1>1, <2>1, QuestionMoves
    <2>3. [q \in Approvals |-> Shown(q)]' = [[q \in Approvals |-> Shown(q)] EXCEPT ![p] = "PENDING"]
      BY <1>1, <2>2, QuestionShown
    <2>4. [q \in Approvals |-> Shown(q)][p] = "UNASKED"
      BY <1>1 DEF Shown
    <2>5. Contract!Ask(p)
      BY <1>1, <1>3, <2>1, <2>3, <2>4 DEF Contract!Ask, Contract!Move
    <2> QED
      BY <1>1, <2>5 DEF Contract!Next
  <1> QED
    BY <1>2, <1>3

LEMMA DecideRefines ==
    ASSUME IInv, Robust, NEW t \in Threads, NEW p \in Approvals, NEW yes \in BOOLEAN, Decide(t, p, yes)
    PROVE  Contract!Next
  <1> PICK status : status = IF yes THEN "APPROVED" ELSE "REJECTED"
    OBVIOUS
  <1>1. /\ approval[p].status = "PENDING" /\ task = "WAITING_APPROVAL" /\ TypeOK
        /\ approval' = [approval EXCEPT ![p].status = status]
        /\ task' = IF yes THEN "RUNNING" ELSE "REJECTED"
    BY DEF Decide, WriteTask, IInv, Sound
  <1>2. approval'[p].status = status /\ \A q \in Approvals \ {p} : approval'[q] = approval[q]
    BY <1>1, QuestionMoves
  <1>3. [q \in Approvals |-> Shown(q)]' = [[q \in Approvals |-> Shown(q)] EXCEPT ![p] = status]
    BY <1>1, <1>2, QuestionShown
  <1>4. [q \in Approvals |-> Shown(q)][p] = "PENDING"
    BY <1>1 DEF Shown
  <1>5. Contract!Approve(p) \/ Contract!Reject(p)
    BY <1>1, <1>3, <1>4 DEF Contract!Approve, Contract!Reject, Contract!Move
  <1> QED
    BY <1>5 DEF Contract!Next

LEMMA SettlesRefine ==
    ASSUME IInv, Robust, NEW t \in Threads, Fail(t) \/ Review(t) \/ Succeed(t)
    PROVE  Hidden \/ Contract!Next
  <1>1. PICK status \in {"FAILED", "RECOVERY_REQUIRED", "SUCCEEDED"} :
          thread[t].pc \in {"failing", "reviewing", "node"} /\ SettleTask(t, status)
    BY DEF Fail, Review, Succeed, AtNode
  <1>2. CASE ~Owns(t)
    BY <1>1, <1>2, HiddenIf DEF SettleTask
  <1>3. CASE Owns(t)
    <2>1. task = "RUNNING"
      BY <1>1, <1>3, Holds DEF Generation, Owns
    <2>2. task' = status /\ UNCHANGED approval
      BY <1>1, <1>3 DEF SettleTask, WriteTask
    <2> QED
      BY <1>1, <2>1, <2>2, StatusMoves
  <1> QED
    BY <1>2, <1>3

LEMMA ReconcileRefines ==
    ASSUME IInv, Robust, NEW t \in Threads, Reconcile(t)
    PROVE  Hidden \/ Contract!Next
  <1>1. CASE ~Owns(t)
    BY <1>1, HiddenIf DEF Reconcile
  <1>2. CASE Owns(t)
    <2> PICK seen : seen = thread[t].seen
      OBVIOUS
    <2>1. /\ seen \in {"RUNNING", "SUCCEEDED", "RECOVERY_REQUIRED"}
          /\ seen = "RUNNING" => task \in {"RUNNING", "RECOVERY_REQUIRED"}
          /\ seen = "SUCCEEDED" => task = "RUNNING"
          /\ seen = "RECOVERY_REQUIRED" => task \in {"RUNNING", "WAITING_APPROVAL"}
      BY <1>2, Holds DEF Reconcile, RequestSound, Generation, Owns
    <2>2. task' = seen /\ UNCHANGED approval
      BY <1>2 DEF Reconcile, WriteTask
    <2> QED
      BY <2>1, <2>2, StatusMoves, HiddenIf
  <1> QED
    BY <1>1, <1>2

\* Every step is one of the contract's, or hidden from a client.
LEMMA NextRefines == IInv /\ Robust /\ [Next]_vars => Hidden \/ Contract!Next
  <1> SUFFICES ASSUME IInv, Robust, [Next]_vars PROVE Hidden \/ Contract!Next
    OBVIOUS
  <1>1. ASSUME NEW t \in Threads, Work(t)
        PROVE  Hidden \/ Contract!Next
    <2>1. CASE Start(t)
      <3>1. task = "PENDING" /\ task' = "RUNNING" /\ UNCHANGED approval
        BY <2>1 DEF Start, WriteTask, Robust, Beginnings
      <3> QED
        BY <3>1, StatusMoves
    <2>2. CASE Begin(t) \/ LlmNode(t) \/ Raise(t)
      BY <2>2, HiddenIf DEF Begin, LlmNode, Raise, WriteCheckpoint, Unwritten
    <2>3. CASE Execute(t) \/ Finish(t) \/ ToolDone(t)
      BY <2>3, HiddenIf DEF Execute, Finish, ToolDone, WriteCheckpoint
    <2>4. CASE Resume(t) \/ LoadPaused(t) \/ PauseNode(t) \/ ReadCheckpoint(t)
      BY <2>4, HiddenIf DEF Resume, LoadPaused, PauseNode, ReadCheckpoint, WriteCheckpoint, Unwritten
    <2>5. CASE Weigh(t) \/ Recheck(t) \/ RecoverExecution(t) \/ ReloadTool(t)
      BY <2>5, HiddenIf DEF Weigh, Recheck, RecoverExecution, ReloadTool, Unwritten
    <2> QED
      BY <1>1, <2>1, <2>2, <2>3, <2>4, <2>5, AskHidden, PauseRefines, SettlesRefine, ReconcileRefines
      DEF Work
  <1>2. ASSUME NEW t \in Threads, Create(t)
        PROVE  Contract!Next
    BY <1>2, StatusMoves DEF Create, WriteTask
  <1>3. ASSUME NEW t \in Threads, Crash(t)
        PROVE  Hidden
    BY <1>3, HiddenIf DEF Crash
  <1>4. ASSUME NEW t \in Threads, NEW p \in Approvals, NEW yes \in BOOLEAN, Decide(t, p, yes)
        PROVE  Contract!Next
    BY <1>4, DecideRefines
  <1>5. CASE Recovery \/ AgeUnattended \/ Suspect \/ UNCHANGED vars
    BY <1>5, HiddenIf DEF Recovery, ReadForRecovery, Unwritten, AgeUnattended, Suspect, Age, vars
  <1> QED
    BY <1>1, <1>2, <1>3, <1>4, <1>5 DEF Next

-----------------------------------------------------------------------------
(***************************************************************************)
(* The theorems                                                            *)
(***************************************************************************)

\* Robust holds in every reachable state, whatever is taken for dead.
THEOREM FaultInvariant == Spec => [](IInv /\ Robust)
  <1>1. Init => IInv /\ Robust
    BY InvInit, RobustInit
  <1>2. IInv /\ Robust /\ [Next]_vars => (IInv /\ Robust)'
    BY InvNext, NextAdvances DEF Advances
  <1> QED
    BY <1>1, <1>2, PTL DEF Spec

\* OnlyApprovedCallsRun: no race, crash or wrong suspicion brings a call to its
\* Tool without the human's yes to this very call.
THEOREM NoCallWithoutYes == Spec => []OnlyApprovedCallsRun
  <1>1. ASSUME IInv, Robust, NEW t \in Threads,
               AtNode(t, "tool"), thread[t].graph.pending # NoApproval
        PROVE  Authorized(thread[t].graph)
    <2> PICK g : g = thread[t].graph
      OBVIOUS
    <2>1. g.pending \in Approvals /\ approval[g.pending] \in Question
      BY <1>1 DEF IInv, Sound, TypeOK, Request, Graph, AtNode
    <2>2. approval[g.pending].status = "APPROVED" /\ approval[g.pending].call = g.call
      BY <1>1 DEF Robust, Fits, QuestionOf, AtNode
    <2> QED
      BY <2>1, <2>2 DEF Authorized, Question
  <1>2. IInv /\ Robust => OnlyApprovedCallsRun
    BY <1>1 DEF Robust, RowsAreApproved, OnlyApprovedCallsRun
  <1> QED
    BY <1>2, FaultInvariant, PTL

\* RowsKeepTheirWord: no step of a superseded request rewrites a known outcome,
\* moves a row to another Approval or repeats a Tool that must not be repeated.
THEOREM LedgerIsTrue == Spec => RowsKeepTheirWord
  <1>1. IInv /\ [Next]_vars => [KeepsWord]_vars
    BY NextKeepsWord
  <1> QED
    BY <1>1, FlowInvariant, PTL DEF Spec, RowsKeepTheirWord, KeepsWord

\* ImplementsContract: driven by its checkpoint and ledger, under any faults, the
\* Task makes the moves of TaskContract and no others.
THEOREM FlowImplementsContract == Spec => ImplementsContract
  <1>1. Init => Contract!Init
    BY DEF Init, Shown, Contract!Init
  <1>2. IInv /\ Robust /\ [Next]_vars => [Contract!Next]_(Contract!contractVars)
    BY NextRefines DEF Hidden, Contract!contractVars
  <1> QED
    BY <1>1, <1>2, FaultInvariant, PTL DEF Spec, ImplementsContract, Contract!Spec

\* RequestsRunDown: every request gets nearer to its end with each of its steps.
THEOREM RequestsEnd == Spec => RequestsRunDown
  <1>1. IInv /\ Robust /\ [Next]_vars => [RunsDown]_vars
    BY NextAdvances DEF Advances
  <1> QED
    BY <1>1, FaultInvariant, PTL DEF Spec, RequestsRunDown, RunsDown

\* A request is never left at a place that no step leads away from: the run that
\* begins finds no checkpoint, and a workflow stands at a node that exists.
NoDeadEnd ==
    \A t \in Threads :
        /\ thread[t].pc = "begin" => checkpoint = NoGraph
        /\ thread[t].pc = "node" => thread[t].graph.next \in {"llm", "tool", "end"}

THEOREM RequestsFindTheirWay == Spec => []NoDeadEnd
  <1>1. Robust => NoDeadEnd
    BY DEF Robust, Beginnings, Untouched, Fits, NoDeadEnd
  <1> QED
    BY <1>1, FaultInvariant, PTL

=============================================================================
