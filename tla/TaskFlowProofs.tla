---------------------------- MODULE TaskFlowProofs ----------------------------
(***************************************************************************)
(* Proofs about TaskFlow: for every number of requests, calls, Approvals,  *)
(* model calls and crashes, the invariants that the runs check.            *)
(*                                                                         *)
(* IInv has three parts.  Sound holds whatever happens.  Calm is what      *)
(* recovery's patience buys: as long as no live request is taken for dead, *)
(* a Task has one worker, and what is durable fits together.  Healthy is   *)
(* what holds while nothing at all has gone wrong.                         *)
(***************************************************************************)
EXTENDS TaskFlow, TLAPS

-----------------------------------------------------------------------------
(***************************************************************************)
(* The inductive invariant                                                 *)
(***************************************************************************)

\* A pending Approval or Tool is one of a call.
WellFormed(g) ==
    /\ g.next \in {"tool", "approval_pause"} => g.call \in Calls
    /\ g.pending # NoApproval => g.next \in {"tool", "approval_pause"}

\* Requests that recover hold what they read; requests with a call in hand
\* know which.
RequestSound(x) ==
    /\ WellFormed(x.graph)
    /\ x.pc \in {"won", "rewon", "answered", "approved", "recovering", "retool"} => x.graph.call \in Calls
    /\ x.pc \in {"won", "rewon"} /\ x.graph.call \in x.valid =>
         ledger[x.graph.call].status = "EXECUTING"
    /\ x.pc = "answered" => ledger[x.graph.call].status = "SUCCEEDED"
    /\ x.pc = "reconciling" => x.seen \in {"RUNNING", "SUCCEEDED", "RECOVERY_REQUIRED"}
    /\ x.pc = "claimed" \/ (x.pc = "reconciling" /\ x.seen = "RUNNING") => x.graph.call \in Calls

TellsLedger(g) == \A c \in g.answered : ledger[c].status = "SUCCEEDED"

Sound ==
    /\ TypeOK
    /\ WellFormed(checkpoint) /\ TellsLedger(checkpoint)
    /\ \A t \in Threads : RequestSound(thread[t]) /\ TellsLedger(thread[t].graph)

\* One worker, on the row it owns; the row stays fresh while it works, and no
\* recovery that weighed it before can still win it.
SoleWorker ==
    \A t \in Threads :
        Working(t) =>
            /\ "task" \in fresh
            /\ task = IF thread[t].pc = "created" THEN "PENDING" ELSE "RUNNING"
            /\ thread[t].pc \notin {"created", "resuming"} => Owns(t)
            /\ \A u \in Threads \ {t} :
                 ~Working(u) /\ (thread[u].pc = "reconciling" => ~Owns(u))

\* The pending Approval of a checkpoint is one that was asked for its call, and
\* its Tool is reached through the human's yes.
QuestionOf(g) ==
    /\ g.next = "approval_pause" => g.pending # NoApproval
    /\ g.pending # NoApproval =>
         /\ approval[g.pending].call = g.call
         /\ approval[g.pending].status # "FREE"
         /\ g.next = "tool" => approval[g.pending].status = "APPROVED"

\* A pending question is the checkpoint's, and nobody works; an approved one
\* has run or is the checkpoint's; a row in doubt is of the Tool it stands at.
DurableState ==
    /\ QuestionOf(checkpoint)
    /\ task = "ABSENT" => checkpoint = NoGraph
    /\ \A p \in Approvals :
         /\ approval[p].status # "FREE" => approval[p].call \in Calls
         /\ approval[p].status = "PENDING" =>
              /\ checkpoint.next = "approval_pause" /\ checkpoint.pending = p
              /\ task \in {"WAITING_APPROVAL", "RECOVERY_REQUIRED"}
         /\ approval[p].status = "APPROVED" =>
              ledger[approval[p].call].status = "SUCCEEDED" \/ checkpoint.pending = p
    /\ \A c \in Calls :
         InDoubt(ledger[c]) =>
            /\ checkpoint.next = "tool" /\ checkpoint.call = c
            /\ checkpoint.pending = ledger[c].appr /\ checkpoint.pending # NoApproval
    /\ task = "SUCCEEDED" => checkpoint.next = "end"
    /\ task \in {"SUCCEEDED", "FAILED", "REJECTED"} => \A c \in Calls : ~InDoubt(ledger[c])

\* What a worker has in hand, by its place.
WorkerHolds(x) ==
    /\ x.pc \in {"created", "begin"} => checkpoint = NoGraph
    /\ x.pc \in {"node", "pausing", "won", "answered", "approved"} => x.graph = checkpoint
    /\ x.pc = "pausing" =>
         checkpoint.next = "approval_pause" /\ approval[checkpoint.pending].status = "DRAFT"
    /\ x.pc \in {"resuming", "resume"} =>
         /\ checkpoint.next = "approval_pause" /\ checkpoint.pending = x.appr
         /\ x.appr # NoApproval /\ approval[x.appr].status = "APPROVED"
    /\ x.pc = "approved" =>
         checkpoint.next = "approval_pause" /\ approval[checkpoint.pending].status = "APPROVED"
    /\ x.pc \in {"won", "answered"} => checkpoint.next = "tool" /\ checkpoint.pending # NoApproval
    /\ x.pc \in {"won", "rewon"} =>
         x.graph.call \in x.valid /\ ledger[x.graph.call] = Executing(x.graph.pending)
    /\ x.pc \in {"recovering", "rewon", "retool"} => "checkpoint" \in x.valid
    /\ x.pc \in {"node", "failing"} => \A c \in Calls : ~InDoubt(ledger[c])

\* What a recovery read, as long as nobody has written it since.
EvidenceHolds(x) ==
    /\ x.pc \in {"weighing", "reconciling", "claimed", "recovering", "rewon", "retool"} =>
         /\ "checkpoint" \in x.valid => x.graph = checkpoint
         /\ x.graph.next = "end" => checkpoint.next = "end"
    /\ x.pc \in {"assessing", "weighing"} /\ "task" \in x.valid =>
         x.seen = task /\ task \in {"RUNNING", "WAITING_APPROVAL", "RECOVERY_REQUIRED"}
    /\ x.pc = "weighing" /\ "task" \in x.valid /\ task # "RUNNING" => x.graph = checkpoint
    /\ x.pc \in {"claimed", "recovering", "rewon", "retool"}
         \/ (x.pc = "reconciling" /\ x.seen = "RUNNING" /\ "task" \in x.valid) =>
         /\ x.graph.next \in {"approval_pause", "tool"} /\ x.graph.pending # NoApproval
         /\ approval[x.graph.pending].status = "APPROVED"
         /\ \A p \in Approvals : approval[p].status # "PENDING"
         /\ x.pc \in {"reconciling", "claimed"} /\ "checkpoint" \in x.valid =>
              x.retry = InDoubt(ledger[x.graph.call])
         /\ x.pc = "retool" => ~InDoubt(ledger[x.graph.call])
    /\ x.pc = "reconciling" /\ x.seen = "SUCCEEDED" => x.graph.next = "end"

Calm ==
    history.suspicions = 0 =>
        /\ SoleWorker
        /\ DurableState
        /\ \A t \in Threads : WorkerHolds(thread[t]) /\ EvidenceHolds(thread[t])

\* Nothing has gone wrong: an active Task has its worker or its question, and
\* no recovery goes beyond weighing.
Healthy ==
    history.suspicions = 0 /\ history.crashes = 0 /\ ~history.doubted =>
        /\ task \in {"PENDING", "RUNNING"} => \E t \in Threads : Working(t)
        /\ task = "WAITING_APPROVAL" =>
             /\ checkpoint.next = "approval_pause"
             /\ approval[checkpoint.pending].status = "PENDING"
        /\ task # "RECOVERY_REQUIRED"
        /\ \A t \in Threads :
             /\ thread[t].pc \notin {"reviewing", "claimed", "recovering", "rewon", "retool"}
             /\ thread[t].pc = "reconciling" => ~Owns(t)
        /\ \A c \in Calls :
             /\ InDoubt(ledger[c]) => \E t \in Threads : thread[t].pc = "won"
             /\ ledger[c].status = "FAILED" =>
                  task = "FAILED" \/ \E t \in Threads : thread[t].pc = "failing"

IInv == Sound /\ Calm /\ Healthy

-----------------------------------------------------------------------------
(***************************************************************************)
(* The four kinds of steps: what a step leaves of the invariant to check   *)
(***************************************************************************)

AtWork(pc) == pc \notin {"idle", "assessing", "weighing", "reconciling"}

Trouble == {"reviewing", "claimed", "recovering", "rewon", "retool"}

IsCalm == history.suspicions = 0

IsHealthy == history.suspicions = 0 /\ history.crashes = 0 /\ ~history.doubted

\* The constants do not clash.
LEMMA Constants ==
    /\ NoApproval \notin Approvals /\ NoCall \notin Calls
    /\ "task" \notin Calls /\ "checkpoint" \notin Calls
  BY Zenon, ConstantsAssumption DEF ConstantsAssumption

\* The types of what a step reads of the request it moves.
LEMMA ThreadTypes ==
    ASSUME TypeOK, NEW t \in Threads
    PROVE  /\ thread[t] \in Request /\ thread[t].pc \in PC /\ thread[t].valid \subseteq Things
           /\ thread[t].seen \in TaskStatus /\ thread[t].retry \in BOOLEAN
           /\ thread[t].graph \in Graph /\ thread[t].appr \in Approvals \cup {NoApproval}
  BY DEF TypeOK, Request

\* A step that moves one request and writes nothing but the history.
LEMMA LocalStep ==
    ASSUME IInv, NEW t \in Threads, NEW new \in Request,
           thread' = [thread EXCEPT ![t] = new],
           UNCHANGED <<task, approval, checkpoint, ledger, fresh>>,
           history' \in [crashes : Nat, suspicions : Nat, doubted : BOOLEAN],
           IsCalm' => IsCalm, IsHealthy' => IsHealthy,
           RequestSound(new), TellsLedger(new.graph),
           IsCalm =>
             /\ WorkerHolds(new) /\ EvidenceHolds(new)
             /\ AtWork(new.pc) => Working(t) /\ new.pc # "created" /\ thread[t].pc # "created"
             /\ AtWork(new.pc) /\ new.pc # "resuming" => "task" \in new.valid
             /\ new.pc = "reconciling" /\ "task" \in new.valid =>
                  \A u \in Threads \ {t} : ~Working(u),
           IsHealthy' =>
             /\ Working(t) => AtWork(new.pc)
             /\ new.pc \notin Trouble
             /\ new.pc = "reconciling" => "task" \notin new.valid
             /\ thread[t].pc \notin {"won", "failing"}
    PROVE  IInv'
  <1>1. /\ \A u \in Threads \ {t} : thread'[u] = thread[u]
        /\ thread'[t] = new
        /\ thread' \in [Threads -> Request]
    BY DEF IInv, Sound, TypeOK
  <1>2. Sound'
    <2>1. TypeOK'
      BY <1>1 DEF IInv, Sound, TypeOK
    <2>2. WellFormed(checkpoint)' /\ TellsLedger(checkpoint)'
      BY DEF IInv, Sound, WellFormed, TellsLedger
    <2>3. ASSUME NEW u \in Threads
          PROVE  (RequestSound(thread[u]) /\ TellsLedger(thread[u].graph))'
      <3> PICK x : x = thread'[u]
        OBVIOUS
      <3>1. RequestSound(x) /\ TellsLedger(x.graph)
        BY <1>1 DEF IInv, Sound
      <3>2. RequestSound(x)' /\ TellsLedger(x.graph)'
        BY <3>1 DEF RequestSound, TellsLedger
      <3> QED
        BY <3>2
    <2> QED
      BY <2>1, <2>2, <2>3 DEF Sound
  <1>3. Calm'
    <2> SUFFICES ASSUME IsCalm, IsCalm'
                 PROVE  (/\ SoleWorker /\ DurableState
                         /\ \A u \in Threads : WorkerHolds(thread[u]) /\ EvidenceHolds(thread[u]))'
      BY DEF Calm, IsCalm
    <2>1. SoleWorker /\ DurableState /\ \A u \in Threads : WorkerHolds(thread[u]) /\ EvidenceHolds(thread[u])
      BY DEF IInv, Calm, IsCalm
    <2>2. SoleWorker'
      BY <1>1, <2>1 DEF SoleWorker, Working, Owns, AtWork
    <2>3. DurableState'
      BY <2>1 DEF DurableState, QuestionOf, InDoubt
    <2>4. ASSUME NEW u \in Threads
          PROVE  (WorkerHolds(thread[u]) /\ EvidenceHolds(thread[u]))'
      <3> PICK x : x = thread'[u]
        OBVIOUS
      <3>1. WorkerHolds(x) /\ EvidenceHolds(x)
        BY <1>1, <2>1
      <3>2. WorkerHolds(x)' /\ EvidenceHolds(x)'
        BY <3>1 DEF WorkerHolds, EvidenceHolds
      <3> QED
        BY <3>2
    <2> QED
      BY <2>2, <2>3, <2>4
  <1>4. Healthy'
    <2> SUFFICES ASSUME IsHealthy, IsHealthy' PROVE Healthy'
      BY DEF Healthy, IsHealthy
    <2> QED
      BY <1>1 DEF IInv, Healthy, IsHealthy, Working, AtWork, Owns, Trouble, InDoubt
  <1> QED
    BY <1>2, <1>3, <1>4 DEF IInv

\* What everybody else's request becomes when x is written.
Forgets(u, x) ==
    /\ thread'[u].pc = thread[u].pc /\ thread'[u].graph = thread[u].graph
    /\ thread'[u].seen = thread[u].seen /\ thread'[u].retry = thread[u].retry
    /\ thread'[u].appr = thread[u].appr /\ thread'[u].valid = thread[u].valid \ {x}

LEMMA NotedForgets ==
    ASSUME TypeOK, NEW t \in Threads, NEW x, NEW new \in Request, Noted(t, x, new)
    PROVE  /\ thread'[t] = new /\ thread' \in [Threads -> Request]
           /\ \A u \in Threads \ {t} : Forgets(u, x)
  <1>1. ASSUME NEW u \in Threads \ {t}
        PROVE  thread'[u] \in Request /\ Forgets(u, x)
    <2>1. thread'[u] = [thread[u] EXCEPT !.valid = thread[u].valid \ {x}]
      BY <1>1 DEF Noted
    <2>2. thread[u] \in Request
      BY DEF TypeOK
    <2> QED
      BY <2>1, <2>2 DEF Request, Forgets
  <1>2. thread'[t] = new /\ DOMAIN thread' = Threads
    BY DEF Noted
  <1>3. thread' = [u \in Threads |-> thread'[u]]
    BY DEF Noted
  <1> QED
    BY <1>1, <1>2, <1>3

\* A step that writes the Task.
LEMMA TaskStep ==
    ASSUME IInv, NEW t \in Threads, NEW new \in Request, NEW status \in TaskStatus,
           WriteTask(t, status, new), UNCHANGED <<checkpoint, ledger, history>>,
           approval' \in [Approvals -> Question],
           RequestSound(new), TellsLedger(new.graph), new.pc # "reconciling",
           IsCalm =>
             /\ \A u \in Threads \ {t} : ~Working(u)
             /\ DurableState' /\ WorkerHolds(new)' /\ EvidenceHolds(new)'
             /\ AtWork(new.pc) =>
                  /\ status = IF new.pc = "created" THEN "PENDING" ELSE "RUNNING"
                  /\ new.pc \notin {"created", "resuming"} => "task" \in new.valid,
           IsHealthy =>
             /\ status # "RECOVERY_REQUIRED" /\ new.pc \notin Trouble
             /\ status \in {"PENDING", "RUNNING"} => AtWork(new.pc)
             /\ status = "WAITING_APPROVAL" =>
                  /\ checkpoint.next = "approval_pause"
                  /\ approval'[checkpoint.pending].status = "PENDING"
             /\ thread[t].pc # "won" /\ task # "FAILED"
             /\ thread[t].pc = "failing" => status = "FAILED"
    PROVE  IInv'
  <1>0. TypeOK
    BY DEF IInv, Sound
  <1>1. /\ \A u \in Threads \ {t} : Forgets(u, "task")
        /\ thread'[t] = new
        /\ thread' \in [Threads -> Request]
        /\ task' = status /\ fresh' = fresh \cup {"task"}
    BY <1>0, NotedForgets DEF WriteTask
  <1>2. Sound'
    <2>1. TypeOK'
      BY <1>0, <1>1 DEF TypeOK, Things
    <2>2. WellFormed(checkpoint)' /\ TellsLedger(checkpoint)'
      BY DEF IInv, Sound, WellFormed, TellsLedger
    <2>3. ASSUME NEW u \in Threads
          PROVE  (RequestSound(thread[u]) /\ TellsLedger(thread[u].graph))'
      <3> PICK x : x = thread[u]
        OBVIOUS
      <3> PICK y : y = thread'[u]
        OBVIOUS
      <3>1. CASE u = t
        <4>1. RequestSound(y)' /\ TellsLedger(y.graph)'
          BY <1>1, <3>1 DEF RequestSound, TellsLedger
        <4> QED
          BY <4>1
      <3>2. CASE u # t
        <4>1. RequestSound(x) /\ TellsLedger(x.graph)
          BY DEF IInv, Sound
        <4>2. /\ y.pc = x.pc /\ y.graph = x.graph /\ y.seen = x.seen /\ y.valid = x.valid \ {"task"}
          BY <1>1, <3>2 DEF Forgets
        <4>3. RequestSound(y)' /\ TellsLedger(y.graph)'
          BY <4>1, <4>2 DEF RequestSound, TellsLedger
        <4> QED
          BY <4>3
      <3> QED
        BY <3>1, <3>2
    <2> QED
      BY <2>1, <2>2, <2>3 DEF Sound
  <1>3. Calm'
    <2> SUFFICES ASSUME IsCalm
                 PROVE  (/\ SoleWorker /\ DurableState
                         /\ \A u \in Threads : WorkerHolds(thread[u]) /\ EvidenceHolds(thread[u]))'
      BY DEF Calm, IsCalm
    <2>1. \A u \in Threads : WorkerHolds(thread[u]) /\ EvidenceHolds(thread[u])
      BY DEF IInv, Calm, IsCalm
    <2>2. SoleWorker'
      BY <1>1 DEF SoleWorker, Working, Owns, AtWork, Forgets
    <2>3. ASSUME NEW u \in Threads
          PROVE  (WorkerHolds(thread[u]) /\ EvidenceHolds(thread[u]))'
      <3> PICK x : x = thread[u]
        OBVIOUS
      <3> PICK y : y = thread'[u]
        OBVIOUS
      <3>1. CASE u = t
        <4>1. WorkerHolds(y)' /\ EvidenceHolds(y)'
          BY <1>1, <3>1
        <4> QED
          BY <4>1
      <3>2. CASE u # t
        <4>1. EvidenceHolds(x) /\ ~AtWork(x.pc)
          BY <2>1, <3>2 DEF Working, AtWork
        <4>2. /\ y.pc = x.pc /\ y.graph = x.graph /\ y.seen = x.seen /\ y.valid = x.valid \ {"task"}
          BY <1>1, <3>2 DEF Forgets
        <4>3. WorkerHolds(y)'
          BY <4>1, <4>2 DEF WorkerHolds, AtWork
        <4>4. EvidenceHolds(y)'
          BY <4>1, <4>2 DEF EvidenceHolds, AtWork
        <4> QED
          BY <4>3, <4>4
      <3> QED
        BY <3>1, <3>2
    <2> QED
      BY <2>2, <2>3
  <1>4. Healthy'
    <2> SUFFICES ASSUME IsHealthy PROVE Healthy'
      BY DEF Healthy, IsHealthy
    <2>1. IsCalm
      BY DEF IsCalm, IsHealthy
    <2>2. \A u \in Threads \ {t} : thread'[u].pc = thread[u].pc /\ "task" \notin thread'[u].valid
      BY <1>1 DEF Forgets
    <2>3. \A u \in Threads : thread[u].pc # "won"
      BY <2>1 DEF Working
    <2> QED
      BY <1>1, <2>1, <2>2, <2>3 DEF IInv, Healthy, IsHealthy, Working, AtWork, Owns, Trouble, InDoubt
  <1> QED
    BY <1>2, <1>3, <1>4 DEF IInv

\* A step of a worker that writes the checkpoint.
LEMMA CheckpointStep ==
    ASSUME IInv, NEW t \in Threads, NEW graph \in Graph, NEW pc \in PC,
           NEW new \in Request, new = [thread[t] EXCEPT !.pc = pc, !.graph = graph],
           WriteCheckpoint(t, graph, pc), approval' \in [Approvals -> Question],
           Working(t), AtWork(pc), pc \notin Trouble \cup {"created", "resuming"},
           thread[t].pc \notin {"created", "resuming", "won", "failing"},
           RequestSound(new), TellsLedger(graph),
           IsCalm => DurableState' /\ WorkerHolds(new)' /\ checkpoint.next # "end"
    PROVE  IInv'
  <1>0. TypeOK /\ UNCHANGED <<task, ledger, fresh, history>> /\ checkpoint' = graph
    BY DEF IInv, Sound, WriteCheckpoint
  <1>1. /\ \A u \in Threads \ {t} : Forgets(u, "checkpoint")
        /\ thread'[t] = new
        /\ thread' \in [Threads -> Request]
    BY <1>0, NotedForgets DEF WriteCheckpoint
  <1>2. new.pc = pc /\ new.graph = graph /\ new.valid = thread[t].valid
    BY ThreadTypes, <1>0 DEF Request
  <1>3. Sound'
    <2>1. TypeOK'
      BY <1>0, <1>1 DEF TypeOK
    <2>2. (WellFormed(checkpoint) /\ TellsLedger(checkpoint))'
      <3>1. WellFormed(graph)
        BY <1>2 DEF RequestSound
      <3>2. WellFormed(graph)' /\ TellsLedger(graph)'
        BY <1>0, <3>1 DEF WellFormed, TellsLedger
      <3> QED
        BY <1>0, <3>2
    <2>3. ASSUME NEW u \in Threads
          PROVE  (RequestSound(thread[u]) /\ TellsLedger(thread[u].graph))'
      <3> PICK x : x = thread[u]
        OBVIOUS
      <3> PICK y : y = thread'[u]
        OBVIOUS
      <3>1. CASE u = t
        <4>1. RequestSound(y)' /\ TellsLedger(y.graph)'
          BY <1>0, <1>1, <1>2, <3>1 DEF RequestSound, TellsLedger
        <4> QED
          BY <4>1
      <3>2. CASE u # t
        <4>1. RequestSound(x) /\ TellsLedger(x.graph)
          BY DEF IInv, Sound
        <4>2. /\ y.pc = x.pc /\ y.graph = x.graph /\ y.seen = x.seen
              /\ y.valid = x.valid \ {"checkpoint"}
          BY <1>1, <3>2 DEF Forgets
        <4>3. RequestSound(y)' /\ TellsLedger(y.graph)'
          BY <1>0, <4>1, <4>2 DEF RequestSound, TellsLedger
        <4> QED
          BY <4>3
      <3> QED
        BY <3>1, <3>2
    <2> QED
      BY <2>1, <2>2, <2>3 DEF Sound
  <1>4. Calm'
    <2> SUFFICES ASSUME IsCalm
                 PROVE  (/\ SoleWorker /\ DurableState
                         /\ \A u \in Threads : WorkerHolds(thread[u]) /\ EvidenceHolds(thread[u]))'
      BY <1>0 DEF Calm, IsCalm
    <2>1. SoleWorker /\ \A u \in Threads : EvidenceHolds(thread[u])
      BY DEF IInv, Calm, IsCalm
    <2>2. /\ Owns(t) /\ task = "RUNNING" /\ "task" \in fresh
          /\ \A u \in Threads \ {t} : ~Working(u) /\ (thread[u].pc = "reconciling" => ~Owns(u))
      BY <2>1 DEF SoleWorker
    <2>3. SoleWorker'
      <3>1. \A u \in Threads \ {t} : ~Working(u)' /\ (thread'[u].pc = "reconciling" => ~Owns(u)')
        BY <1>1, <2>2 DEF Working, Owns, Forgets
      <3>2. thread'[t].pc = pc /\ pc \notin {"created", "resuming"} /\ Owns(t)'
        BY <1>1, <1>2, <2>2 DEF Owns
      <3> QED
        BY <1>0, <2>2, <3>1, <3>2 DEF SoleWorker
    <2>4. ASSUME NEW u \in Threads
          PROVE  (WorkerHolds(thread[u]) /\ EvidenceHolds(thread[u]))'
      <3> PICK x : x = thread[u]
        OBVIOUS
      <3> PICK y : y = thread'[u]
        OBVIOUS
      <3>1. CASE u = t
        <4>1. WorkerHolds(y)'
          BY <1>1, <3>1
        <4>2. EvidenceHolds(y)'
          BY <1>1, <1>2, <3>1 DEF EvidenceHolds, AtWork, Trouble
        <4> QED
          BY <4>1, <4>2
      <3>2. CASE u # t
        <4>1. EvidenceHolds(x) /\ ~AtWork(x.pc) /\ (x.pc = "reconciling" => "task" \notin x.valid)
          BY <2>1, <2>2, <3>2 DEF Working, AtWork, Owns
        <4>2. /\ y.pc = x.pc /\ y.graph = x.graph /\ y.seen = x.seen /\ y.retry = x.retry
              /\ y.valid = x.valid \ {"checkpoint"}
          BY <1>1, <3>2 DEF Forgets
        <4>3. WorkerHolds(y)'
          BY <4>1, <4>2 DEF WorkerHolds, AtWork
        <4>4. EvidenceHolds(y)'
          BY <1>0, <2>2, <4>1, <4>2 DEF EvidenceHolds, AtWork
        <4> QED
          BY <4>3, <4>4
      <3> QED
        BY <3>1, <3>2
    <2> QED
      BY <2>3, <2>4
  <1>5. Healthy'
    <2> SUFFICES ASSUME IsHealthy PROVE Healthy'
      BY <1>0 DEF Healthy, IsHealthy
    <2>1. SoleWorker /\ IsCalm
      BY DEF IInv, Calm, IsCalm, IsHealthy
    <2>2. task = "RUNNING" /\ \A u \in Threads \ {t} : ~Working(u)
      BY <2>1 DEF SoleWorker
    <2>3. \A u \in Threads \ {t} :
            thread'[u].pc = thread[u].pc /\ thread'[u].valid \subseteq thread[u].valid
      BY <1>1 DEF Forgets
    <2>4. thread'[t].pc = pc
      BY <1>1, <1>2
    <2> QED
      BY <1>0, <2>2, <2>3, <2>4 DEF IInv, Healthy, IsHealthy, Working, AtWork, Owns, Trouble, InDoubt
  <1> QED
    BY <1>3, <1>4, <1>5 DEF IInv

\* A step of a worker that writes the row of its call.
LEMMA RowStep ==
    ASSUME IInv, NEW t \in Threads, NEW c \in Calls, NEW row \in Row, NEW new \in Request,
           WriteRow(t, c, row, new), UNCHANGED <<task, approval, checkpoint>>,
           history' \in [crashes : Nat, suspicions : Nat, doubted : BOOLEAN],
           IsCalm' => IsCalm, IsHealthy' => IsHealthy,
           Working(t), AtWork(new.pc), new.pc # "created", thread[t].pc \notin {"created", "resuming"},
           ledger[c].status # "SUCCEEDED",
           RequestSound(new)', TellsLedger(new.graph),
           IsCalm => /\ DurableState' /\ WorkerHolds(new)' /\ EvidenceHolds(new)'
                     /\ new.pc # "resuming" => "task" \in new.valid,
           IsHealthy' =>
             /\ new.pc \notin Trouble
             /\ row.status = "FAILED" => new.pc = "failing"
             /\ InDoubt(row) => new.pc = "won"
             /\ \A d \in Calls \ {c} : ~InDoubt(ledger[d])
             /\ thread[t].pc # "failing"
    PROVE  IInv'
  <1>0. TypeOK /\ ledger' = [ledger EXCEPT ![c] = row] /\ fresh' = fresh \cup {c}
    BY DEF IInv, Sound, WriteRow
  <1>1. /\ \A u \in Threads \ {t} : Forgets(u, c)
        /\ thread'[t] = new
        /\ thread' \in [Threads -> Request]
    BY <1>0, NotedForgets DEF WriteRow
  <1>2. /\ \A d \in Calls \ {c} : ledger'[d] = ledger[d]
        /\ ledger'[c] = row /\ ledger' \in [Calls -> Row]
    BY <1>0 DEF TypeOK
  <1>3. ASSUME NEW g \in Graph, TellsLedger(g)
        PROVE  TellsLedger(g)'
    BY <1>2, <1>3 DEF TellsLedger, Graph
  <1>4. Sound'
    <2>1. TypeOK'
      BY <1>0, <1>1, <1>2 DEF TypeOK, Things
    <2>2. (WellFormed(checkpoint) /\ TellsLedger(checkpoint))'
      <3> PICK g : g = checkpoint
        OBVIOUS
      <3>1. g \in Graph /\ TellsLedger(g) /\ WellFormed(g)
        BY <1>0 DEF IInv, Sound, TypeOK
      <3>2. TellsLedger(g)' /\ WellFormed(g)'
        BY <1>3, <3>1 DEF WellFormed
      <3> QED
        BY <3>2
    <2>3. ASSUME NEW u \in Threads
          PROVE  (RequestSound(thread[u]) /\ TellsLedger(thread[u].graph))'
      <3> PICK x : x = thread[u]
        OBVIOUS
      <3> PICK y : y = thread'[u]
        OBVIOUS
      <3>0. y \in Request /\ y.graph \in Graph
        BY <1>1 DEF Request
      <3>1. CASE u = t
        <4>1. RequestSound(y)' /\ TellsLedger(y.graph)'
          BY <1>1, <1>3, <3>0, <3>1
        <4> QED
          BY <4>1
      <3>2. CASE u # t
        <4>1. RequestSound(x) /\ TellsLedger(x.graph)
          BY DEF IInv, Sound
        <4>2. /\ y.pc = x.pc /\ y.graph = x.graph /\ y.seen = x.seen /\ y.valid = x.valid \ {c}
          BY <1>1, <3>2 DEF Forgets
        <4>3. TellsLedger(y.graph)'
          BY <1>3, <3>0, <4>1, <4>2
        <4>4. RequestSound(y)'
          BY <1>2, <4>1, <4>2 DEF RequestSound, WellFormed
        <4> QED
          BY <4>3, <4>4
      <3> QED
        BY <3>1, <3>2
    <2> QED
      BY <2>1, <2>2, <2>3 DEF Sound
  <1>5. Calm'
    <2> SUFFICES ASSUME IsCalm
                 PROVE  (/\ SoleWorker /\ DurableState
                         /\ \A u \in Threads : WorkerHolds(thread[u]) /\ EvidenceHolds(thread[u]))'
      BY DEF Calm, IsCalm
    <2>1. SoleWorker /\ \A u \in Threads : EvidenceHolds(thread[u])
      BY DEF IInv, Calm, IsCalm
    <2>2. /\ Owns(t) /\ task = "RUNNING" /\ "task" \in fresh
          /\ \A u \in Threads \ {t} : ~Working(u) /\ (thread[u].pc = "reconciling" => ~Owns(u))
      BY <2>1 DEF SoleWorker
    <2>3. SoleWorker'
      BY <1>0, <1>1, <2>2 DEF SoleWorker, Working, Owns, AtWork, Forgets
    <2>4. ASSUME NEW u \in Threads
          PROVE  (WorkerHolds(thread[u]) /\ EvidenceHolds(thread[u]))'
      <3> PICK x : x = thread[u]
        OBVIOUS
      <3> PICK y : y = thread'[u]
        OBVIOUS
      <3>1. CASE u = t
        <4>1. WorkerHolds(y)' /\ EvidenceHolds(y)'
          BY <1>1, <3>1
        <4> QED
          BY <4>1
      <3>2. CASE u # t
        <4>1. EvidenceHolds(x) /\ ~AtWork(x.pc) /\ (x.pc = "reconciling" => "task" \notin x.valid)
          BY <2>1, <2>2, <3>2 DEF Working, AtWork, Owns
        <4>2. /\ y.pc = x.pc /\ y.graph = x.graph /\ y.seen = x.seen /\ y.retry = x.retry
              /\ y.valid = x.valid \ {c}
          BY <1>1, <3>2 DEF Forgets
        <4>3. WorkerHolds(y)'
          BY <4>1, <4>2 DEF WorkerHolds, AtWork
        <4>4. EvidenceHolds(y)'
          BY <4>1, <4>2 DEF EvidenceHolds, AtWork
        <4> QED
          BY <4>3, <4>4
      <3> QED
        BY <3>1, <3>2
    <2> QED
      BY <2>3, <2>4
  <1>6. Healthy'
    <2> SUFFICES ASSUME IsHealthy, IsHealthy' PROVE Healthy'
      BY DEF Healthy, IsHealthy
    <2>1. SoleWorker /\ IsCalm
      BY DEF IInv, Calm, IsCalm, IsHealthy
    <2>2. task = "RUNNING" /\ \A u \in Threads \ {t} : ~Working(u)
      BY <2>1 DEF SoleWorker
    <2>3. \A u \in Threads \ {t} :
            thread'[u].pc = thread[u].pc /\ thread'[u].valid \subseteq thread[u].valid
      BY <1>1 DEF Forgets
    <2>4. \A d \in Calls : ledger[d].status # "FAILED"
      BY <2>2 DEF IInv, Healthy, IsHealthy, Working
    <2>5. ASSUME NEW d \in Calls
          PROVE  /\ InDoubt(ledger'[d]) => thread'[t].pc = "won"
                 /\ ledger'[d].status = "FAILED" => thread'[t].pc = "failing"
      BY <1>1, <1>2, <2>4 DEF InDoubt
    <2> QED
      BY <1>0, <1>1, <2>2, <2>3, <2>5 DEF IInv, Healthy, IsHealthy, Working, AtWork, Owns, Trouble, InDoubt
  <1> QED
    BY <1>4, <1>5, <1>6 DEF IInv

-----------------------------------------------------------------------------
(***************************************************************************)
(* What the states of a request are made of                                *)
(***************************************************************************)

\* No evidence.
LEMMA NoGraphSound == NoGraph \in Graph /\ WellFormed(NoGraph) /\ TellsLedger(NoGraph)
  BY DEF NoGraph, Graph, WellFormed, TellsLedger

\* A request that has ended.
LEMMA IdleFits ==
    ASSUME NEW new, new = Idle
    PROVE  /\ new \in Request /\ new.pc = "idle" /\ new.graph = NoGraph
           /\ RequestSound(new) /\ TellsLedger(new.graph) /\ WorkerHolds(new) /\ EvidenceHolds(new)
  <1>1. new.pc = "idle" /\ new.graph = NoGraph
    BY DEF Idle
  <1>2. new \in Request
    BY NoGraphSound DEF Idle, Request, PC, TaskStatus
  <1> QED
    BY <1>1, <1>2, NoGraphSound DEF RequestSound, WorkerHolds, EvidenceHolds

\* A request with nothing in hand but what it may still write.
LEMMA BareFits ==
    ASSUME NEW pc \in PC, NEW valid \in SUBSET Things
    PROVE  LET new == Bare(pc, valid) IN
           /\ new \in Request /\ new.pc = pc /\ new.graph = NoGraph /\ new.valid = valid
  <1> PICK new : new = Bare(pc, valid)
    OBVIOUS
  <1>1. new = [pc |-> pc, valid |-> valid, seen |-> "ABSENT", retry |-> FALSE,
               graph |-> NoGraph, appr |-> NoApproval]
    BY DEF Bare, Idle
  <1> QED
    BY <1>1, NoGraphSound DEF Request, TaskStatus

\* A request that settles.
LEMMA SettlingFits ==
    ASSUME NEW x \in Request, NEW pc \in PC
    PROVE  LET new == Settling(x, pc) IN
           /\ new \in Request /\ new.pc = pc /\ new.graph = NoGraph
           /\ new.valid = x.valid \cap {"task"}
  <1>1. x.valid \cap {"task"} \in SUBSET Things
    BY DEF Things
  <1> QED
    BY <1>1, BareFits DEF Settling

\* A request that resumes an Approval.
LEMMA ResumingFits ==
    ASSUME NEW p \in Approvals \cup {NoApproval}
    PROVE  LET new == Resuming(p) IN
           /\ new \in Request /\ new.pc = "resuming" /\ new.graph = NoGraph
           /\ new.valid = {} /\ new.appr = p
  <1> PICK new : new = Resuming(p)
    OBVIOUS
  <1>1. new = [pc |-> "resuming", valid |-> {}, seen |-> "ABSENT", retry |-> FALSE,
               graph |-> NoGraph, appr |-> p]
    BY DEF Resuming, Idle
  <1> QED
    BY <1>1, NoGraphSound DEF Request, PC, TaskStatus

\* The parts of Calm.
LEMMA CalmParts ==
    ASSUME IInv, IsCalm
    PROVE  /\ SoleWorker /\ DurableState
           /\ \A t \in Threads : WorkerHolds(thread[t]) /\ EvidenceHolds(thread[t])
  BY DEF IInv, Calm, IsCalm

\* The worker of a calm Task.
LEMMA WorkerAlone ==
    ASSUME IInv, IsCalm, NEW t \in Threads, Working(t), thread[t].pc # "created"
    PROVE  /\ task = "RUNNING" /\ "task" \in fresh
           /\ thread[t].pc # "resuming" => "task" \in thread[t].valid
           /\ \A u \in Threads \ {t} : ~Working(u) /\ (thread[u].pc = "reconciling" => ~Owns(u))
           /\ \A p \in Approvals : approval[p].status # "PENDING"
  BY CalmParts DEF SoleWorker, Owns, DurableState

LEMMA HistoryUnchanged ==
    ASSUME IInv, UNCHANGED history
    PROVE  /\ history' \in [crashes : Nat, suspicions : Nat, doubted : BOOLEAN]
           /\ (IsCalm' <=> IsCalm) /\ (IsHealthy' <=> IsHealthy)
  BY DEF IInv, Sound, TypeOK, IsCalm, IsHealthy

-----------------------------------------------------------------------------
(***************************************************************************)
(* Steps that move a request and write nothing                             *)
(***************************************************************************)

\* A request gives up without a write.
LEMMA EndStep ==
    ASSUME IInv, NEW t \in Threads, End(t), Unwritten, IsHealthy => ~Working(t)
    PROVE  IInv'
  <1> PICK new : new = Idle
    OBVIOUS
  <1>1. /\ new \in Request /\ new.pc = "idle"
        /\ RequestSound(new) /\ TellsLedger(new.graph) /\ WorkerHolds(new) /\ EvidenceHolds(new)
    BY IdleFits
  <1>2. thread' = [thread EXCEPT ![t] = new] /\ UNCHANGED <<task, approval, checkpoint, ledger, fresh>>
    BY DEF End, Unwritten
  <1>3. IsHealthy => thread[t].pc \notin {"won", "failing"}
    BY DEF Working
  <1>4. ~AtWork(new.pc) /\ new.pc # "reconciling" /\ new.pc \notin Trouble
    BY <1>1 DEF AtWork, Trouble
  <1> QED
    BY <1>1, <1>2, <1>3, <1>4, HistoryUnchanged, LocalStep DEF Unwritten

\* A worker is about to settle.
LEMMA SettleStep ==
    ASSUME IInv, NEW t \in Threads, NEW pc \in {"failing", "reviewing"}, Settle(t, pc), Unwritten,
           Working(t), thread[t].pc \notin {"created", "resuming"},
           IsCalm /\ pc = "failing" => \A c \in Calls : ~InDoubt(ledger[c]),
           IsHealthy => pc = "failing" /\ thread[t].pc \notin {"won", "failing"}
    PROVE  IInv'
  <1>0. TypeOK /\ thread[t] \in Request /\ pc \in PC
    BY DEF IInv, Sound, TypeOK, PC
  <1> PICK new : new = Settling(thread[t], pc)
    OBVIOUS
  <1>1. /\ new \in Request /\ new.pc = pc /\ new.graph = NoGraph
        /\ new.valid = thread[t].valid \cap {"task"}
    BY <1>0, SettlingFits
  <1>2. thread' = [thread EXCEPT ![t] = new] /\ UNCHANGED <<task, approval, checkpoint, ledger, fresh>>
    BY DEF Settle, Unwritten
  <1>3. RequestSound(new) /\ TellsLedger(new.graph)
    BY <1>1, NoGraphSound DEF RequestSound
  <1>4. IsCalm => WorkerHolds(new) /\ EvidenceHolds(new) /\ "task" \in new.valid
    <2> SUFFICES ASSUME IsCalm PROVE WorkerHolds(new) /\ EvidenceHolds(new) /\ "task" \in new.valid
      OBVIOUS
    <2>1. "task" \in new.valid
      BY <1>1, WorkerAlone
    <2> QED
      BY <1>1, <2>1 DEF WorkerHolds, EvidenceHolds
  <1>5. AtWork(new.pc) /\ new.pc \notin {"created", "resuming", "reconciling"}
    BY <1>1 DEF AtWork
  <1>6. IsHealthy => new.pc \notin Trouble
    BY <1>1 DEF Trouble
  <1> QED
    BY <1>1, <1>2, <1>3, <1>4, <1>5, <1>6, HistoryUnchanged, LocalStep DEF Unwritten

LEMMA RaiseInv ==
    ASSUME IInv, NEW t \in Threads, Raise(t)
    PROVE  IInv'
  <1>1. CASE thread[t].pc = "recovering"
    <2>1. Settle(t, "reviewing") /\ Unwritten
      BY <1>1 DEF Raise
    <2>2. ~IsHealthy
      BY <1>1 DEF IInv, Healthy, IsHealthy
    <2>3. Working(t)
      BY <1>1 DEF Working
    <2> QED
      BY <1>1, <2>1, <2>2, <2>3, SettleStep
  <1>2. CASE thread[t].pc # "recovering"
    <2>1. /\ thread[t].pc \in {"begin", "node", "answered", "pausing", "resume", "approved", "retool"}
          /\ Settle(t, "failing") /\ Unwritten
      BY <1>2 DEF Raise
    <2>2. IsCalm => \A c \in Calls : ~InDoubt(ledger[c])
      <3> SUFFICES ASSUME IsCalm, NEW c \in Calls, InDoubt(ledger[c]) PROVE FALSE
        OBVIOUS
      <3>1. WorkerHolds(thread[t]) /\ EvidenceHolds(thread[t]) /\ DurableState
        BY CalmParts
      <3>2. checkpoint.next = "tool" /\ checkpoint.call = c
        BY <3>1 DEF DurableState
      <3>3. thread[t].pc \in {"answered", "retool"} /\ thread[t].graph = checkpoint
        BY <2>1, <3>1, <3>2 DEF WorkerHolds, EvidenceHolds, NoGraph
      <3>4. thread[t].pc = "answered" => ledger[c].status = "SUCCEEDED"
        BY <3>2, <3>3 DEF IInv, Sound, RequestSound
      <3> QED
        BY <3>1, <3>2, <3>3, <3>4 DEF EvidenceHolds, InDoubt
    <2>3. IsHealthy => thread[t].pc # "retool"
      BY DEF IInv, Healthy, IsHealthy
    <2>4. Working(t)
      BY <2>1 DEF Working
    <2> QED
      BY <2>1, <2>2, <2>3, <2>4, SettleStep
  <1> QED
    BY <1>1, <1>2

LEMMA ResumeInv ==
    ASSUME IInv, NEW t \in Threads, Resume(t)
    PROVE  IInv'
  <1>0. TypeOK /\ thread[t] \in Request /\ thread[t].pc = "resuming" /\ Working(t)
    BY DEF IInv, Sound, TypeOK, Resume, Working
  <1>1. CASE task = "RUNNING"
    <2> PICK x : x = thread[t]
      OBVIOUS
    <2> PICK new : new = [x EXCEPT !.pc = "resume", !.valid = {"task"}]
      OBVIOUS
    <2>1. /\ new \in Request /\ new.pc = "resume" /\ new.valid = {"task"}
          /\ new.graph = x.graph /\ new.appr = x.appr
      BY <1>0 DEF Request, PC, Things
    <2>2. thread' = [thread EXCEPT ![t] = new]
      BY <1>0, <1>1 DEF Resume, TypeOK
    <2>3. RequestSound(new) /\ TellsLedger(new.graph)
      BY <1>0, <2>1 DEF IInv, Sound, RequestSound
    <2>4. IsCalm => WorkerHolds(new) /\ EvidenceHolds(new)
      BY <1>0, <2>1, CalmParts DEF WorkerHolds, EvidenceHolds
    <2>5. AtWork(new.pc) /\ new.pc \notin Trouble \cup {"reconciling", "created"}
      BY <2>1 DEF AtWork, Trouble
    <2> QED
      BY <1>0, <2>1, <2>2, <2>3, <2>4, <2>5, HistoryUnchanged, LocalStep DEF Resume, Unwritten
  <1>2. CASE task # "RUNNING"
    <2>1. ~IsHealthy
      BY <1>0, <1>2, WorkerAlone DEF IsCalm, IsHealthy
    <2> QED
      BY <1>2, <2>1, EndStep DEF Resume
  <1> QED
    BY <1>1, <1>2

LEMMA LoadPausedInv ==
    ASSUME IInv, NEW t \in Threads, LoadPaused(t)
    PROVE  IInv'
  <1>0. TypeOK /\ thread[t] \in Request /\ thread[t].pc = "resume" /\ Working(t)
    BY DEF IInv, Sound, TypeOK, LoadPaused, Working
  <1> DEFINE Paused == /\ checkpoint.next = "approval_pause"
                       /\ checkpoint.pending = thread[t].appr
                       /\ approval[thread[t].appr].status = "APPROVED"
  <1>1. CASE Paused
    <2> PICK x : x = thread[t]
      OBVIOUS
    <2> PICK g : g = checkpoint
      OBVIOUS
    <2> PICK new : new = [x EXCEPT !.pc = "approved", !.graph = g]
      OBVIOUS
    <2>1. g \in Graph /\ WellFormed(g) /\ TellsLedger(g)
      BY <1>0 DEF IInv, Sound, TypeOK
    <2>2. /\ new \in Request /\ new.pc = "approved" /\ new.valid = x.valid
          /\ new.graph = g /\ new.appr = x.appr
      BY <1>0, <2>1 DEF Request, PC
    <2>3. thread' = [thread EXCEPT ![t] = new]
      BY <1>0, <1>1 DEF LoadPaused, TypeOK
    <2>4. RequestSound(new) /\ TellsLedger(new.graph)
      BY <1>1, <2>1, <2>2 DEF RequestSound, WellFormed
    <2>5. IsCalm => WorkerHolds(new) /\ EvidenceHolds(new) /\ "task" \in new.valid
      BY <1>0, <1>1, <2>2, WorkerAlone DEF WorkerHolds, EvidenceHolds
    <2>6. AtWork(new.pc) /\ new.pc \notin Trouble \cup {"reconciling", "created"}
      BY <2>2 DEF AtWork, Trouble
    <2> QED
      BY <1>0, <2>2, <2>3, <2>4, <2>5, <2>6, HistoryUnchanged, LocalStep DEF LoadPaused, Unwritten
  <1>2. CASE ~Paused
    <2>1. ~IsCalm
      BY <1>0, <1>2, CalmParts DEF WorkerHolds
    <2> QED
      BY <1>0, <1>2, <2>1, SettleStep DEF LoadPaused, IsCalm, IsHealthy
  <1> QED
    BY <1>1, <1>2

\* A request that has read the Task it may recover.
LEMMA AssessingFits ==
    ASSUME NEW status \in TaskStatus
    PROVE  LET new == Assessing(status) IN
           /\ new \in Request /\ new.pc = "assessing" /\ new.valid = {"task"}
           /\ new.seen = status /\ new.graph = NoGraph
  <1> PICK new : new = Assessing(status)
    OBVIOUS
  <1>1. new = [pc |-> "assessing", valid |-> {"task"}, seen |-> status, retry |-> FALSE,
               graph |-> NoGraph, appr |-> NoApproval]
    BY DEF Assessing, Idle
  <1>2. "assessing" \in PC /\ {"task"} \in SUBSET Things
    BY DEF PC, Things
  <1> QED
    BY <1>1, <1>2, NoGraphSound DEF Request

LEMMA ReadForRecoveryInv ==
    ASSUME IInv, NEW t \in Threads, ReadForRecovery(t)
    PROVE  IInv'
  <1>0. /\ TypeOK /\ ~Working(t) /\ thread[t].pc = "idle"
        /\ task \in {"RUNNING", "WAITING_APPROVAL", "RECOVERY_REQUIRED"}
    BY DEF IInv, Sound, ReadForRecovery, Working
  <1> PICK seen : seen = task
    OBVIOUS
  <1> PICK new : new = Assessing(seen)
    OBVIOUS
  <1>1. /\ new \in Request /\ new.pc = "assessing" /\ new.valid = {"task"}
        /\ new.seen = seen /\ new.graph = NoGraph
    <2>1. seen \in TaskStatus
      BY <1>0 DEF TaskStatus
    <2> QED
      BY <2>1, AssessingFits
  <1>2. thread' = [thread EXCEPT ![t] = new]
    BY DEF ReadForRecovery
  <1>3. RequestSound(new) /\ TellsLedger(new.graph) /\ WorkerHolds(new)
    BY <1>1, NoGraphSound DEF RequestSound, WorkerHolds
  <1>4. EvidenceHolds(new)
    BY <1>0, <1>1 DEF EvidenceHolds
  <1>5. ~AtWork(new.pc) /\ new.pc \notin Trouble \cup {"reconciling", "created"}
    BY <1>1 DEF AtWork, Trouble
  <1> QED
    BY <1>0, <1>1, <1>2, <1>3, <1>4, <1>5, HistoryUnchanged, LocalStep DEF ReadForRecovery, Unwritten

LEMMA ReadCheckpointInv ==
    ASSUME IInv, NEW t \in Threads, ReadCheckpoint(t)
    PROVE  IInv'
  <1>0. TypeOK /\ ~Working(t) /\ thread[t] \in Request /\ thread[t].pc = "assessing"
    BY DEF IInv, Sound, TypeOK, ReadCheckpoint, Working
  <1> PICK x : x = thread[t]
    OBVIOUS
  <1> PICK g : g = checkpoint
    OBVIOUS
  <1> PICK new : new = [x EXCEPT !.pc = "weighing", !.graph = g, !.valid = x.valid \cup {"checkpoint"}]
    OBVIOUS
  <1>1. g \in Graph /\ WellFormed(g) /\ TellsLedger(g)
    BY <1>0 DEF IInv, Sound, TypeOK
  <1>2. /\ new \in Request /\ new.pc = "weighing" /\ new.valid = x.valid \cup {"checkpoint"}
        /\ new.graph = g /\ new.seen = x.seen
    BY <1>0, <1>1 DEF Request, PC, Things
  <1>3. thread' = [thread EXCEPT ![t] = new]
    BY <1>0 DEF ReadCheckpoint, TypeOK
  <1>4. RequestSound(new) /\ TellsLedger(new.graph) /\ WorkerHolds(new)
    BY <1>1, <1>2 DEF RequestSound, WorkerHolds
  <1>5. IsCalm => EvidenceHolds(new)
    BY <1>0, <1>2, CalmParts DEF EvidenceHolds
  <1>6. ~AtWork(new.pc) /\ new.pc \notin Trouble \cup {"reconciling", "created"}
    BY <1>2 DEF AtWork, Trouble
  <1> QED
    BY <1>0, <1>2, <1>3, <1>4, <1>5, <1>6, HistoryUnchanged, LocalStep DEF ReadCheckpoint, Unwritten

\* What the verdicts rest on.
LEMMA VerdictRests ==
    ASSUME NEW t, NEW seen, NEW g, NEW said,
           seen = thread[t].seen, g = thread[t].graph, said = approval[g.pending].status
    PROVE  /\ Verdict(t) \in {"none", "RECOVERY_REQUIRED", "SUCCEEDED", "RUNNING"}
           /\ seen = "RUNNING" /\ RecentTask(t) => Verdict(t) = "none"
           /\ Verdict(t) = "SUCCEEDED" => g.next = "end" /\ seen = "RUNNING"
           /\ g.next = "none" => Verdict(t) \in {"none", "RECOVERY_REQUIRED"}
           /\ Verdict(t) = "RUNNING" =>
                g.pending # NoApproval /\ said = "APPROVED" /\ seen # "WAITING_APPROVAL"
           /\ seen = "WAITING_APPROVAL" /\ g.next = "approval_pause" /\ g.pending # NoApproval
                /\ said = "PENDING" => Verdict(t) = "none"
  <1> PICK young : young = RecentTask(t)
    OBVIOUS
  <1> PICK busy : busy = RecentRows
    OBVIOUS
  <1> PICK may : may = MayGoOn(g.call, g.pending)
    OBVIOUS
  <1>1. Verdict(t) =
          IF seen = "RUNNING" /\ young THEN "none"
          ELSE IF g.next = "none" THEN "RECOVERY_REQUIRED"
          ELSE IF g.next = "end" THEN
              IF busy THEN "none" ELSE IF seen = "RUNNING" THEN "SUCCEEDED" ELSE "RECOVERY_REQUIRED"
          ELSE IF g.pending = NoApproval THEN "RECOVERY_REQUIRED"
          ELSE IF seen = "WAITING_APPROVAL" /\ said = "PENDING" /\ g.next = "approval_pause" THEN "none"
          ELSE IF said # "APPROVED" \/ seen = "WAITING_APPROVAL" THEN "RECOVERY_REQUIRED"
          ELSE IF young \/ busy THEN "none"
          ELSE IF may THEN "RUNNING" ELSE "RECOVERY_REQUIRED"
    BY DEF Verdict
  <1> QED
    BY <1>1

LEMMA WeighInv ==
    ASSUME IInv, NEW t \in Threads, Weigh(t)
    PROVE  IInv'
  <1>0. TypeOK /\ ~Working(t) /\ thread[t] \in Request /\ thread[t].pc = "weighing"
    BY DEF IInv, Sound, TypeOK, Weigh, Working
  <1> PICK x : x = thread[t]
    OBVIOUS
  <1> PICK verdict : verdict = Verdict(t)
    OBVIOUS
  <1> PICK retry : retry = (verdict = "RUNNING" /\ InDoubt(ledger[x.graph.call]))
    OBVIOUS
  <1>1. CASE verdict = "none" \/ (verdict = thread[t].seen /\ verdict = "RECOVERY_REQUIRED")
    BY <1>0, <1>1, EndStep DEF Weigh
  <1>2. CASE ~(verdict = "none" \/ (verdict = thread[t].seen /\ verdict = "RECOVERY_REQUIRED"))
    <2> PICK new : new = [x EXCEPT !.pc = "reconciling", !.seen = verdict,
                                   !.valid = x.valid \cup Calls, !.retry = retry]
      OBVIOUS
    <2>1. thread' = [thread EXCEPT ![t] = new]
      BY <1>0, <1>2 DEF Weigh, TypeOK
    <2>2. /\ verdict \in {"RECOVERY_REQUIRED", "SUCCEEDED", "RUNNING"}
          /\ verdict = "SUCCEEDED" => x.graph.next = "end"
          /\ verdict = "RUNNING" =>
               /\ x.graph.pending # NoApproval /\ approval[x.graph.pending].status = "APPROVED"
               /\ x.seen # "WAITING_APPROVAL"
          /\ ~(x.seen = "RUNNING" /\ RecentTask(t))
          /\ ~(x.seen = "WAITING_APPROVAL" /\ x.graph.next = "approval_pause"
               /\ x.graph.pending # NoApproval /\ approval[x.graph.pending].status = "PENDING")
      <3> PICK said : said = approval[x.graph.pending].status
        OBVIOUS
      <3> QED
        BY <1>2, VerdictRests
    <2>3. /\ new \in Request /\ new.pc = "reconciling" /\ new.valid = x.valid \cup Calls
          /\ new.graph = x.graph /\ new.seen = verdict /\ new.retry = retry
      BY <1>0, <2>2 DEF Request, PC, Things, TaskStatus
    <2>4. WellFormed(x.graph) /\ TellsLedger(x.graph)
      BY DEF IInv, Sound, RequestSound
    <2>5. verdict = "RUNNING" => x.graph.next \in {"tool", "approval_pause"} /\ x.graph.call \in Calls
      BY <2>2, <2>4 DEF WellFormed
    <2>6. RequestSound(new) /\ TellsLedger(new.graph) /\ WorkerHolds(new)
      BY <2>2, <2>3, <2>4, <2>5 DEF RequestSound, WorkerHolds
    <2>7. "task" \in new.valid <=> Owns(t)
      BY <2>3, Constants DEF Owns
    <2>8. "checkpoint" \in new.valid <=> "checkpoint" \in x.valid
      BY <2>3, Constants
    <2>9. IsCalm => EvidenceHolds(new)
      <3> SUFFICES ASSUME IsCalm PROVE EvidenceHolds(new)
        OBVIOUS
      <3>1. EvidenceHolds(x) /\ DurableState
        BY CalmParts
      <3>2. ASSUME verdict = "RUNNING", Owns(t), NEW p \in Approvals, approval[p].status = "PENDING"
            PROVE  FALSE
        <4>1. checkpoint.pending = p /\ task \in {"WAITING_APPROVAL", "RECOVERY_REQUIRED"}
          BY <3>1, <3>2 DEF DurableState
        <4>2. x.graph = checkpoint
          BY <1>0, <3>1, <3>2, <4>1 DEF EvidenceHolds, Owns
        <4> QED
          BY <2>2, <3>2, <4>1, <4>2
      <3>3. verdict = "RUNNING" => new.retry = InDoubt(ledger[new.graph.call])
        BY <2>3 DEF InDoubt
      <3>4. /\ "checkpoint" \in new.valid => new.graph = checkpoint
            /\ new.graph.next = "end" => checkpoint.next = "end"
        BY <1>0, <2>3, <2>8, <3>1 DEF EvidenceHolds
      <3> QED
        BY <2>2, <2>3, <2>5, <2>7, <3>2, <3>3, <3>4 DEF EvidenceHolds
    <2>10. IsCalm /\ Owns(t) => \A u \in Threads \ {t} : ~Working(u)
      <3> SUFFICES ASSUME IsCalm, Owns(t), NEW u \in Threads \ {t}, Working(u) PROVE FALSE
        OBVIOUS
      <3>1. "task" \in fresh /\ task \in {"PENDING", "RUNNING"}
        BY CalmParts DEF SoleWorker
      <3>2. x.seen = "RUNNING"
        BY <1>0, <3>1, CalmParts DEF EvidenceHolds, Owns
      <3> QED
        BY <2>2, <3>1, <3>2 DEF RecentTask
    <2>11. IsHealthy => ~Owns(t)
      <3> SUFFICES ASSUME IsHealthy, Owns(t) PROVE FALSE
        OBVIOUS
      <3>1. IsCalm
        BY DEF IsHealthy, IsCalm
      <3>2. EvidenceHolds(x) /\ DurableState
        BY <3>1, CalmParts
      <3>3. x.seen = task /\ task \in {"RUNNING", "WAITING_APPROVAL", "RECOVERY_REQUIRED"}
        BY <1>0, <3>2 DEF EvidenceHolds, Owns
      <3>4. task = "WAITING_APPROVAL"
        BY <1>0, <2>10, <3>1, <3>3 DEF IInv, Healthy, IsHealthy
      <3>5. /\ x.graph = checkpoint /\ checkpoint.next = "approval_pause"
            /\ approval[checkpoint.pending].status = "PENDING"
        BY <1>0, <3>2, <3>4 DEF IInv, Healthy, IsHealthy, EvidenceHolds, Owns
      <3>6. checkpoint.pending # NoApproval
        BY <3>2, <3>5 DEF DurableState, QuestionOf
      <3> QED
        BY <2>2, <3>3, <3>4, <3>5, <3>6
    <2>12. ~AtWork(new.pc) /\ new.pc \notin Trouble
      BY <2>3 DEF AtWork, Trouble
    <2> QED
      BY <1>0, <2>1, <2>3, <2>6, <2>7, <2>9, <2>10, <2>11, <2>12, HistoryUnchanged, LocalStep
      DEF Weigh, Unwritten
  <1> QED
    BY <1>1, <1>2

\* A request in trouble shows that something has gone wrong.
LEMMA TroubleShows ==
    ASSUME IInv, NEW t \in Threads, thread[t].pc \in Trouble
    PROVE  ~IsHealthy /\ Working(t)
  BY DEF IInv, Healthy, IsHealthy, Trouble, Working

\* A recovery that goes on.
LEMMA DispatchedFits ==
    ASSUME NEW x \in Request
    PROVE  LET new == Dispatched(x) IN
           /\ new \in Request
           /\ x.graph.next = "approval_pause" =>
                /\ new.pc = "resuming" /\ new.appr = x.graph.pending /\ new.graph = NoGraph
                /\ new.valid = {}
           /\ x.graph.next # "approval_pause" =>
                /\ new.pc = "retool" /\ new.graph = x.graph /\ new.seen = x.seen
                /\ new.valid = x.valid \cap {"task", "checkpoint"}
  <1> PICK new : new = Dispatched(x)
    OBVIOUS
  <1> PICK g : g = x.graph
    OBVIOUS
  <1>0. g \in Graph /\ g.pending \in Approvals \cup {NoApproval}
    BY DEF Request, Graph
  <1>1. CASE g.next = "approval_pause"
    <2>1. new = Resuming(g.pending)
      BY <1>1 DEF Dispatched
    <2> QED
      BY <1>0, <1>1, <2>1, ResumingFits
  <1>2. CASE g.next # "approval_pause"
    <2> PICK valid : valid = x.valid \cap {"task", "checkpoint"}
      OBVIOUS
    <2>1. new = [x EXCEPT !.pc = "retool", !.valid = valid, !.retry = FALSE]
      BY <1>2 DEF Dispatched
    <2>2. valid \in SUBSET Things /\ "retool" \in PC
      BY DEF Things, PC
    <2>3. new \in Request /\ new.pc = "retool" /\ new.graph = g /\ new.seen = x.seen /\ new.valid = valid
      BY <2>1, <2>2 DEF Request
    <2> QED
      BY <1>2, <2>3
  <1> QED
    BY <1>1, <1>2

\* What a recovery that goes on may rely on.
LEMMA DispatchedHolds ==
    ASSUME IInv, NEW t \in Threads, thread[t].pc \in {"claimed", "recovering", "rewon"},
           NEW new, new = Dispatched(thread[t])
    PROVE  /\ RequestSound(new) /\ TellsLedger(new.graph)
           /\ AtWork(new.pc) /\ new.pc \in {"resuming", "retool"}
           /\ IsCalm => (new.pc # "resuming" => "task" \in new.valid)
  <1>0. thread[t] \in Request /\ Working(t)
    BY DEF IInv, Sound, TypeOK, Working
  <1> PICK x : x = thread[t]
    OBVIOUS
  <1>1. \/ new.pc = "resuming" /\ new.graph = NoGraph
        \/ new.pc = "retool" /\ new.graph = x.graph
    <2>1. CASE x.graph.next = "approval_pause"
      BY <1>0, <2>1, DispatchedFits
    <2>2. CASE x.graph.next # "approval_pause"
      BY <1>0, <2>2, DispatchedFits
    <2> QED
      BY <2>1, <2>2
  <1>2. WellFormed(x.graph) /\ TellsLedger(x.graph) /\ x.graph.call \in Calls
    BY DEF IInv, Sound, RequestSound
  <1>3. RequestSound(new) /\ TellsLedger(new.graph)
    BY <1>1, <1>2, NoGraphSound DEF RequestSound
  <1>4. ASSUME IsCalm, new.pc # "resuming" PROVE "task" \in new.valid
    <2>1. "task" \in x.valid
      BY <1>0, <1>4, WorkerAlone
    <2>2. new.valid = x.valid \cap {"task", "checkpoint"}
      BY <1>0, <1>4, DispatchedFits
    <2> QED
      BY <2>1, <2>2
  <1> QED
    BY <1>1, <1>3, <1>4 DEF AtWork

\* A recovery goes on without a write.
LEMMA DispatchStep ==
    ASSUME IInv, NEW t \in Threads, thread[t].pc \in {"claimed", "recovering"},
           thread' = [thread EXCEPT ![t] = Dispatched(thread[t])], Unwritten,
           IsCalm => "checkpoint" \in thread[t].valid /\ ~InDoubt(ledger[thread[t].graph.call])
    PROVE  IInv'
  <1>0. TypeOK /\ thread[t] \in Request /\ Working(t) /\ ~IsHealthy
    BY TroubleShows DEF IInv, Sound, TypeOK, Working, Trouble
  <1> PICK x : x = thread[t]
    OBVIOUS
  <1> PICK new : new = Dispatched(x)
    OBVIOUS
  <1>1. /\ new \in Request /\ RequestSound(new) /\ TellsLedger(new.graph)
        /\ AtWork(new.pc) /\ new.pc \in {"resuming", "retool"}
        /\ IsCalm => (new.pc # "resuming" => "task" \in new.valid)
    BY <1>0, DispatchedFits, DispatchedHolds
  <1>2. ASSUME IsCalm PROVE WorkerHolds(new) /\ EvidenceHolds(new)
    <2>1. EvidenceHolds(x) /\ "checkpoint" \in x.valid
      BY <1>2, CalmParts
    <2>2. /\ x.graph = checkpoint /\ x.graph.pending # NoApproval
          /\ x.graph.next \in {"approval_pause", "tool"}
          /\ approval[x.graph.pending].status = "APPROVED"
          /\ \A p \in Approvals : approval[p].status # "PENDING"
          /\ ~InDoubt(ledger[x.graph.call])
      BY <1>2, <2>1 DEF EvidenceHolds
    <2>3. CASE x.graph.next = "approval_pause"
      <3>1. new.pc = "resuming" /\ new.appr = x.graph.pending
        BY <1>0, <2>3, DispatchedFits
      <3> QED
        BY <2>2, <2>3, <3>1 DEF WorkerHolds, EvidenceHolds
    <2>4. CASE x.graph.next # "approval_pause"
      <3>1. /\ new.pc = "retool" /\ new.graph = x.graph
            /\ new.valid = x.valid \cap {"task", "checkpoint"}
        BY <1>0, <2>4, DispatchedFits
      <3>2. "checkpoint" \in new.valid
        BY <2>1, <3>1
      <3> QED
        BY <2>2, <2>4, <3>1, <3>2 DEF WorkerHolds, EvidenceHolds
    <2> QED
      BY <2>3, <2>4
  <1> QED
    BY <1>0, <1>1, <1>2, HistoryUnchanged, LocalStep DEF Unwritten

LEMMA RecheckInv ==
    ASSUME IInv, NEW t \in Threads, Recheck(t)
    PROVE  IInv'
  <1>0. TypeOK /\ thread[t] \in Request /\ thread[t].pc = "claimed" /\ Working(t) /\ ~IsHealthy
    BY TroubleShows DEF IInv, Sound, TypeOK, Recheck, Working, Trouble
  <1> PICK x : x = thread[t]
    OBVIOUS
  <1>1. CASE "checkpoint" \notin x.valid
    BY <1>0, <1>1, EndStep DEF Recheck
  <1>2. CASE "checkpoint" \in x.valid /\ x.retry
    <2> PICK new : new = [x EXCEPT !.pc = "recovering"]
      OBVIOUS
    <2>1. /\ new \in Request /\ new.pc = "recovering" /\ new.graph = x.graph
          /\ new.valid = x.valid /\ new.seen = x.seen
      BY <1>0 DEF Request, PC
    <2>2. thread' = [thread EXCEPT ![t] = new]
      BY <1>2 DEF Recheck
    <2>3. RequestSound(new) /\ TellsLedger(new.graph)
      BY <1>0, <2>1 DEF IInv, Sound, RequestSound
    <2>4. IsCalm => WorkerHolds(new) /\ EvidenceHolds(new) /\ "task" \in new.valid
      BY <1>0, <1>2, <2>1, CalmParts, WorkerAlone DEF WorkerHolds, EvidenceHolds
    <2>5. AtWork(new.pc) /\ new.pc \notin {"created", "reconciling"}
      BY <2>1 DEF AtWork
    <2> QED
      BY <1>0, <2>1, <2>2, <2>3, <2>4, <2>5, HistoryUnchanged, LocalStep DEF Recheck, Unwritten
  <1>3. CASE "checkpoint" \in x.valid /\ ~x.retry
    <2>1. IsCalm => ~InDoubt(ledger[x.graph.call])
      BY <1>0, <1>3, CalmParts DEF EvidenceHolds
    <2>2. thread' = [thread EXCEPT ![t] = Dispatched(x)] /\ Unwritten
      BY <1>3 DEF Recheck
    <2> QED
      BY <1>0, <1>3, <2>1, <2>2, DispatchStep
  <1> QED
    BY <1>1, <1>2, <1>3

LEMMA ReloadToolInv ==
    ASSUME IInv, NEW t \in Threads, ReloadTool(t)
    PROVE  IInv'
  <1>0. TypeOK /\ thread[t] \in Request /\ thread[t].pc = "retool" /\ Working(t) /\ ~IsHealthy
    BY TroubleShows DEF IInv, Sound, TypeOK, ReloadTool, Working, Trouble
  <1> PICK x : x = thread[t]
    OBVIOUS
  <1>1. CASE "checkpoint" \in x.valid
    <2> PICK valid : valid = x.valid \cap {"task"}
      OBVIOUS
    <2> PICK new : new = [x EXCEPT !.pc = "node", !.valid = valid]
      OBVIOUS
    <2>0. valid \in SUBSET Things /\ "node" \in PC
      BY DEF Things, PC
    <2>1. new \in Request /\ new.pc = "node" /\ new.graph = x.graph /\ new.valid = valid
      BY <1>0, <2>0 DEF Request
    <2>2. thread' = [thread EXCEPT ![t] = new]
      BY <1>0, <1>1 DEF ReloadTool, TypeOK
    <2>3. RequestSound(new) /\ TellsLedger(new.graph)
      BY <1>0, <2>1 DEF IInv, Sound, RequestSound
    <2>4. ASSUME IsCalm PROVE WorkerHolds(new) /\ EvidenceHolds(new) /\ "task" \in new.valid
      <3>1. x.graph = checkpoint
        BY <1>0, <1>1, <2>4, CalmParts DEF EvidenceHolds
      <3>2. "task" \in x.valid
        BY <1>0, <2>4, WorkerAlone
      <3>3. \A c \in Calls : ~InDoubt(ledger[c])
        BY <1>0, <2>4, <3>1, CalmParts DEF DurableState, EvidenceHolds
      <3> QED
        BY <2>1, <3>1, <3>2, <3>3 DEF WorkerHolds, EvidenceHolds
    <2>5. AtWork(new.pc) /\ new.pc \notin {"created", "reconciling"}
      BY <2>1 DEF AtWork
    <2> QED
      BY <1>0, <2>1, <2>2, <2>3, <2>4, <2>5, HistoryUnchanged, LocalStep DEF ReloadTool, Unwritten
  <1>2. CASE "checkpoint" \notin x.valid
    <2>1. ~IsCalm
      BY <1>0, <1>2, CalmParts DEF WorkerHolds
    <2>2. Settle(t, "failing") /\ Unwritten
      BY <1>2 DEF ReloadTool
    <2> QED
      BY <1>0, <2>1, <2>2, SettleStep
  <1> QED
    BY <1>1, <1>2

LEMMA CrashInv ==
    ASSUME IInv, NEW t \in Threads, Crash(t)
    PROVE  IInv'
  <1> PICK new : new = Idle
    OBVIOUS
  <1>1. /\ new \in Request /\ new.pc = "idle"
        /\ RequestSound(new) /\ TellsLedger(new.graph) /\ WorkerHolds(new) /\ EvidenceHolds(new)
    BY IdleFits
  <1>2. thread' = [thread EXCEPT ![t] = new] /\ UNCHANGED <<task, approval, checkpoint, ledger, fresh>>
    BY DEF End, Crash
  <1>3. history \in [crashes : Nat, suspicions : Nat, doubted : BOOLEAN]
    BY DEF IInv, Sound, TypeOK
  <1>4. /\ history' \in [crashes : Nat, suspicions : Nat, doubted : BOOLEAN]
        /\ history'.crashes # 0 /\ history'.suspicions = history.suspicions
    BY <1>3 DEF Crash
  <1>5. (IsCalm' => IsCalm) /\ ~IsHealthy'
    BY <1>4 DEF IsCalm, IsHealthy
  <1>6. ~AtWork(new.pc) /\ new.pc # "reconciling"
    BY <1>1 DEF AtWork
  <1> QED
    BY <1>1, <1>2, <1>4, <1>5, <1>6, LocalStep

-----------------------------------------------------------------------------
(***************************************************************************)
(* Steps that write a row of the ledger                                    *)
(***************************************************************************)

\* The row of the Tool the checkpoint stands at is written.
LEMMA RowKeepsDurable ==
    ASSUME IInv, IsCalm, task = "RUNNING", NEW c \in Calls, NEW row \in Row,
           ledger' = [ledger EXCEPT ![c] = row], UNCHANGED <<task, approval, checkpoint>>,
           ledger[c].status # "SUCCEEDED", checkpoint.call = c, checkpoint.next = "tool",
           checkpoint.pending # NoApproval, row.appr = checkpoint.pending
    PROVE  DurableState' /\ \A d \in Calls \ {c} : ~InDoubt(ledger[d])
  <1>1. /\ \A d \in Calls \ {c} : ledger'[d] = ledger[d]
        /\ ledger'[c] = row
    BY DEF IInv, Sound, TypeOK
  <1>2. DurableState
    BY CalmParts
  <1>3. \A d \in Calls \ {c} : ~InDoubt(ledger[d])
    BY <1>2 DEF DurableState
  <1>4. QuestionOf(checkpoint)'
    BY <1>2 DEF DurableState, QuestionOf
  <1>5. ASSUME NEW p \in Approvals
        PROVE  (/\ approval[p].status # "FREE" => approval[p].call \in Calls
                /\ approval[p].status = "PENDING" =>
                     /\ checkpoint.next = "approval_pause" /\ checkpoint.pending = p
                     /\ task \in {"WAITING_APPROVAL", "RECOVERY_REQUIRED"}
                /\ approval[p].status = "APPROVED" =>
                     ledger[approval[p].call].status = "SUCCEEDED" \/ checkpoint.pending = p)'
    BY <1>1, <1>2 DEF DurableState
  <1>6. ASSUME NEW d \in Calls
        PROVE  (InDoubt(ledger[d]) =>
                  /\ checkpoint.next = "tool" /\ checkpoint.call = d
                  /\ checkpoint.pending = ledger[d].appr /\ checkpoint.pending # NoApproval)'
    BY <1>1, <1>3 DEF InDoubt
  <1> QED
    BY <1>3, <1>4, <1>5, <1>6 DEF DurableState

\* A worker at its Tool, while all goes well.
LEMMA AtTool ==
    ASSUME IInv, NEW t \in Threads, AtNode(t, "tool"), thread[t].graph.pending # NoApproval
    PROVE  /\ thread[t] \in Request /\ Working(t) /\ thread[t].pc = "node"
           /\ thread[t].graph.call \in Calls
           /\ thread[t].graph.pending \in Approvals
           /\ ledger[thread[t].graph.call] \in Row
           /\ IsCalm => task = "RUNNING" /\ thread[t].graph = checkpoint
           /\ IsHealthy => /\ \A c \in Calls : ~InDoubt(ledger[c])
                           /\ ledger[thread[t].graph.call].status # "FAILED"
  <1>1. thread[t] \in Request /\ thread[t].graph \in Graph /\ thread[t].pc = "node" /\ Working(t)
    BY ThreadTypes DEF IInv, Sound, AtNode, Working
  <1>2. thread[t].graph.call \in Calls
    BY DEF IInv, Sound, RequestSound, WellFormed, AtNode
  <1>3. thread[t].graph.pending \in Approvals /\ ledger[thread[t].graph.call] \in Row
    BY <1>1, <1>2 DEF Graph, IInv, Sound, TypeOK
  <1>4. IsCalm => task = "RUNNING" /\ thread[t].graph = checkpoint
    BY <1>1, CalmParts, WorkerAlone DEF WorkerHolds
  <1>5. ASSUME IsHealthy
        PROVE  /\ \A c \in Calls : ~InDoubt(ledger[c])
               /\ ledger[thread[t].graph.call].status # "FAILED"
    <2>1. IsCalm
      BY <1>5 DEF IsCalm, IsHealthy
    <2>2. task = "RUNNING" /\ \A u \in Threads \ {t} : ~Working(u)
      BY <1>1, <2>1, WorkerAlone
    <2>3. \A u \in Threads : thread[u].pc \notin {"won", "failing"}
      BY <1>1, <2>2 DEF Working
    <2> QED
      BY <1>2, <1>5, <2>2, <2>3 DEF IInv, Healthy, IsHealthy
  <1> QED
    BY <1>1, <1>2, <1>3, <1>4, <1>5

LEMMA ExecuteInv ==
    ASSUME IInv, NEW t \in Threads, Execute(t)
    PROVE  IInv'
  <1> PICK x : x = thread[t]
    OBVIOUS
  <1> PICK c : c = x.graph.call
    OBVIOUS
  <1> PICK p : p = x.graph.pending
    OBVIOUS
  <1>0. /\ x \in Request /\ Working(t) /\ x.pc = "node" /\ x.graph.next = "tool"
        /\ c \in Calls /\ p \in Approvals /\ p # NoApproval /\ ledger[c] \in Row
        /\ IsCalm => task = "RUNNING" /\ x.graph = checkpoint
        /\ IsHealthy => ledger[c].status # "FAILED" /\ \A d \in Calls : ~InDoubt(ledger[d])
    BY AtTool DEF Execute, AtNode
  <1>5. IsCalm => Authorized(x.graph)
    <2> SUFFICES ASSUME IsCalm PROVE Authorized(checkpoint)
      BY <1>0
    <2>1. approval[p] \in Question /\ approval[p].status = "APPROVED" /\ approval[p].call = c
      BY <1>0, CalmParts DEF DurableState, QuestionOf, IInv, Sound, TypeOK
    <2> QED
      BY <1>0, <2>1 DEF Authorized, Question
  <1>1. CASE Authorized(x.graph) /\ ledger[c].status = "ABSENT"
    <2> PICK valid : valid = x.valid \cup {c}
      OBVIOUS
    <2> PICK row : row = Executing(p)
      OBVIOUS
    <2> PICK new : new = [x EXCEPT !.pc = "won", !.valid = valid]
      OBVIOUS
    <2>0. valid \in SUBSET Things /\ "won" \in PC
      BY <1>0, ThreadTypes DEF Things, PC, IInv, Sound
    <2>1. /\ new \in Request /\ new.pc = "won" /\ new.graph = x.graph /\ new.valid = valid
          /\ row \in Row /\ row.status = "EXECUTING" /\ row.appr = p
      BY <1>0, <2>0 DEF Request, Row, Executing
    <2>2. WriteRow(t, c, row, new) /\ UNCHANGED <<task, approval, checkpoint, history>>
      BY <1>0, <1>1 DEF Execute
    <2>3. ledger'[c] = row
      BY <1>0, <2>2 DEF WriteRow, IInv, Sound, TypeOK
    <2>4. RequestSound(new)' /\ TellsLedger(new.graph)
      BY <1>0, <2>1, <2>3 DEF IInv, Sound, RequestSound, WellFormed
    <2>5. ASSUME IsCalm
          PROVE DurableState' /\ WorkerHolds(new)' /\ EvidenceHolds(new)' /\ "task" \in new.valid
      <3>1. DurableState'
        BY <1>0, <1>1, <2>1, <2>2, <2>5, RowKeepsDurable DEF WriteRow
      <3>2. "task" \in new.valid
        BY <1>0, <2>1, <2>5, WorkerAlone
      <3>3. WorkerHolds(new)'
        BY <1>0, <2>1, <2>2, <2>3, <2>5 DEF WorkerHolds
      <3>4. EvidenceHolds(new)'
        BY <2>1 DEF EvidenceHolds
      <3> QED
        BY <3>1, <3>2, <3>3, <3>4
    <2>6. AtWork(new.pc) /\ new.pc \notin Trouble
      BY <2>1 DEF AtWork, Trouble
    <2> QED
      BY <1>0, <1>1, <2>1, <2>2, <2>4, <2>5, <2>6, HistoryUnchanged, RowStep
  <1>2. CASE ~Authorized(x.graph) \/ (ledger[c].status # "ABSENT" /\ ledger[c].appr # p)
    <2>1. IsCalm => \A d \in Calls : ~InDoubt(ledger[d])
      BY <1>0, <1>2, <1>5, CalmParts DEF DurableState
    <2>2. Settle(t, "failing") /\ Unwritten
      BY <1>2 DEF Execute, Unwritten
    <2> QED
      BY <1>0, <2>1, <2>2, SettleStep
  <1>3. CASE Authorized(x.graph) /\ ledger[c].status = "SUCCEEDED" /\ ledger[c].appr = p
    <2> PICK new : new = [x EXCEPT !.pc = "answered"]
      OBVIOUS
    <2>1. new \in Request /\ new.pc = "answered" /\ new.graph = x.graph /\ new.valid = x.valid
      BY <1>0 DEF Request, PC
    <2>2. thread' = [thread EXCEPT ![t] = new] /\ Unwritten
      BY <1>0, <1>3 DEF Execute, Goto, Unwritten, IInv, Sound, TypeOK
    <2>3. RequestSound(new) /\ TellsLedger(new.graph)
      BY <1>0, <1>3, <2>1 DEF IInv, Sound, RequestSound
    <2>4. IsCalm => WorkerHolds(new) /\ EvidenceHolds(new) /\ "task" \in new.valid
      BY <1>0, <2>1, WorkerAlone DEF WorkerHolds, EvidenceHolds
    <2>5. AtWork(new.pc) /\ new.pc \notin Trouble \cup {"reconciling", "created"}
      BY <2>1 DEF AtWork, Trouble
    <2> QED
      BY <1>0, <2>1, <2>2, <2>3, <2>4, <2>5, HistoryUnchanged, LocalStep DEF Unwritten
  <1>4. CASE Authorized(x.graph) /\ ledger[c].status \notin {"ABSENT", "SUCCEEDED"} /\ ledger[c].appr = p
    <2>1. ~IsHealthy
      BY <1>0, <1>4 DEF Row, InDoubt
    <2>2. Settle(t, "reviewing") /\ Unwritten
      BY <1>4 DEF Execute, Unwritten
    <2> QED
      BY <1>0, <2>1, <2>2, SettleStep
  <1> QED
    BY <1>1, <1>2, <1>3, <1>4

LEMMA RecoverExecutionInv ==
    ASSUME IInv, NEW t \in Threads, RecoverExecution(t)
    PROVE  IInv'
  <1> PICK x : x = thread[t]
    OBVIOUS
  <1> PICK c : c = x.graph.call
    OBVIOUS
  <1>0. /\ x \in Request /\ Working(t) /\ x.pc = "recovering" /\ ~IsHealthy
        /\ c \in Calls /\ ledger[c] \in Row
        /\ WellFormed(x.graph) /\ TellsLedger(x.graph)
    BY TroubleShows DEF IInv, Sound, TypeOK, RequestSound, RecoverExecution, Trouble
  <1> DEFINE May == /\ ledger[c].appr = x.graph.pending /\ InDoubt(ledger[c])
                    /\ c \in x.valid /\ Mode[c] # "NONE"
  <1>1. CASE May
    <2> PICK row : row = Executing(ledger[c].appr)
      OBVIOUS
    <2> PICK new : new = [x EXCEPT !.pc = "rewon"]
      OBVIOUS
    <2>1. /\ new \in Request /\ new.pc = "rewon" /\ new.graph = x.graph /\ new.valid = x.valid
          /\ new.seen = x.seen
          /\ row \in Row /\ row.status = "EXECUTING" /\ row.appr = x.graph.pending
      BY <1>0, <1>1 DEF Request, PC, Row, Executing
    <2>2. WriteRow(t, c, row, new) /\ UNCHANGED <<task, approval, checkpoint, history>>
      BY <1>1 DEF RecoverExecution
    <2>3. ledger'[c] = row
      BY <1>0, <2>2 DEF WriteRow, IInv, Sound, TypeOK
    <2>4. RequestSound(new)' /\ TellsLedger(new.graph)
      BY <1>0, <2>1, <2>3 DEF RequestSound, WellFormed
    <2>5. ASSUME IsCalm
          PROVE DurableState' /\ WorkerHolds(new)' /\ EvidenceHolds(new)' /\ "task" \in new.valid
      <3>0. WorkerHolds(x) /\ EvidenceHolds(x) /\ DurableState
        BY <2>5, CalmParts
      <3>1. task = "RUNNING" /\ "task" \in new.valid
        BY <1>0, <2>1, <2>5, WorkerAlone
      <3>2. DurableState'
        <4>1. /\ checkpoint.next = "tool" /\ checkpoint.call = c /\ checkpoint.pending # NoApproval
              /\ row.appr = checkpoint.pending
          BY <1>0, <1>1, <2>1, <3>0 DEF DurableState
        <4> QED
          BY <1>0, <1>1, <2>1, <2>2, <2>5, <3>1, <4>1, RowKeepsDurable DEF WriteRow, InDoubt
      <3>3. WorkerHolds(new)'
        <4>1. row = Executing(x.graph.pending)
          BY <1>1
        <4> QED
          BY <1>0, <1>1, <2>1, <2>2, <2>3, <3>0, <4>1 DEF WorkerHolds
      <3>4. EvidenceHolds(new)'
        BY <1>0, <2>1, <2>2, <3>0 DEF EvidenceHolds
      <3> QED
        BY <3>1, <3>2, <3>3, <3>4
    <2>6. AtWork(new.pc) /\ new.pc # "created" /\ ledger[c].status # "SUCCEEDED"
      BY <1>1, <2>1 DEF AtWork, InDoubt
    <2> QED
      BY <1>0, <2>1, <2>2, <2>4, <2>5, <2>6, HistoryUnchanged, RowStep
  <1>2. CASE ~May /\ ledger[c].appr = x.graph.pending /\ ledger[c].status = "SUCCEEDED"
    <2>1. thread' = [thread EXCEPT ![t] = Dispatched(x)] /\ Unwritten
      BY <1>2 DEF RecoverExecution, Unwritten
    <2>2. ~InDoubt(ledger[c])
      BY <1>2 DEF InDoubt
    <2>3. IsCalm => "checkpoint" \in x.valid
      BY <1>0, CalmParts DEF WorkerHolds
    <2> QED
      BY <1>0, <2>1, <2>2, <2>3, DispatchStep
  <1>3. CASE ~May /\ ~(ledger[c].appr = x.graph.pending /\ ledger[c].status = "SUCCEEDED")
    <2>1. Settle(t, "reviewing") /\ Unwritten
      BY <1>3 DEF RecoverExecution, Unwritten, Settle
    <2> QED
      BY <1>0, <2>1, SettleStep
  <1> QED
    BY <1>1, <1>2, <1>3

\* A recorded answer goes on with the batch, or with the recovery.
LEMMA AnsweredFits ==
    ASSUME NEW x \in Request
    PROVE  LET new == Answered(x) IN
           /\ new \in Request
           /\ x.pc = "won" =>
                new.pc = "answered" /\ new.graph = x.graph /\ new.valid = x.valid \cap {"task"}
           /\ x.pc # "won" => new = Dispatched(x)
  <1> PICK new : new = Answered(x)
    OBVIOUS
  <1>1. CASE x.pc = "won"
    <2> PICK valid : valid = x.valid \cap {"task"}
      OBVIOUS
    <2>1. valid \in SUBSET Things /\ "answered" \in PC
      BY DEF Things, PC
    <2>2. new = [x EXCEPT !.pc = "answered", !.valid = valid]
      BY <1>1 DEF Answered
    <2>3. new \in Request /\ new.pc = "answered" /\ new.graph = x.graph /\ new.valid = valid
      BY <2>1, <2>2 DEF Request
    <2> QED
      BY <1>1, <2>3
  <1>2. CASE x.pc # "won"
    <2>1. new = Dispatched(x)
      BY <1>2 DEF Answered
    <2> QED
      BY <1>2, <2>1, DispatchedFits
  <1> QED
    BY <1>1, <1>2

\* The status a recorded answer gives the row.
LEMMA TerminalFits ==
    ASSUME NEW said \in {"ok", "noeffect", "unknown"}
    PROVE  /\ Terminal(said) \in {"SUCCEEDED", "FAILED", "UNKNOWN"}
           /\ said = "ok" <=> Terminal(said) = "SUCCEEDED"
           /\ said = "unknown" <=> Terminal(said) = "UNKNOWN"
  BY DEF Terminal

LEMMA FinishInv ==
    ASSUME IInv, NEW t \in Threads, Finish(t)
    PROVE  IInv'
  <1> PICK x : x = thread[t]
    OBVIOUS
  <1> PICK c : c = x.graph.call
    OBVIOUS
  <1>a. PICK said \in {"ok", "noeffect", "unknown"} :
          /\ c \in x.valid => WriteRow(t, c, [ledger[c] EXCEPT !.status = Terminal(said)],
                                      Resulting(x, said, c \in x.valid))
          /\ c \notin x.valid => /\ thread' = [thread EXCEPT ![t] = Resulting(x, said, c \in x.valid)]
                               /\ UNCHANGED <<ledger, fresh>>
          /\ history' = [history EXCEPT !.doubted = history.doubted \/ said = "unknown"]
    BY DEF Finish
  <1> PICK new : new = Resulting(x, said, c \in x.valid)
    OBVIOUS
  <1>1. /\ new = Resulting(x, said, c \in x.valid)
        /\ c \in x.valid => WriteRow(t, c, [ledger[c] EXCEPT !.status = Terminal(said)], new)
        /\ c \notin x.valid => thread' = [thread EXCEPT ![t] = new] /\ UNCHANGED <<ledger, fresh>>
        /\ history' = [history EXCEPT !.doubted = history.doubted \/ said = "unknown"]
    BY <1>a
  <1>2. /\ x \in Request /\ Working(t) /\ x.pc \in {"won", "rewon"}
        /\ UNCHANGED <<task, approval, checkpoint>>
        /\ c \in Calls /\ ledger[c] \in Row
        /\ WellFormed(x.graph) /\ TellsLedger(x.graph)
        /\ c \in x.valid => ledger[c].status = "EXECUTING"
    BY DEF IInv, Sound, TypeOK, RequestSound, Finish, Working
  <1>3. /\ history' \in [crashes : Nat, suspicions : Nat, doubted : BOOLEAN]
        /\ IsCalm' => IsCalm
        /\ IsHealthy' => IsHealthy /\ said # "unknown"
    <2>1. history \in [crashes : Nat, suspicions : Nat, doubted : BOOLEAN]
      BY DEF IInv, Sound, TypeOK
    <2>2. /\ history' \in [crashes : Nat, suspicions : Nat, doubted : BOOLEAN]
          /\ history'.crashes = history.crashes /\ history'.suspicions = history.suspicions
          /\ history'.doubted = (history.doubted \/ said = "unknown")
      BY <1>1, <2>1
    <2> QED
      BY <2>1, <2>2 DEF IsCalm, IsHealthy
  <1>4. /\ new \in Request
        /\ said = "ok" /\ c \in x.valid /\ x.pc = "won" =>
             new.pc = "answered" /\ new.graph = x.graph /\ new.valid = x.valid \cap {"task"}
        /\ said = "ok" /\ c \in x.valid /\ x.pc = "rewon" => new = Dispatched(x)
        /\ said # "ok" \/ c \notin x.valid =>
             /\ new.pc = IF x.pc = "won" /\ said # "unknown" THEN "failing" ELSE "reviewing"
             /\ new.graph = NoGraph /\ new.valid = x.valid \cap {"task"}
    <2>1. CASE said = "ok" /\ c \in x.valid
      <3>1. new = Answered(x)
        BY <1>1, <2>1 DEF Resulting
      <3> QED
        BY <1>2, <2>1, <3>1, AnsweredFits
    <2>2. CASE said # "ok" \/ c \notin x.valid
      <3> PICK pc : pc = IF x.pc = "won" /\ said # "unknown" THEN "failing" ELSE "reviewing"
        OBVIOUS
      <3>1. new = Settling(x, pc) /\ pc \in PC
        BY <1>1, <2>2 DEF Resulting, PC
      <3> QED
        BY <1>2, <2>2, <3>1, SettlingFits
    <2> QED
      BY <2>1, <2>2
  <1>5. IsCalm => c \in x.valid
    BY <1>2, CalmParts DEF WorkerHolds
  <1>6. CASE c \notin x.valid
    <2>1. thread' = [thread EXCEPT ![t] = new] /\ UNCHANGED <<ledger, fresh>>
      BY <1>1, <1>6
    <2>2. RequestSound(new) /\ TellsLedger(new.graph)
      BY <1>4, <1>6, NoGraphSound DEF RequestSound
    <2>3. ~IsCalm /\ ~IsHealthy'
      BY <1>3, <1>5, <1>6 DEF IsCalm, IsHealthy
    <2> QED
      BY <1>2, <1>3, <1>4, <2>1, <2>2, <2>3, LocalStep
  <1>7. CASE c \in x.valid
    <2> PICK status : status = Terminal(said)
      OBVIOUS
    <2> PICK row : row = [ledger[c] EXCEPT !.status = status]
      OBVIOUS
    <2>0. /\ status \in {"SUCCEEDED", "FAILED", "UNKNOWN"}
          /\ said = "ok" <=> status = "SUCCEEDED"
          /\ said = "unknown" <=> status = "UNKNOWN"
      BY TerminalFits
    <2>1. row \in Row /\ row.status = status /\ row.appr = ledger[c].appr
      BY <1>2, <2>0 DEF Row
    <2>2. WriteRow(t, c, row, new)
      BY <1>1, <1>7
    <2>3. ledger'[c] = row
      BY <1>2, <2>2 DEF WriteRow, IInv, Sound, TypeOK
    <2>4. RequestSound(new)' /\ TellsLedger(new.graph) /\ AtWork(new.pc) /\ new.pc # "created"
      <3>1. CASE said = "ok" /\ x.pc = "won"
        <4>1. new.pc = "answered" /\ new.graph = x.graph
          BY <1>4, <1>7, <3>1
        <4>2. ledger'[c].status = "SUCCEEDED"
          BY <2>0, <2>1, <2>3, <3>1
        <4>3. TellsLedger(new.graph)
          BY <1>2, <4>1
        <4>4. WellFormed(new.graph)'
          BY <1>2, <4>1 DEF WellFormed
        <4> QED
          BY <1>2, <4>1, <4>2, <4>3, <4>4 DEF RequestSound, AtWork
      <3>2. CASE said = "ok" /\ x.pc = "rewon"
        <4>1. RequestSound(new) /\ TellsLedger(new.graph) /\ AtWork(new.pc) /\ new.pc \in {"resuming", "retool"}
          BY <1>4, <1>7, <3>2, DispatchedHolds
        <4> QED
          BY <4>1 DEF RequestSound, WellFormed
      <3>3. CASE said # "ok"
        <4>1. new.pc \in {"failing", "reviewing"} /\ new.graph = NoGraph
          BY <1>4, <3>3
        <4> QED
          BY <4>1, NoGraphSound DEF RequestSound, WellFormed, AtWork
      <3> QED
        BY <1>2, <3>1, <3>2, <3>3
    <2>5. ASSUME IsCalm
          PROVE  /\ DurableState' /\ WorkerHolds(new)' /\ EvidenceHolds(new)'
                 /\ new.pc # "resuming" => "task" \in new.valid
                 /\ \A d \in Calls \ {c} : ~InDoubt(ledger[d])
      <3>0. WorkerHolds(x) /\ EvidenceHolds(x) /\ DurableState /\ task = "RUNNING" /\ "task" \in x.valid
        BY <1>2, <2>5, CalmParts, WorkerAlone
      <3>1. /\ checkpoint.next = "tool" /\ checkpoint.call = c /\ checkpoint.pending # NoApproval
            /\ row.appr = checkpoint.pending
        BY <1>2, <1>7, <2>1, <3>0 DEF DurableState, InDoubt
      <3>2. DurableState' /\ \A d \in Calls \ {c} : ~InDoubt(ledger[d])
        BY <1>2, <1>7, <2>1, <2>2, <2>5, <3>0, <3>1, RowKeepsDurable DEF WriteRow
      <3>3. WorkerHolds(new)' /\ EvidenceHolds(new)' /\ (new.pc # "resuming" => "task" \in new.valid)
        <4>1. CASE said = "ok" /\ x.pc = "won"
          <5>1. new.pc = "answered" /\ new.graph = x.graph /\ new.valid = x.valid \cap {"task"}
            BY <1>4, <1>7, <4>1
          <5> QED
            BY <1>2, <3>0, <3>1, <4>1, <5>1 DEF WorkerHolds, EvidenceHolds
        <4>2. CASE said = "ok" /\ x.pc = "rewon"
          <5>1. "checkpoint" \in x.valid /\ x.graph = checkpoint
            BY <3>0, <4>2 DEF WorkerHolds, EvidenceHolds
          <5>2. new.pc = "retool" /\ new.graph = x.graph /\ new.valid = x.valid \cap {"task", "checkpoint"}
            BY <1>2, <1>4, <1>7, <3>1, <4>2, <5>1, DispatchedFits
          <5>3. /\ approval[x.graph.pending].status = "APPROVED"
                /\ \A p \in Approvals : approval[p].status # "PENDING"
            BY <3>0, <4>2 DEF EvidenceHolds
          <5>4. ~InDoubt(ledger[c])'
            BY <2>0, <2>1, <2>3, <4>2 DEF InDoubt
          <5>5. "task" \in new.valid /\ "checkpoint" \in new.valid
            BY <3>0, <5>1, <5>2
          <5>6. WorkerHolds(new)'
            BY <5>2, <5>5 DEF WorkerHolds
          <5>7. EvidenceHolds(new)'
            BY <1>2, <3>1, <5>1, <5>2, <5>3, <5>4 DEF EvidenceHolds
          <5> QED
            BY <5>5, <5>6, <5>7
        <4>3. CASE said # "ok"
          <5>1. /\ new.pc = IF x.pc = "won" /\ said # "unknown" THEN "failing" ELSE "reviewing"
                /\ new.valid = x.valid \cap {"task"}
            BY <1>4, <4>3
          <5>2. new.pc = "failing" => \A d \in Calls : ~InDoubt(ledger[d])'
            <6>1. new.pc = "failing" => ~InDoubt(row)
              BY <2>0, <2>1, <5>1 DEF InDoubt
            <6>2. \A d \in Calls \ {c} : ledger'[d] = ledger[d]
              BY <2>2 DEF WriteRow, IInv, Sound, TypeOK
            <6> QED
              BY <2>3, <3>2, <6>1, <6>2 DEF InDoubt
          <5>3. WorkerHolds(new)'
            BY <5>1, <5>2 DEF WorkerHolds
          <5>4. EvidenceHolds(new)'
            BY <5>1 DEF EvidenceHolds
          <5> QED
            BY <3>0, <5>1, <5>3, <5>4
        <4> QED
          BY <1>2, <4>1, <4>2, <4>3
      <3> QED
        BY <3>2, <3>3
    <2>6. ASSUME IsHealthy'
          PROVE  /\ new.pc \notin Trouble
                 /\ row.status = "FAILED" => new.pc = "failing"
                 /\ ~InDoubt(row)
                 /\ \A d \in Calls \ {c} : ~InDoubt(ledger[d])
                 /\ thread[t].pc # "failing"
      <3>1. IsCalm /\ IsHealthy /\ said # "unknown"
        BY <1>3, <2>6 DEF IsCalm, IsHealthy
      <3>2. x.pc = "won"
        BY <1>2, <3>1, TroubleShows DEF Trouble
      <3>3. new.pc = IF said = "ok" THEN "answered" ELSE "failing"
        BY <1>4, <1>7, <3>1, <3>2
      <3> QED
        BY <2>0, <2>1, <2>5, <3>1, <3>2, <3>3 DEF Trouble, InDoubt
    <2> QED
      BY <1>2, <1>3, <1>4, <1>7, <2>1, <2>2, <2>4, <2>5, <2>6, RowStep
  <1> QED
    BY <1>2, <1>6, <1>7

-----------------------------------------------------------------------------
(***************************************************************************)
(* Steps that write the checkpoint                                         *)
(***************************************************************************)

\* A node of the workflow: no row is in doubt then, and no question is open.
LEMMA NodeStep ==
    ASSUME IInv, NEW t \in Threads, NEW graph \in Graph, NEW pc \in {"node", "pausing"},
           WriteCheckpoint(t, graph, pc), approval' \in [Approvals -> Question],
           thread[t].pc \in {"begin", "node", "answered", "approved"},
           WellFormed(graph), TellsLedger(graph),
           IsCalm =>
             /\ checkpoint.next # "end" /\ QuestionOf(graph)'
             /\ \A c \in Calls : ~InDoubt(ledger[c])
             /\ \A p \in Approvals :
                  /\ approval'[p].status # "FREE" => approval'[p].call \in Calls
                  /\ approval'[p].status # "PENDING"
                  /\ approval'[p].status = "APPROVED" =>
                       ledger[approval'[p].call].status = "SUCCEEDED" \/ graph.pending = p
             /\ pc = "pausing" =>
                  graph.next = "approval_pause" /\ approval'[graph.pending].status = "DRAFT"
    PROVE  IInv'
  <1>0. /\ thread[t] \in Request /\ Working(t) /\ pc \in PC
        /\ checkpoint' = graph /\ UNCHANGED <<task, ledger, fresh, history>>
    BY DEF IInv, Sound, TypeOK, Working, PC, WriteCheckpoint
  <1> PICK new : new = [thread[t] EXCEPT !.pc = pc, !.graph = graph]
    OBVIOUS
  <1>1. new \in Request /\ new.pc = pc /\ new.graph = graph
    BY <1>0 DEF Request
  <1>2. RequestSound(new)
    BY <1>1 DEF RequestSound
  <1>3. ASSUME IsCalm PROVE DurableState' /\ WorkerHolds(new)'
    <2>1. task = "RUNNING"
      BY <1>0, <1>3, WorkerAlone
    <2>2. DurableState'
      BY <1>0, <1>3, <2>1 DEF DurableState, InDoubt
    <2>3. WorkerHolds(new)'
      BY <1>0, <1>1, <1>3 DEF WorkerHolds
    <2> QED
      BY <2>2, <2>3
  <1>4. AtWork(pc) /\ pc \notin Trouble \cup {"created", "resuming"}
    BY DEF AtWork, Trouble
  <1> QED
    BY <1>0, <1>1, <1>2, <1>3, <1>4, CheckpointStep

LEMMA BeginInv ==
    ASSUME IInv, NEW t \in Threads, Begin(t)
    PROVE  IInv'
  <1> PICK graph : graph = [NoGraph EXCEPT !.next = "llm"]
    OBVIOUS
  <1>1. /\ graph \in Graph /\ graph.next = "llm" /\ graph.pending = NoApproval /\ graph.answered = {}
    BY DEF NoGraph, Graph
  <1>2. /\ checkpoint.next = "none" /\ checkpoint.pending = NoApproval
        /\ WriteCheckpoint(t, graph, "node") /\ thread[t].pc = "begin" /\ approval' = approval
    BY DEF Begin, NoGraph
  <1>3. WellFormed(graph) /\ TellsLedger(graph) /\ approval' \in [Approvals -> Question]
    BY <1>1, <1>2 DEF WellFormed, TellsLedger, IInv, Sound, TypeOK
  <1>4. ASSUME IsCalm
        PROVE  /\ QuestionOf(graph)'
               /\ \A c \in Calls : ~InDoubt(ledger[c])
               /\ \A p \in Approvals :
                    /\ approval'[p].status # "FREE" => approval'[p].call \in Calls
                    /\ approval'[p].status # "PENDING"
                    /\ approval'[p].status = "APPROVED" =>
                         ledger[approval'[p].call].status = "SUCCEEDED" \/ graph.pending = p
    <2>1. QuestionOf(graph)'
      BY <1>1 DEF QuestionOf
    <2>2. DurableState /\ \A p \in Approvals : approval[p].status # "PENDING"
      BY <1>2, <1>4, CalmParts, WorkerAlone DEF Working
    <2> QED
      BY <1>2, <2>1, <2>2, Constants DEF DurableState
  <1> QED
    BY <1>1, <1>2, <1>3, <1>4, NodeStep

\* The graph a node runs from.
LEMMA NodeHolds ==
    ASSUME IInv, NEW t \in Threads, thread[t].pc \in {"node", "answered", "approved"}
    PROVE  /\ thread[t].graph \in Graph /\ WellFormed(thread[t].graph) /\ TellsLedger(thread[t].graph)
           /\ IsCalm => /\ thread[t].graph = checkpoint /\ DurableState /\ QuestionOf(checkpoint)
                        /\ \A p \in Approvals : approval[p].status # "PENDING"
  <1>1. thread[t].graph \in Graph /\ WellFormed(thread[t].graph) /\ TellsLedger(thread[t].graph)
    BY ThreadTypes DEF IInv, Sound, RequestSound
  <1>2. ASSUME IsCalm
        PROVE  /\ thread[t].graph = checkpoint /\ DurableState /\ QuestionOf(checkpoint)
               /\ \A p \in Approvals : approval[p].status # "PENDING"
    BY <1>2, CalmParts, WorkerAlone DEF Working, WorkerHolds, DurableState
  <1> QED
    BY <1>1, <1>2

LEMMA LlmNodeInv ==
    ASSUME IInv, NEW t \in Threads, LlmNode(t)
    PROVE  IInv'
  <1> PICK g : g = thread[t].graph
    OBVIOUS
  <1>0. /\ thread[t].pc = "node" /\ g.next = "llm" /\ g \in Graph
        /\ WellFormed(g) /\ TellsLedger(g) /\ g.pending = NoApproval /\ approval' = approval
    <2>1. thread[t].pc = "node" /\ g.next = "llm" /\ approval' = approval
      BY DEF LlmNode, AtNode
    <2>2. g \in Graph /\ WellFormed(g) /\ TellsLedger(g)
      BY <2>1, NodeHolds
    <2> QED
      BY <2>1, <2>2 DEF WellFormed
  <1>1. ASSUME NEW graph \in Graph, graph.next \in {"end", "tool"}, graph.pending = NoApproval,
               graph.next = "tool" => graph.call \in Calls, graph.answered = g.answered,
               WriteCheckpoint(t, graph, "node")
        PROVE  IInv'
    <2>1. WellFormed(graph) /\ TellsLedger(graph) /\ approval' \in [Approvals -> Question]
      BY <1>0, <1>1 DEF WellFormed, TellsLedger, IInv, Sound, TypeOK
    <2>2. ASSUME IsCalm
          PROVE  /\ checkpoint.next # "end" /\ QuestionOf(graph)'
                 /\ \A c \in Calls : ~InDoubt(ledger[c])
                 /\ \A p \in Approvals :
                      /\ approval'[p].status # "FREE" => approval'[p].call \in Calls
                      /\ approval'[p].status # "PENDING"
                      /\ approval'[p].status = "APPROVED" =>
                           ledger[approval'[p].call].status = "SUCCEEDED" \/ graph.pending = p
      <3>1. g = checkpoint /\ DurableState /\ \A p \in Approvals : approval[p].status # "PENDING"
        BY <1>0, <2>2, NodeHolds
      <3>2. QuestionOf(graph)'
        BY <1>1 DEF QuestionOf
      <3> QED
        BY <1>0, <3>1, <3>2, Constants DEF DurableState
    <2> QED
      BY <1>0, <1>1, <2>1, <2>2, NodeStep
  <1>2. CASE WriteCheckpoint(t, [g EXCEPT !.next = "end", !.steps = g.steps + 1], "node")
    <2> PICK steps : steps = g.steps + 1
      OBVIOUS
    <2> PICK graph : graph = [g EXCEPT !.next = "end", !.steps = steps]
      OBVIOUS
    <2>0. steps \in Nat
      BY <1>0 DEF Graph
    <2>1. /\ graph \in Graph /\ graph.next = "end" /\ graph.pending = g.pending
          /\ graph.answered = g.answered
      BY <1>0, <2>0 DEF Graph
    <2> QED
      BY <1>0, <1>1, <1>2, <2>1
  <1>3. ASSUME NEW c \in Calls,
               WriteCheckpoint(t, [g EXCEPT !.next = "tool", !.call = c, !.steps = g.steps + 1], "node")
        PROVE  IInv'
    <2> PICK steps : steps = g.steps + 1
      OBVIOUS
    <2> PICK graph : graph = [g EXCEPT !.next = "tool", !.call = c, !.steps = steps]
      OBVIOUS
    <2>0. steps \in Nat
      BY <1>0 DEF Graph
    <2>1. /\ graph \in Graph /\ graph.next = "tool" /\ graph.pending = g.pending /\ graph.call = c
          /\ graph.answered = g.answered
      BY <1>0, <1>3, <2>0 DEF Graph
    <2> QED
      BY <1>0, <1>1, <1>3, <2>1
  <1> QED
    BY <1>2, <1>3 DEF LlmNode

LEMMA AskInv ==
    ASSUME IInv, NEW t \in Threads, Ask(t)
    PROVE  IInv'
  <1> PICK g : g = thread[t].graph
    OBVIOUS
  <1>0. /\ thread[t].pc = "node" /\ g.next = "tool" /\ g.pending = NoApproval
        /\ g \in Graph /\ WellFormed(g) /\ TellsLedger(g) /\ g.call \in Calls
    <2>1. thread[t].pc = "node" /\ g.next = "tool" /\ g.pending = NoApproval
      BY DEF Ask, AtNode
    <2>2. g \in Graph /\ WellFormed(g) /\ TellsLedger(g)
      BY <2>1, NodeHolds
    <2> QED
      BY <2>1, <2>2 DEF WellFormed
  <1> PICK p \in Approvals :
        /\ approval[p].status = "FREE"
        /\ approval' = [approval EXCEPT ![p] = [status |-> "DRAFT", call |-> g.call]]
        /\ WriteCheckpoint(t, [g EXCEPT !.next = "approval_pause", !.pending = p], "pausing")
    BY DEF Ask
  <1> PICK question : question = [status |-> "DRAFT", call |-> g.call]
    OBVIOUS
  <1> PICK graph : graph = [g EXCEPT !.next = "approval_pause", !.pending = p]
    OBVIOUS
  <1>1. /\ graph \in Graph /\ graph.next = "approval_pause" /\ graph.pending = p
        /\ graph.call = g.call /\ graph.answered = g.answered
    BY <1>0 DEF Graph
  <1>2. question \in Question /\ question.status = "DRAFT" /\ question.call = g.call
    BY <1>0 DEF Question
  <1>3. /\ approval' \in [Approvals -> Question] /\ approval'[p] = question
        /\ \A q \in Approvals \ {p} : approval'[q] = approval[q]
    BY <1>2 DEF IInv, Sound, TypeOK
  <1>4. WellFormed(graph) /\ TellsLedger(graph)
    BY <1>0, <1>1 DEF WellFormed, TellsLedger
  <1>5. ASSUME IsCalm
        PROVE  /\ checkpoint.next # "end" /\ QuestionOf(graph)'
               /\ \A c \in Calls : ~InDoubt(ledger[c])
               /\ \A q \in Approvals :
                    /\ approval'[q].status # "FREE" => approval'[q].call \in Calls
                    /\ approval'[q].status # "PENDING"
                    /\ approval'[q].status = "APPROVED" =>
                         ledger[approval'[q].call].status = "SUCCEEDED" \/ graph.pending = q
    <2>1. g = checkpoint /\ DurableState /\ \A q \in Approvals : approval[q].status # "PENDING"
      BY <1>0, <1>5, NodeHolds
    <2>2. QuestionOf(graph)'
      <3>1. approval'[graph.pending].call = graph.call /\ approval'[graph.pending].status = "DRAFT"
        BY <1>1, <1>2, <1>3
      <3> QED
        BY <1>1, <3>1, Constants DEF QuestionOf
    <2>3. ASSUME NEW q \in Approvals
          PROVE  /\ approval'[q].status # "FREE" => approval'[q].call \in Calls
                 /\ approval'[q].status # "PENDING"
                 /\ approval'[q].status = "APPROVED" =>
                      ledger[approval'[q].call].status = "SUCCEEDED" \/ graph.pending = q
      BY <1>0, <1>2, <1>3, <2>1, Constants DEF DurableState
    <2> QED
      BY <1>0, <2>1, <2>2, <2>3 DEF DurableState
  <1> QED
    BY <1>0, <1>1, <1>2, <1>3, <1>4, <1>5, NodeStep

LEMMA ToolDoneInv ==
    ASSUME IInv, NEW t \in Threads, ToolDone(t)
    PROVE  IInv'
  <1> PICK g : g = thread[t].graph
    OBVIOUS
  <1> PICK answered : answered = g.answered \cup {g.call}
    OBVIOUS
  <1> PICK graph : graph = [g EXCEPT !.next = "llm", !.call = NoCall, !.pending = NoApproval,
                                     !.answered = answered]
    OBVIOUS
  <1>0. /\ thread[t].pc = "answered" /\ approval' = approval /\ WriteCheckpoint(t, graph, "node")
        /\ g \in Graph /\ TellsLedger(g) /\ g.call \in Calls /\ ledger[g.call].status = "SUCCEEDED"
    <2>1. thread[t].pc = "answered" /\ approval' = approval /\ WriteCheckpoint(t, graph, "node")
      BY DEF ToolDone
    <2> QED
      BY <2>1, NodeHolds DEF IInv, Sound, RequestSound
  <1>1. answered \in SUBSET Calls
    BY <1>0 DEF Graph
  <1>2. graph \in Graph /\ graph.next = "llm" /\ graph.pending = NoApproval /\ graph.answered = answered
    BY <1>0, <1>1 DEF Graph
  <1>3. WellFormed(graph) /\ TellsLedger(graph) /\ approval' \in [Approvals -> Question]
    BY <1>0, <1>2 DEF WellFormed, TellsLedger, IInv, Sound, TypeOK
  <1>4. ASSUME IsCalm
        PROVE  /\ checkpoint.next # "end" /\ QuestionOf(graph)'
               /\ \A c \in Calls : ~InDoubt(ledger[c])
               /\ \A p \in Approvals :
                    /\ approval'[p].status # "FREE" => approval'[p].call \in Calls
                    /\ approval'[p].status # "PENDING"
                    /\ approval'[p].status = "APPROVED" =>
                         ledger[approval'[p].call].status = "SUCCEEDED" \/ graph.pending = p
    <2>1. /\ g = checkpoint /\ DurableState /\ QuestionOf(checkpoint)
          /\ \A p \in Approvals : approval[p].status # "PENDING"
      BY <1>0, <1>4, NodeHolds
    <2>2. checkpoint.next = "tool"
      BY <1>0, <1>4, CalmParts DEF WorkerHolds
    <2>3. QuestionOf(graph)'
      BY <1>2 DEF QuestionOf
    <2>4. \A c \in Calls : ~InDoubt(ledger[c])
      BY <1>0, <2>1 DEF DurableState, InDoubt
    <2>5. \A p \in Approvals :
            approval[p].status = "APPROVED" => ledger[approval[p].call].status = "SUCCEEDED"
      BY <1>0, <2>1, Constants DEF DurableState, QuestionOf
    <2> QED
      BY <1>0, <2>1, <2>2, <2>3, <2>4, <2>5 DEF DurableState
  <1> QED
    BY <1>0, <1>2, <1>3, <1>4, NodeStep

LEMMA PauseNodeInv ==
    ASSUME IInv, NEW t \in Threads, PauseNode(t)
    PROVE  IInv'
  <1> PICK g : g = thread[t].graph
    OBVIOUS
  <1> PICK graph : graph = [g EXCEPT !.next = "tool"]
    OBVIOUS
  <1>0. /\ thread[t].pc = "approved" /\ approval' = approval /\ WriteCheckpoint(t, graph, "node")
        /\ g \in Graph /\ TellsLedger(g) /\ WellFormed(g)
    <2>1. thread[t].pc = "approved" /\ approval' = approval /\ WriteCheckpoint(t, graph, "node")
      BY DEF PauseNode
    <2> QED
      BY <2>1, NodeHolds
  <1>1. /\ graph \in Graph /\ graph.next = "tool" /\ graph.pending = g.pending /\ graph.call = g.call
        /\ graph.answered = g.answered
    BY <1>0 DEF Graph
  <1>2. g.call \in Calls /\ approval' \in [Approvals -> Question]
    BY <1>0 DEF IInv, Sound, RequestSound, TypeOK
  <1>3. WellFormed(graph) /\ TellsLedger(graph)
    BY <1>0, <1>1, <1>2 DEF WellFormed, TellsLedger
  <1>4. ASSUME IsCalm
        PROVE  /\ checkpoint.next # "end" /\ QuestionOf(graph)'
               /\ \A c \in Calls : ~InDoubt(ledger[c])
               /\ \A p \in Approvals :
                    /\ approval'[p].status # "FREE" => approval'[p].call \in Calls
                    /\ approval'[p].status # "PENDING"
                    /\ approval'[p].status = "APPROVED" =>
                         ledger[approval'[p].call].status = "SUCCEEDED" \/ graph.pending = p
    <2>1. /\ g = checkpoint /\ DurableState /\ QuestionOf(checkpoint)
          /\ \A p \in Approvals : approval[p].status # "PENDING"
      BY <1>0, <1>4, NodeHolds
    <2>2. checkpoint.next = "approval_pause" /\ approval[checkpoint.pending].status = "APPROVED"
      BY <1>0, <1>4, CalmParts DEF WorkerHolds
    <2>3. QuestionOf(graph)'
      BY <1>0, <1>1, <2>1, <2>2 DEF QuestionOf
    <2> QED
      BY <1>0, <1>1, <2>1, <2>2, <2>3 DEF DurableState
  <1> QED
    BY <1>0, <1>1, <1>2, <1>3, <1>4, NodeStep

-----------------------------------------------------------------------------
(***************************************************************************)
(* Steps that write the Task                                               *)
(***************************************************************************)

\* Only the Task's row changes.
LEMMA TaskKeepsDurable ==
    ASSUME DurableState, NEW status, task' = status, UNCHANGED <<approval, checkpoint, ledger>>,
           status # "ABSENT",
           status \notin {"WAITING_APPROVAL", "RECOVERY_REQUIRED"} =>
             \A p \in Approvals : approval[p].status # "PENDING",
           status = "SUCCEEDED" => checkpoint.next = "end",
           status \in {"SUCCEEDED", "FAILED", "REJECTED"} => \A c \in Calls : ~InDoubt(ledger[c])
    PROVE  DurableState'
  BY DEF DurableState, QuestionOf, InDoubt

LEMMA CreateInv ==
    ASSUME IInv, NEW t \in Threads, Create(t)
    PROVE  IInv'
  <1> PICK new : new = Bare("created", {})
    OBVIOUS
  <1>1. /\ thread[t].pc = "idle" /\ task = "ABSENT" /\ WriteTask(t, "PENDING", new)
        /\ UNCHANGED <<approval, checkpoint, ledger, history>>
    BY DEF Create
  <1>3. new \in Request /\ new.pc = "created" /\ new.graph = NoGraph
    <2>1. "created" \in PC /\ {} \in SUBSET Things
      BY DEF PC
    <2> QED
      BY <2>1, BareFits
  <1>4. RequestSound(new) /\ TellsLedger(new.graph)
    BY <1>3, NoGraphSound DEF RequestSound
  <1>5. ASSUME IsCalm
        PROVE  /\ \A u \in Threads \ {t} : ~Working(u)
               /\ DurableState' /\ WorkerHolds(new)' /\ EvidenceHolds(new)'
    <2>1. \A u \in Threads \ {t} : ~Working(u)
      BY <1>1, <1>5, CalmParts DEF SoleWorker
    <2>2. DurableState /\ \A p \in Approvals : approval[p].status # "PENDING"
      BY <1>1, <1>5, CalmParts DEF DurableState
    <2>3. DurableState'
      BY <1>1, <2>2, TaskKeepsDurable DEF WriteTask
    <2> QED
      BY <1>1, <1>3, <2>1, <2>2, <2>3 DEF DurableState, WorkerHolds, EvidenceHolds
  <1>6. AtWork(new.pc) /\ new.pc \notin Trouble
    BY <1>3 DEF AtWork, Trouble
  <1> QED
    BY <1>1, <1>3, <1>4, <1>5, <1>6, TaskStep DEF TaskStatus, IInv, Sound, TypeOK

LEMMA StartInv ==
    ASSUME IInv, NEW t \in Threads, Start(t)
    PROVE  IInv'
  <1> PICK new : new = Bare("begin", {"task"})
    OBVIOUS
  <1>1. /\ thread[t].pc = "created" /\ Working(t) /\ WriteTask(t, "RUNNING", new)
        /\ UNCHANGED <<approval, checkpoint, ledger, history>>
    BY DEF Start, Working
  <1>3. new \in Request /\ new.pc = "begin" /\ new.graph = NoGraph /\ new.valid = {"task"}
    <2>1. "begin" \in PC /\ {"task"} \in SUBSET Things
      BY DEF PC, Things
    <2> QED
      BY <2>1, BareFits
  <1>4. RequestSound(new) /\ TellsLedger(new.graph)
    BY <1>3, NoGraphSound DEF RequestSound
  <1>5. ASSUME IsCalm
        PROVE  /\ \A u \in Threads \ {t} : ~Working(u)
               /\ DurableState' /\ WorkerHolds(new)' /\ EvidenceHolds(new)' /\ task = "PENDING"
    <2>1. task = "PENDING" /\ \A u \in Threads \ {t} : ~Working(u)
      BY <1>1, <1>5, CalmParts DEF SoleWorker
    <2>2. DurableState /\ \A p \in Approvals : approval[p].status # "PENDING"
      BY <2>1, <1>5, CalmParts DEF DurableState
    <2>3. DurableState'
      BY <1>1, <2>2, TaskKeepsDurable DEF WriteTask
    <2>4. checkpoint = NoGraph
      BY <1>1, <1>5, CalmParts DEF WorkerHolds
    <2> QED
      BY <1>1, <1>3, <2>1, <2>3, <2>4 DEF WorkerHolds, EvidenceHolds
  <1>6. AtWork(new.pc) /\ new.pc \notin Trouble /\ (IsHealthy => IsCalm)
    BY <1>3 DEF AtWork, Trouble, IsHealthy, IsCalm
  <1> QED
    BY <1>1, <1>3, <1>4, <1>5, <1>6, TaskStep DEF TaskStatus, IInv, Sound, TypeOK

\* A worker that has lost its Task gives up.
LEMMA LostInv ==
    ASSUME IInv, NEW t \in Threads, Working(t), thread[t].pc \notin {"created", "resuming"},
           ~Owns(t), End(t), Unwritten
    PROVE  IInv'
  <1>1. ~IsCalm /\ ~IsHealthy
    BY CalmParts DEF SoleWorker, IsCalm, IsHealthy
  <1> QED
    BY <1>1, EndStep

\* A worker settles its Task.
LEMMA SettleTaskInv ==
    ASSUME IInv, NEW t \in Threads, Working(t), thread[t].pc \notin {"created", "resuming", "won"},
           NEW status \in {"FAILED", "RECOVERY_REQUIRED", "SUCCEEDED"}, SettleTask(t, status),
           IsCalm => /\ status = "SUCCEEDED" => checkpoint.next = "end"
                     /\ status # "RECOVERY_REQUIRED" => \A c \in Calls : ~InDoubt(ledger[c]),
           IsHealthy => /\ status # "RECOVERY_REQUIRED"
                        /\ thread[t].pc = "failing" => status = "FAILED"
    PROVE  IInv'
  <1>1. CASE ~Owns(t)
    BY <1>1, LostInv DEF SettleTask, Unwritten
  <1>2. CASE Owns(t)
    <2> PICK new : new = Idle
      OBVIOUS
    <2>1. WriteTask(t, status, new) /\ UNCHANGED <<approval, checkpoint, ledger, history>>
      BY <1>2 DEF SettleTask
    <2>2. /\ new \in Request /\ new.pc = "idle" /\ new.graph = NoGraph
          /\ RequestSound(new) /\ TellsLedger(new.graph)
      BY IdleFits
    <2>3. ASSUME IsCalm
          PROVE  /\ \A u \in Threads \ {t} : ~Working(u)
                 /\ DurableState' /\ WorkerHolds(new)' /\ EvidenceHolds(new)' /\ task = "RUNNING"
      <3>1. /\ task = "RUNNING" /\ \A u \in Threads \ {t} : ~Working(u)
            /\ \A p \in Approvals : approval[p].status # "PENDING"
        BY <2>3, WorkerAlone
      <3>2. DurableState
        BY <2>3, CalmParts
      <3>3. DurableState'
        BY <2>1, <2>3, <3>1, <3>2, TaskKeepsDurable DEF WriteTask
      <3> QED
        BY <2>2, <3>1, <3>3 DEF WorkerHolds, EvidenceHolds
    <2>4. ~AtWork(new.pc) /\ new.pc \notin Trouble /\ (IsHealthy => IsCalm)
      BY <2>2 DEF AtWork, Trouble, IsHealthy, IsCalm
    <2> QED
      BY <2>1, <2>2, <2>3, <2>4, TaskStep DEF TaskStatus, IInv, Sound, TypeOK
  <1> QED
    BY <1>1, <1>2

LEMMA FailInv ==
    ASSUME IInv, NEW t \in Threads, Fail(t)
    PROVE  IInv'
  <1>1. thread[t].pc = "failing" /\ Working(t) /\ SettleTask(t, "FAILED")
    BY DEF Fail, Working
  <1>2. IsCalm => \A c \in Calls : ~InDoubt(ledger[c])
    BY <1>1, CalmParts DEF WorkerHolds
  <1> QED
    BY <1>1, <1>2, SettleTaskInv

LEMMA ReviewInv ==
    ASSUME IInv, NEW t \in Threads, Review(t)
    PROVE  IInv'
  <1>1. thread[t].pc = "reviewing" /\ Working(t) /\ SettleTask(t, "RECOVERY_REQUIRED") /\ ~IsHealthy
    BY TroubleShows DEF Review, Trouble, Working
  <1> QED
    BY <1>1, SettleTaskInv

LEMMA SucceedInv ==
    ASSUME IInv, NEW t \in Threads, Succeed(t)
    PROVE  IInv'
  <1>1. /\ thread[t].pc = "node" /\ thread[t].graph.next = "end" /\ Working(t)
        /\ SettleTask(t, "SUCCEEDED")
    BY DEF Succeed, AtNode, Working
  <1>2. IsCalm => checkpoint.next = "end" /\ \A c \in Calls : ~InDoubt(ledger[c])
    BY <1>1, CalmParts DEF WorkerHolds, DurableState
  <1> QED
    BY <1>1, <1>2, SettleTaskInv

LEMMA ReconcileInv ==
    ASSUME IInv, NEW t \in Threads, Reconcile(t)
    PROVE  IInv'
  <1> PICK x : x = thread[t]
    OBVIOUS
  <1>0. /\ x \in Request /\ x.pc = "reconciling" /\ ~Working(t)
        /\ x.seen \in {"RUNNING", "SUCCEEDED", "RECOVERY_REQUIRED"}
        /\ WellFormed(x.graph) /\ TellsLedger(x.graph)
        /\ x.seen = "RUNNING" => x.graph.call \in Calls
        /\ approval \in [Approvals -> Question]
    BY DEF IInv, Sound, TypeOK, RequestSound, Reconcile, Working
  <1>1. CASE ~Owns(t)
    <2>1. End(t) /\ Unwritten
      BY <1>1 DEF Reconcile, Unwritten
    <2> QED
      BY <1>0, <2>1, EndStep
  <1>2. ASSUME Owns(t), NEW new \in Request, WriteTask(t, x.seen, new),
               RequestSound(new), TellsLedger(new.graph), new.pc \in {"idle", "claimed"},
               IsCalm => WorkerHolds(new) /\ EvidenceHolds(new),
               AtWork(new.pc) => x.seen = "RUNNING" /\ "task" \in new.valid
        PROVE  IInv'
    <2>1. ~IsHealthy /\ UNCHANGED <<approval, checkpoint, ledger, history>>
      BY <1>0, <1>2 DEF IInv, Healthy, IsHealthy, Reconcile
    <2>2. ASSUME IsCalm
          PROVE  /\ \A u \in Threads \ {t} : ~Working(u)
                 /\ DurableState' /\ WorkerHolds(new)' /\ EvidenceHolds(new)'
      <3>0. SoleWorker /\ DurableState /\ EvidenceHolds(x)
        BY <2>2, CalmParts
      <3>1. \A u \in Threads \ {t} : ~Working(u)
        BY <1>0, <1>2, <3>0 DEF SoleWorker
      <3>2. DurableState'
        <4>1. CASE x.seen = "RUNNING"
          <5>1. \A p \in Approvals : approval[p].status # "PENDING"
            BY <1>0, <1>2, <3>0, <4>1 DEF EvidenceHolds, Owns
          <5> QED
            BY <1>2, <2>1, <3>0, <4>1, <5>1, TaskKeepsDurable DEF WriteTask
        <4>2. CASE x.seen = "SUCCEEDED"
          <5>1. checkpoint.next = "end"
            BY <1>0, <3>0, <4>2 DEF EvidenceHolds
          <5>2. /\ \A p \in Approvals : approval[p].status # "PENDING"
                /\ \A c \in Calls : ~InDoubt(ledger[c])
            BY <3>0, <5>1 DEF DurableState
          <5> QED
            BY <1>2, <2>1, <3>0, <4>2, <5>1, <5>2, TaskKeepsDurable DEF WriteTask
        <4>3. CASE x.seen = "RECOVERY_REQUIRED"
          BY <1>2, <2>1, <3>0, <4>3, TaskKeepsDurable DEF WriteTask
        <4> QED
          BY <1>0, <4>1, <4>2, <4>3
      <3>3. task' = x.seen
        BY <1>2 DEF WriteTask
      <3>4. WorkerHolds(new)'
        BY <1>2, <2>1, <2>2 DEF WorkerHolds
      <3>5. EvidenceHolds(new)'
        BY <1>2, <2>1, <2>2 DEF EvidenceHolds
      <3> QED
        BY <3>1, <3>2, <3>4, <3>5
    <2> QED
      BY <1>0, <1>2, <2>1, <2>2, TaskStep DEF TaskStatus
  <1>3. CASE Owns(t) /\ x.seen = "RUNNING"
    <2> PICK new : new = [x EXCEPT !.pc = "claimed", !.seen = "ABSENT"]
      OBVIOUS
    <2>1. /\ new \in Request /\ new.pc = "claimed" /\ new.graph = x.graph /\ new.valid = x.valid
          /\ new.retry = x.retry
      BY <1>0 DEF Request, PC, TaskStatus
    <2>2. WriteTask(t, x.seen, new)
      BY <1>3 DEF Reconcile
    <2>3. RequestSound(new) /\ TellsLedger(new.graph)
      BY <1>0, <1>3, <2>1 DEF RequestSound
    <2>4. IsCalm => WorkerHolds(new) /\ EvidenceHolds(new)
      BY <1>0, <1>3, <2>1, CalmParts DEF WorkerHolds, EvidenceHolds, Owns
    <2> QED
      BY <1>2, <1>3, <2>1, <2>2, <2>3, <2>4 DEF Owns
  <1>4. CASE Owns(t) /\ x.seen # "RUNNING"
    <2> PICK new : new = Idle
      OBVIOUS
    <2>1. /\ new \in Request /\ new.pc = "idle"
          /\ RequestSound(new) /\ TellsLedger(new.graph) /\ WorkerHolds(new) /\ EvidenceHolds(new)
      BY IdleFits
    <2>2. WriteTask(t, x.seen, new) /\ ~AtWork(new.pc)
      BY <1>4, <2>1 DEF Reconcile, AtWork
    <2> QED
      BY <1>2, <1>4, <2>1, <2>2
  <1> QED
    BY <1>1, <1>3, <1>4

LEMMA PauseInv ==
    ASSUME IInv, NEW t \in Threads, Pause(t)
    PROVE  IInv'
  <1> PICK p : p = thread[t].graph.pending
    OBVIOUS
  <1>0. /\ thread[t].pc = "pausing" /\ Working(t) /\ approval \in [Approvals -> Question]
        /\ UNCHANGED <<checkpoint, ledger, history>>
    BY DEF IInv, Sound, TypeOK, Pause, Working
  <1>1. CASE ~Owns(t)
    <2>1. End(t) /\ Unwritten
      BY <1>0, <1>1 DEF Pause, Unwritten
    <2> QED
      BY <1>0, <1>1, <2>1, LostInv
  <1>2. CASE Owns(t)
    <2> PICK new : new = Idle
      OBVIOUS
    <2>1. WriteTask(t, "WAITING_APPROVAL", new) /\ approval' = [approval EXCEPT ![p].status = "PENDING"]
      BY <1>2 DEF Pause
    <2>2. /\ new \in Request /\ new.pc = "idle" /\ new.graph = NoGraph
          /\ RequestSound(new) /\ TellsLedger(new.graph)
      BY IdleFits
    <2>3. approval' \in [Approvals -> Question]
      BY <1>0, <2>1 DEF Question
    <2>4. ASSUME IsCalm
          PROVE  /\ \A u \in Threads \ {t} : ~Working(u)
                 /\ DurableState' /\ WorkerHolds(new)' /\ EvidenceHolds(new)' /\ task = "RUNNING"
                 /\ checkpoint.next = "approval_pause"
                 /\ approval'[checkpoint.pending].status = "PENDING"
      <3>1. /\ task = "RUNNING" /\ \A u \in Threads \ {t} : ~Working(u)
            /\ \A q \in Approvals : approval[q].status # "PENDING"
        BY <1>0, <2>4, WorkerAlone
      <3>2. /\ DurableState /\ p = checkpoint.pending /\ checkpoint.next = "approval_pause"
            /\ approval[p].status = "DRAFT"
        BY <1>0, <2>4, CalmParts DEF WorkerHolds
      <3>3. p \in Approvals
        BY <3>2 DEF DurableState, QuestionOf, IInv, Sound, TypeOK, Graph
      <3>4. /\ approval'[p].status = "PENDING" /\ approval'[p].call = approval[p].call
            /\ \A q \in Approvals \ {p} : approval'[q] = approval[q]
        BY <1>0, <2>1, <3>3 DEF Question
      <3>5. QuestionOf(checkpoint)'
        BY <1>0, <3>2, <3>4 DEF DurableState, QuestionOf
      <3>6. ASSUME NEW q \in Approvals
            PROVE  (/\ approval[q].status # "FREE" => approval[q].call \in Calls
                    /\ approval[q].status = "PENDING" =>
                         /\ checkpoint.next = "approval_pause" /\ checkpoint.pending = q
                         /\ task \in {"WAITING_APPROVAL", "RECOVERY_REQUIRED"}
                    /\ approval[q].status = "APPROVED" =>
                         ledger[approval[q].call].status = "SUCCEEDED" \/ checkpoint.pending = q)'
        <4>1. CASE q = p
          BY <1>0, <2>1, <3>2, <3>4, <4>1 DEF DurableState, WriteTask
        <4>2. CASE q # p
          BY <1>0, <3>1, <3>2, <3>4, <4>2 DEF DurableState
        <4> QED
          BY <4>1, <4>2
      <3>7. DurableState'
        BY <1>0, <2>1, <3>2, <3>5, <3>6 DEF DurableState, WriteTask, InDoubt
      <3> QED
        BY <2>2, <3>1, <3>2, <3>4, <3>7 DEF WorkerHolds, EvidenceHolds
    <2>5. ~AtWork(new.pc) /\ new.pc \notin Trouble /\ (IsHealthy => IsCalm)
      BY <2>2 DEF AtWork, Trouble, IsHealthy, IsCalm
    <2> QED
      BY <1>0, <2>1, <2>2, <2>3, <2>4, <2>5, TaskStep DEF TaskStatus
  <1> QED
    BY <1>1, <1>2

LEMMA DecideInv ==
    ASSUME IInv, NEW t \in Threads, NEW p \in Approvals, NEW yes \in BOOLEAN, Decide(t, p, yes)
    PROVE  IInv'
  <1>0. /\ thread[t].pc = "idle" /\ task = "WAITING_APPROVAL" /\ approval[p].status = "PENDING"
        /\ approval \in [Approvals -> Question] /\ UNCHANGED <<checkpoint, ledger, history>>
    BY DEF IInv, Sound, TypeOK, Decide
  <1>1. ASSUME NEW said \in {"APPROVED", "REJECTED"}, approval' = [approval EXCEPT ![p].status = said],
               NEW status, status = IF said = "APPROVED" THEN "RUNNING" ELSE "REJECTED",
               NEW new \in Request, WriteTask(t, status, new), RequestSound(new), TellsLedger(new.graph),
               said = "APPROVED" => new.pc = "resuming" /\ new.appr = p,
               said = "REJECTED" => new.pc = "idle"
        PROVE  IInv'
    <2>1. /\ approval' \in [Approvals -> Question]
          /\ approval'[p].status = said /\ approval'[p].call = approval[p].call
          /\ \A q \in Approvals \ {p} : approval'[q] = approval[q]
      BY <1>0, <1>1 DEF Question
    <2>2. ASSUME IsCalm
          PROVE  /\ \A u \in Threads \ {t} : ~Working(u)
                 /\ DurableState' /\ WorkerHolds(new)' /\ EvidenceHolds(new)'
      <3>1. \A u \in Threads \ {t} : ~Working(u)
        BY <1>0, <2>2, CalmParts DEF SoleWorker
      <3>2. DurableState /\ checkpoint.next = "approval_pause" /\ checkpoint.pending = p
        BY <1>0, <2>2, CalmParts DEF DurableState
      <3>3. QuestionOf(checkpoint)'
        BY <1>0, <1>1, <2>1, <3>2 DEF DurableState, QuestionOf
      <3>4. ASSUME NEW q \in Approvals
            PROVE  (/\ approval[q].status # "FREE" => approval[q].call \in Calls
                    /\ approval[q].status = "PENDING" =>
                         /\ checkpoint.next = "approval_pause" /\ checkpoint.pending = q
                         /\ task \in {"WAITING_APPROVAL", "RECOVERY_REQUIRED"}
                    /\ approval[q].status = "APPROVED" =>
                         ledger[approval[q].call].status = "SUCCEEDED" \/ checkpoint.pending = q)'
        <4>1. CASE q = p
          BY <1>0, <1>1, <2>1, <3>2, <4>1 DEF DurableState
        <4>2. CASE q # p
          BY <1>0, <2>1, <3>2, <4>2 DEF DurableState
        <4> QED
          BY <4>1, <4>2
      <3>5. DurableState'
        BY <1>0, <1>1, <3>2, <3>3, <3>4 DEF DurableState, WriteTask, InDoubt
      <3>6. WorkerHolds(new)'
        BY <1>0, <1>1, <2>1, <3>2, Constants DEF WorkerHolds
      <3>7. EvidenceHolds(new)'
        BY <1>1 DEF EvidenceHolds
      <3> QED
        BY <3>1, <3>5, <3>6, <3>7
    <2>3. /\ new.pc \notin Trouble \cup {"reconciling", "created"} /\ status \in TaskStatus
          /\ AtWork(new.pc) <=> status = "RUNNING"
          /\ AtWork(new.pc) => new.pc = "resuming"
          /\ status \in {"RUNNING", "REJECTED"}
      BY <1>1 DEF AtWork, Trouble, TaskStatus
    <2> QED
      BY <1>0, <1>1, <2>1, <2>2, <2>3, TaskStep
  <1>2. CASE yes
    <2> PICK new : new = Resuming(p)
      OBVIOUS
    <2>1. new \in Request /\ new.pc = "resuming" /\ new.graph = NoGraph /\ new.appr = p
      BY ResumingFits
    <2>2. WriteTask(t, "RUNNING", new) /\ approval' = [approval EXCEPT ![p].status = "APPROVED"]
      BY <1>2 DEF Decide
    <2>3. RequestSound(new) /\ TellsLedger(new.graph)
      BY <2>1, NoGraphSound DEF RequestSound
    <2> QED
      BY <1>1, <2>1, <2>2, <2>3
  <1>3. CASE ~yes
    <2> PICK new : new = Idle
      OBVIOUS
    <2>1. new \in Request /\ new.pc = "idle" /\ RequestSound(new) /\ TellsLedger(new.graph)
      BY IdleFits
    <2>2. WriteTask(t, "REJECTED", new) /\ approval' = [approval EXCEPT ![p].status = "REJECTED"]
      BY <1>3 DEF Decide
    <2> QED
      BY <1>1, <2>1, <2>2
  <1> QED
    BY <1>2, <1>3

-----------------------------------------------------------------------------
(***************************************************************************)
(* Time, and the whole next-state relation                                 *)
(***************************************************************************)

\* A row ages: of the requests' states nothing changes.
LEMMA AgeStep ==
    ASSUME IInv, UNCHANGED <<task, approval, checkpoint, ledger, thread>>, fresh' \subseteq fresh,
           history' \in [crashes : Nat, suspicions : Nat, doubted : BOOLEAN],
           IsHealthy' => IsHealthy,
           IsCalm' => IsCalm /\ (fresh' = fresh \/ \A t \in Threads : ~Working(t))
    PROVE  IInv'
  <1>1. TypeOK'
    BY DEF IInv, Sound, TypeOK
  <1>2. Sound'
    BY <1>1 DEF IInv, Sound, WellFormed, TellsLedger, RequestSound
  <1>3. Calm'
    <2> SUFFICES ASSUME IsCalm, IsCalm'
                 PROVE  (/\ SoleWorker /\ DurableState
                         /\ \A u \in Threads : WorkerHolds(thread[u]) /\ EvidenceHolds(thread[u]))'
      BY DEF Calm, IsCalm
    <2>1. SoleWorker /\ DurableState /\ \A u \in Threads : WorkerHolds(thread[u]) /\ EvidenceHolds(thread[u])
      BY CalmParts
    <2>2. SoleWorker'
      BY <2>1 DEF SoleWorker, Working, Owns
    <2>3. DurableState'
      BY <2>1 DEF DurableState, QuestionOf, InDoubt
    <2>4. ASSUME NEW u \in Threads
          PROVE  (WorkerHolds(thread[u]) /\ EvidenceHolds(thread[u]))'
      <3> PICK x : x = thread[u]
        OBVIOUS
      <3>1. WorkerHolds(x) /\ EvidenceHolds(x)
        BY <2>1
      <3>2. WorkerHolds(x)' /\ EvidenceHolds(x)'
        BY <3>1 DEF WorkerHolds, EvidenceHolds, InDoubt
      <3> QED
        BY <3>2
    <2> QED
      BY <2>2, <2>3, <2>4
  <1>4. Healthy'
    BY DEF IInv, Healthy, IsHealthy, Working, Owns, InDoubt
  <1> QED
    BY <1>2, <1>3, <1>4 DEF IInv

LEMMA AgeInv ==
    ASSUME IInv, AgeUnattended \/ Suspect
    PROVE  IInv'
  <1>0. /\ history \in [crashes : Nat, suspicions : Nat, doubted : BOOLEAN]
        /\ UNCHANGED <<task, approval, checkpoint, ledger, thread>> /\ fresh' \subseteq fresh
    BY DEF AgeUnattended, Suspect, Age, IInv, Sound, TypeOK
  <1>1. CASE AgeUnattended
    BY <1>0, <1>1, AgeStep DEF AgeUnattended, IsCalm, IsHealthy
  <1>2. CASE Suspect
    <2>1. /\ history' \in [crashes : Nat, suspicions : Nat, doubted : BOOLEAN]
          /\ history'.suspicions # 0
      BY <1>0, <1>2 DEF Suspect
    <2> QED
      BY <1>0, <2>1, AgeStep DEF IsCalm, IsHealthy
  <1> QED
    BY <1>1, <1>2

LEMMA InvInit == Init => IInv
  <1> SUFFICES ASSUME Init PROVE IInv
    OBVIOUS
  <1> PICK idle : idle = Idle
    OBVIOUS
  <1>1. /\ idle \in Request /\ idle.pc = "idle" /\ RequestSound(idle) /\ TellsLedger(idle.graph)
        /\ WorkerHolds(idle) /\ EvidenceHolds(idle)
    BY IdleFits
  <1>2. \A t \in Threads : thread[t] = idle
    BY DEF Init
  <1>3. TypeOK
    <2>1. thread \in [Threads -> Request]
      BY <1>1 DEF Init
    <2>2. approval \in [Approvals -> Question] /\ ledger \in [Calls -> Row]
      BY DEF Init, Question, Row
    <2> QED
      BY <2>1, <2>2, NoGraphSound DEF Init, TypeOK, TaskStatus, Things
  <1>4. Sound
    BY <1>1, <1>2, <1>3, NoGraphSound DEF Init, Sound
  <1>5. Calm
    <2>1. SoleWorker
      BY <1>1, <1>2 DEF SoleWorker, Working
    <2>2. DurableState
      BY DEF Init, DurableState, QuestionOf, NoGraph, InDoubt
    <2> QED
      BY <1>1, <1>2, <2>1, <2>2 DEF Calm
  <1>6. Healthy
    BY <1>1, <1>2 DEF Init, Healthy, InDoubt
  <1> QED
    BY <1>4, <1>5, <1>6 DEF IInv

LEMMA WorkInv ==
    ASSUME IInv, NEW t \in Threads, Work(t)
    PROVE  IInv'
  BY StartInv, BeginInv, LlmNodeInv, RaiseInv, AskInv, PauseInv, ExecuteInv,
     FinishInv, ToolDoneInv, FailInv, ReviewInv, SucceedInv, ResumeInv, LoadPausedInv, PauseNodeInv,
     ReadCheckpointInv, WeighInv, ReconcileInv, RecheckInv, RecoverExecutionInv, ReloadToolInv
  DEF Work

LEMMA InvNext == IInv /\ [Next]_vars => IInv'
  <1> SUFFICES ASSUME IInv, [Next]_vars PROVE IInv'
    OBVIOUS
  <1>1. ASSUME NEW t \in Threads, Create(t) \/ Work(t) \/ Crash(t)
        PROVE  IInv'
    BY <1>1, CreateInv, WorkInv, CrashInv
  <1>2. ASSUME NEW t \in Threads, NEW p \in Approvals, NEW yes \in BOOLEAN, Decide(t, p, yes)
        PROVE  IInv'
    BY <1>2, DecideInv
  <1>3. CASE Recovery
    BY <1>3, ReadForRecoveryInv DEF Recovery
  <1>4. CASE AgeUnattended \/ Suspect
    BY <1>4, AgeInv
  <1>5. CASE UNCHANGED vars
    BY <1>5, AgeStep, HistoryUnchanged DEF vars
  <1> QED
    BY <1>1, <1>2, <1>3, <1>4, <1>5 DEF Next

-----------------------------------------------------------------------------
(***************************************************************************)
(* The theorems                                                            *)
(***************************************************************************)

\* The inductive invariant holds in every reachable state.
THEOREM FlowInvariant == Spec => []IInv
  BY InvInit, InvNext, PTL DEF Spec

\* TypeOK: rows, checkpoint, ledger and requests have their types.
THEOREM FlowTypeCorrect == Spec => []TypeOK
  <1>1. IInv => TypeOK
    BY DEF IInv, Sound
  <1> QED
    BY <1>1, FlowInvariant, PTL

\* TranscriptTellsLedger: whatever happens, also to a request taken for dead,
\* no transcript tells of a result the ledger does not have.
THEOREM TranscriptIsDurable == Spec => []TranscriptTellsLedger
  <1>1. IInv => TranscriptTellsLedger
    BY DEF IInv, Sound, TellsLedger, TranscriptTellsLedger
  <1> QED
    BY <1>1, FlowInvariant, PTL

\* ApprovedCallsRan: no SUCCEEDED Task has skipped an approved call.
THEOREM ApprovalIsHonoured == Spec => []ApprovedCallsRan
  <1>1. IInv => ApprovedCallsRan
    <2> SUFFICES ASSUME IInv, IsCalm, task = "SUCCEEDED",
                        NEW p \in Approvals, approval[p].status = "APPROVED"
                 PROVE  ledger[approval[p].call].status = "SUCCEEDED"
      BY DEF ApprovedCallsRan, IsCalm
    <2>1. DurableState /\ checkpoint.next = "end"
      BY CalmParts DEF DurableState
    <2>2. checkpoint.pending = NoApproval
      BY <2>1 DEF IInv, Sound, WellFormed
    <2> QED
      BY <2>1, <2>2, Constants DEF DurableState
  <1> QED
    BY <1>1, FlowInvariant, PTL

\* HealthyTaskLeftAlone: recovery does no harm to what is not broken.
THEOREM RecoveryIsHarmless == Spec => []HealthyTaskLeftAlone
  <1>1. IInv => HealthyTaskLeftAlone
    BY DEF IInv, Healthy, HealthyTaskLeftAlone
  <1> QED
    BY <1>1, FlowInvariant, PTL

\* NoDoubtBuried: a Task ends only over rows whose outcome is known.
THEOREM DoubtKeepsTaskOpen == Spec => []NoDoubtBuried
  <1>1. IInv => NoDoubtBuried
    BY DEF IInv, Calm, DurableState, NoDoubtBuried
  <1> QED
    BY <1>1, FlowInvariant, PTL

\* OneHandPerTask: two requests never work on one Task.
THEOREM WorkIsExclusive == Spec => []OneHandPerTask
  <1>1. IInv => OneHandPerTask
    BY DEF IInv, Calm, SoleWorker, OneHandPerTask
  <1> QED
    BY <1>1, FlowInvariant, PTL

\* SucceededIsAtEnd: no request writes the checkpoint after success.
THEOREM SuccessIsFinal == Spec => []SucceededIsAtEnd
  <1>1. IInv => SucceededIsAtEnd
    BY DEF IInv, Calm, DurableState, SucceededIsAtEnd
  <1> QED
    BY <1>1, FlowInvariant, PTL

=============================================================================
