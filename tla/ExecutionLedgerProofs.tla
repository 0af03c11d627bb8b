------------------------ MODULE ExecutionLedgerProofs ------------------------
(***************************************************************************)
(* Proofs about ExecutionLedger: for any number of calls, Approvals and    *)
(* actors, any clock skew and any staleness threshold, IInv is inductive,  *)
(* and the safety properties follow from it.                               *)
(***************************************************************************)
EXTENDS ExecutionLedger, TLAPS

\* One attempt of a history is rewritten in place: the rest stays.
LEMMA HistoryUpdate ==
    ASSUME NEW s \in Seq(Attempt), NEW i \in 1 .. Len(s), NEW x \in Attempt
    PROVE  /\ [s EXCEPT ![i] = x] \in Seq(Attempt)
           /\ Len([s EXCEPT ![i] = x]) = Len(s)
           /\ [s EXCEPT ![i] = x][i] = x
           /\ \A j \in 1 .. Len(s) : j # i => [s EXCEPT ![i] = x][j] = s[j]
  OBVIOUS

\* A committed claim opens one entry at the end of the history.
LEMMA HistoryAppend ==
    ASSUME NEW s \in Seq(Attempt), NEW x \in Attempt
    PROVE  /\ Append(s, x) \in Seq(Attempt)
           /\ Len(Append(s, x)) = Len(s) + 1
           /\ Append(s, x)[Len(s) + 1] = x
           /\ \A j \in 1 .. Len(s) : Append(s, x)[j] = s[j]
  OBVIOUS

\* A clock reading is a natural number.
LEMMA NowIsNat == TypeOK => Now \subseteq Nat
  BY ConstantsAssumption DEF TypeOK, Now, Later

\* The locals of a request that just ended, or just started.
LEMMA NoRequestState ==
    NoRequest \in ActorState /\ NoRequest.pc = "idle" /\ NoRequest.outcome = "none"
  BY DEF NoRequest, ActorState, PC, Outcome, Answer, ExecutionStatus

\* The locals of a request that returned or raised are well-typed and empty.
LEMMA EndedState ==
    ASSUME NEW c \in Calls \cup {NoCall}, NEW o \in Outcome, NEW r \in Nat
    PROVE  /\ Ended(c, o, r) \in ActorState
           /\ Ended(c, o, r).pc = "done"
           /\ Ended(c, o, r).call = c
           /\ Ended(c, o, r).outcome = o
           /\ Ended(c, o, r).result = r
<1>1. ASSUME NEW z \in ActorState
      PROVE  LET x == [z EXCEPT !.pc = "done", !.call = c, !.outcome = o, !.result = r]
             IN  x \in ActorState /\ x.pc = "done" /\ x.call = c
                 /\ x.outcome = o /\ x.result = r
  BY DEF ActorState, PC
<1> QED
  BY <1>1, NoRequestState DEF Ended

\* The locals of a request that entered its first step are well-typed.
LEMMA StartedState ==
    ASSUME NEW pc \in {"candidate", "recovering"}, NEW c \in Calls,
           NEW p \in Approvals, NEW t \in Nat, NEW k \in Int
    PROVE  /\ Started(pc, c, p, t, k) \in ActorState
           /\ Started(pc, c, p, t, k).pc = pc
           /\ Started(pc, c, p, t, k).call = c
           /\ Started(pc, c, p, t, k).appr = p
           /\ Started(pc, c, p, t, k).outcome = "none"
           /\ Started(pc, c, p, t, k).cutoff = k
<1>1. ASSUME NEW z \in ActorState, z.outcome = "none"
      PROVE  LET x == [z EXCEPT !.pc = pc, !.call = c, !.appr = p,
                                !.stamp = t, !.cutoff = k]
             IN  x \in ActorState /\ x.cutoff = k /\ x.pc = pc /\ x.call = c
                 /\ x.appr = p /\ x.outcome = "none"
  BY <1>1 DEF ActorState, PC
<1> QED
  BY <1>1, NoRequestState DEF Started

\* What a committed claim leaves in the locals of its actor.
LEMMA HolderState ==
    ASSUME NEW z \in ActorState, NEW t \in Nat, NEW n \in Nat
    PROVE  LET x == Holder(z, t, n)
           IN  /\ x \in ActorState /\ x.pc = "won" /\ x.stamp = t /\ x.attempt = n
               /\ x.call = z.call /\ x.appr = z.appr /\ x.outcome = z.outcome
  BY DEF Holder, ActorState, PC

\* What a recovery keeps of the row it read.
LEMMA SnapshotState ==
    ASSUME NEW z \in ActorState, NEW row \in Row
    PROVE  LET x == Snapshot(z, row)
           IN  /\ x \in ActorState /\ x.pc = "stale" /\ x.seen = row.status
               /\ x.call = z.call /\ x.appr = z.appr /\ x.outcome = z.outcome
               /\ x.cutoff = z.cutoff
<1>1. row.status \in ExecutionStatus /\ row.updated \in Nat
  BY DEF Row
<1> QED
  BY <1>1 DEF Snapshot, ActorState, PC

\* finish keeps the Approval of the row and writes the rest.
LEMMA WrittenRow ==
    ASSUME NEW row \in Row, NEW status \in ExecutionStatus, NEW t \in Nat, NEW r \in Nat
    PROVE  LET x == Written(row, status, t, r)
           IN  /\ x \in Row /\ x.status = status /\ x.updated = t /\ x.result = r
               /\ x.appr = row.appr
  BY DEF Written, Row

\* A step that moves one actor and no shared row keeps IInv if the actor's
\* own conditions hold after it and it gained no claim.
LEMMA ActorStep ==
    ASSUME IInv, NEW a \in Actors, NEW x \in ActorState,
           actor' = [actor EXCEPT ![a] = x],
           UNCHANGED <<approval, ledger, clock, journal>>,
           RequestInv(a)', SnapshotInv(a)', ResultInv(a)',
           x.pc \notin {"won", "effected", "answered"}
    PROVE  IInv'
<1>1. TypeOK'
  BY DEF IInv, TypeOK
<1>2. \A c \in Calls : RowInv(c)'
  BY DEF IInv, RowInv
<1>3. actor'[a] = x /\ \A b \in Actors \ {a} : actor'[b] = actor[b]
  BY DEF IInv, TypeOK
<1>4. ASSUME NEW b \in Actors
      PROVE  RequestInv(b)' /\ SnapshotInv(b)' /\ HolderInv(b)' /\ ResultInv(b)'
  <2>1. CASE b = a
    BY <1>3, <2>1 DEF HolderInv, Holding
  <2>2. CASE b # a
    BY <1>3, <2>2 DEF IInv, RequestInv, SnapshotInv, HolderInv, ResultInv, Holding, Recoverable
  <2> QED BY <2>1, <2>2
<1>5. SeparateHolders'
  BY <1>3 DEF IInv, SeparateHolders, Holding
<1> QED
  BY <1>1, <1>2, <1>4, <1>5 DEF IInv

-----------------------------------------------------------------------------
\* The empty tables and idle threads satisfy the inductive invariant.
THEOREM InitEstablishes == Init => IInv
  BY ConstantsAssumption
  DEF Init, IInv, TypeOK, RowInv, RequestInv, SnapshotInv, HolderInv, ResultInv,
      SeparateHolders, Holding, NoRequest, NoRow, Row, ActorState, PC, Outcome,
      Answer, ExecutionStatus, ApprovalStatus, Attempt

\* A request that ends, with any outcome but a result, keeps IInv.
LEMMA Refuses ==
    ASSUME IInv, NEW a \in Actors, NEW c \in Calls \cup {NoCall},
           NEW o \in Outcome, o # "Result",
           actor' = [actor EXCEPT ![a] = Ended(c, o, 0)],
           UNCHANGED <<approval, ledger, clock, journal>>
    PROVE  IInv'
<1>1. actor'[a] = Ended(c, o, 0)
  BY DEF IInv, TypeOK
<1>2. RequestInv(a)' /\ SnapshotInv(a)' /\ ResultInv(a)'
  BY <1>1, EndedState DEF RequestInv, SnapshotInv, ResultInv
<1> QED
  BY <1>2, EndedState, ActorStep

\* A request that only returns or raises (it writes no table) preserves the invariant.
LEMMA Ends ==
    ASSUME IInv, NEW a \in Actors, NEW o \in Outcome, o # "Result",
           End(a, o, 0), UNCHANGED <<approval, ledger, clock, journal>>
    PROVE  IInv'
<1>1. actor[a].call \in Calls \cup {NoCall}
  BY DEF IInv, TypeOK, ActorState
<1> QED
  BY <1>1, Refuses DEF End

\* A replay returns the stored result only of a SUCCEEDED row.
LEMMA Replays ==
    ASSUME IInv, NEW a \in Actors, actor[a].call \in Calls,
           Replay(a), UNCHANGED <<approval, ledger, clock, journal>>
    PROVE  IInv'
<1> DEFINE c == actor[a].call
           row == ledger[c]
           o == ReplayOutcome(row, actor[a].appr)
           r == IF o = "Result" THEN row.result ELSE 0
<1>1. row \in Row
  BY DEF IInv, TypeOK
<1>2. o \in Outcome /\ r \in Nat
  BY <1>1 DEF ReplayOutcome, Outcome, Row
<1>3. actor' = [actor EXCEPT ![a] = Ended(c, o, r)] /\ actor'[a] = Ended(c, o, r)
  BY DEF Replay, End, IInv, TypeOK
<1>4. o = "Result" => row.status = "SUCCEEDED"
  BY DEF ReplayOutcome
<1>5. /\ Ended(c, o, r) \in ActorState /\ Ended(c, o, r).pc = "done"
      /\ Ended(c, o, r).call = c /\ Ended(c, o, r).outcome = o
      /\ Ended(c, o, r).result = r
  BY <1>2, EndedState
<1>6. r = IF o = "Result" THEN row.result ELSE 0
  OBVIOUS
<1>7. row = ledger[c] /\ c \in Calls
  OBVIOUS
<1> HIDE DEF c, o, r, row
<1> DEFINE x == Ended(c, o, r)
<1>8. x.pc = "done" /\ x.call = c /\ x.outcome = o /\ x.result = r /\ x \in ActorState
  BY <1>5
<1>9. actor' = [actor EXCEPT ![a] = x] /\ actor'[a] = x
  BY <1>3
<1> HIDE DEF x
<1>10. RequestInv(a)'
  BY <1>8, <1>9 DEF RequestInv
<1>11. SnapshotInv(a)'
  BY <1>8, <1>9 DEF SnapshotInv
<1>12. ResultInv(a)'
  BY <1>4, <1>6, <1>7, <1>8, <1>9 DEF ResultInv
<1> QED
  BY <1>8, <1>9, <1>10, <1>11, <1>12, ActorStep

\* A crash, or the next request of a thread, forgets the locals.
LEMMA Resets ==
    ASSUME IInv, NEW a \in Actors, actor' = [actor EXCEPT ![a] = NoRequest],
           UNCHANGED <<approval, ledger, clock, journal>>
    PROVE  IInv'
<1>1. actor'[a] = NoRequest
  BY DEF IInv, TypeOK
<1>2. RequestInv(a)' /\ SnapshotInv(a)' /\ ResultInv(a)'
  BY <1>1, NoRequestState DEF RequestInv, SnapshotInv, ResultInv
<1> QED
  BY <1>1, <1>2, NoRequestState, ActorStep

\* An authorized request that takes its first step preserves the invariant.
LEMMA Starts ==
    ASSUME IInv, NEW a \in Actors, NEW p \in Approvals, NEW c \in Calls,
           NEW pc \in {"candidate", "recovering"}, NEW t \in Nat, NEW k \in Int,
           Authorizes(p, c),
           actor' = [actor EXCEPT ![a] = Started(pc, c, p, t, k)],
           UNCHANGED <<approval, ledger, clock, journal>>
    PROVE  IInv'
<1> DEFINE x == Started(pc, c, p, t, k)
<1>1. /\ x \in ActorState /\ x.pc = pc /\ x.call = c /\ x.appr = p
      /\ x.outcome = "none"
  BY StartedState
<1>2. actor' = [actor EXCEPT ![a] = x]
  OBVIOUS
<1> HIDE DEF x
<1>3. actor'[a] = x
  BY <1>2 DEF IInv, TypeOK
<1>4. approval[p] = "APPROVED" /\ CallOf[p] = c
  BY DEF Authorizes
<1>5. RequestInv(a)'
  BY <1>1, <1>3, <1>4 DEF RequestInv
<1>6. SnapshotInv(a)'
  BY <1>1, <1>3 DEF SnapshotInv
<1>7. ResultInv(a)'
  BY <1>1, <1>3 DEF ResultInv
<1> QED
  BY <1>1, <1>2, <1>5, <1>6, <1>7, ActorStep

\* execute, up to its candidate timestamp, preserves the invariant.
LEMMA StartExecuteStep ==
    ASSUME IInv, NEW a \in Actors, NEW p \in Approvals, NEW c \in Calls,
           StartExecute(a, p, c)
    PROVE  IInv'
<1>1. CASE ~Authorizes(p, c)
  BY <1>1, Refuses DEF StartExecute, Refuse, Outcome
<1>2. CASE Authorizes(p, c)
  <2>1. PICK now \in Now : actor' = [actor EXCEPT ![a] = Started("candidate", c, p, now, 0)]
    BY <1>2 DEF StartExecute
  <2>2. now \in Nat /\ 0 \in Int
    BY NowIsNat DEF IInv
  <2>3. UNCHANGED <<approval, ledger, clock, journal>>
    BY DEF StartExecute
  <2> QED
    BY <1>2, <2>1, <2>2, <2>3, Starts
<1> QED BY <1>1, <1>2

\* recover, up to its authorization, preserves the invariant.
LEMMA StartRecoverStep ==
    ASSUME IInv, NEW a \in Actors, NEW p \in Approvals, NEW c \in Calls,
           StartRecover(a, p, c)
    PROVE  IInv'
<1>1. CASE ~Authorizes(p, c)
  BY <1>1, Refuses DEF StartRecover, Refuse, Outcome
<1>2. CASE Authorizes(p, c)
  <2>1. PICK now \in Now : actor' = [actor EXCEPT ![a] =
                              Started("recovering", c, p, 0, now - StaleAfter)]
    BY <1>2 DEF StartRecover
  <2>2. now - StaleAfter \in Int /\ 0 \in Nat
    BY NowIsNat, ConstantsAssumption DEF IInv
  <2>3. UNCHANGED <<approval, ledger, clock, journal>>
    BY DEF StartRecover
  <2> QED
    BY <1>2, <2>1, <2>2, <2>3, Starts
<1> QED BY <1>1, <1>2

\* The row an actor reads before it claims.
LEMMA ReadRowStep ==
    ASSUME IInv, NEW a \in Actors, ReadRow(a)
    PROVE  IInv'
<1> DEFINE x == [actor[a] EXCEPT !.pc = "absent"]
<1>0. actor[a].call \in Calls
  BY DEF ReadRow, IInv, RequestInv
<1>1. CASE ledger[actor[a].call].status # "ABSENT"
  BY <1>0, <1>1, Replays DEF ReadRow
<1>2. CASE ledger[actor[a].call].status = "ABSENT"
  <2>1. actor' = [actor EXCEPT ![a] = x] /\ actor'[a] = x
    BY <1>2 DEF ReadRow, IInv, TypeOK
  <2>2. actor[a] \in ActorState
    BY DEF IInv, TypeOK
  <2>3. /\ x \in ActorState /\ x.pc = "absent" /\ x.call = actor[a].call
        /\ x.appr = actor[a].appr /\ x.outcome = actor[a].outcome
    BY <2>2 DEF ActorState, PC
  <2>4. UNCHANGED <<approval, ledger, clock, journal>>
    BY DEF ReadRow
  <2>5. RequestInv(a)' /\ SnapshotInv(a)' /\ ResultInv(a)'
    BY <2>1, <2>3, <2>4 DEF ReadRow, IInv, RequestInv, SnapshotInv, ResultInv
  <2> HIDE DEF x
  <2> QED
    BY <2>1, <2>3, <2>4, <2>5, ActorStep
<1> QED BY <1>1, <1>2

\* The read of the row a recovery decides on preserves the invariant.
LEMMA ReadForRecoveryStep ==
    ASSUME IInv, NEW a \in Actors, ReadForRecovery(a)
    PROVE  IInv'
<1> DEFINE c == actor[a].call
           row == ledger[c]
<1>0. /\ c \in Calls /\ row \in Row /\ actor[a] \in ActorState
      /\ actor[a].pc = "recovering" /\ actor[a].outcome = "none"
      /\ UNCHANGED <<approval, ledger, clock, journal>>
  BY DEF ReadForRecovery, IInv, RequestInv, ResultInv, TypeOK
<1>1. \/ End(a, "ReplayBlocked", 0)
      \/ End(a, "IdentityConflict", 0)
      \/ \E now \in Now : actor' = [actor EXCEPT ![a].pc = "candidate", ![a].stamp = now]
      \/ /\ Recoverable(c) /\ row.status \in {"EXECUTING", "UNKNOWN"}
         /\ row.appr = actor[a].appr
         /\ actor' = [actor EXCEPT ![a] = Snapshot(actor[a], row)]
  BY <1>0 DEF ReadForRecovery
<1>2. CASE End(a, "ReplayBlocked", 0) \/ End(a, "IdentityConflict", 0)
  BY <1>0, <1>2, Ends DEF Outcome
<1>3. CASE \E now \in Now : actor' = [actor EXCEPT ![a].pc = "candidate", ![a].stamp = now]
  <2>1. PICK now \in Now : actor' = [actor EXCEPT ![a].pc = "candidate", ![a].stamp = now]
    BY <1>3
  <2> DEFINE x == [actor[a] EXCEPT !.pc = "candidate", !.stamp = now]
  <2>2. actor' = [actor EXCEPT ![a] = x] /\ actor'[a] = x /\ now \in Nat
    BY <2>1, NowIsNat DEF IInv, TypeOK
  <2>3. /\ x \in ActorState /\ x.pc = "candidate" /\ x.call = c
        /\ x.appr = actor[a].appr /\ x.outcome = "none"
    BY <1>0, <2>2 DEF ActorState, PC
  <2>4. RequestInv(a)' /\ SnapshotInv(a)' /\ ResultInv(a)'
    BY <1>0, <2>2, <2>3 DEF IInv, RequestInv, SnapshotInv, ResultInv
  <2> HIDE DEF x
  <2> QED
    BY <1>0, <2>2, <2>3, <2>4, ActorStep
<1>4. CASE /\ Recoverable(c) /\ row.status \in {"EXECUTING", "UNKNOWN"}
           /\ row.appr = actor[a].appr
           /\ actor' = [actor EXCEPT ![a] = Snapshot(actor[a], row)]
  <2> DEFINE x == Snapshot(actor[a], row)
  <2>1. actor' = [actor EXCEPT ![a] = x] /\ actor'[a] = x
    BY <1>4 DEF IInv, TypeOK
  <2>2. /\ x \in ActorState /\ x.pc = "stale" /\ x.call = c /\ x.seen = row.status
        /\ x.appr = actor[a].appr /\ x.outcome = "none"
    BY <1>0, SnapshotState
  <2>3. RequestInv(a)' /\ SnapshotInv(a)' /\ ResultInv(a)'
    BY <1>0, <1>4, <2>1, <2>2 DEF IInv, RequestInv, SnapshotInv, ResultInv, Recoverable
  <2> HIDE DEF x
  <2> QED
    BY <1>0, <2>1, <2>2, <2>3, ActorStep
<1> QED BY <1>1, <1>2, <1>3, <1>4

\* Time and decisions: an APPROVED Approval stays APPROVED.
LEMMA TickStep == IInv /\ Tick => IInv'
<1> SUFFICES ASSUME IInv, Tick PROVE IInv'
  OBVIOUS
<1>1. TypeOK'
  BY DEF IInv, TypeOK, Tick
<1>2. (\A c \in Calls : RowInv(c)') /\ SeparateHolders'
  BY DEF IInv, Tick, RowInv, SeparateHolders, Holding
<1>3. \A a \in Actors : RequestInv(a)' /\ SnapshotInv(a)' /\ HolderInv(a)' /\ ResultInv(a)'
  BY DEF IInv, Tick, RequestInv, SnapshotInv, HolderInv, ResultInv, Holding, Recoverable
<1> QED BY <1>1, <1>2, <1>3 DEF IInv

\* A human decision never touches an Approval that a row already rests on.
LEMMA DecideStep ==
    ASSUME IInv, NEW p \in Approvals, Decide(p)
    PROVE  IInv'
<1>0. /\ \A q \in Approvals : approval[q] = "APPROVED" => approval'[q] = "APPROVED"
      /\ UNCHANGED <<ledger, actor, clock, journal>>
  BY DEF Decide, IInv, TypeOK
<1>1. TypeOK'
  BY DEF IInv, TypeOK, Decide, ApprovalStatus
<1>2. (\A c \in Calls : RowInv(c)') /\ SeparateHolders'
  BY <1>0 DEF IInv, RowInv, SeparateHolders, Holding
<1>3. \A a \in Actors : RequestInv(a)' /\ SnapshotInv(a)' /\ HolderInv(a)' /\ ResultInv(a)'
  BY <1>0 DEF IInv, RequestInv, SnapshotInv, HolderInv, ResultInv, Holding, Recoverable
<1> QED BY <1>1, <1>2, <1>3 DEF IInv

\* A committed claim, whether or not its acknowledgement arrives: the new
\* attempt is the latest and its timestamp is above every older claim's.
LEMMA CommittedClaim ==
    ASSUME IInv, NEW a \in Actors, NEW t \in Nat,
           actor[a].pc \in {"absent", "stale"},
           CommitClaim(actor[a].call, actor[a].appr, t),
           \/ HoldClaim(a, actor[a].call, t)
           \/ End(a, "PersistenceUncertain", 0),
           ledger[actor[a].call].status # "ABSENT" =>
             /\ Mode[actor[a].call] # "NONE"
             /\ ledger[actor[a].call].status \in {"EXECUTING", "UNKNOWN"}
             /\ ledger[actor[a].call].appr = actor[a].appr
             /\ ledger[actor[a].call].updated < t,
           UNCHANGED <<approval, clock>>
    PROVE  IInv'
<1> DEFINE c == actor[a].call
           p == actor[a].appr
           row == [status |-> "EXECUTING", appr |-> p, updated |-> t, result |-> 0]
           new == [appr |-> p, answer |-> "none", effect |-> FALSE]
           n == Len(journal[c])
<1>1. /\ c \in Calls /\ p \in Approvals /\ approval[p] = "APPROVED" /\ CallOf[p] = c
      /\ actor[a] \in ActorState /\ actor[a].outcome = "none"
      /\ journal[c] \in Seq(Attempt) /\ n \in Nat
  BY DEF IInv, RequestInv, ResultInv, TypeOK
<1>2. /\ ledger'[c] = row /\ \A d \in Calls \ {c} : ledger'[d] = ledger[d]
      /\ row \in Row /\ ledger' \in [Calls -> Row]
  BY <1>1 DEF CommitClaim, IInv, TypeOK, Row, ExecutionStatus
<1>3. new \in Attempt /\ new.appr = p /\ new.answer = "none" /\ ~new.effect
  BY <1>1 DEF Attempt, Answer
<1>4. /\ journal'[c] = Append(journal[c], new)
      /\ \A d \in Calls \ {c} : journal'[d] = journal[d]
      /\ journal' \in [Calls -> Seq(Attempt)]
  <2> HIDE DEF new
  <2>1. journal' = [journal EXCEPT ![c] = Append(journal[c], new)]
    BY DEF CommitClaim, new
  <2> QED
    BY <1>1, <1>3, <2>1, HistoryAppend DEF IInv, TypeOK
<1>5. /\ Len(journal'[c]) = n + 1 /\ journal'[c][n + 1] = new
      /\ \A j \in 1 .. n : journal'[c][j] = journal[c][j]
  <2> HIDE DEF new
  <2> QED
    BY <1>1, <1>3, <1>4, HistoryAppend
<1>6. /\ actor'[a] \in ActorState
      /\ actor'[a].call = c /\ actor'[a].outcome # "Result"
      /\ actor'[a].pc \in {"won", "done"}
      /\ actor'[a].pc = "won" => /\ actor'[a].appr = p /\ actor'[a].stamp = t
                                 /\ actor'[a].attempt = n + 1
                                 /\ actor'[a].outcome = "none"
      /\ \A b \in Actors \ {a} : actor'[b] = actor[b]
      /\ actor' \in [Actors -> ActorState]
  <2>1. CASE HoldClaim(a, c, t)
    <3> DEFINE x == Holder(actor[a], t, n + 1)
    <3>1. actor' = [actor EXCEPT ![a] = x]
      BY <2>1 DEF HoldClaim, IInv, TypeOK
    <3>2. /\ x \in ActorState /\ x.call = c /\ x.outcome = "none" /\ x.pc = "won"
          /\ x.appr = p /\ x.stamp = t /\ x.attempt = n + 1
      <4>1. n + 1 \in Nat
        BY <1>1
      <4>2. PICK m \in Nat : m = n + 1
        BY <4>1
      <4>3. /\ Holder(actor[a], t, m) \in ActorState
            /\ Holder(actor[a], t, m).pc = "won"
            /\ Holder(actor[a], t, m).stamp = t
            /\ Holder(actor[a], t, m).attempt = m
            /\ Holder(actor[a], t, m).call = actor[a].call
            /\ Holder(actor[a], t, m).appr = actor[a].appr
            /\ Holder(actor[a], t, m).outcome = actor[a].outcome
        <5>1. actor[a] \in ActorState /\ m \in Nat /\ t \in Nat
          BY <1>1, <4>2
        <5>2. PICK z \in ActorState : z = actor[a]
          BY <5>1
        <5>3. /\ Holder(z, t, m) \in ActorState /\ Holder(z, t, m).pc = "won"
              /\ Holder(z, t, m).stamp = t /\ Holder(z, t, m).attempt = m
              /\ Holder(z, t, m).call = z.call /\ Holder(z, t, m).appr = z.appr
              /\ Holder(z, t, m).outcome = z.outcome
          BY <5>1, <5>2, HolderState
        <5> QED BY <5>2, <5>3, Zenon
      <4>4. x = Holder(actor[a], t, m)
        BY <4>2
      <4> HIDE DEF x
      <4>5. x.attempt = n + 1
        BY <4>2, <4>3, <4>4, Zenon
      <4> QED BY <1>1, <4>3, <4>4, <4>5, Zenon
    <3> HIDE DEF x
    <3> QED
      BY <3>1, <3>2 DEF IInv, TypeOK
  <2>2. CASE End(a, "PersistenceUncertain", 0)
    <3>1. /\ Ended(c, "PersistenceUncertain", 0) \in ActorState
          /\ Ended(c, "PersistenceUncertain", 0).pc = "done"
          /\ Ended(c, "PersistenceUncertain", 0).call = c
          /\ Ended(c, "PersistenceUncertain", 0).outcome = "PersistenceUncertain"
      BY <1>1, EndedState DEF Outcome
    <3> QED
      BY <2>2, <3>1 DEF End, IInv, TypeOK
  <2> QED BY <2>1, <2>2
<1>7. \A b \in Actors : Holding(b) /\ actor[b].call = c =>
         /\ actor[b].attempt \in 1 .. n
         /\ actor[b].stamp < t
  <2> SUFFICES ASSUME NEW b \in Actors, Holding(b), actor[b].call = c
               PROVE  actor[b].attempt \in 1 .. n /\ actor[b].stamp < t
    OBVIOUS
  <2>0. actor[b].stamp \in Nat /\ ledger[c].updated \in Nat
    BY <1>1 DEF IInv, TypeOK, Row, ActorState
  <2>1. actor[b].attempt \in 1 .. n /\ actor[b].stamp <= ledger[c].updated
    <3>1. HolderInv(b)
      BY DEF IInv
    <3> QED BY <2>0, <3>1 DEF HolderInv
  <2>2. ledger[c].status # "ABSENT"
    BY <1>1, <2>1 DEF IInv, RowInv
  <2> QED
    BY <2>0, <2>1, <2>2
<1> HIDE DEF row, new
<1>8. TypeOK'
  BY <1>2, <1>4, <1>6 DEF IInv, TypeOK
<1>9. ASSUME NEW d \in Calls PROVE RowInv(d)'
  <2>1. CASE d = c
    <3>1. RowInv(c)
      BY <1>1 DEF IInv
    <3>2. n > 0 => ledger[c].status # "ABSENT" /\ ledger[c].appr = p /\ Mode[c] # "NONE"
      BY <1>1, <3>1 DEF RowInv
    <3>3. \A i \in 1 .. n + 1 :
             /\ journal'[c][i].appr = p
             /\ journal'[c][i].effect => journal'[c][i].answer # "noeffect"
      <4>1. \A i \in 1 .. n :
               /\ journal[c][i].appr = p
               /\ journal[c][i].effect => journal[c][i].answer # "noeffect"
        BY <1>1, <3>1, <3>2 DEF RowInv
      <4>2. \A i \in 1 .. n + 1 : i \in 1 .. n \/ i = n + 1
        BY <1>1
      <4> QED
        BY <1>3, <1>5, <4>1, <4>2
    <3>4. /\ ledger'[c].status = "EXECUTING" /\ ledger'[c].appr = p
          /\ n + 1 # 0 /\ (Mode[c] = "NONE" => n + 1 <= 1)
      BY <1>1, <1>2, <3>2 DEF row
    <3>5. /\ ledger'[c].appr \in Approvals /\ approval'[ledger'[c].appr] = "APPROVED"
          /\ CallOf[ledger'[c].appr] = c
      BY <1>1, <3>4
    <3>6. PICK m \in Nat : m = n + 1
      BY <1>1
    <3>7. /\ Len(journal'[d]) = m /\ m # 0 /\ (Mode[d] = "NONE" => m <= 1)
          /\ \A i \in 1 .. m :
               /\ journal'[d][i].appr = p
               /\ journal'[d][i].effect => journal'[d][i].answer # "noeffect"
          /\ ledger'[d].status = "EXECUTING" /\ ledger'[d].appr = p
      BY <1>5, <2>1, <3>3, <3>4, <3>6
    <3> HIDE DEF c, n, p
    <3> QED
      BY <2>1, <3>5, <3>7 DEF RowInv
  <2>2. CASE d # c
    BY <1>2, <1>4, <2>2 DEF IInv, RowInv
  <2> QED BY <2>1, <2>2
<1>10. ASSUME NEW b \in Actors
       PROVE  RequestInv(b)' /\ SnapshotInv(b)' /\ HolderInv(b)' /\ ResultInv(b)'
  <2>0. /\ ledger'[c].status = "EXECUTING" /\ ledger'[c].appr = p
        /\ ledger'[c].updated = t
    BY <1>2 DEF row
  <2>1. CASE b = a
    <3>1. RequestInv(a)' /\ SnapshotInv(a)' /\ ResultInv(a)'
      BY <1>1, <1>6 DEF RequestInv, SnapshotInv, ResultInv
    <3>2. HolderInv(a)'
      <4>1. n + 1 \in 1 .. n + 1
        BY <1>1
      <4>2. CASE actor'[a].pc = "done"
        BY <4>2 DEF HolderInv, Holding
      <4>3. CASE actor'[a].pc = "won"
        BY <1>3, <1>5, <1>6, <2>0, <4>1, <4>3 DEF HolderInv, Holding
      <4> QED BY <1>6, <4>2, <4>3
    <3> QED BY <2>1, <3>1, <3>2
  <2>2. CASE b # a
    <3>0. actor'[b] = actor[b]
      BY <1>6, <2>2
    <3>1. RequestInv(b)'
      BY <3>0 DEF IInv, RequestInv
    <3>2. SnapshotInv(b)'
      BY <1>1, <1>2, <2>0, <3>0 DEF IInv, SnapshotInv, RequestInv, Recoverable
    <3>3. HolderInv(b)'
      <4>1. CASE actor[b].call = c /\ Holding(b)
        <5>1. /\ actor[b].attempt \in 1 .. n /\ actor[b].stamp < t
              /\ journal'[c][actor[b].attempt] = journal[c][actor[b].attempt]
          BY <1>5, <1>7, <4>1
        <5>2. actor[b].attempt \in 1 .. n + 1 /\ actor[b].attempt # n + 1
          BY <1>1, <5>1
        <5>3. HolderInv(b)
          BY DEF IInv
        <5>4. PICK i \in 1 .. n : i = actor[b].attempt
          BY <5>1
        <5>5. PICK m \in Nat : m = n + 1
          BY <1>1
        <5>6. /\ actor'[b].call = c /\ actor'[b].attempt = i
              /\ Len(journal'[c]) = m /\ i \in 1 .. m /\ i # m
              /\ actor'[b].stamp < ledger'[c].updated
          BY <1>5, <2>0, <3>0, <4>1, <5>1, <5>2, <5>4, <5>5
        <5>7. /\ actor[b].pc \in {"won", "effected"} => journal[c][i].answer = "none"
              /\ actor[b].pc = "won" => ~journal[c][i].effect
              /\ actor[b].pc = "answered" =>
                   actor[b].answer # "none" /\ journal[c][i].answer = actor[b].answer
          BY <4>1, <5>3, <5>4 DEF HolderInv
        <5>8. journal'[c][i] = journal[c][i]
          BY <5>1, <5>4
        <5> HIDE DEF c, n
        <5> QED
          BY <3>0, <5>6, <5>7, <5>8 DEF HolderInv
      <4>2. CASE actor[b].call # c /\ Holding(b)
        <5>1. actor[b].call \in Calls
          BY <4>2 DEF IInv, RequestInv, Holding
        <5> QED
          BY <1>2, <1>4, <3>0, <4>2, <5>1 DEF IInv, HolderInv, Holding
      <4>3. CASE ~Holding(b)
        BY <3>0, <4>3 DEF HolderInv, Holding
      <4> QED BY <4>1, <4>2, <4>3
    <3>4. ResultInv(b)'
      BY <1>1, <1>2, <3>0 DEF IInv, ResultInv
    <3> QED BY <3>1, <3>2, <3>3, <3>4
  <2> QED BY <2>1, <2>2
<1>11. SeparateHolders'
  <2> SUFFICES ASSUME NEW b \in Actors, NEW d \in Actors, b # d, Holding(b)', Holding(d)',
                      actor'[b].call = actor'[d].call
               PROVE  /\ actor'[b].attempt # actor'[d].attempt
                      /\ actor'[b].stamp # actor'[d].stamp
    BY DEF SeparateHolders
  <2>1. CASE b # a /\ d # a
    BY <1>6, <2>1 DEF IInv, SeparateHolders, Holding
  <2>2. CASE b = a
    BY <1>1, <1>6, <1>7, <2>2 DEF Holding, IInv, TypeOK, ActorState
  <2>3. CASE d = a
    BY <1>1, <1>6, <1>7, <2>3 DEF Holding, IInv, TypeOK, ActorState
  <2> QED BY <2>1, <2>2, <2>3
<1> QED
  BY <1>8, <1>9, <1>10, <1>11 DEF IInv

\* What the Tool did or said is noted in the holder's own attempt.
LEMMA NotedAttempt ==
    ASSUME IInv, NEW a \in Actors, Holding(a),
           NEW x \in ActorState, NEW c \in Calls, NEW n \in Nat, NEW new \in Attempt,
           c = actor[a].call, n = actor[a].attempt,
           actor' = [actor EXCEPT ![a] = x],
           x.call = c, x.attempt = n, x.appr = actor[a].appr, x.stamp = actor[a].stamp,
           x.outcome = "none", x.pc \in {"effected", "answered"},
           x.pc = "effected" => new.answer = "none",
           x.pc = "answered" => x.answer # "none" /\ new.answer = x.answer,
           new.appr = journal[c][n].appr,
           new.effect => new.answer # "noeffect",
           journal' = [journal EXCEPT ![c] = [journal[c] EXCEPT ![n] = new]],
           UNCHANGED <<approval, ledger, clock>>
    PROVE  IInv'
<1>1. /\ n \in 1 .. Len(journal[c]) /\ journal[c] \in Seq(Attempt)
      /\ actor[a] \in ActorState /\ actor[a].appr \in Approvals
      /\ approval[actor[a].appr] = "APPROVED" /\ CallOf[actor[a].appr] = c
  BY DEF IInv, HolderInv, RequestInv, TypeOK, Holding
<1>2. /\ journal'[c] \in Seq(Attempt) /\ Len(journal'[c]) = Len(journal[c])
      /\ journal'[c][n] = new
      /\ \A j \in 1 .. Len(journal[c]) : j # n => journal'[c][j] = journal[c][j]
      /\ \A d \in Calls : d # c => journal'[d] = journal[d]
      /\ journal' \in [Calls -> Seq(Attempt)]
  <2>1. journal'[c] = [journal[c] EXCEPT ![n] = new]
    BY DEF IInv, TypeOK
  <2>2. \A d \in Calls : d # c => journal'[d] = journal[d]
    BY DEF IInv, TypeOK
  <2>3. /\ journal'[c] \in Seq(Attempt) /\ Len(journal'[c]) = Len(journal[c])
        /\ journal'[c][n] = new
        /\ \A j \in 1 .. Len(journal[c]) : j # n => journal'[c][j] = journal[c][j]
    BY <1>1, <2>1, HistoryUpdate
  <2>4. journal' \in [Calls -> Seq(Attempt)]
    BY <2>1, <2>3 DEF IInv, TypeOK
  <2> QED BY <2>2, <2>3, <2>4
<1>3. actor'[a] = x /\ \A b \in Actors : b # a => actor'[b] = actor[b]
  BY DEF IInv, TypeOK
<1>4. TypeOK'
  BY <1>2 DEF IInv, TypeOK
<1>5. ASSUME NEW d \in Calls PROVE RowInv(d)'
  <2>1. CASE d = c
    <3>1. RowInv(c)
      BY DEF IInv
    <3>2. n = Len(journal[c]) => ledger[c].status = "EXECUTING"
      BY DEF IInv, HolderInv
    <3>3. \A i \in 1 .. Len(journal[c]) :
            /\ journal'[c][i].appr = ledger[c].appr
            /\ journal'[c][i].effect => journal'[c][i].answer # "noeffect"
      <4>1. \A i \in 1 .. Len(journal[c]) :
              /\ journal[c][i].appr = ledger[c].appr
              /\ journal[c][i].effect => journal[c][i].answer # "noeffect"
        BY <3>1 DEF RowInv
      <4>2. new.appr = ledger[c].appr
        BY <1>1, <4>1
      <4>3. ASSUME NEW i \in 1 .. Len(journal[c])
            PROVE  /\ journal'[c][i].appr = ledger[c].appr
                   /\ journal'[c][i].effect => journal'[c][i].answer # "noeffect"
        <5>1. CASE i = n
          <6>1. journal'[c][i] = new
            BY <1>2, <5>1
          <6> QED BY <4>2, <6>1
        <5>2. CASE i # n
          <6>1. journal'[c][i] = journal[c][i]
            BY <1>2, <5>2
          <6> QED BY <4>1, <6>1
        <5> QED BY <5>1, <5>2
      <4> QED BY <4>3
    <3>4. ledger[c].status \in {"SUCCEEDED", "FAILED", "UNKNOWN"} =>
            journal'[c][Len(journal[c])] = journal[c][Len(journal[c])]
      BY <1>1, <1>2, <3>2
    <3>5. PICK m \in Nat : m = Len(journal[c])
      BY <1>1
    <3>6. /\ Len(journal'[c]) = m /\ ledger' = ledger /\ approval' = approval
          /\ ledger[c].status = "ABSENT" <=> m = 0
          /\ Mode[c] = "NONE" => m <= 1
          /\ ledger[c].status # "ABSENT" =>
               /\ ledger[c].appr \in Approvals
               /\ approval[ledger[c].appr] = "APPROVED"
               /\ CallOf[ledger[c].appr] = c
      BY <1>2, <3>1, <3>5 DEF RowInv
    <3>7. ledger[c].status \in {"SUCCEEDED", "FAILED", "UNKNOWN"} =>
            /\ ledger[c].status = TerminalStatus(journal'[c][m].answer)
            /\ journal'[c][m].answer # "none"
            /\ ledger[c].status = "SUCCEEDED" => ledger[c].result = m
      BY <3>1, <3>4, <3>5 DEF RowInv
    <3>8. \A i \in 1 .. m :
            /\ journal'[c][i].appr = ledger[c].appr
            /\ journal'[c][i].effect => journal'[c][i].answer # "noeffect"
      BY <3>3, <3>5
    <3>9. RowInv(c)'
      BY <3>6, <3>7, <3>8 DEF RowInv
    <3> QED
      BY <2>1, <3>9
  <2>2. CASE d # c
    BY <1>2, <2>2 DEF IInv, RowInv
  <2> QED BY <2>1, <2>2
<1>6. ASSUME NEW b \in Actors
      PROVE  RequestInv(b)' /\ SnapshotInv(b)' /\ HolderInv(b)' /\ ResultInv(b)'
  <2>1. CASE b = a
    <3>1. RequestInv(a)' /\ SnapshotInv(a)' /\ ResultInv(a)'
      BY <1>1, <1>3 DEF RequestInv, SnapshotInv, ResultInv
    <3>2. /\ actor'[a].call = c /\ actor'[a].attempt = n /\ actor'[a].pc = x.pc
          /\ actor'[a].stamp = actor[a].stamp /\ actor'[a].answer = x.answer
          /\ x.pc # "won"
      BY <1>3
    <3>3. IF n = Len(journal[c])
            THEN ledger[c].status = "EXECUTING" /\ ledger[c].updated = actor[a].stamp
            ELSE actor[a].stamp < ledger[c].updated
      BY DEF IInv, HolderInv
    <3>4. /\ x.pc \in {"won", "effected"} => new.answer = "none"
          /\ x.pc = "answered" => x.answer # "none" /\ new.answer = x.answer
      OBVIOUS
    <3>5. n \in 1 .. Len(journal'[c]) /\ Len(journal'[c]) = Len(journal[c])
          /\ journal'[c][n] = new /\ ledger' = ledger
      BY <1>1, <1>2
    <3>6. HolderInv(a)'
      BY <3>2, <3>3, <3>4, <3>5 DEF HolderInv
    <3> QED BY <2>1, <3>1, <3>6
  <2>2. CASE b # a
    <3>0. actor'[b] = actor[b]
      BY <1>3, <2>2
    <3>1. RequestInv(b)' /\ SnapshotInv(b)' /\ ResultInv(b)'
      BY <3>0 DEF IInv, RequestInv, SnapshotInv, ResultInv, Recoverable
    <3>2. HolderInv(b)'
      <4>1. CASE Holding(b) /\ actor[b].call = c
        <5>1. HolderInv(b) /\ actor[b].attempt # n
          BY <2>2, <4>1 DEF IInv, SeparateHolders
        <5>2. /\ actor[b].attempt \in 1 .. Len(journal[c])
              /\ journal'[c][actor[b].attempt] = journal[c][actor[b].attempt]
          BY <1>2, <4>1, <5>1 DEF HolderInv
        <5>3. Len(journal'[c]) = Len(journal[c]) /\ ledger' = ledger
          BY <1>2
        <5> QED
          BY <3>0, <4>1, <5>1, <5>2, <5>3 DEF HolderInv, Holding
      <4>2. CASE Holding(b) /\ actor[b].call # c
        <5>1. HolderInv(b) /\ actor[b].call \in Calls
          BY <4>2 DEF IInv, RequestInv, Holding
        <5> QED
          BY <1>2, <3>0, <4>2, <5>1 DEF HolderInv, Holding
      <4>3. CASE ~Holding(b)
        BY <3>0, <4>3 DEF HolderInv, Holding
      <4> QED BY <4>1, <4>2, <4>3
    <3> QED BY <3>1, <3>2
  <2> QED BY <2>1, <2>2
<1>7. SeparateHolders'
  <2>1. ASSUME NEW b \in Actors
        PROVE  /\ Holding(b)' => Holding(b)
               /\ actor'[b].call = actor[b].call /\ actor'[b].attempt = actor[b].attempt
               /\ actor'[b].stamp = actor[b].stamp
    BY <1>3 DEF Holding
  <2> QED
    BY <2>1 DEF IInv, SeparateHolders
<1> QED
  BY <1>4, <1>5, <1>6, <1>7 DEF IInv

\* The holder writes its answer into the row it still holds.
LEMMA Finished ==
    ASSUME IInv, NEW a \in Actors, NEW c \in Calls, c = actor[a].call,
           actor[a].pc = "answered", StillHeld(ledger[c], a),
           NEW t \in Nat, NEW r \in Nat, NEW o \in Outcome, NEW q \in Nat,
           t >= actor[a].stamp,
           actor[a].answer = "ok" => r = actor[a].attempt,
           o = "Result" => actor[a].answer = "ok" /\ q = r,
           ledger' = [ledger EXCEPT ![c] =
                        Written(ledger[c], TerminalStatus(actor[a].answer), t, r)],
           actor' = [actor EXCEPT ![a] = Ended(c, o, q)],
           UNCHANGED <<approval, clock, journal>>
    PROVE  IInv'
<1> DEFINE n == Len(journal[c])
           status == TerminalStatus(actor[a].answer)
<1>0. HolderInv(a) /\ RequestInv(a) /\ actor[a] \in ActorState /\ ledger[c] \in Row
  BY DEF IInv, TypeOK
<1>1. /\ n \in Nat \ {0} /\ actor[a].attempt \in 1 .. n
      /\ ledger[c].updated = actor[a].stamp /\ ledger[c].status = "EXECUTING"
      /\ actor[a].attempt = n
      /\ journal[c][n].answer = actor[a].answer /\ actor[a].answer # "none"
  BY <1>0 DEF HolderInv, Holding, StillHeld, ActorState, Row
<1>2. status \in {"SUCCEEDED", "FAILED", "UNKNOWN"}
      /\ (status = "SUCCEEDED" <=> actor[a].answer = "ok")
  BY DEF TerminalStatus
<1>3. /\ ledger' \in [Calls -> Row]
      /\ ledger'[c].status = status /\ ledger'[c].updated = t /\ ledger'[c].result = r
      /\ ledger'[c].appr = ledger[c].appr
      /\ \A d \in Calls : d # c => ledger'[d] = ledger[d]
  <2> HIDE DEF status
  <2>1. ledger' = [ledger EXCEPT ![c] = Written(ledger[c], status, t, r)]
    BY DEF status
  <2>2. status \in ExecutionStatus /\ ledger[c] \in Row
    BY <1>0, <1>2 DEF ExecutionStatus
  <2> HIDE DEF status
  <2>3. LET y == Written(ledger[c], status, t, r)
        IN  /\ y \in Row /\ y.status = status /\ y.updated = t /\ y.result = r
            /\ y.appr = ledger[c].appr
    BY <2>2, WrittenRow
  <2> QED
    BY <2>1, <2>3 DEF IInv, TypeOK
<1>4. /\ Ended(c, o, q) \in ActorState /\ Ended(c, o, q).pc = "done"
      /\ Ended(c, o, q).call = c /\ Ended(c, o, q).outcome = o /\ Ended(c, o, q).result = q
  BY EndedState
<1>5. actor'[a] = Ended(c, o, q) /\ \A b \in Actors : b # a => actor'[b] = actor[b]
  BY DEF IInv, TypeOK
<1>6. TypeOK'
  BY <1>3, <1>4 DEF IInv, TypeOK
<1>7. ASSUME NEW d \in Calls PROVE RowInv(d)'
  <2>1. CASE d = c
    <3>1. RowInv(c)
      BY DEF IInv
    <3> HIDE DEF status
    <3>2. status = TerminalStatus(journal[c][n].answer) /\ (status = "SUCCEEDED" => r = n)
      BY <1>1, <1>2 DEF status
    <3> QED
      BY <1>1, <1>2, <1>3, <2>1, <3>1, <3>2 DEF RowInv
  <2>2. CASE d # c
    BY <1>3, <2>2 DEF IInv, RowInv
  <2> QED BY <2>1, <2>2
<1>8. ASSUME NEW b \in Actors
      PROVE  RequestInv(b)' /\ SnapshotInv(b)' /\ HolderInv(b)' /\ ResultInv(b)'
  <2>1. CASE b = a
    <3>1. RequestInv(a)' /\ SnapshotInv(a)' /\ HolderInv(a)'
      BY <1>4, <1>5 DEF RequestInv, SnapshotInv, HolderInv, Holding
    <3>2. ResultInv(a)'
      BY <1>2, <1>3, <1>4, <1>5 DEF ResultInv
    <3> QED BY <2>1, <3>1, <3>2
  <2>2. CASE b # a
    <3>0. actor'[b] = actor[b]
      BY <1>5, <2>2
    <3>1. RequestInv(b)'
      BY <3>0 DEF IInv, RequestInv
    <3>2. SnapshotInv(b)'
      BY <1>2, <1>3, <3>0 DEF IInv, SnapshotInv, RequestInv, Recoverable
    <3>3. HolderInv(b)'
      <4>1. CASE Holding(b) /\ actor[b].call = c
        <5>1. HolderInv(b) /\ actor[b].attempt # n /\ actor[b] \in ActorState
          BY <1>1, <2>2, <4>1 DEF IInv, SeparateHolders, Holding, TypeOK
        <5>2. actor[b].stamp < t
          BY <1>0, <1>1, <4>1, <5>1 DEF HolderInv, ActorState, Row
        <5>3. journal' = journal /\ ledger'[c].updated = t
          BY <1>3
        <5> HIDE DEF status
        <5> QED
          BY <3>0, <4>1, <5>1, <5>2, <5>3 DEF HolderInv, Holding
      <4>2. CASE Holding(b) /\ actor[b].call # c
        <5>1. HolderInv(b) /\ actor[b].call \in Calls
          BY <4>2 DEF IInv, RequestInv, Holding
        <5> QED
          BY <1>3, <3>0, <4>2, <5>1 DEF HolderInv, Holding
      <4>3. CASE ~Holding(b)
        BY <3>0, <4>3 DEF HolderInv, Holding
      <4> QED BY <4>1, <4>2, <4>3
    <3>4. ResultInv(b)'
      BY <1>1, <1>3, <3>0 DEF IInv, ResultInv
    <3> QED BY <3>1, <3>2, <3>3, <3>4
  <2> QED BY <2>1, <2>2
<1>9. SeparateHolders'
  BY <1>4, <1>5 DEF IInv, SeparateHolders, Holding
<1> QED
  BY <1>6, <1>7, <1>8, <1>9 DEF IInv

\* INSERT ... ON CONFLICT DO NOTHING preserves the invariant.
LEMMA ClaimStep ==
    ASSUME IInv, NEW a \in Actors, Claim(a)
    PROVE  IInv'
<1>1. actor[a].call \in Calls /\ actor[a] \in ActorState /\ actor[a].pc = "absent"
  BY DEF Claim, IInv, RequestInv, TypeOK
<1>2. CASE ledger[actor[a].call].status = "ABSENT"
  <2>1. actor[a].stamp \in Nat
    BY <1>1 DEF ActorState
  <2>2. /\ CommitClaim(actor[a].call, actor[a].appr, actor[a].stamp)
        /\ \/ HoldClaim(a, actor[a].call, actor[a].stamp)
           \/ End(a, "PersistenceUncertain", 0)
        /\ UNCHANGED <<approval, clock>>
    BY <1>2 DEF Claim
  <2> QED
    BY <1>1, <1>2, <2>1, <2>2, CommittedClaim
<1>3. CASE ledger[actor[a].call].status # "ABSENT"
  BY <1>1, <1>3, Replays DEF Claim
<1> QED BY <1>2, <1>3

\* The compare-and-set of claim_recovery preserves the invariant.
LEMMA ClaimRecoveryStep ==
    ASSUME IInv, NEW a \in Actors, ClaimRecovery(a)
    PROVE  IInv'
<1> DEFINE c == actor[a].call
<1>1. /\ c \in Calls /\ actor[a] \in ActorState /\ actor[a].pc = "stale"
      /\ SnapshotInv(a) /\ ledger[c] \in Row
  BY DEF ClaimRecovery, IInv, RequestInv, TypeOK
<1>2. CASE SameSnapshot(ledger[c], a)
  <2>1. PICK now \in Now :
          LET t == RecoveryStamp(now, actor[a].stamp) IN
          /\ CommitClaim(c, actor[a].appr, t)
          /\ HoldClaim(a, c, t) \/ End(a, "PersistenceUncertain", 0)
    BY <1>2 DEF ClaimRecovery
  <2> DEFINE t == RecoveryStamp(now, actor[a].stamp)
  <2>2. now \in Nat /\ actor[a].stamp \in Nat
    BY <1>1, NowIsNat DEF IInv, ActorState
  <2>3. t \in Nat /\ actor[a].stamp < t
    BY <2>2 DEF RecoveryStamp, Later
  <2>4. ledger[c].updated = actor[a].stamp /\ ledger[c].status = actor[a].seen
    BY <1>2 DEF SameSnapshot
  <2>5. /\ Mode[c] # "NONE" /\ ledger[c].appr = actor[a].appr
        /\ ledger[c].status \in {"EXECUTING", "UNKNOWN"}
    BY <1>1, <2>4 DEF SnapshotInv, Recoverable
  <2>6. UNCHANGED <<approval, clock>>
    BY DEF ClaimRecovery
  <2> HIDE DEF t
  <2>7. /\ CommitClaim(c, actor[a].appr, t)
        /\ HoldClaim(a, c, t) \/ End(a, "PersistenceUncertain", 0)
    BY <2>1 DEF t
  <2> QED
    BY <1>1, <2>3, <2>4, <2>5, <2>6, <2>7, CommittedClaim
<1>3. CASE ~SameSnapshot(ledger[c], a)
  BY <1>3, Ends DEF ClaimRecovery, Outcome
<1> QED BY <1>2, <1>3

\* The external operation preserves the invariant.
LEMMA EffectStep ==
    ASSUME IInv, NEW a \in Actors, Effect(a)
    PROVE  IInv'
<1> DEFINE c == actor[a].call
           n == actor[a].attempt
           x == [actor[a] EXCEPT !.pc = "effected"]
           new == [journal[c][n] EXCEPT !.effect = TRUE]
<1>1. /\ c \in Calls /\ Holding(a) /\ HolderInv(a) /\ actor[a] \in ActorState
      /\ actor[a].pc = "won" /\ actor[a].outcome = "none" /\ n \in Nat
      /\ journal[c] \in Seq(Attempt)
  BY DEF Effect, IInv, RequestInv, ResultInv, TypeOK, Holding, ActorState
<1>2. n \in 1 .. Len(journal[c]) /\ journal[c][n] \in Attempt
      /\ journal[c][n].answer = "none"
  BY <1>1 DEF HolderInv
<1>3. /\ new \in Attempt /\ new.answer = "none" /\ new.appr = journal[c][n].appr
  BY <1>2 DEF Attempt
<1>4. /\ x \in ActorState /\ x.pc = "effected" /\ x.call = c /\ x.attempt = n
      /\ x.appr = actor[a].appr /\ x.stamp = actor[a].stamp /\ x.outcome = "none"
  BY <1>1 DEF ActorState, PC
<1>5. /\ actor' = [actor EXCEPT ![a] = x]
      /\ journal' = [journal EXCEPT ![c] = [journal[c] EXCEPT ![n] = new]]
      /\ UNCHANGED <<approval, ledger, clock>>
  BY DEF Effect, IInv, TypeOK
<1> HIDE DEF c, n, x, new
<1> QED
  BY <1>1, <1>3, <1>4, <1>5, NotedAttempt DEF c, n

\* What the Tool returns or raises preserves the invariant.
LEMMA RespondStep ==
    ASSUME IInv, NEW a \in Actors, Respond(a)
    PROVE  IInv'
<1> DEFINE c == actor[a].call
           n == actor[a].attempt
<1>1. /\ c \in Calls /\ Holding(a) /\ HolderInv(a) /\ actor[a] \in ActorState
      /\ actor[a].outcome = "none" /\ n \in Nat /\ journal[c] \in Seq(Attempt)
      /\ actor[a].pc \in {"won", "effected"}
  BY DEF Respond, IInv, RequestInv, ResultInv, TypeOK, Holding, ActorState
<1>2. n \in 1 .. Len(journal[c]) /\ journal[c][n] \in Attempt
      /\ (actor[a].pc = "won" => ~journal[c][n].effect)
  BY <1>1 DEF HolderInv
<1>3. PICK said \in {"ok", "noeffect", "unknown"} :
        /\ said = "noeffect" => actor[a].pc = "won"
        /\ actor' = [actor EXCEPT ![a].pc = "answered", ![a].answer = said]
        /\ journal' = [journal EXCEPT ![c][n].answer = said]
  BY DEF Respond
<1> DEFINE x == [actor[a] EXCEPT !.pc = "answered", !.answer = said]
           new == [journal[c][n] EXCEPT !.answer = said]
<1>4. /\ new \in Attempt /\ new.answer = said /\ new.appr = journal[c][n].appr
      /\ new.effect = journal[c][n].effect
  BY <1>2 DEF Attempt, Answer
<1>5. /\ x \in ActorState /\ x.pc = "answered" /\ x.call = c /\ x.attempt = n
      /\ x.appr = actor[a].appr /\ x.stamp = actor[a].stamp /\ x.outcome = "none"
      /\ x.answer = said
  BY <1>1 DEF ActorState, PC, Answer
<1>6. /\ actor' = [actor EXCEPT ![a] = x]
      /\ journal' = [journal EXCEPT ![c] = [journal[c] EXCEPT ![n] = new]]
      /\ UNCHANGED <<approval, ledger, clock>>
  BY <1>3 DEF Respond, IInv, TypeOK
<1>7. new.effect => new.answer # "noeffect"
  BY <1>2, <1>3, <1>4
<1>8. x.answer # "none" /\ new.answer = x.answer /\ x.pc # "effected"
  BY <1>4, <1>5
<1> HIDE DEF c, n, x, new
<1> QED
  BY <1>1, <1>4, <1>5, <1>6, <1>7, <1>8, NotedAttempt DEF c, n

\* The fenced result write preserves the invariant.
LEMMA FinishStep ==
    ASSUME IInv, NEW a \in Actors, Finish(a)
    PROVE  IInv'
<1> DEFINE c == actor[a].call
           said == actor[a].answer
<1>1. /\ c \in Calls /\ actor[a] \in ActorState /\ actor[a].pc = "answered"
      /\ actor[a].stamp \in Nat /\ actor[a].attempt \in Nat
      /\ UNCHANGED <<approval, clock, journal>>
  BY DEF Finish, IInv, RequestInv, TypeOK, ActorState
<1>2. /\ FinishOutcome(said, "PersistenceUncertain") \in Outcome \ {"Result"}
      /\ FinishOutcome(said, "PersistenceConflict") \in Outcome \ {"Result"}
      /\ FinishOutcome(said, "Result") \in Outcome
      /\ FinishOutcome(said, "Result") = "Result" => said = "ok"
  BY DEF FinishOutcome, Outcome
<1>3. CASE StillHeld(ledger[c], a)
  <2>1. PICK r \in Nat :
          /\ r = IF said = "ok" THEN actor[a].attempt ELSE 0
          /\ \E now \in Now : ledger' = [ledger EXCEPT ![c] =
               Written(ledger[c], TerminalStatus(said), Later(actor[a].stamp, now), r)]
          /\ \/ End(a, FinishOutcome(said, "Result"), r)
             \/ End(a, FinishOutcome(said, "PersistenceUncertain"), 0)
    BY <1>1, <1>3 DEF Finish
  <2>2. PICK now \in Now : ledger' = [ledger EXCEPT ![c] =
               Written(ledger[c], TerminalStatus(said), Later(actor[a].stamp, now), r)]
    BY <2>1
  <2>3. PICK t \in Nat : t = Later(actor[a].stamp, now) /\ t >= actor[a].stamp
    BY <1>1, NowIsNat DEF IInv, Later
  <2>4. PICK o \in Outcome, q \in Nat : /\ actor' = [actor EXCEPT ![a] = Ended(c, o, q)]
                                        /\ o = "Result" => said = "ok" /\ q = r
    BY <1>2, <2>1 DEF End
  <2>5. ledger' = [ledger EXCEPT ![c] = Written(ledger[c], TerminalStatus(said), t, r)]
    BY <2>2, <2>3
  <2>6. said = "ok" => r = actor[a].attempt
    BY <2>1
  <2> QED
    BY <1>1, <1>3, <2>3, <2>4, <2>5, <2>6, Finished
<1>4. CASE ~StillHeld(ledger[c], a)
  <2>1. End(a, FinishOutcome(said, "PersistenceConflict"), 0)
        /\ UNCHANGED <<approval, ledger, clock, journal>>
    BY <1>4 DEF Finish
  <2> QED
    BY <1>2, <2>1, Ends
<1> QED BY <1>3, <1>4

\* Steps that only end a request.
LEMMA EndingStep ==
    ASSUME IInv, NEW a \in Actors,
           \/ RefuseInput(a) \/ ClaimRollsBack(a) \/ ClaimRecoveryRollsBack(a)
           \/ FinishRollsBack(a) \/ Crash(a) \/ NextRequest(a)
    PROVE  IInv'
<1>1. CASE RefuseInput(a) \/ ClaimRollsBack(a) \/ ClaimRecoveryRollsBack(a)
  BY <1>1, Ends DEF RefuseInput, ClaimRollsBack, ClaimRecoveryRollsBack, Outcome
<1>2. CASE FinishRollsBack(a)
  <2>1. FinishOutcome(actor[a].answer, "PersistenceUncertain") \in Outcome \ {"Result"}
    BY DEF FinishOutcome, Outcome
  <2> QED
    BY <1>2, <2>1, Ends DEF FinishRollsBack
<1>3. CASE Crash(a) \/ NextRequest(a)
  BY <1>3, Resets DEF Crash, NextRequest
<1> QED BY <1>1, <1>2, <1>3

\* A stuttering step preserves the invariant.
LEMMA StutterStep == IInv /\ UNCHANGED vars => IInv'
<1> SUFFICES ASSUME IInv, UNCHANGED vars PROVE IInv'
  OBVIOUS
<1> USE DEF vars
<1>1. TypeOK'
  BY DEF IInv, TypeOK
<1>2. (\A c \in Calls : RowInv(c)') /\ SeparateHolders'
  BY DEF IInv, RowInv, SeparateHolders, Holding
<1>3. \A a \in Actors : RequestInv(a)' /\ SnapshotInv(a)' /\ HolderInv(a)' /\ ResultInv(a)'
  BY DEF IInv, RequestInv, SnapshotInv, HolderInv, ResultInv, Holding, Recoverable
<1> QED BY <1>1, <1>2, <1>3 DEF IInv

\* Every step of the services, of the clock and of the humans preserves the invariant.
THEOREM NextPreserves == IInv /\ [Next]_vars => IInv'
<1> SUFFICES ASSUME IInv, [Next]_vars PROVE IInv'
  OBVIOUS
<1>1. CASE Tick
  BY <1>1, TickStep
<1>2. ASSUME NEW p \in Approvals, Decide(p) PROVE IInv'
  BY <1>2, DecideStep
<1>3. ASSUME NEW a \in Actors, Execute(a) PROVE IInv'
  BY <1>3, StartExecuteStep, ReadRowStep, ClaimStep, EndingStep DEF Execute
<1>4. ASSUME NEW a \in Actors, Recover(a) PROVE IInv'
  BY <1>4, StartRecoverStep, ReadForRecoveryStep, ClaimRecoveryStep, EndingStep DEF Recover
<1>5. ASSUME NEW a \in Actors, ExecuteClaimed(a) PROVE IInv'
  BY <1>5, EffectStep, RespondStep, FinishStep, EndingStep DEF ExecuteClaimed
<1>6. ASSUME NEW a \in Actors, Crash(a) \/ NextRequest(a) PROVE IInv'
  BY <1>6, EndingStep
<1>7. CASE UNCHANGED vars
  BY <1>7, StutterStep
<1> QED
  BY <1>1, <1>2, <1>3, <1>4, <1>5, <1>6, <1>7 DEF Next

\* IInv is an invariant of every behaviour.
THEOREM Invariance == Spec => []IInv
  BY InitEstablishes, NextPreserves, PTL DEF Spec

-----------------------------------------------------------------------------
\* Rows, locals and history keep their types.
THEOREM TypeCorrect == Spec => []TypeOK
<1>1. IInv => TypeOK
  BY DEF IInv
<1> QED BY Invariance, <1>1, PTL

\* A Tool that declares no idempotency is entered at most once per call.
THEOREM NoneRunsAtMostOnce == Spec => []NoneAtMostOnce
<1>1. IInv => NoneAtMostOnce
  BY DEF IInv, RowInv, NoneAtMostOnce
<1> QED BY Invariance, <1>1, PTL

\* All attempts at a call run under the one APPROVED Approval of its row.
THEOREM EveryAttemptApproved == Spec => []OneApprovalPerCall
<1>1. IInv => OneApprovalPerCall
  <2> SUFFICES ASSUME IInv, NEW c \in Calls, NEW i \in DOMAIN journal[c]
               PROVE  /\ journal[c][i].appr = ledger[c].appr
                      /\ approval[ledger[c].appr] = "APPROVED"
                      /\ CallOf[ledger[c].appr] = c
    BY DEF OneApprovalPerCall
  <2>1. journal[c] \in Seq(Attempt) /\ RowInv(c)
    BY DEF IInv, TypeOK
  <2>2. i \in 1 .. Len(journal[c]) /\ Len(journal[c]) # 0
    BY <2>1
  <2> QED BY <2>1, <2>2 DEF RowInv
<1> QED BY Invariance, <1>1, PTL

\* The fencing timestamp identifies the one live holder of a claim.
THEOREM ClaimsAreDistinct == Spec => []DistinctClaims
<1>1. IInv => DistinctClaims
  BY DEF IInv, SeparateHolders, DistinctClaims
<1> QED BY Invariance, <1>1, PTL

\* A terminal row is the answer to the latest claim, not to a superseded one.
THEOREM RowsTellLatestAttempt == Spec => []RowTellsLatestAttempt
<1>1. IInv => RowTellsLatestAttempt
  <2> SUFFICES ASSUME IInv, NEW c \in Calls,
                      ledger[c].status \in {"SUCCEEDED", "FAILED", "UNKNOWN"}
               PROVE  LET latest == Len(journal[c]) IN
                      /\ latest > 0
                      /\ ledger[c].status = TerminalStatus(journal[c][latest].answer)
                      /\ journal[c][latest].answer # "none"
                      /\ ledger[c].status = "SUCCEEDED" => ledger[c].result = latest
    BY DEF RowTellsLatestAttempt
  <2>1. RowInv(c) /\ Len(journal[c]) \in Nat
    BY DEF IInv, TypeOK
  <2> QED BY <2>1 DEF RowInv
<1> QED BY Invariance, <1>1, PTL

\* Whatever path a result took, it is the durable one.
THEOREM ResultsAreDurable == Spec => []ReturnedResultIsDurable
<1>1. IInv => ReturnedResultIsDurable
  BY DEF IInv, ResultInv, ReturnedResultIsDurable
<1> QED BY Invariance, <1>1, PTL

\* Without idempotency FAILED means that nothing happened outside.
THEOREM NoneFailedIsEffectFree == Spec => []NoneFailedMeansNoEffect
<1>1. IInv => NoneFailedMeansNoEffect
  <2> SUFFICES ASSUME IInv, NEW c \in Calls, Mode[c] = "NONE",
                      ledger[c].status = "FAILED", NEW i \in DOMAIN journal[c]
               PROVE  ~journal[c][i].effect
    BY DEF NoneFailedMeansNoEffect
  <2>1. RowInv(c) /\ journal[c] \in Seq(Attempt)
    BY DEF IInv, TypeOK
  <2>2. i \in 1 .. Len(journal[c]) /\ Len(journal[c]) <= 1 /\ i = Len(journal[c])
    BY <2>1 DEF RowInv
  <2>3. journal[c][i] \in Attempt
    BY <2>1, <2>2
  <2>4. journal[c][i].answer = "noeffect"
    BY <2>1, <2>2, <2>3 DEF RowInv, TerminalStatus, Attempt, Answer
  <2> QED BY <2>1, <2>2, <2>4 DEF RowInv
<1> QED BY Invariance, <1>1, PTL

-----------------------------------------------------------------------------
(***************************************************************************)
(* Action properties.                                                      *)
(***************************************************************************)

\* No step changes a SUCCEEDED or FAILED row.
THEOREM TerminalRowsNeverChange == Spec => TerminalRowsAreFinal
<1>1. ASSUME IInv, [Next]_vars, NEW c \in Calls, ledger[c].status \in {"SUCCEEDED", "FAILED"}
      PROVE  ledger'[c] = ledger[c]
  <2>1. ASSUME NEW a \in Actors, Claim(a) PROVE ledger'[c] = ledger[c]
    <3>1. CASE ledger[actor[a].call].status = "ABSENT"
      BY <1>1, <2>1, <3>1 DEF Claim, CommitClaim, IInv, TypeOK
    <3>2. CASE ledger[actor[a].call].status # "ABSENT"
      BY <2>1, <3>2 DEF Claim
    <3> QED BY <3>1, <3>2
  <2>2. ASSUME NEW a \in Actors, ClaimRecovery(a) PROVE ledger'[c] = ledger[c]
    <3>1. CASE SameSnapshot(ledger[actor[a].call], a)
      <4>1. SnapshotInv(a) /\ actor[a].pc = "stale"
        BY <1>1, <2>2 DEF ClaimRecovery, IInv
      <4>2. actor[a].call # c
        BY <1>1, <3>1, <4>1 DEF SnapshotInv, SameSnapshot
      <4> QED
        BY <1>1, <2>2, <3>1, <4>2 DEF ClaimRecovery, CommitClaim, IInv, TypeOK
    <3>2. CASE ~SameSnapshot(ledger[actor[a].call], a)
      BY <2>2, <3>2 DEF ClaimRecovery
    <3> QED BY <3>1, <3>2
  <2>3. ASSUME NEW a \in Actors, Finish(a) PROVE ledger'[c] = ledger[c]
    <3>1. CASE StillHeld(ledger[actor[a].call], a)
      BY <1>1, <2>3, <3>1 DEF Finish, StillHeld, IInv, TypeOK
    <3>2. CASE ~StillHeld(ledger[actor[a].call], a)
      BY <2>3, <3>2 DEF Finish
    <3> QED BY <3>1, <3>2
  <2>4. \/ \E a \in Actors : Claim(a) \/ ClaimRecovery(a) \/ Finish(a)
        \/ UNCHANGED ledger
    BY <1>1 DEF Next, Tick, Decide, Execute, Recover, ExecuteClaimed, StartExecute, ReadRow,
      RefuseInput, ClaimRollsBack, StartRecover, ReadForRecovery, ClaimRecoveryRollsBack,
      Effect, Respond, FinishRollsBack, Crash, NextRequest, vars
  <2> QED BY <2>1, <2>2, <2>3, <2>4
<1>2. IInv /\ [Next]_vars =>
        [\A c \in Calls : ledger[c].status \in {"SUCCEEDED", "FAILED"} =>
           ledger'[c] = ledger[c]]_vars
  BY <1>1
<1> QED BY Invariance, <1>2, PTL DEF Spec, TerminalRowsAreFinal

\* Only the first two steps of a recovery carry a cutoff.
LEMMA CutoffMoves ==
    ASSUME IInv, NEW a \in Actors,
           Execute(a) \/ Recover(a) \/ ExecuteClaimed(a) \/ Crash(a) \/ NextRequest(a),
           actor'[a].pc \in {"recovering", "stale"}
    PROVE  \/ \E now \in Now : actor'[a].cutoff = now - StaleAfter
           \/ actor[a].pc = "recovering" /\ actor'[a].cutoff = actor[a].cutoff
<1>0. actor \in [Actors -> ActorState] /\ actor[a] \in ActorState
  BY DEF IInv, TypeOK
<1>1. \A c, o, r : Ended(c, o, r).pc = "done"
  BY DEF Ended, NoRequest
<1>2. ASSUME NEW c, NEW o, NEW r, actor' = [actor EXCEPT ![a] = Ended(c, o, r)] PROVE FALSE
  BY <1>0, <1>1, <1>2
<1>3. ~\E o, r : End(a, o, r)
  BY <1>2 DEF End
<1>4. ~\E c, o : Refuse(a, c, o)
  BY <1>2 DEF Refuse
<1>5. ASSUME NEW p \in Approvals, NEW c \in Calls, StartRecover(a, p, c)
      PROVE  \E now \in Now : actor'[a].cutoff = now - StaleAfter
  <2>1. PICK now \in Now : actor' = [actor EXCEPT ![a] =
                              Started("recovering", c, p, 0, now - StaleAfter)]
    BY <1>4, <1>5 DEF StartRecover
  <2>2. now - StaleAfter \in Int /\ 0 \in Nat
    BY NowIsNat, ConstantsAssumption DEF IInv
  <2>3. actor'[a] = Started("recovering", c, p, 0, now - StaleAfter)
    BY <1>0, <2>1
  <2>4. Started("recovering", c, p, 0, now - StaleAfter).cutoff = now - StaleAfter
    BY <2>2, StartedState
  <2> QED BY <2>3, <2>4
<1>6. ASSUME NEW p \in Approvals, NEW c \in Calls, StartExecute(a, p, c) PROVE FALSE
  <2>1. PICK now \in Now : actor' = [actor EXCEPT ![a] = Started("candidate", c, p, now, 0)]
    BY <1>4, <1>6 DEF StartExecute
  <2>2. now \in Nat /\ 0 \in Int
    BY NowIsNat DEF IInv
  <2>3. actor'[a] = Started("candidate", c, p, now, 0)
    BY <1>0, <2>1
  <2> QED BY <2>2, <2>3, StartedState
<1>7. ASSUME ReadForRecovery(a)
      PROVE  actor[a].pc = "recovering" /\ actor'[a].cutoff = actor[a].cutoff
  <2>1. actor[a].pc = "recovering" /\ actor[a].call \in Calls
    BY <1>7 DEF ReadForRecovery, IInv, RequestInv
  <2>2. CASE actor' = [actor EXCEPT ![a] = Snapshot(@, ledger[actor[a].call])]
    <3>1. ledger[actor[a].call] \in Row
      BY <2>1 DEF IInv, TypeOK
    <3> QED BY <1>0, <2>1, <2>2, <3>1, SnapshotState
  <2>3. CASE \E now \in Now : actor' = [actor EXCEPT ![a].pc = "candidate", ![a].stamp = now]
    BY <1>0, <2>3 DEF ActorState
  <2> QED BY <1>3, <1>7, <2>2, <2>3 DEF ReadForRecovery
<1>8. ASSUME NEW c, NEW t, HoldClaim(a, c, t) PROVE FALSE
  <2>1. actor'[a] = Holder(actor[a], t, Len(journal[c]) + 1)
    BY <1>0, <1>8 DEF HoldClaim
  <2>2. Holder(actor[a], t, Len(journal[c]) + 1).pc = "won"
    BY <1>0 DEF Holder, ActorState
  <2> QED BY <2>1, <2>2
<1>9. ASSUME Effect(a) \/ Respond(a) \/ Crash(a) \/ NextRequest(a) PROVE FALSE
  BY <1>0, <1>9, NoRequestState DEF Effect, Respond, Crash, NextRequest, ActorState
<1>10. ASSUME ReadRow(a) PROVE FALSE
  BY <1>0, <1>3, <1>10 DEF ReadRow, Replay, ActorState
<1>11. ASSUME Claim(a) \/ ClaimRecovery(a) PROVE FALSE
  BY <1>3, <1>8, <1>11 DEF Claim, ClaimRecovery, Replay
<1>12. ASSUME \/ RefuseInput(a) \/ ClaimRollsBack(a) \/ ClaimRecoveryRollsBack(a)
              \/ Finish(a) \/ FinishRollsBack(a)
       PROVE  FALSE
  BY <1>3, <1>12 DEF RefuseInput, ClaimRollsBack, ClaimRecoveryRollsBack, Finish, FinishRollsBack
<1> QED
  BY <1>5, <1>6, <1>7, <1>9, <1>10, <1>11, <1>12 DEF Execute, Recover, ExecuteClaimed

\* stale_before stays StaleAfter behind the clock, which only advances.
LEMMA CutoffStep == IInv /\ CutoffInv /\ [Next]_vars => CutoffInv'
<1> SUFFICES ASSUME IInv, CutoffInv, [Next]_vars, NEW b \in Actors,
                    actor'[b].pc \in {"recovering", "stale"}
             PROVE  actor'[b].cutoff + StaleAfter <= clock'
  BY DEF CutoffInv
<1>0. /\ actor \in [Actors -> ActorState] /\ clock \in Nat /\ StaleAfter \in Nat
      /\ Skew \in Nat /\ actor[b] \in ActorState /\ actor[b].cutoff \in Int
  BY ConstantsAssumption DEF IInv, TypeOK, ActorState
<1>1. CASE actor'[b] = actor[b] /\ clock' \in {clock, clock + 1}
  BY <1>0, <1>1 DEF CutoffInv
<1>2. CASE /\ Execute(b) \/ Recover(b) \/ ExecuteClaimed(b) \/ Crash(b) \/ NextRequest(b)
           /\ clock' = clock
  <2>1. CASE \E now \in Now : actor'[b].cutoff = now - StaleAfter
    BY <1>0, <1>2, <2>1 DEF Now, Later
  <2>2. CASE actor[b].pc = "recovering" /\ actor'[b].cutoff = actor[b].cutoff
    BY <1>0, <1>2, <2>2 DEF CutoffInv
  <2> QED BY <1>2, <2>1, <2>2, CutoffMoves
<1>3. clock' \in {clock, clock + 1} /\ (~Tick => clock' = clock)
  BY DEF Next, Tick, Decide, Execute, Recover, ExecuteClaimed, StartExecute, ReadRow,
    RefuseInput, Claim, ClaimRollsBack, StartRecover, ReadForRecovery, ClaimRecovery,
    ClaimRecoveryRollsBack, Effect, Respond, Finish, FinishRollsBack, Crash, NextRequest, vars
<1>4. ASSUME NEW a \in Actors, a # b,
             Execute(a) \/ Recover(a) \/ ExecuteClaimed(a) \/ Crash(a) \/ NextRequest(a)
      PROVE  actor'[b] = actor[b]
  BY <1>0, <1>4 DEF Execute, Recover, ExecuteClaimed, StartExecute, ReadRow, RefuseInput,
    Claim, ClaimRollsBack, StartRecover, ReadForRecovery, ClaimRecovery,
    ClaimRecoveryRollsBack, Effect, Respond, Finish, FinishRollsBack, Crash, NextRequest,
    End, Refuse, Replay, HoldClaim
<1>5. \/ actor'[b] = actor[b]
      \/ /\ Execute(b) \/ Recover(b) \/ ExecuteClaimed(b) \/ Crash(b) \/ NextRequest(b)
         /\ ~Tick \/ actor'[b] = actor[b]
  BY <1>4 DEF Next, Tick, Decide, vars
<1> QED BY <1>1, <1>2, <1>3, <1>5

\* Every recovery compares with a stale_before that lies StaleAfter in the past.
LEMMA CutoffsHold == Spec => []CutoffInv
<1>1. Init => CutoffInv
  BY DEF Init, CutoffInv, NoRequest
<1> QED
  BY <1>1, CutoffStep, Invariance, PTL DEF Spec

\* The stamp of a recovery claim is strictly later than the one it replaces.
LEMMA StampAdvances ==
    ASSUME NEW s \in Nat, NEW t \in Nat
    PROVE  RecoveryStamp(t, s) \in Nat /\ RecoveryStamp(t, s) > s
  BY DEF RecoveryStamp, Later

\* A recovery takes over a row only when its last write is StaleAfter old, and
\* the timestamp that fences the previous holder moves strictly forward.
THEOREM TakeoversFence == Spec => TakeoverIsStaleAndFences
<1>1. ASSUME IInv, CutoffInv, [Next]_vars, NEW c \in Calls,
             Len(journal'[c]) > Len(journal[c]), ledger[c].status # "ABSENT"
      PROVE  /\ ledger[c].updated + StaleAfter <= clock
             /\ ledger'[c].updated > ledger[c].updated
  <2>0. /\ actor \in [Actors -> ActorState] /\ ledger \in [Calls -> Row]
        /\ journal \in [Calls -> Seq(Attempt)] /\ clock \in Nat /\ StaleAfter \in Nat
    BY <1>1, ConstantsAssumption DEF IInv, TypeOK
  <2>1. journal'[c] # journal[c]
    BY <1>1, <2>0
  <2>2. ASSUME NEW a \in Actors, Effect(a) \/ Respond(a) PROVE FALSE
    <3>1. /\ actor[a].call \in Calls /\ journal[actor[a].call] \in Seq(Attempt)
          /\ Holding(a) /\ HolderInv(a)
      BY <1>1, <2>0, <2>2 DEF IInv, RequestInv, Effect, Respond, Holding
    <3>2. actor[a].attempt \in 1 .. Len(journal[actor[a].call])
      BY <3>1 DEF HolderInv
    <3>3. ASSUME NEW f, journal' = [journal EXCEPT ![actor[a].call] =
                                      [journal[actor[a].call] EXCEPT ![actor[a].attempt] = f]]
          PROVE  FALSE
      <4> DEFINE s == journal[actor[a].call]
      <4>1. Len([s EXCEPT ![actor[a].attempt] = f]) = Len(s)
        BY <3>1, <3>2
      <4>2. Len(journal'[c]) = Len(journal[c])
        BY <2>0, <3>1, <3>3, <4>1
      <4> QED BY <1>1, <2>0, <4>2
    <3>4. CASE Effect(a)
      BY <3>3, <3>4 DEF Effect
    <3>5. CASE Respond(a)
      BY <3>3, <3>5 DEF Respond
    <3> QED BY <2>2, <3>4, <3>5
  <2>3. ASSUME NEW a \in Actors, Claim(a) PROVE FALSE
    <3>1. CASE ledger[actor[a].call].status = "ABSENT"
      BY <1>1, <2>0, <2>1, <2>3, <3>1 DEF Claim, CommitClaim
    <3>2. CASE ledger[actor[a].call].status # "ABSENT"
      BY <2>1, <2>3, <3>2 DEF Claim
    <3> QED BY <3>1, <3>2
  <2>4. ASSUME NEW a \in Actors, ClaimRecovery(a)
        PROVE  /\ ledger[c].updated + StaleAfter <= clock
               /\ ledger'[c].updated > ledger[c].updated
    <3>1. SameSnapshot(ledger[actor[a].call], a)
      BY <2>1, <2>4 DEF ClaimRecovery
    <3>2. PICK now \in Now : CommitClaim(actor[a].call, actor[a].appr,
                                         RecoveryStamp(now, actor[a].stamp))
      BY <2>4, <3>1 DEF ClaimRecovery
    <3>3. actor[a].call = c
      BY <2>0, <2>1, <3>2 DEF CommitClaim
    <3>4. /\ actor[a].stamp \in Nat /\ actor[a].cutoff \in Int /\ ledger[c] \in Row
          /\ actor[a].cutoff + StaleAfter <= clock
      BY <1>1, <2>0, <2>4 DEF CutoffInv, ActorState, ClaimRecovery
    <3>5. ledger[c].updated = actor[a].stamp /\ ledger[c].updated <= actor[a].cutoff
      BY <3>1, <3>3 DEF SameSnapshot
    <3>6. ledger'[c].updated = RecoveryStamp(now, actor[a].stamp)
      BY <2>0, <3>2, <3>3 DEF CommitClaim
    <3>7. RecoveryStamp(now, actor[a].stamp) > actor[a].stamp
      BY <1>1, <3>4, NowIsNat, StampAdvances DEF IInv
    <3> QED BY <2>0, <3>4, <3>5, <3>6, <3>7 DEF Row
  <2>5. \/ \E a \in Actors : Claim(a) \/ ClaimRecovery(a) \/ Effect(a) \/ Respond(a)
        \/ UNCHANGED journal
    BY <1>1 DEF Next, Tick, Decide, Execute, Recover, ExecuteClaimed, StartExecute, ReadRow,
      RefuseInput, ClaimRollsBack, StartRecover, ReadForRecovery, ClaimRecoveryRollsBack,
      Finish, FinishRollsBack, Crash, NextRequest, vars
  <2> QED BY <2>1, <2>2, <2>3, <2>4, <2>5
<1>2. IInv /\ CutoffInv /\ [Next]_vars =>
        [\A c \in Calls :
           Len(journal'[c]) > Len(journal[c]) /\ ledger[c].status # "ABSENT" =>
              /\ ledger[c].updated + StaleAfter <= clock
              /\ ledger'[c].updated > ledger[c].updated]_vars
  BY <1>1
<1> QED BY Invariance, CutoffsHold, <1>2, PTL DEF Spec, TakeoverIsStaleAndFences

-----------------------------------------------------------------------------
(***************************************************************************)
(* The ledger implements DurableExecution.                                 *)
(***************************************************************************)

\* What a reader of the database sees of a call.
Shown(c) == [status |-> ledger[c].status, appr |-> ledger[c].appr,
             claims |-> Len(journal[c]), tells |-> ledger[c].result]

Records == [c \in Calls |-> Shown(c)]

\* A step that changes one row shows one record changed.
LEMMA RecordMoves ==
    ASSUME NEW c \in Calls, NEW r, Shown(c)' = r,
           \A d \in Calls \ {c} : Shown(d)' = Shown(d)
    PROVE  Records' = [Records EXCEPT ![c] = r]
  BY DEF Records

\* A committed claim is a first claim or a repeated one.
LEMMA ClaimShown ==
    ASSUME IInv, NEW c \in Calls, NEW p \in Approvals, NEW t \in Nat,
           CommitClaim(c, p, t), UNCHANGED approval,
           approval[p] = "APPROVED", CallOf[p] = c,
           ledger[c].status # "ABSENT" =>
             /\ Recoverable(c)
             /\ ledger[c].status \in {"EXECUTING", "UNKNOWN"}
             /\ ledger[c].appr = p
    PROVE  Durable!Next
<1> DEFINE r == [status |-> "EXECUTING", appr |-> p, claims |-> Len(journal[c]) + 1, tells |-> 0]
           new == [appr |-> p, answer |-> "none", effect |-> FALSE]
<1>1. /\ ledger'[c] = [status |-> "EXECUTING", appr |-> p, updated |-> t, result |-> 0]
      /\ \A d \in Calls \ {c} : ledger'[d] = ledger[d] /\ journal'[d] = journal[d]
      /\ journal'[c] = Append(journal[c], new)
  BY DEF CommitClaim, IInv, TypeOK
<1>2. new \in Attempt /\ journal[c] \in Seq(Attempt)
  BY DEF Attempt, Answer, IInv, TypeOK
<1>3. Len(journal'[c]) = Len(journal[c]) + 1
  <2> HIDE DEF new
  <2> QED BY <1>1, <1>2, HistoryAppend
<1>4. Shown(c)' = r
  BY <1>1, <1>3 DEF Shown
<1>5. \A d \in Calls \ {c} : Shown(d)' = Shown(d)
  BY <1>1 DEF Shown
<1>6. Records' = [Records EXCEPT ![c] = r]
  <2> HIDE DEF r
  <2> QED BY <1>4, <1>5, RecordMoves
<1>7. /\ Records[c].status = ledger[c].status /\ Records[c].appr = ledger[c].appr
      /\ Records[c].claims = Len(journal[c])
  BY DEF Records, Shown
<1>8. CASE ledger[c].status = "ABSENT"
  <2>1. Durable!Claim(c, p)
    BY <1>6, <1>7, <1>8 DEF Durable!Claim, Durable!Hand, Records, Shown
  <2> QED BY <2>1 DEF Durable!Next
<1>9. CASE ledger[c].status # "ABSENT"
  <2>1. Durable!ClaimAgain(c)
    BY <1>6, <1>7, <1>9 DEF Durable!ClaimAgain, Durable!Hand, Records, Shown
  <2> QED BY <2>1 DEF Durable!Next
<1> QED BY <1>8, <1>9

\* The fenced result write tells of the latest claim.
LEMMA ResultShown ==
    ASSUME IInv, NEW a \in Actors, NEW c \in Calls, c = actor[a].call,
           Finish(a), StillHeld(ledger[c], a)
    PROVE  Durable!Next
<1> DEFINE said == actor[a].answer
           status == TerminalStatus(said)
           n == IF said = "ok" THEN actor[a].attempt ELSE 0
           r == [status |-> status, appr |-> Records[c].appr, claims |-> Records[c].claims,
                 tells |-> IF status = "SUCCEEDED" THEN Records[c].claims ELSE 0]
<1>1. /\ HolderInv(a) /\ Holding(a) /\ ledger[c] \in Row
      /\ actor[a] \in ActorState /\ UNCHANGED <<approval, journal>>
  BY DEF Finish, IInv, RequestInv, TypeOK, Holding
<1>2. PICK now \in Now :
        ledger' = [ledger EXCEPT ![c] = Written(ledger[c], status, Later(actor[a].stamp, now), n)]
  BY DEF Finish
<1>3. Later(actor[a].stamp, now) \in Nat /\ n \in Nat /\ status \in ExecutionStatus
  BY <1>1, NowIsNat DEF IInv, Later, ActorState, TerminalStatus, ExecutionStatus
<1>4. /\ ledger'[c] = Written(ledger[c], status, Later(actor[a].stamp, now), n)
      /\ \A d \in Calls \ {c} : ledger'[d] = ledger[d]
  BY <1>1, <1>2 DEF IInv, TypeOK
<1>5. /\ ledger'[c].status = status /\ ledger'[c].result = n
      /\ ledger'[c].appr = ledger[c].appr
  BY <1>1, <1>3, <1>4, WrittenRow
<1>6. said = "ok" => n = Len(journal[c])
  BY <1>1 DEF HolderInv, StillHeld, Row, ActorState, IInv, TypeOK
<1>7. (status = "SUCCEEDED" <=> said = "ok") /\ status \in {"SUCCEEDED", "FAILED", "UNKNOWN"}
  BY DEF TerminalStatus
<1>8. Records[c] = Shown(c) /\ Shown(c).status = "EXECUTING" /\ Shown(c).claims = Len(journal[c])
  BY <1>1 DEF Records, Shown, StillHeld
<1>9. r = [status |-> status, appr |-> ledger[c].appr, claims |-> Len(journal[c]), tells |-> n]
  BY <1>6, <1>7, <1>8 DEF Shown
<1>10. Shown(c)' = r
  <2> HIDE DEF r, n, status
  <2> QED BY <1>1, <1>5, <1>9 DEF Shown
<1>11. \A d \in Calls \ {c} : Shown(d)' = Shown(d)
  BY <1>1, <1>4 DEF Shown
<1>12. Records' = [Records EXCEPT ![c] = r]
  <2> HIDE DEF r
  <2> QED BY <1>1, <1>10, <1>11, RecordMoves
<1>13. Records[c].status = "EXECUTING" /\ UNCHANGED approval
  BY <1>1, <1>8
<1>14. PICK x \in {"SUCCEEDED", "FAILED", "UNKNOWN"} : x = status
  BY <1>7
<1>15. Durable!Tell(c, x)
  <2> HIDE DEF status
  <2> QED BY <1>12, <1>13, <1>14 DEF Durable!Tell, Records, Shown
<1> QED BY <1>15 DEF Durable!Next

\* Every step is a step of DurableExecution or changes nothing a reader sees.
LEMMA StepShown == IInv /\ [Next]_vars => [Durable!Next]_(Durable!durableVars)
<1> SUFFICES ASSUME IInv, [Next]_vars PROVE [Durable!Next]_<<approval, Records>>
  BY DEF Durable!durableVars, Records, Shown
<1>1. ASSUME NEW p \in Approvals, Decide(p) PROVE Durable!Next
  <2>1. Durable!Decide(p)
    BY <1>1 DEF Decide, Durable!Decide
  <2> QED BY <2>1 DEF Durable!Next
<1>2. ASSUME NEW a \in Actors, Claim(a) PROVE Durable!Next \/ UNCHANGED <<approval, Records>>
  <2>1. /\ actor[a].call \in Calls /\ actor[a].appr \in Approvals /\ actor[a].stamp \in Nat
        /\ approval[actor[a].appr] = "APPROVED" /\ CallOf[actor[a].appr] = actor[a].call
        /\ UNCHANGED approval
    BY <1>2 DEF Claim, IInv, RequestInv, TypeOK, ActorState
  <2>2. CASE ledger[actor[a].call].status = "ABSENT"
    BY <1>2, <2>1, <2>2, ClaimShown DEF Claim
  <2>3. CASE ledger[actor[a].call].status # "ABSENT"
    BY <1>2, <2>3 DEF Claim, Records, Shown
  <2> QED BY <2>2, <2>3
<1>3. ASSUME NEW a \in Actors, ClaimRecovery(a)
      PROVE  Durable!Next \/ UNCHANGED <<approval, Records>>
  <2>1. /\ actor[a].call \in Calls /\ actor[a].appr \in Approvals /\ actor[a].stamp \in Nat
        /\ approval[actor[a].appr] = "APPROVED" /\ CallOf[actor[a].appr] = actor[a].call
        /\ SnapshotInv(a) /\ actor[a].pc = "stale" /\ UNCHANGED approval
    BY <1>3 DEF ClaimRecovery, IInv, RequestInv, TypeOK, ActorState
  <2>2. CASE SameSnapshot(ledger[actor[a].call], a)
    <3>1. PICK now \in Now : CommitClaim(actor[a].call, actor[a].appr,
                                         RecoveryStamp(now, actor[a].stamp))
      BY <1>3, <2>2 DEF ClaimRecovery
    <3>2. RecoveryStamp(now, actor[a].stamp) \in Nat
      BY <2>1, NowIsNat, StampAdvances DEF IInv
    <3>3. /\ Recoverable(actor[a].call) /\ ledger[actor[a].call].appr = actor[a].appr
          /\ ledger[actor[a].call].status \in {"EXECUTING", "UNKNOWN"}
      BY <2>1, <2>2 DEF SnapshotInv, SameSnapshot
    <3> QED BY <2>1, <3>1, <3>2, <3>3, ClaimShown
  <2>3. CASE ~SameSnapshot(ledger[actor[a].call], a)
    BY <1>3, <2>3 DEF ClaimRecovery, Records, Shown
  <2> QED BY <2>2, <2>3
<1>4. ASSUME NEW a \in Actors, Finish(a) PROVE Durable!Next \/ UNCHANGED <<approval, Records>>
  <2>1. CASE StillHeld(ledger[actor[a].call], a)
    <3>1. actor[a].call \in Calls
      BY <1>4 DEF Finish, IInv, RequestInv
    <3> QED BY <1>4, <2>1, <3>1, ResultShown
  <2>2. CASE ~StillHeld(ledger[actor[a].call], a)
    BY <1>4, <2>2 DEF Finish, Records, Shown
  <2> QED BY <2>1, <2>2
<1>5. ASSUME NEW a \in Actors, Effect(a) \/ Respond(a) PROVE UNCHANGED <<approval, Records>>
  <2> DEFINE c == actor[a].call
             n == actor[a].attempt
  <2>1. /\ c \in Calls /\ journal[c] \in Seq(Attempt) /\ Holding(a) /\ HolderInv(a)
        /\ UNCHANGED <<approval, ledger>>
    BY <1>5 DEF IInv, TypeOK, RequestInv, Effect, Respond, Holding
  <2>2. PICK x : journal' = [journal EXCEPT ![c] = [journal[c] EXCEPT ![n] = x]]
    BY <1>5 DEF Effect, Respond
  <2>3. Len([journal[c] EXCEPT ![n] = x]) = Len(journal[c])
    BY <2>1
  <2>4. \A d \in Calls : Len(journal'[d]) = Len(journal[d])
    BY <2>1, <2>2, <2>3 DEF IInv, TypeOK
  <2> QED BY <2>1, <2>4 DEF Records, Shown
<1>6. \/ \E p \in Approvals : Decide(p)
      \/ \E a \in Actors : \/ Claim(a) \/ ClaimRecovery(a) \/ Finish(a)
                           \/ Effect(a) \/ Respond(a)
      \/ UNCHANGED <<approval, ledger, journal>>
  BY DEF Next, Tick, Execute, Recover, ExecuteClaimed, StartExecute, ReadRow, RefuseInput,
    ClaimRollsBack, StartRecover, ReadForRecovery, ClaimRecoveryRollsBack, FinishRollsBack,
    Crash, NextRequest, vars
<1>7. UNCHANGED <<approval, ledger, journal>> => UNCHANGED <<approval, Records>>
  BY DEF Records, Shown
<1> QED BY <1>1, <1>2, <1>3, <1>4, <1>5, <1>6, <1>7

\* The two services, for any number of requests, claims and crashes, run
\* DurableExecution for whoever reads the Approvals and the rows.
THEOREM DurableExecutionImplemented == Spec => ImplementsDurableExecution
<1>1. Init => Durable!Init
  BY DEF Init, NoRow, Durable!Init
<1> QED BY <1>1, StepShown, Invariance, PTL DEF Spec, ImplementsDurableExecution, Durable!Spec

=============================================================================
