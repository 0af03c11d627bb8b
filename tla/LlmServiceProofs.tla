---------------------------- MODULE LlmServiceProofs ----------------------------
(***************************************************************************)
(* Proofs about LlmService: IInv is inductive and implies its safety       *)
(* properties, for any numbers of threads and attempts, any jitter, and    *)
(* any bodies.                                                             *)
(***************************************************************************)
EXTENDS LlmService, FiniteSetTheorems, WellFoundedInduction, TLAPS

-----------------------------------------------------------------------------
(***************************************************************************)
(* Locals                                                                  *)
(***************************************************************************)

Places == {"idle", "waiting", "holding", "built", "ready", "sending",
           "pending", "sleeping", "answered", "raised", "ended"}

LEMMA NoResponseIsTyped ==
    NoResponse \in [content : {"text", "null"}, calls : Seq(RawCall)]
BY DEF NoResponse

LEMMA OutsideIsLocal ==
    ASSUME NEW pc \in Places, NEW rt \in Runtimes \cup {NoRuntime}
    PROVE  /\ Outside(pc, rt) \in Local
           /\ Outside(pc, rt).pc = pc
           /\ Outside(pc, rt).rt = rt
           /\ Outside(pc, rt).sends = 0
           /\ Outside(pc, rt).attempt = 0
           /\ Outside(pc, rt).last = "none"
<1>1. 0 \in 0 .. MaxAttempts - 1 /\ 0 \in 0 .. MaxAttempts
  BY ConstantsAssumption
<1>2. 0 \in Waits
  BY DEF Waits
<1> QED BY <1>1, <1>2, NoResponseIsTyped DEF Outside, Local, Places

\* Outside the loop there is nothing to say of what was sent.
LEMMA OutsideIsSound ==
    ASSUME NEW pc \in Places, NEW rt \in Runtimes \cup {NoRuntime},
           pc \in {"ready", "sending"} => rt # NoRuntime,
           pc \notin {"pending", "sleeping", "answered"}
    PROVE  ChatInv(Outside(pc, rt))
<1>1. ~Retryable("none")
  BY DEF Retryable
<1> QED BY <1>1, OutsideIsLocal DEF ChatInv

\* A thread's step replaces its local record and no other.
LEMMA OneThreadMoves ==
    ASSUME NEW t \in Threads, NEW x \in Local, thread \in [Threads -> Local], Becomes(t, x)
    PROVE  /\ thread' \in [Threads -> Local]
           /\ thread'[t] = x
           /\ \A u \in Threads : u # t => thread'[u] = thread[u]
BY DEF Becomes

\* A step of a thread that neither takes the lock nor has it, and touches
\* nothing shared.
LEMMA LocalStep ==
    ASSUME IInv, NEW t \in Threads, NEW x \in Local, ChatInv(x), Becomes(t, x),
           ~Holds(t), x.pc \notin {"holding", "built"},
           UNCHANGED <<published, locked, client, shutdown>>
    PROVE  IInv'
<1>1. /\ thread' \in [Threads -> Local]
      /\ thread'[t] = x
      /\ \A u \in Threads : u # t => thread'[u] = thread[u]
  BY OneThreadMoves DEF IInv, TypeOK
<1>2. \A u \in Threads : Holds(u)' => Holds(u) /\ thread'[u] = thread[u]
  BY <1>1 DEF Holds, At
<1>3. TypeOK'
  BY <1>1 DEF IInv, TypeOK
<1>4. LockInv'
  <2>1. \A u \in Threads : Holds(u)' => locked' /\ ~Closing'
    BY <1>2 DEF IInv, LockInv, Closing
  <2>2. Closing' => locked'
    BY DEF IInv, LockInv, Closing
  <2>3. \A u, v \in Threads : Holds(u)' /\ Holds(v)' => u = v
    BY <1>2 DEF IInv, LockInv
  <2> QED BY <2>1, <2>2, <2>3 DEF LockInv
<1>5. HandInv'
  <2>1. ASSUME NEW u \in Threads, At(u, "built")'
        PROVE  /\ thread'[u].rt # NoRuntime
               /\ client'[thread'[u].rt] = "open"
               /\ published' = NoRuntime
    <3>1. thread'[u] = thread[u] /\ At(u, "built")
      BY <1>2, <2>1 DEF Holds, At
    <3> QED BY <3>1 DEF IInv, HandInv
  <2>2. (shutdown.pc = "closing")' => published' = NoRuntime
    BY DEF IInv, HandInv
  <2> QED BY <2>1, <2>2 DEF HandInv
<1>6. OwnerInv'
  <2>1. \A u \in Threads : At(u, "built") => At(u, "built")' /\ thread'[u] = thread[u]
    BY <1>1 DEF Holds, At
  <2> QED BY <2>1 DEF IInv, OwnerInv
<1>7. PublishedIsOpen'
  BY DEF IInv, PublishedIsOpen
<1>8. \A u \in Threads : ChatInv(thread'[u])
  BY <1>1 DEF IInv
<1> QED BY <1>3, <1>4, <1>5, <1>6, <1>7, <1>8 DEF IInv

-----------------------------------------------------------------------------
(***************************************************************************)
(* The steps of a chat and the steps around it                             *)
(***************************************************************************)

LEMMA GetKeeps ==
    ASSUME IInv, NEW t \in Threads, Get(t)
    PROVE  IInv'
<1> DEFINE x == IF published # NoRuntime THEN Outside("ready", published)
                                         ELSE Outside("waiting", NoRuntime)
<1>1. published \in Runtimes \cup {NoRuntime}
  BY DEF IInv, TypeOK
<1>2. x \in Local /\ x.pc \in {"ready", "waiting"}
  BY <1>1, OutsideIsLocal DEF Places
<1>3. ChatInv(x)
  <2>1. CASE published # NoRuntime
    BY <2>1, <1>1, OutsideIsSound DEF Places
  <2>2. CASE published = NoRuntime
    BY <2>2, OutsideIsSound DEF Places
  <2> QED BY <2>1, <2>2
<1>4. Becomes(t, x) /\ ~Holds(t) /\ UNCHANGED <<published, locked, client, shutdown>>
  BY DEF Get, Holds, At
<1> HIDE DEF x
<1> QED BY <1>2, <1>3, <1>4, LocalStep

LEMMA ChatKeeps ==
    ASSUME IInv, NEW t \in Threads, Chat(t)
    PROVE  IInv'
<1> DEFINE x == Outside("sending", thread[t].rt)
<1>1. thread[t] \in Local /\ ChatInv(thread[t])
  BY DEF IInv, TypeOK
<1>2. thread[t].rt \in Runtimes \cup {NoRuntime}
  BY <1>1 DEF Local
<1>3. thread[t].rt # NoRuntime
  BY <1>1 DEF ChatInv, Chat, At
<1>4. x \in Local /\ x.pc = "sending"
  BY <1>2, OutsideIsLocal DEF Places
<1>5. ChatInv(x)
  BY <1>2, <1>3, OutsideIsSound DEF Places
<1>6. Becomes(t, x) /\ ~Holds(t) /\ UNCHANGED <<published, locked, client, shutdown>>
  BY DEF Chat, Holds, At
<1> HIDE DEF x
<1> QED BY <1>4, <1>5, <1>6, LocalStep

LEMMA LeaveKeeps ==
    ASSUME IInv, NEW t \in Threads, Leave(t)
    PROVE  IInv'
<1> DEFINE x == Outside("ended", NoRuntime)
<1>1. x \in Local /\ x.pc = "ended"
  BY OutsideIsLocal DEF Places
<1>2. ChatInv(x)
  BY OutsideIsSound DEF Places
<1>3. Becomes(t, x) /\ ~Holds(t) /\ UNCHANGED <<published, locked, client, shutdown>>
  BY DEF Leave, Holds, At
<1> HIDE DEF x
<1> QED BY <1>1, <1>2, <1>3, LocalStep

\* Before a request is sent there were as many as attempts before this one.
LEMMA SendKeeps ==
    ASSUME IInv, NEW t \in Threads, Send(t)
    PROVE  IInv'
<1> DEFINE sent == [thread[t] EXCEPT !.pc = "pending", !.sends = @ + 1]
           refused == [thread[t] EXCEPT !.pc = "raised", !.last = "unexpected"]
           x == IF client[thread[t].rt] = "open" THEN sent ELSE refused
<1>1. thread[t] \in Local /\ ChatInv(thread[t]) /\ thread[t].pc = "sending"
  BY DEF IInv, TypeOK, Send, At
<1>2. thread[t].sends = thread[t].attempt /\ thread[t].rt # NoRuntime
  BY <1>1 DEF ChatInv
<1>3. thread[t].attempt \in 0 .. MaxAttempts - 1 /\ MaxAttempts \in Nat
  BY <1>1, ConstantsAssumption DEF Local
<1>4. thread[t].sends + 1 \in 0 .. MaxAttempts
  BY <1>2, <1>3
<1>5. sent \in Local
  BY <1>1, <1>4 DEF Local
<1>6. sent.pc = "pending" /\ sent.sends = sent.attempt + 1 /\ sent.rt # NoRuntime
  BY <1>1, <1>2 DEF Local
<1>7. ChatInv(sent)
  BY <1>6 DEF ChatInv
<1>8. refused \in Local
  BY <1>1 DEF Local, Failure
<1>9. refused.pc = "raised" /\ refused.last = "unexpected"
  BY <1>1 DEF Local
<1>10. ChatInv(refused)
  BY <1>9 DEF ChatInv, Retryable
<1>11. x \in Local /\ ChatInv(x) /\ x.pc \in {"pending", "raised"}
  BY <1>5, <1>6, <1>7, <1>8, <1>9, <1>10
<1>12. Becomes(t, x) /\ ~Holds(t) /\ UNCHANGED <<published, locked, client, shutdown>>
  BY <1>1 DEF Send, Holds, At
<1> HIDE DEF x
<1> QED BY <1>11, <1>12, LocalStep

LEMMA WakeKeeps ==
    ASSUME IInv, NEW t \in Threads, Wake(t)
    PROVE  IInv'
<1> DEFINE x == [thread[t] EXCEPT !.pc = "sending", !.attempt = @ + 1]
<1>1. thread[t] \in Local /\ ChatInv(thread[t]) /\ thread[t].pc = "sleeping"
  BY DEF IInv, TypeOK, Wake, At
<1>2. /\ thread[t].sends = thread[t].attempt + 1
      /\ thread[t].rt # NoRuntime
      /\ ~LastAttempt(thread[t].attempt)
  BY <1>1 DEF ChatInv
<1>3. thread[t].attempt \in 0 .. MaxAttempts - 1 /\ MaxAttempts \in Nat
  BY <1>1, ConstantsAssumption DEF Local
<1>4. thread[t].attempt + 1 \in 0 .. MaxAttempts - 1
  BY <1>2, <1>3 DEF LastAttempt
<1>5. x \in Local
  BY <1>1, <1>4 DEF Local
<1>6. x.pc = "sending" /\ x.sends = x.attempt /\ x.rt # NoRuntime
  BY <1>1, <1>2 DEF Local
<1>7. ChatInv(x)
  BY <1>6 DEF ChatInv
<1>8. Becomes(t, x) /\ ~Holds(t) /\ UNCHANGED <<published, locked, client, shutdown>>
  BY <1>1 DEF Wake, Holds, At
<1> HIDE DEF x
<1> QED BY <1>5, <1>6, <1>7, <1>8, LocalStep

\* A retry is scheduled only while attempts are left.
LEMMA RequestFailsKeeps ==
    ASSUME IInv, NEW t \in Threads, RequestFails(t)
    PROVE  IInv'
<1>1. thread[t] \in Local /\ ChatInv(thread[t]) /\ thread[t].pc = "pending"
  BY DEF IInv, TypeOK, RequestFails, At
<1>2. thread[t].sends = thread[t].attempt + 1 /\ thread[t].rt # NoRuntime
  BY <1>1 DEF ChatInv
<1>3. ~Holds(t) /\ UNCHANGED <<published, locked, client, shutdown>>
  BY <1>1 DEF RequestFails, Holds, At
<1>4. thread[t].attempt \in 0 .. MaxAttempts - 1 /\ MaxAttempts \in Nat
  BY <1>1, ConstantsAssumption DEF Local
<1>5. PICK failure \in Failure :
        LET failed == [thread[t] EXCEPT !.last = failure] IN
        \/ /\ ~Retryable(failure) \/ LastAttempt(failed.attempt)
           /\ Becomes(t, [failed EXCEPT !.pc = "raised"])
        \/ /\ Retryable(failure) /\ ~LastAttempt(failed.attempt)
           /\ \E jitter \in Jitters :
                Becomes(t, [failed EXCEPT !.pc = "sleeping",
                                          !.wait = Delay(failed.attempt, jitter)])
  BY DEF RequestFails
<1> DEFINE failed == [thread[t] EXCEPT !.last = failure]
<1>6. /\ failed \in Local
      /\ failed.last = failure
      /\ failed.attempt = thread[t].attempt
      /\ failed.sends = thread[t].sends
      /\ failed.rt = thread[t].rt
  BY <1>1 DEF Local
<1>7. \/ /\ ~Retryable(failure) \/ LastAttempt(failed.attempt)
         /\ Becomes(t, [failed EXCEPT !.pc = "raised"])
      \/ /\ Retryable(failure) /\ ~LastAttempt(failed.attempt)
         /\ \E jitter \in Jitters :
              Becomes(t, [failed EXCEPT !.pc = "sleeping",
                                        !.wait = Delay(failed.attempt, jitter)])
  BY <1>5
<1> HIDE DEF failed
<1>8. CASE /\ ~Retryable(failure) \/ LastAttempt(failed.attempt)
           /\ Becomes(t, [failed EXCEPT !.pc = "raised"])
  <2> DEFINE x == [failed EXCEPT !.pc = "raised"]
  <2>1. x \in Local
    BY <1>6 DEF Local
  <2>2. x.pc = "raised" /\ x.last = failure /\ x.sends = thread[t].attempt + 1
    BY <1>2, <1>6 DEF Local
  <2>3. Retryable(failure) => x.sends = MaxAttempts
    BY <2>2, <1>4, <1>6, <1>8 DEF LastAttempt
  <2>4. ChatInv(x)
    BY <2>2, <2>3 DEF ChatInv
  <2>5. Becomes(t, x)
    BY <1>8
  <2> HIDE DEF x
  <2> QED BY <2>1, <2>2, <2>4, <2>5, <1>3, LocalStep
<1>9. CASE /\ Retryable(failure) /\ ~LastAttempt(failed.attempt)
           /\ \E jitter \in Jitters :
                Becomes(t, [failed EXCEPT !.pc = "sleeping",
                                          !.wait = Delay(failed.attempt, jitter)])
  <2>1. PICK jitter \in Jitters :
          Becomes(t, [failed EXCEPT !.pc = "sleeping", !.wait = Delay(failed.attempt, jitter)])
    BY <1>9
  <2> DEFINE x == [failed EXCEPT !.pc = "sleeping", !.wait = Delay(failed.attempt, jitter)]
  <2>2. Delay(failed.attempt, jitter) \in Waits
    BY <1>4, <1>6 DEF Waits
  <2>3. x \in Local
    BY <1>6, <2>2 DEF Local
  <2>4. /\ x.pc = "sleeping"
        /\ x.last = failure
        /\ x.attempt = failed.attempt
        /\ x.sends = x.attempt + 1
        /\ x.rt # NoRuntime
    BY <1>2, <1>6 DEF Local
  <2>5. ChatInv(x)
    BY <2>4, <1>9 DEF ChatInv
  <2>6. Becomes(t, x)
    BY <2>1
  <2> HIDE DEF x
  <2> QED BY <2>3, <2>4, <2>5, <2>6, <1>3, LocalStep
<1> QED BY <1>7, <1>8, <1>9

\* An accepted body has content or a call, and its calls are decoded ones.
LEMMA ParsedIsResponse ==
    ASSUME NEW body \in Body, Accepts(body)
    PROVE  /\ Parsed(body) \in LLMResponse
           /\ Parsed(body) \in [content : {"text", "null"}, calls : Seq(RawCall)]
           /\ Parsed(body).content = "text" \/ Parsed(body).calls # <<>>
<1> DEFINE calls == [i \in DOMAIN body.calls |-> ParsedCall(body.calls[i])]
<1>1. body.calls \in Seq(RawCall) /\ body.content \in {"text", "null"}
  BY DEF Body, Accepts
<1>2. PICK n \in Nat : DOMAIN body.calls = 1 .. n
  BY <1>1
<1>3. \A i \in 1 .. n : ParsedCall(body.calls[i]) \in ToolCall
  BY <1>2 DEF Accepts
<1>4. calls \in [1 .. n -> ToolCall]
  BY <1>2, <1>3
<1>5. calls \in Seq(ToolCall)
  BY <1>4
<1>6. ToolCall \subseteq RawCall
  BY DEF ToolCall, RawCall
<1>7. calls \in Seq(RawCall)
  BY <1>5, <1>6
<1>8. body.calls # <<>> => calls # <<>>
  BY <1>1, <1>2
<1>9. Parsed(body) = [content |-> body.content, calls |-> calls]
  BY DEF Parsed
<1>10. body.content = "text" \/ body.calls # <<>>
  BY <1>1 DEF Accepts
<1> HIDE DEF calls
<1>11. Parsed(body).content = "text" \/ Parsed(body).calls # <<>>
  BY <1>8, <1>9, <1>10
<1>12. Parsed(body) \in LLMResponse
  BY <1>1, <1>5, <1>9 DEF LLMResponse
<1>13. Parsed(body) \in [content : {"text", "null"}, calls : Seq(RawCall)]
  BY <1>1, <1>7, <1>9
<1> QED BY <1>11, <1>12, <1>13

LEMMA ReceiveKeeps ==
    ASSUME IInv, NEW t \in Threads, Receive(t)
    PROVE  IInv'
<1>1. thread[t] \in Local /\ ChatInv(thread[t]) /\ thread[t].pc = "pending"
  BY DEF IInv, TypeOK, Receive, At
<1>2. thread[t].rt # NoRuntime
  BY <1>1 DEF ChatInv
<1>3. ~Holds(t) /\ UNCHANGED <<published, locked, client, shutdown>>
  BY <1>1 DEF Receive, Holds, At
<1>4. PICK body \in Bodies :
        Becomes(t, IF Accepts(body)
                     THEN [thread[t] EXCEPT !.pc = "answered", !.last = "usable",
                                            !.resp = Parsed(body)]
                     ELSE [thread[t] EXCEPT !.pc = "raised", !.last = "invalid"])
  BY DEF Receive
<1>5. body \in Body
  BY ConstantsAssumption DEF Body, RawCall
<1>6. CASE Accepts(body)
  <2> DEFINE x == [thread[t] EXCEPT !.pc = "answered", !.last = "usable",
                                    !.resp = Parsed(body)]
  <2>1. /\ Parsed(body) \in LLMResponse
        /\ Parsed(body) \in [content : {"text", "null"}, calls : Seq(RawCall)]
        /\ Parsed(body).content = "text" \/ Parsed(body).calls # <<>>
    BY <1>5, <1>6, ParsedIsResponse
  <2>2. x \in Local
    BY <1>1, <2>1 DEF Local
  <2>3. x.pc = "answered" /\ x.resp = Parsed(body) /\ x.rt # NoRuntime
    BY <1>1, <1>2 DEF Local
  <2>4. ChatInv(x)
    BY <2>1, <2>3 DEF ChatInv
  <2>5. Becomes(t, x)
    BY <1>4, <1>6
  <2> HIDE DEF x
  <2> QED BY <2>2, <2>3, <2>4, <2>5, <1>3, LocalStep
<1>7. CASE ~Accepts(body)
  <2> DEFINE x == [thread[t] EXCEPT !.pc = "raised", !.last = "invalid"]
  <2>1. x \in Local
    BY <1>1 DEF Local
  <2>2. x.pc = "raised" /\ x.last = "invalid"
    BY <1>1 DEF Local
  <2>3. ChatInv(x)
    BY <2>2 DEF ChatInv, Retryable
  <2>4. Becomes(t, x)
    BY <1>4, <1>7
  <2> HIDE DEF x
  <2> QED BY <2>1, <2>2, <2>3, <2>4, <1>3, LocalStep
<1> QED BY <1>6, <1>7

-----------------------------------------------------------------------------
(***************************************************************************)
(* The steps under the lock                                                *)
(***************************************************************************)

\* Who has the lock is alone with it.
LEMMA HolderIsAlone ==
    ASSUME IInv, NEW t \in Threads, Holds(t) \/ ~locked
    PROVE  /\ \A u \in Threads : Holds(u) => u = t
           /\ ~Closing
BY DEF IInv, LockInv

\* A step of a thread that has the lock, or takes it: what it leaves open is
\* published or in its hands.
LEMMA LockedStep ==
    ASSUME IInv, NEW t \in Threads, NEW x \in Local, ChatInv(x), Becomes(t, x),
           UNCHANGED shutdown,
           Holds(t) \/ ~locked,
           locked' \in BOOLEAN, x.pc \in {"holding", "built"} => locked',
           client' \in [Runtimes -> Client],
           published' \in Runtimes \cup {NoRuntime},
           x.pc = "built" =>
               x.rt # NoRuntime /\ client'[x.rt] = "open" /\ published' = NoRuntime,
           \A r \in Runtimes :
               client'[r] = "open" => published' = r \/ (x.pc = "built" /\ x.rt = r),
           published' # NoRuntime => client'[published'] = "open"
    PROVE  IInv'
<1>1. /\ thread' \in [Threads -> Local]
      /\ thread'[t] = x
      /\ \A u \in Threads : u # t => thread'[u] = thread[u]
  BY OneThreadMoves DEF IInv, TypeOK
<1>2. \A u \in Threads : Holds(u)' => u = t /\ x.pc \in {"holding", "built"}
  BY <1>1, HolderIsAlone DEF Holds, At
<1>3. ~Closing /\ ~Closing'
  BY HolderIsAlone DEF Closing
<1>4. TypeOK'
  BY <1>1 DEF IInv, TypeOK
<1>5. LockInv'
  BY <1>2, <1>3 DEF LockInv
<1>6. HandInv'
  <2>1. ASSUME NEW u \in Threads, At(u, "built")'
        PROVE  /\ thread'[u].rt # NoRuntime
               /\ client'[thread'[u].rt] = "open"
               /\ published' = NoRuntime
    BY <2>1, <1>1, <1>2 DEF Holds, At
  <2>2. shutdown'.pc # "closing"
    BY <1>3 DEF Closing
  <2> QED BY <2>1, <2>2 DEF HandInv
<1>7. OwnerInv'
  BY <1>1 DEF OwnerInv, At
<1>8. PublishedIsOpen'
  BY DEF PublishedIsOpen
<1>9. \A u \in Threads : ChatInv(thread'[u])
  BY <1>1 DEF IInv
<1> QED BY <1>4, <1>5, <1>6, <1>7, <1>8, <1>9 DEF IInv

\* While no runtime is published and none is in the hands of the holder, none
\* is open.
LEMMA NothingElseOpen ==
    ASSUME IInv, NEW t \in Threads, Holds(t) \/ ~locked, ~At(t, "built"),
           NEW r \in Runtimes, client[r] = "open"
    PROVE  published = r
<1>1. \A u \in Threads : ~At(u, "built")
  BY HolderIsAlone DEF Holds
<1>2. shutdown.pc # "closing"
  BY HolderIsAlone DEF Closing
<1> QED BY <1>1, <1>2 DEF IInv, OwnerInv

LEMMA AcquireKeeps ==
    ASSUME IInv, NEW t \in Threads, Acquire(t)
    PROVE  IInv'
<1> DEFINE x == Outside("holding", NoRuntime)
<1>1. x \in Local /\ x.pc = "holding"
  BY OutsideIsLocal DEF Places
<1>2. ChatInv(x)
  BY OutsideIsSound DEF Places
<1>3. /\ Becomes(t, x) /\ ~locked /\ locked' /\ ~At(t, "built")
      /\ UNCHANGED <<published, client, shutdown>>
  BY DEF Acquire, At
<1>4. \A r \in Runtimes : client[r] = "open" => published = r
  BY <1>3, NothingElseOpen
<1>5. /\ client' \in [Runtimes -> Client]
      /\ published' \in Runtimes \cup {NoRuntime}
      /\ published' # NoRuntime => client'[published'] = "open"
  BY <1>3 DEF IInv, TypeOK, PublishedIsOpen
<1>6. locked' \in BOOLEAN /\ (x.pc \in {"holding", "built"} => locked')
  BY <1>1 DEF Acquire
<1> HIDE DEF x
<1> QED BY <1>1, <1>2, <1>3, <1>4, <1>5, <1>6, LockedStep

LEMMA TakeKeeps ==
    ASSUME IInv, NEW t \in Threads, Take(t)
    PROVE  IInv'
<1> DEFINE x == Outside("ready", published)
<1>1. published \in Runtimes /\ published # NoRuntime
  BY DEF IInv, TypeOK, Take, MustBuild
<1>2. x \in Local /\ x.pc = "ready"
  BY <1>1, OutsideIsLocal DEF Places
<1>3. ChatInv(x)
  BY <1>1, OutsideIsSound DEF Places
<1>4. /\ Becomes(t, x) /\ Holds(t) /\ locked' = FALSE /\ ~At(t, "built")
      /\ UNCHANGED <<published, client, shutdown>>
  BY DEF Take, At, Holds
<1>5. \A r \in Runtimes : client[r] = "open" => published = r
  BY <1>4, NothingElseOpen
<1>6. /\ client' \in [Runtimes -> Client]
      /\ published' \in Runtimes \cup {NoRuntime}
      /\ published' # NoRuntime => client'[published'] = "open"
  BY <1>4 DEF IInv, TypeOK, PublishedIsOpen
<1>7. locked' \in BOOLEAN /\ (x.pc \in {"holding", "built"} => locked')
  BY <1>2, <1>4
<1> HIDE DEF x
<1> QED BY <1>2, <1>3, <1>4, <1>5, <1>6, <1>7, LockedStep

\* The second look is what makes the new client the only open one.
LEMMA BuildKeeps ==
    ASSUME IInv, NEW t \in Threads, Build(t)
    PROVE  IInv'
<1>1. PICK r \in Runtimes :
        /\ client' = [client EXCEPT ![r] = "open"]
        /\ Becomes(t, Outside("built", r))
  BY DEF Build
<1> DEFINE x == Outside("built", r)
<1>2. x \in Local /\ x.pc = "built" /\ x.rt = r
  BY OutsideIsLocal DEF Places
<1>3. r # NoRuntime
  BY ConstantsAssumption
<1>4. ChatInv(x)
  BY <1>3, OutsideIsSound DEF Places
<1>5. /\ Becomes(t, x) /\ Holds(t) /\ ~At(t, "built") /\ published = NoRuntime
      /\ UNCHANGED <<published, locked, shutdown>>
  BY <1>1 DEF Build, At, Holds, MustBuild
<1>6. client \in [Runtimes -> Client]
  BY DEF IInv, TypeOK
<1>7. \A s \in Runtimes : client[s] # "open"
  BY <1>5, NothingElseOpen, ConstantsAssumption
<1>8. client' \in [Runtimes -> Client] /\ client'[r] = "open"
  BY <1>1, <1>6 DEF Client
<1>9. \A s \in Runtimes : client'[s] = "open" => s = r
  BY <1>1, <1>6, <1>7
<1>10. locked' \in BOOLEAN /\ (x.pc \in {"holding", "built"} => locked')
  BY <1>2, <1>5 DEF IInv, LockInv, TypeOK
<1> HIDE DEF x
<1> QED BY <1>2, <1>3, <1>4, <1>5, <1>8, <1>9, <1>10, LockedStep

LEMMA BuildRaisesKeeps ==
    ASSUME IInv, NEW t \in Threads, BuildRaises(t)
    PROVE  IInv'
<1> DEFINE x == Outside("ended", NoRuntime)
<1>1. x \in Local /\ x.pc = "ended"
  BY OutsideIsLocal DEF Places
<1>2. ChatInv(x)
  BY OutsideIsSound DEF Places
<1>3. /\ Becomes(t, x) /\ Holds(t) /\ ~At(t, "built") /\ locked' = FALSE
      /\ UNCHANGED <<published, client, shutdown>>
  BY DEF BuildRaises, At, Holds, LockAfterRaise
<1>4. \A r \in Runtimes : client[r] = "open" => published = r
  BY <1>3, NothingElseOpen
<1>5. /\ client' \in [Runtimes -> Client]
      /\ published' \in Runtimes \cup {NoRuntime}
      /\ published' # NoRuntime => client'[published'] = "open"
  BY <1>3 DEF IInv, TypeOK, PublishedIsOpen
<1>6. locked' \in BOOLEAN /\ (x.pc \in {"holding", "built"} => locked')
  BY <1>1, <1>3
<1> HIDE DEF x
<1> QED BY <1>1, <1>2, <1>3, <1>4, <1>5, <1>6, LockedStep

LEMMA PublishKeeps ==
    ASSUME IInv, NEW t \in Threads, Publish(t)
    PROVE  IInv'
<1> DEFINE x == Outside("ready", thread[t].rt)
<1>1. At(t, "built") /\ Holds(t)
  BY DEF Publish, Holds
<1>2. thread[t] \in Local /\ thread[t].rt # NoRuntime /\ client[thread[t].rt] = "open"
  BY <1>1 DEF IInv, TypeOK, HandInv
<1>3. thread[t].rt \in Runtimes
  BY <1>2 DEF Local
<1>4. x \in Local /\ x.pc = "ready"
  BY <1>3, OutsideIsLocal DEF Places
<1>5. ChatInv(x)
  BY <1>2, <1>3, OutsideIsSound DEF Places
<1>6. /\ Becomes(t, x) /\ published' = thread[t].rt /\ locked' = FALSE
      /\ UNCHANGED <<client, shutdown>>
  BY DEF Publish
<1>7. \A u \in Threads : At(u, "built") => u = t
  BY <1>1, HolderIsAlone DEF Holds
<1>8. shutdown.pc # "closing" /\ published = NoRuntime
  BY <1>1, HolderIsAlone DEF Closing, IInv, HandInv
<1>9. \A r \in Runtimes : client[r] = "open" => r = thread[t].rt
  BY <1>7, <1>8, ConstantsAssumption DEF IInv, OwnerInv
<1>10. client' \in [Runtimes -> Client]
  BY <1>6 DEF IInv, TypeOK
<1>11. locked' \in BOOLEAN /\ (x.pc \in {"holding", "built"} => locked')
  BY <1>4, <1>6
<1> HIDE DEF x
<1> QED BY <1>1, <1>2, <1>3, <1>4, <1>5, <1>6, <1>9, <1>10, <1>11, LockedStep

-----------------------------------------------------------------------------
(***************************************************************************)
(* The steps of the shutdown                                               *)
(***************************************************************************)

LEMMA AcquireForCloseKeeps ==
    ASSUME IInv, AcquireForClose
    PROVE  IInv'
<1>1. /\ shutdown' = [pc |-> "holding", rt |-> NoRuntime] /\ ~locked /\ locked'
      /\ UNCHANGED <<published, client, thread>>
  BY DEF AcquireForClose
<1>2. \A t \in Threads : ~Holds(t) /\ ~Holds(t)' /\ ~At(t, "built") /\ ~At(t, "built")'
  BY <1>1 DEF IInv, LockInv, Holds, At
<1>3. shutdown.pc # "closing"
  BY DEF AcquireForClose
<1>4. TypeOK'
  BY <1>1, locked' = TRUE DEF IInv, TypeOK, AcquireForClose
<1>5. LockInv'
  BY <1>1, <1>2 DEF LockInv
<1>6. HandInv'
  BY <1>1, <1>2 DEF HandInv
<1>7. OwnerInv'
  BY <1>1, <1>2, <1>3 DEF IInv, OwnerInv
<1>8. PublishedIsOpen' /\ \A t \in Threads : ChatInv(thread'[t])
  BY <1>1 DEF IInv, PublishedIsOpen
<1> QED BY <1>4, <1>5, <1>6, <1>7, <1>8 DEF IInv

\* The runtime passes from the module's variable into the closer's hands.
LEMMA UnpublishKeeps ==
    ASSUME IInv, Unpublish
    PROVE  IInv'
<1>1. /\ shutdown.pc = "holding"
      /\ shutdown' = [pc |-> "closing", rt |-> published]
      /\ published' = NoRuntime
      /\ UNCHANGED <<locked, client, thread>>
  BY DEF Unpublish, VisibleDuringClose
<1>2. locked /\ \A t \in Threads : ~Holds(t) /\ ~Holds(t)' /\ ~At(t, "built") /\ ~At(t, "built")'
  BY <1>1 DEF IInv, LockInv, Holds, At, Closing
<1>3. TypeOK'
  BY <1>1 DEF IInv, TypeOK
<1>4. LockInv'
  BY <1>1, <1>2 DEF LockInv
<1>5. HandInv'
  BY <1>1, <1>2 DEF HandInv
<1>6. OwnerInv'
  <2>1. shutdown'.pc = "closing" /\ shutdown'.rt = published
    BY <1>1
  <2> QED BY <1>1, <1>2, <2>1 DEF IInv, OwnerInv
<1>7. PublishedIsOpen' /\ \A t \in Threads : ChatInv(thread'[t])
  BY <1>1 DEF IInv, PublishedIsOpen
<1> QED BY <1>3, <1>4, <1>5, <1>6, <1>7 DEF IInv

LEMMA CloseClientKeeps ==
    ASSUME IInv, CloseClient
    PROVE  IInv'
<1>1. /\ shutdown.pc = "closing"
      /\ client' = [r \in Runtimes |-> IF r = shutdown.rt THEN "closed" ELSE client[r]]
      /\ shutdown' = [pc |-> "down", rt |-> NoRuntime]
      /\ locked' = FALSE
      /\ UNCHANGED <<published, thread>>
  BY DEF CloseClient
<1>2. published = NoRuntime
  BY <1>1 DEF IInv, HandInv
<1>3. \A t \in Threads : ~Holds(t) /\ ~Holds(t)' /\ ~At(t, "built") /\ ~At(t, "built")'
  BY <1>1 DEF IInv, LockInv, Holds, At, Closing
<1>4. TypeOK'
  <2>1. client' \in [Runtimes -> Client]
    BY <1>1 DEF IInv, TypeOK, Client
  <2> QED BY <1>1, <2>1 DEF IInv, TypeOK
<1>5. LockInv'
  BY <1>1, <1>3 DEF LockInv, Closing
<1>6. HandInv'
  BY <1>1, <1>3 DEF HandInv
<1>7. OwnerInv'
  <2>1. \A r \in Runtimes : client[r] = "open" => r = shutdown.rt
    BY <1>2, <1>3, ConstantsAssumption DEF IInv, OwnerInv
  <2>2. \A r \in Runtimes : client'[r] # "open"
    BY <1>1, <2>1
  <2> QED BY <2>2 DEF OwnerInv
<1>8. PublishedIsOpen' /\ \A t \in Threads : ChatInv(thread'[t])
  BY <1>1, <1>2 DEF IInv, PublishedIsOpen
<1> QED BY <1>4, <1>5, <1>6, <1>7, <1>8 DEF IInv

-----------------------------------------------------------------------------
(***************************************************************************)
(* Invariance, and what follows                                            *)
(***************************************************************************)

LEMMA InitIsSound == Init => IInv
<1> SUFFICES ASSUME Init PROVE IInv
  OBVIOUS
<1> DEFINE x == Outside("idle", NoRuntime)
<1>1. x \in Local /\ x.pc = "idle"
  BY OutsideIsLocal DEF Places
<1>2. ChatInv(x)
  BY OutsideIsSound DEF Places
<1>3. thread = [t \in Threads |-> x]
  BY DEF Init
<1> HIDE DEF x
<1>4. \A t \in Threads : thread[t] = x /\ ~Holds(t) /\ ~At(t, "built")
  BY <1>1, <1>3 DEF Holds, At
<1>5. TypeOK
  BY <1>1, <1>3 DEF Init, TypeOK, Client
<1>6. LockInv
  BY <1>4 DEF LockInv, Closing, Init
<1>7. HandInv /\ OwnerInv /\ PublishedIsOpen
  BY <1>4 DEF HandInv, OwnerInv, PublishedIsOpen, Init
<1> QED BY <1>2, <1>4, <1>5, <1>6, <1>7 DEF IInv

LEMMA NextKeeps == IInv /\ [Next]_vars => IInv'
<1> SUFFICES ASSUME IInv, [Next]_vars PROVE IInv'
  OBVIOUS
<1>1. ASSUME NEW t \in Threads, GetRuntime(t) PROVE IInv'
  BY <1>1, GetKeeps, AcquireKeeps, TakeKeeps, BuildKeeps, BuildRaisesKeeps, PublishKeeps
     DEF GetRuntime
<1>2. ASSUME NEW t \in Threads, ChatStep(t) PROVE IInv'
  BY <1>2, ChatKeeps, SendKeeps, ReceiveKeeps, RequestFailsKeeps, WakeKeeps DEF ChatStep
<1>3. ASSUME NEW t \in Threads, Leave(t) PROVE IInv'
  BY <1>3, LeaveKeeps
<1>4. CASE Close
  BY <1>4, AcquireForCloseKeeps, UnpublishKeeps, CloseClientKeeps DEF Close
<1>5. CASE UNCHANGED vars
  BY <1>5 DEF vars, IInv, TypeOK, LockInv, HandInv, OwnerInv, PublishedIsOpen, Holds, At, Closing
<1> QED BY <1>1, <1>2, <1>3, <1>4, <1>5 DEF Next

\* IInv holds in every reachable state, with any numbers of threads, attempts
\* and runtimes.
THEOREM Invariance == Spec => []IInv
<1>1. Init => IInv
  BY InitIsSound
<1>2. IInv /\ [Next]_vars => IInv'
  BY NextKeeps
<1> QED BY <1>1, <1>2, PTL DEF Spec

\* Every variable keeps its type; no attempt is beyond MaxAttempts.
THEOREM TypeCorrect == Spec => []TypeOK
<1>1. IInv => TypeOK
  BY DEF IInv
<1> QED BY <1>1, Invariance, PTL

\* The runtime that get_agent_runtime hands out is open when it is looked at,
\* however requests and the shutdown interleave.
THEOREM PublishedStaysOpen == Spec => []PublishedIsOpen
<1>1. IInv => PublishedIsOpen
  BY DEF IInv
<1> QED BY <1>1, Invariance, PTL

\* One HTTP client is open at most, and someone has it who publishes it or
\* closes it: the double-checked lock leaks none.
THEOREM ClientsAreOwned == Spec => []OpenClientsAreOwned
<1>1. ASSUME IInv PROVE OpenClientsAreOwned
  <2> DEFINE opened == {r \in Runtimes : client[r] = "open"}
  <2>1. \A r \in Runtimes : client[r] = "open" =>
           \/ published = r
           \/ shutdown.pc = "closing" /\ shutdown.rt = r
           \/ \E t \in Threads : At(t, "built") /\ thread[t].rt = r
    BY <1>1 DEF IInv, OwnerInv
  <2>2. ASSUME NEW r \in opened, NEW s \in opened PROVE r = s
    <3>1. NoRuntime \notin Runtimes
      BY ConstantsAssumption
    <3>2. (\E t \in Threads : At(t, "built")) => published = NoRuntime /\ shutdown.pc # "closing"
      BY <1>1 DEF IInv, HandInv, LockInv, Holds, Closing
    <3>3. shutdown.pc = "closing" => published = NoRuntime
      BY <1>1 DEF IInv, HandInv
    <3>4. \A t, u \in Threads : At(t, "built") /\ At(u, "built") => t = u
      BY <1>1 DEF IInv, LockInv, Holds
    <3>5. CASE published = r
      BY <3>1, <3>2, <3>3, <3>5, <2>1
    <3>6. CASE shutdown.pc = "closing" /\ shutdown.rt = r
      BY <3>1, <3>2, <3>3, <3>6, <2>1
    <3>7. CASE \E t \in Threads : At(t, "built") /\ thread[t].rt = r
      BY <3>1, <3>2, <3>4, <3>7, <2>1
    <3> QED BY <3>5, <3>6, <3>7, <2>1
  <2>3. Cardinality(opened) <= 1
    <3>1. CASE opened = {}
      BY <3>1, FS_EmptySet
    <3>2. CASE opened # {}
      <4>1. PICK r \in opened : opened = {r}
        BY <2>2, <3>2
      <4>2. Cardinality({r}) = 1
        BY FS_Singleton
      <4> HIDE DEF opened
      <4> QED BY <4>1, <4>2
    <3> QED BY <3>1, <3>2
  <2> QED BY <2>1, <2>3 DEF OpenClientsAreOwned
<1> QED BY <1>1, Invariance, PTL

\* Whatever the provider answers and however often, only transient failures
\* are retried, and they are raised only after MaxAttempts requests.
THEOREM RetriesAreBounded == Spec => []OnlyTransientFailuresRetried
<1>1. ASSUME IInv PROVE OnlyTransientFailuresRetried
  BY <1>1 DEF IInv, ChatInv, Retryable, OnlyTransientFailuresRetried, At
<1> QED BY <1>1, Invariance, PTL

\* Whatever a response holds, what chat returns can go into a transcript.
THEOREM AnswersAreUsable == Spec => []AnswersAreMessages
<1>1. ASSUME IInv PROVE AnswersAreMessages
  BY <1>1 DEF IInv, ChatInv, AnswersAreMessages, At
<1> QED BY <1>1, Invariance, PTL

-----------------------------------------------------------------------------
(***************************************************************************)
(* Waiting: powers of two, by induction over sets of numbers               *)
(***************************************************************************)

Below == {ss \in Nat \X Nat : ss[1] < ss[2]}

\* The library's induction theorems take an operator; its least element of a
\* well-founded set takes a set, and gives induction over sets of numbers.
LEMMA BelowIsWellFounded == IsWellFoundedOn(Below, Nat)
  <1>1. IsWellFoundedOn(OpToRel(<, Nat), Nat)
    BY NatLessThanWellFounded
  <1>2. OpToRel(<, Nat) = Below
    BY DEF OpToRel, Below
  <1> QED
    BY <1>1, <1>2

LEMMA LeastNatural ==
    ASSUME NEW S \in SUBSET Nat, S # {}
    PROVE  \E m \in S : \A n \in S : m <= n
  <1>1. PICK m \in S : \A n \in S : ~(<<n, m>> \in Below)
    BY BelowIsWellFounded, WFMin
  <1>2. ASSUME NEW n \in S PROVE ~(n < m)
    <2>1. <<n, m>> \notin Below /\ <<n, m>> \in Nat \X Nat
      BY <1>1, <1>2
    <2> QED
      BY <2>1 DEF Below
  <1>3. m \in Nat
    OBVIOUS
  <1> QED
    BY <1>2, <1>3

LEMMA SetInduction ==
    ASSUME NEW S \in SUBSET Nat, 0 \in S, \A n \in S : n + 1 \in S
    PROVE  S = Nat
  <1> SUFFICES ASSUME Nat \ S # {} PROVE FALSE
    OBVIOUS
  <1>1. PICK m \in Nat \ S : \A n \in Nat \ S : m <= n
    BY LeastNatural
  <1>2. m # 0 /\ m - 1 \in Nat
    BY <1>1
  <1>3. m - 1 \in S
    BY <1>1, <1>2
  <1> QED
    BY <1>1, <1>2, <1>3

\* The functions that agree with TwoTo as far as n.
Doubling(n) ==
    {g \in [0 .. n -> Nat \ {0}] : g[0] = 1 /\ \A i \in 0 .. n - 1 : g[i + 1] = 2 * g[i]}

\* There is one for each n ...
LEMMA DoublingExists == \A n \in Nat : Doubling(n) # {}
  <1> DEFINE S == {n \in Nat : Doubling(n) # {}}
  <1>1. 0 \in S
    <2> DEFINE g == [i \in 0 .. 0 |-> 1]
    <2>1. g \in Doubling(0)
      BY DEF Doubling
    <2> QED
      BY <2>1
  <1>2. ASSUME NEW n \in S PROVE n + 1 \in S
    <2>1. n \in Nat
      BY DEF S
    <2>2. PICK g : g \in Doubling(n)
      BY DEF S
    <2> DEFINE h == [i \in 0 .. n + 1 |-> IF i = n + 1 THEN 2 * g[n] ELSE g[i]]
    <2>3. g \in [0 .. n -> Nat \ {0}] /\ g[0] = 1 /\ \A i \in 0 .. n - 1 : g[i + 1] = 2 * g[i]
      BY <2>2 DEF Doubling
    <2>4. h \in [0 .. n + 1 -> Nat \ {0}]
      BY <2>1, <2>3
    <2>5. h[0] = 1
      BY <2>1, <2>3
    <2>6. ASSUME NEW i \in 0 .. (n + 1) - 1 PROVE h[i + 1] = 2 * h[i]
      BY <2>1, <2>3
    <2> HIDE DEF h
    <2>7. h \in Doubling(n + 1)
      BY <2>4, <2>5, <2>6 DEF Doubling
    <2> QED
      BY <2>1, <2>7
  <1> HIDE DEF S
  <1>3. S = Nat
    <2>1. S \in SUBSET Nat
      BY DEF S
    <2> QED
      BY <1>1, <1>2, <2>1, SetInduction
  <1> QED
    BY <1>3 DEF S

\* ... and no two of them differ.
LEMMA DoublingAgrees ==
    ASSUME NEW m \in Nat, NEW n \in Nat, NEW g \in Doubling(m), NEW h \in Doubling(n)
    PROVE  \A i \in Nat : i <= m /\ i <= n => g[i] = h[i]
  <1> DEFINE S == {i \in Nat : i <= m /\ i <= n => g[i] = h[i]}
  <1>1. 0 \in S
    BY DEF Doubling
  <1>2. ASSUME NEW i \in S PROVE i + 1 \in S
    <2>1. i \in Nat
      BY DEF S
    <2>2. SUFFICES ASSUME i + 1 <= m, i + 1 <= n PROVE g[i + 1] = h[i + 1]
      BY <2>1
    <2>3. g[i] = h[i]
      BY <2>1, <2>2 DEF S
    <2>4. i \in 0 .. m - 1 /\ i \in 0 .. n - 1
      BY <2>1, <2>2
    <2> QED
      BY <2>3, <2>4 DEF Doubling
  <1> HIDE DEF S
  <1>3. S \in SUBSET Nat
    BY DEF S
  <1>4. S = Nat
    BY <1>1, <1>2, <1>3, SetInduction
  <1> QED
    BY <1>4 DEF S

\* The recursive definition of TwoTo defines what it says.
LEMMA TwoToDoubles ==
    /\ TwoTo[0] = 1
    /\ \A n \in Nat : TwoTo[n + 1] = 2 * TwoTo[n]
    /\ \A n \in Nat : TwoTo[n] \in Nat \ {0}
  <1> DEFINE upto == [n \in Nat |-> CHOOSE g : g \in Doubling(n)]
             f == [n \in Nat |-> upto[n][n]]
  <1>1. \A n \in Nat : upto[n] \in Doubling(n)
    BY DoublingExists
  <1> HIDE DEF upto
  <1>2. f[0] = 1
    BY <1>1 DEF Doubling
  <1>3. ASSUME NEW n \in Nat PROVE f[n + 1] = 2 * f[n]
    <2>1. n + 1 \in Nat /\ n \in 0 .. (n + 1) - 1
      OBVIOUS
    <2>2. upto[n + 1][n + 1] = 2 * upto[n + 1][n]
      BY <1>1, <2>1 DEF Doubling
    <2>3. upto[n + 1][n] = upto[n][n]
      BY <1>1, <2>1, DoublingAgrees
    <2> QED
      BY <2>1, <2>2, <2>3
  <1>4. \A n \in Nat : f[n] \in Nat \ {0}
    BY <1>1 DEF Doubling
  <1>5. DOMAIN f = Nat
    OBVIOUS
  <1>6. f = [n \in Nat |-> f[n]]
    OBVIOUS
  <1> HIDE DEF f
  <1>7. ASSUME NEW n \in Nat PROVE f[n] = IF n = 0 THEN 1 ELSE 2 * f[n - 1]
    <2>1. CASE n = 0
      BY <1>2, <2>1
    <2>2. CASE n # 0
      <3>1. n - 1 \in Nat /\ (n - 1) + 1 = n
        BY <2>2
      <3> QED
        BY <1>3, <2>2, <3>1
    <2> QED
      BY <2>1, <2>2
  <1>8. f = [n \in Nat |-> IF n = 0 THEN 1 ELSE 2 * f[n - 1]]
    BY <1>6, <1>7
  <1>9. TwoTo = [n \in Nat |-> IF n = 0 THEN 1 ELSE 2 * TwoTo[n - 1]]
    BY <1>8 DEF TwoTo
  <1>10. TwoTo[0] = 1
    BY <1>9
  <1>11. ASSUME NEW n \in Nat PROVE TwoTo[n + 1] = 2 * TwoTo[n]
    <2>1. n + 1 \in Nat /\ n + 1 # 0 /\ (n + 1) - 1 = n
      OBVIOUS
    <2>2. \A k \in Nat : k # 0 => TwoTo[k] = 2 * TwoTo[k - 1]
      BY <1>9
    <2> QED
      BY <2>1, <2>2
  <1> DEFINE S == {n \in Nat : TwoTo[n] \in Nat \ {0}}
  <1>12. 0 \in S
    BY <1>10
  <1>13. ASSUME NEW n \in S PROVE n + 1 \in S
    <2>1. n \in Nat /\ TwoTo[n] \in Nat \ {0}
      BY DEF S
    <2> QED
      BY <1>11, <2>1
  <1> HIDE DEF S
  <1>14. S = Nat
    <2>1. S \in SUBSET Nat
      BY DEF S
    <2> QED
      BY <1>12, <1>13, <2>1, SetInduction
  <1>15. \A n \in Nat : TwoTo[n] \in Nat \ {0}
    BY <1>14 DEF S
  <1> QED
    BY <1>10, <1>11, <1>15

\* The unit of the k-th wait.
Unit(k) == DelayTenth * TwoTo[k]

LEMMA UnitDoubles ==
    ASSUME NEW k \in Nat
    PROVE  Unit(k) \in Nat /\ Unit(k + 1) = 2 * Unit(k)
<1>1. DelayTenth \in Nat
  BY ConstantsAssumption
<1>2. TwoTo[k] \in Nat /\ TwoTo[k + 1] = 2 * TwoTo[k]
  BY TwoToDoubles
<1>3. DelayTenth * (2 * TwoTo[k]) = 2 * (DelayTenth * TwoTo[k])
  BY <1>1, <1>2
<1> QED BY <1>1, <1>2, <1>3 DEF Unit

\* The clamp keeps a wait within a tenth above its base, whatever the jitter.
LEMMA DelayBounds ==
    ASSUME NEW k \in Nat, NEW jitter \in Jitters
    PROVE  /\ Delay(k, jitter) \in Nat
           /\ 10 * Unit(k) <= Delay(k, jitter)
           /\ Delay(k, jitter) <= 11 * Unit(k)
<1>1. jitter \in Int /\ DelayTenth \in Nat /\ TwoTo[k] \in Nat /\ Unit(k) \in Nat
  BY ConstantsAssumption, TwoToDoubles, UnitDoubles
<1>2. DelayTenth * 10 * TwoTo[k] = 10 * Unit(k)
  BY <1>1 DEF Unit
<1>3. Delay(k, jitter) = 10 * Unit(k) + Clamped(jitter, 0, Unit(k))
  BY <1>2 DEF Delay, Unit
<1> QED BY <1>1, <1>3 DEF Clamped

AllWaitInv == \A t \in Threads : WaitInv(thread[t])

LEMMA OutsideWaits ==
    ASSUME NEW pc \in Places, NEW rt, pc # "sleeping"
    PROVE  WaitInv(Outside(pc, rt))
BY DEF Outside, WaitInv

LEMMA WaitStep ==
    ASSUME IInv, AllWaitInv, NEW t \in Threads, NEW x, WaitInv(x), Becomes(t, x)
    PROVE  AllWaitInv'
<1>1. thread \in [Threads -> Local]
  BY DEF IInv, TypeOK
<1>2. thread'[t] = x /\ \A u \in Threads \ {t} : thread'[u] = thread[u]
  BY <1>1 DEF Becomes
<1> QED BY <1>2 DEF AllWaitInv, WaitInv

LEMMA SendWaits ==
    ASSUME IInv, AllWaitInv, NEW t \in Threads, Send(t)
    PROVE  AllWaitInv'
<1>1. thread[t] \in Local /\ WaitInv(thread[t]) /\ thread[t].pc = "sending"
  BY DEF IInv, TypeOK, AllWaitInv, Send, At
<1> DEFINE sent == [thread[t] EXCEPT !.pc = "pending", !.sends = @ + 1]
           refused == [thread[t] EXCEPT !.pc = "raised", !.last = "unexpected"]
<1>2. sent.pc = "pending" /\ sent.attempt = thread[t].attempt /\ sent.wait = thread[t].wait
  BY <1>1 DEF Local
<1>3. refused.pc = "raised"
  BY <1>1 DEF Local
<1>4. Becomes(t, sent) \/ Becomes(t, refused)
  BY DEF Send
<1> HIDE DEF sent, refused
<1>5. WaitInv(sent) /\ WaitInv(refused)
  BY <1>1, <1>2, <1>3 DEF WaitInv
<1> QED BY <1>4, <1>5, WaitStep

LEMMA ReceiveWaits ==
    ASSUME IInv, AllWaitInv, NEW t \in Threads, Receive(t)
    PROVE  AllWaitInv'
<1>1. PICK body \in Bodies :
        Becomes(t, IF Accepts(body)
                     THEN [thread[t] EXCEPT !.pc = "answered", !.last = "usable",
                                            !.resp = Parsed(body)]
                     ELSE [thread[t] EXCEPT !.pc = "raised", !.last = "invalid"])
  BY DEF Receive
<1> DEFINE x == IF Accepts(body)
                  THEN [thread[t] EXCEPT !.pc = "answered", !.last = "usable",
                                         !.resp = Parsed(body)]
                  ELSE [thread[t] EXCEPT !.pc = "raised", !.last = "invalid"]
<1>2. thread[t] \in Local
  BY DEF IInv, TypeOK
<1>3. x.pc \in {"answered", "raised"}
  BY <1>2 DEF Local
<1>4. Becomes(t, x)
  BY <1>1
<1> HIDE DEF x
<1>5. WaitInv(x)
  BY <1>3 DEF WaitInv
<1> QED BY <1>4, <1>5, WaitStep

\* What a failed request becomes.
LEMMA FailedRequest ==
    ASSUME IInv, NEW t \in Threads, RequestFails(t)
    PROVE  \E x : /\ Becomes(t, x) /\ x.attempt = thread[t].attempt
                  /\ \/ x.pc = "raised"
                     \/ x.pc = "sleeping" /\ \E jitter \in Jitters : x.wait = Delay(x.attempt, jitter)
<1>1. thread[t] \in Local
  BY DEF IInv, TypeOK
<1>2. PICK failure \in Failure :
        LET failed == [thread[t] EXCEPT !.last = failure] IN
        \/ /\ ~Retryable(failure) \/ LastAttempt(failed.attempt)
           /\ Becomes(t, [failed EXCEPT !.pc = "raised"])
        \/ /\ Retryable(failure) /\ ~LastAttempt(failed.attempt)
           /\ \E jitter \in Jitters :
                Becomes(t, [failed EXCEPT !.pc = "sleeping",
                                          !.wait = Delay(failed.attempt, jitter)])
  BY DEF RequestFails
<1> DEFINE failed == [thread[t] EXCEPT !.last = failure]
<1>3. failed \in Local /\ failed.attempt = thread[t].attempt
  BY <1>1 DEF Local
<1>4. \/ Becomes(t, [failed EXCEPT !.pc = "raised"])
      \/ \E jitter \in Jitters :
           Becomes(t, [failed EXCEPT !.pc = "sleeping", !.wait = Delay(failed.attempt, jitter)])
  BY <1>2
<1> HIDE DEF failed
<1>5. CASE Becomes(t, [failed EXCEPT !.pc = "raised"])
  <2> DEFINE x == [failed EXCEPT !.pc = "raised"]
  <2>1. x.pc = "raised" /\ x.attempt = thread[t].attempt /\ Becomes(t, x)
    BY <1>3, <1>5 DEF Local
  <2> QED BY <2>1
<1>6. ASSUME NEW jitter \in Jitters,
             Becomes(t, [failed EXCEPT !.pc = "sleeping", !.wait = Delay(failed.attempt, jitter)])
      PROVE  \E x : /\ Becomes(t, x) /\ x.attempt = thread[t].attempt
                    /\ x.pc = "sleeping" /\ x.wait = Delay(x.attempt, jitter)
  <2> DEFINE x == [failed EXCEPT !.pc = "sleeping", !.wait = Delay(failed.attempt, jitter)]
  <2>1. x.pc = "sleeping" /\ x.attempt = thread[t].attempt /\ x.wait = Delay(x.attempt, jitter)
    BY <1>3 DEF Local
  <2>2. Becomes(t, x)
    BY <1>6
  <2> QED BY <2>1, <2>2
<1> QED BY <1>4, <1>5, <1>6

LEMMA RequestFailsWaits ==
    ASSUME IInv, AllWaitInv, NEW t \in Threads, RequestFails(t)
    PROVE  AllWaitInv'
<1>1. thread[t] \in Local /\ thread[t].attempt \in Nat
  BY ConstantsAssumption DEF IInv, TypeOK, Local
<1>2. PICK x : /\ Becomes(t, x) /\ x.attempt = thread[t].attempt
               /\ \/ x.pc = "raised"
                  \/ x.pc = "sleeping" /\ \E jitter \in Jitters : x.wait = Delay(x.attempt, jitter)
  BY FailedRequest
<1>3. x.pc = "sleeping" => x.wait <= 11 * (DelayTenth * TwoTo[x.attempt])
  BY <1>1, <1>2, DelayBounds DEF Unit
<1>4. WaitInv(x)
  BY <1>2, <1>3 DEF WaitInv
<1> QED BY <1>2, <1>4, WaitStep

LEMMA WakeWaits ==
    ASSUME IInv, AllWaitInv, NEW t \in Threads, Wake(t)
    PROVE  AllWaitInv'
<1>1. thread[t] \in Local /\ thread[t].attempt \in Nat /\ thread[t].pc = "sleeping"
      /\ WaitInv(thread[t])
  BY ConstantsAssumption DEF IInv, TypeOK, AllWaitInv, Local, Wake, At
<1> DEFINE x == [thread[t] EXCEPT !.pc = "sending", !.attempt = @ + 1]
<1>2. x.pc = "sending" /\ x.attempt = thread[t].attempt + 1 /\ x.wait = thread[t].wait
  BY <1>1 DEF Local
<1>3. Becomes(t, x)
  BY DEF Wake
<1> HIDE DEF x
<1>4. x.attempt # 0 /\ x.attempt - 1 = thread[t].attempt
  BY <1>1, <1>2
<1>5. WaitInv(x)
  BY <1>1, <1>2, <1>4 DEF WaitInv
<1> QED BY <1>3, <1>5, WaitStep

LEMMA OutsideStepWaits ==
    ASSUME IInv, AllWaitInv, NEW t \in Threads, GetRuntime(t) \/ Chat(t) \/ Leave(t)
    PROVE  AllWaitInv'
<1>1. PICK pc, rt : /\ pc \in Places \ {"sleeping"}
                   /\ Becomes(t, Outside(pc, rt))
  BY DEF GetRuntime, Get, Acquire, Take, Build, BuildRaises, Publish, Chat, Leave, Places
<1> QED BY <1>1, OutsideWaits, WaitStep

LEMMA WaitKeeps == IInv /\ AllWaitInv /\ [Next]_vars => AllWaitInv'
<1> SUFFICES ASSUME IInv, AllWaitInv, [Next]_vars PROVE AllWaitInv'
  OBVIOUS
<1>1. ASSUME NEW t \in Threads, GetRuntime(t) \/ ChatStep(t) \/ Leave(t) PROVE AllWaitInv'
  BY <1>1, OutsideStepWaits, SendWaits, ReceiveWaits, RequestFailsWaits, WakeWaits DEF ChatStep
<1>2. CASE Close
  BY <1>2 DEF Close, AcquireForClose, Unpublish, CloseClient, AllWaitInv, WaitInv
<1>3. CASE UNCHANGED vars
  BY <1>3 DEF vars, AllWaitInv, WaitInv
<1> QED BY <1>1, <1>2, <1>3 DEF Next

\* The waits of a chat grow exponentially: each is at least 20/11 of the one
\* before, whatever the jitter function says, for any base delay and any
\* number of attempts.
THEOREM WaitsGrowExponentially == Spec => WaitsGrow
<1>1. Init => AllWaitInv
  <2> SUFFICES ASSUME Init, NEW t \in Threads PROVE WaitInv(thread[t])
    BY DEF AllWaitInv
  <2>1. thread[t] = Outside("idle", NoRuntime)
    BY DEF Init
  <2> QED BY <2>1, OutsideWaits DEF Places
<1>2. ASSUME IInv, AllWaitInv, Next, NEW t \in Threads,
             At(t, "pending"), thread'[t].pc = "sleeping"
      PROVE  LET k == thread[t].attempt IN
             /\ 11 * thread'[t].wait >= 20 * thread[t].wait
             /\ 10 * DelayTenth * TwoTo[k] <= thread'[t].wait
             /\ thread'[t].wait <= 11 * DelayTenth * TwoTo[k]
  <2>1. thread[t] \in Local /\ WaitInv(thread[t]) /\ thread[t].pc = "pending"
    BY <1>2 DEF IInv, TypeOK, AllWaitInv, At
  <2> DEFINE k == thread[t].attempt
             w == thread[t].wait
  <2>2. k \in Nat /\ DelayTenth \in Nat /\ TwoTo[k] \in Nat
    <3>1. k \in Nat /\ DelayTenth \in Nat
      BY <2>1, ConstantsAssumption DEF Local
    <3> HIDE DEF k
    <3> QED BY <3>1, TwoToDoubles
  <2>3. w \in Int
    <3>1. \A i \in 0 .. MaxAttempts - 1, jitter \in Jitters : Delay(i, jitter) \in Nat
      BY DelayBounds, ConstantsAssumption
    <3> QED BY <2>1, <3>1 DEF Local, Waits
  <2>4. RequestFails(t)
    <3>1. thread \in [Threads -> Local]
      BY <1>2 DEF IInv, TypeOK
    <3>2. thread'[t] # thread[t]
      BY <1>2 DEF At
    <3>3. ASSUME NEW u \in Threads, GetRuntime(u) \/ ChatStep(u) \/ Leave(u)
          PROVE  u = t
      <4>1. \E x : Becomes(u, x)
        BY <3>3 DEF GetRuntime, Get, Acquire, Take, Build, BuildRaises, Publish, ChatStep, Chat,
                    Send, Receive, RequestFails, Wake, Leave
      <4> QED BY <3>1, <3>2, <4>1 DEF Becomes
    <3>4. ~Close
      BY <3>2 DEF Close, AcquireForClose, Unpublish, CloseClient
    <3>5. GetRuntime(t) \/ ChatStep(t) \/ Leave(t)
      BY <1>2, <3>3, <3>4 DEF Next
    <3>6. ~Receive(t)
      <4> SUFFICES ASSUME Receive(t) PROVE FALSE
        OBVIOUS
      <4>1. PICK body \in Bodies :
              Becomes(t, IF Accepts(body)
                           THEN [thread[t] EXCEPT !.pc = "answered", !.last = "usable",
                                                  !.resp = Parsed(body)]
                           ELSE [thread[t] EXCEPT !.pc = "raised", !.last = "invalid"])
        BY DEF Receive
      <4>2. thread'[t].pc \in {"answered", "raised"}
        BY <2>1, <3>1, <4>1 DEF Becomes, Local
      <4> QED BY <1>2, <4>2
    <3> QED BY <2>1, <3>5, <3>6 DEF GetRuntime, Get, Acquire, Take, Build, BuildRaises, Publish,
                                   ChatStep, Chat, Send, Wake, Leave, At
  <2>5. PICK x : /\ Becomes(t, x) /\ x.attempt = k
                 /\ \/ x.pc = "raised"
                    \/ x.pc = "sleeping" /\ \E jitter \in Jitters : x.wait = Delay(x.attempt, jitter)
    BY <1>2, <2>4, FailedRequest
  <2>6. thread'[t] = x
    BY <1>2, <2>5 DEF IInv, TypeOK, Becomes
  <2>7. PICK jitter \in Jitters : x.wait = Delay(k, jitter)
    BY <1>2, <2>5, <2>6
  <2>8. x.wait \in Nat /\ 10 * Unit(k) <= x.wait /\ x.wait <= 11 * Unit(k) /\ Unit(k) \in Nat
    BY <2>2, <2>7, DelayBounds, UnitDoubles
  <2>9. 10 * DelayTenth * TwoTo[k] = 10 * Unit(k) /\ 11 * DelayTenth * TwoTo[k] = 11 * Unit(k)
    BY <2>2 DEF Unit
  <2>10. 11 * x.wait >= 20 * w
    <3>1. CASE k = 0
      <4>1. w = 0
        BY <2>1, <3>1 DEF WaitInv
      <4> QED BY <2>8, <4>1
    <3>2. CASE k # 0
      <4>1. k - 1 \in Nat /\ (k - 1) + 1 = k
        BY <2>2, <3>2
      <4>2. Unit(k) = 2 * Unit(k - 1) /\ Unit(k - 1) \in Nat
        BY <4>1, UnitDoubles
      <4>3. w <= 11 * Unit(k - 1)
        BY <2>1, <3>2 DEF WaitInv, Unit
      <4> QED BY <2>3, <2>8, <4>2, <4>3
    <3> QED BY <3>1, <3>2
  <2> QED BY <2>6, <2>8, <2>9, <2>10
<1>3. IInv /\ AllWaitInv /\ [Next]_vars =>
        [\A t \in Threads :
           At(t, "pending") /\ thread'[t].pc = "sleeping" =>
             LET k == thread[t].attempt IN
             /\ 11 * thread'[t].wait >= 20 * thread[t].wait
             /\ 10 * DelayTenth * TwoTo[k] <= thread'[t].wait
             /\ thread'[t].wait <= 11 * DelayTenth * TwoTo[k]]_vars
  BY <1>2
<1>4. Spec => []AllWaitInv
  BY <1>1, WaitKeeps, Invariance, PTL DEF Spec
<1> QED BY <1>3, <1>4, Invariance, PTL DEF Spec, WaitsGrow

=============================================================================
