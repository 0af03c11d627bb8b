------------------------------ MODULE LlmService ------------------------------
(***************************************************************************)
(* The process-wide AgentRuntime of api/dependencies.py, taken by request  *)
(* threads and closed at shutdown, and the chat calls those threads make   *)
(* through its LLM client, with their bounded retries.                     *)
(*                                                                         *)
(* A runtime is the one HTTP client it owns.  What the messages say is     *)
(* left out; of a provider's response the shape is kept that decides       *)
(* whether it is accepted.  Delays are counted in tenths of the least      *)
(* base delay, so that the jitter limit of a tenth is a whole number.      *)
(***************************************************************************)
EXTENDS Integers, Sequences, FiniteSets

CONSTANTS
    Threads,      \* request threads, each serving one request
    Runtimes,     \* identities of AgentRuntime objects
    MaxAttempts,  \* llm_max_attempts
    DelayTenth,   \* a tenth of llm_retry_base_delay_seconds
    Jitters,      \* what the jitter function may return
    Bodies,       \* responses with a 2xx status
    NoRuntime

ASSUME ConstantsAssumption ==
    /\ IsFiniteSet(Threads) /\ IsFiniteSet(Runtimes)
    /\ Cardinality(Runtimes) > Cardinality(Threads)
    /\ MaxAttempts \in Nat \ {0}
    /\ DelayTenth \in Nat
    /\ Jitters \subseteq Int
    /\ Bodies \subseteq [content : {"text", "null", "other"},
                        calls : Seq([id : {"text", "empty", "other"},
                                     args : {"object", "json_object", "json_other",
                                             "not_json", "other"}])]
    /\ NoRuntime \notin Runtimes

VARIABLES
    published,  \* _agent_runtime
    locked,     \* _agent_runtime_lock
    client,     \* runtime -> whether its HTTP client can be used
    thread,     \* request thread -> its place and its locals
    shutdown    \* the lifespan's close_agent_runtime: its place and its local

vars == <<published, locked, client, thread, shutdown>>

-----------------------------------------------------------------------------
(***************************************************************************)
(* Data                                                                    *)
(***************************************************************************)

Client == {"unbuilt", "open", "closed"}

\* A raw call: "other" is missing or of another type; a tool_calls that is no
\* list is a list of one such call, and null is the empty list.
RawCall == [id : {"text", "empty", "other"},
            args : {"object", "json_object", "json_other", "not_json", "other"}]

ToolCall == [id : {"text"}, args : {"object"}]

\* content "other": no JSON, no choices[0].message, or content of another type.
Body == [content : {"text", "null", "other"}, calls : Seq(RawCall)]

LLMResponse == [content : {"text", "null"}, calls : Seq(ToolCall)]

NoResponse == [content |-> "null", calls |-> <<>>]

\* How a request can fail: a timeout, a broken connection, a status, another
\* RequestError, or an exception that httpx does not declare.
Failure == {"timeout", "network", "throttled", "server_error", "other_status",
            "request_error", "unexpected"}

Clamped(x, low, high) == IF x < low THEN low ELSE IF x > high THEN high ELSE x

\* 2**retry_index.
TwoTo[n \in Nat] == IF n = 0 THEN 1 ELSE 2 * TwoTo[n - 1]

\* Mutant: the jitter is added as it comes.
DelayUnclamped(k, jitter) ==
    IF DelayTenth * 10 * TwoTo[k] + jitter < 0 THEN 0 ELSE DelayTenth * 10 * TwoTo[k] + jitter

\* _calculate_retry_delay.
Delay(k, jitter) == DelayTenth * 10 * TwoTo[k] + Clamped(jitter, 0, DelayTenth * TwoTo[k])

Waits == {0} \cup {Delay(k, jitter) : k \in 0 .. MaxAttempts - 1, jitter \in Jitters}

Local == [pc : {"idle", "waiting", "holding", "built", "ready", "sending",
                "pending", "sleeping", "answered", "raised", "ended"},
          rt : Runtimes \cup {NoRuntime}, attempt : 0 .. MaxAttempts - 1,
          sends : 0 .. MaxAttempts, last : Failure \cup {"none", "invalid", "usable"},
          wait : Waits,
          resp : [content : {"text", "null"}, calls : Seq(RawCall)]]

Outside(pc, rt) == [pc |-> pc, rt |-> rt, attempt |-> 0, sends |-> 0,
                    last |-> "none", wait |-> 0, resp |-> NoResponse]

Init ==
    /\ published = NoRuntime
    /\ locked = FALSE
    /\ client = [r \in Runtimes |-> "unbuilt"]
    /\ thread = [t \in Threads |-> Outside("idle", NoRuntime)]
    /\ shutdown = [pc |-> "up", rt |-> NoRuntime]

At(t, pc) == thread[t].pc = pc

Becomes(t, local) == thread' = [thread EXCEPT ![t] = local]

-----------------------------------------------------------------------------
(***************************************************************************)
(* get_agent_runtime                                                       *)
(***************************************************************************)

\* The first look, without the lock.
Get(t) ==
    /\ At(t, "idle")
    /\ Becomes(t, IF published # NoRuntime THEN Outside("ready", published)
                                           ELSE Outside("waiting", NoRuntime))
    /\ UNCHANGED <<published, locked, client, shutdown>>

Acquire(t) ==
    /\ At(t, "waiting")
    /\ ~locked
    /\ locked' = TRUE
    /\ Becomes(t, Outside("holding", NoRuntime))
    /\ UNCHANGED <<published, client, shutdown>>

\* Mutant: no second look under the lock.
MustBuildAlways(shared) == shared \in Runtimes \cup {NoRuntime}

\* The second look.
MustBuild(shared) == shared = NoRuntime

Take(t) ==
    /\ At(t, "holding")
    /\ ~MustBuild(published)
    /\ Becomes(t, Outside("ready", published))
    /\ locked' = FALSE
    /\ UNCHANGED <<published, client, shutdown>>

\* Nobody refers to it: a new object, or the identity of a collected one.
Unreferenced(r) ==
    /\ client[r] # "open"
    /\ published # r
    /\ \A u \in Threads : thread[u].rt # r

Build(t) ==
    /\ At(t, "holding")
    /\ MustBuild(published)
    /\ \E r \in Runtimes :
         /\ Unreferenced(r)
         /\ client' = [client EXCEPT ![r] = "open"]
         /\ Becomes(t, Outside("built", r))
    /\ UNCHANGED <<published, locked, shutdown>>

\* Mutant: acquire and release without a with-statement.
LockAfterRaiseKept(held) == held

LockAfterRaise(held) == FALSE

\* get_settings raises: there is no configuration.
BuildRaises(t) ==
    /\ At(t, "holding")
    /\ MustBuild(published)
    /\ Becomes(t, Outside("ended", NoRuntime))
    /\ locked' = LockAfterRaise(locked)
    /\ UNCHANGED <<published, client, shutdown>>

Publish(t) ==
    /\ At(t, "built")
    /\ published' = thread[t].rt
    /\ Becomes(t, Outside("ready", thread[t].rt))
    /\ locked' = FALSE
    /\ UNCHANGED <<client, shutdown>>

-----------------------------------------------------------------------------
(***************************************************************************)
(* close_agent_runtime, once, when the lifespan ends                       *)
(***************************************************************************)

AcquireForClose ==
    /\ shutdown.pc = "up"
    /\ ~locked
    /\ locked' = TRUE
    /\ shutdown' = [pc |-> "holding", rt |-> NoRuntime]
    /\ UNCHANGED <<published, client, thread>>

\* Mutant: the shared runtime stays visible until its client is closed.
VisibleDuringCloseKept(shared) == shared

VisibleDuringClose(shared) == NoRuntime

Unpublish ==
    /\ shutdown.pc = "holding"
    /\ shutdown' = [pc |-> "closing", rt |-> published]
    /\ published' = VisibleDuringClose(published)
    /\ UNCHANGED <<locked, client, thread>>

\* Requests that took the runtime before go on with a closed client.
CloseClient ==
    /\ shutdown.pc = "closing"
    /\ client' = [r \in Runtimes |-> IF r = shutdown.rt THEN "closed" ELSE client[r]]
    /\ shutdown' = [pc |-> "down", rt |-> NoRuntime]
    /\ locked' = FALSE
    /\ UNCHANGED <<published, thread>>

-----------------------------------------------------------------------------
(***************************************************************************)
(* LLMClient.chat                                                          *)
(***************************************************************************)

\* A request makes as many chat calls as its workflow has rounds.
Chat(t) ==
    /\ At(t, "ready") \/ At(t, "answered")
    /\ Becomes(t, Outside("sending", thread[t].rt))
    /\ UNCHANGED <<published, locked, client, shutdown>>

\* A closed client refuses to send; that is no LLMProviderError.
Send(t) ==
    /\ At(t, "sending")
    /\ Becomes(t, IF client[thread[t].rt] = "open"
                    THEN [thread[t] EXCEPT !.pc = "pending", !.sends = @ + 1]
                    ELSE [thread[t] EXCEPT !.pc = "raised", !.last = "unexpected"])
    /\ UNCHANGED <<published, locked, client, shutdown>>

\* _parse_tool_calls, one call; "invalid" stands for InvalidLLMResponseError.
ParsedCall(raw) == [id |-> raw.id,
                    args |-> IF raw.args = "json_object" THEN "object" ELSE raw.args]

\* Mutant: null content is accepted as if there were calls.
AcceptsNull(body) ==
    /\ body.content # "other"
    /\ \A i \in DOMAIN body.calls : ParsedCall(body.calls[i]) \in ToolCall

\* _parse_response: the message, its content and every call must be usable,
\* and there must be content or a call.
Accepts(body) ==
    /\ body.content # "other"
    /\ \A i \in DOMAIN body.calls : ParsedCall(body.calls[i]) \in ToolCall
    /\ body.content # "null" \/ body.calls # <<>>

Parsed(body) ==
    [content |-> body.content,
     calls |-> [i \in DOMAIN body.calls |-> ParsedCall(body.calls[i])]]

Receive(t) ==
    /\ At(t, "pending")
    /\ \E body \in Bodies :
         Becomes(t, IF Accepts(body)
                      THEN [thread[t] EXCEPT !.pc = "answered", !.last = "usable",
                                             !.resp = Parsed(body)]
                      ELSE [thread[t] EXCEPT !.pc = "raised", !.last = "invalid"])
    /\ UNCHANGED <<published, locked, client, shutdown>>

\* Mutant: every failed request of the provider is worth another.
RetryableAny(failure) == failure # "unexpected"

\* _request_once: LLMProviderError.retryable.
Retryable(failure) == failure \in {"timeout", "network", "throttled", "server_error"}

\* Mutant: one attempt more.
LastAttemptLate(attempt) == attempt >= MaxAttempts

LastAttempt(attempt) == attempt + 1 >= MaxAttempts

\* The request fails: the loop raises or schedules a retry.
RequestFails(t) ==
    /\ At(t, "pending")
    /\ \E failure \in Failure :
         LET failed == [thread[t] EXCEPT !.last = failure] IN
         \/ /\ ~Retryable(failure) \/ LastAttempt(failed.attempt)
            /\ Becomes(t, [failed EXCEPT !.pc = "raised"])
         \/ /\ Retryable(failure) /\ ~LastAttempt(failed.attempt)
            /\ \E jitter \in Jitters :
                 Becomes(t, [failed EXCEPT !.pc = "sleeping",
                                           !.wait = Delay(failed.attempt, jitter)])
    /\ UNCHANGED <<published, locked, client, shutdown>>

Wake(t) ==
    /\ At(t, "sleeping")
    /\ Becomes(t, [thread[t] EXCEPT !.pc = "sending", !.attempt = @ + 1])
    /\ UNCHANGED <<published, locked, client, shutdown>>

\* The request ends, with or without an answer.
Leave(t) ==
    /\ \E pc \in {"ready", "answered", "raised"} : At(t, pc)
    /\ Becomes(t, Outside("ended", NoRuntime))
    /\ UNCHANGED <<published, locked, client, shutdown>>

-----------------------------------------------------------------------------
GetRuntime(t) ==
    Get(t) \/ Acquire(t) \/ Take(t) \/ Build(t) \/ BuildRaises(t) \/ Publish(t)

ChatStep(t) == Chat(t) \/ Send(t) \/ Receive(t) \/ RequestFails(t) \/ Wake(t)

Close == AcquireForClose \/ Unpublish \/ CloseClient

Next ==
    \/ \E t \in Threads : GetRuntime(t) \/ ChatStep(t) \/ Leave(t)
    \/ Close

Spec == Init /\ [][Next]_vars

\* A thread inside a call runs on: a request comes to an answer or times out,
\* a sleep ends, a free lock is given out.  New calls need not come.
Progress(t) ==
    \/ Acquire(t) \/ Take(t) \/ Build(t) \/ BuildRaises(t) \/ Publish(t)
    \/ Send(t) \/ Receive(t) \/ RequestFails(t) \/ Wake(t)

FairSpec ==
    /\ Spec
    /\ \A t \in Threads : WF_vars(Progress(t))
    /\ WF_vars(Unpublish) /\ WF_vars(CloseClient)

-----------------------------------------------------------------------------
(***************************************************************************)
(* Properties                                                              *)
(***************************************************************************)

\* Types; a retry is always one of the MaxAttempts attempts, so the loop never
\* ends without a response or an error, as llm/client.py:150 asserts.
TypeOK ==
    /\ published \in Runtimes \cup {NoRuntime}
    /\ locked \in BOOLEAN
    /\ client \in [Runtimes -> Client]
    /\ thread \in [Threads -> Local]
    /\ shutdown \in [pc : {"up", "holding", "closing", "down"},
                     rt : Runtimes \cup {NoRuntime}]

\* An open client is the published runtime's, or that of the one thread that
\* is building or closing it: concurrent first requests never build two, of
\* which one would never be closed.
OpenClientsAreOwned ==
    /\ \A r \in Runtimes :
         client[r] = "open" =>
            \/ published = r
            \/ shutdown.pc = "closing" /\ shutdown.rt = r
            \/ \E t \in Threads : At(t, "built") /\ thread[t].rt = r
    /\ Cardinality({r \in Runtimes : client[r] = "open"}) <= 1

\* A request that comes while or after the runtime is closed is never given a
\* closed one: it waits and builds another.
PublishedIsOpen == published # NoRuntime => client[published] = "open"

\* docs/CURRENT_STATE.md, bounded LLM retry policy: a request is repeated only
\* after a timeout, a broken connection, 429 or 5xx, and such a failure is
\* raised only when MaxAttempts requests were sent.
OnlyTransientFailuresRetried ==
    \A t \in Threads :
        LET transient == {"timeout", "network", "throttled", "server_error"} IN
        /\ At(t, "sleeping") => thread[t].last \in transient
        /\ At(t, "raised") /\ thread[t].last \in transient => thread[t].sends = MaxAttempts

\* The waits of one chat grow exponentially whatever the jitter function says:
\* each is at least 20/11 of the one before and never more than 11/10 of twice
\* what the one before was without its jitter.
WaitsGrow ==
    [][\A t \in Threads :
         At(t, "pending") /\ thread'[t].pc = "sleeping" =>
           LET k == thread[t].attempt IN
           /\ 11 * thread'[t].wait >= 20 * thread[t].wait
           /\ 10 * DelayTenth * TwoTo[k] <= thread'[t].wait
           /\ thread'[t].wait <= 11 * DelayTenth * TwoTo[k]]_vars

\* What chat returns can be stored as an assistant message (llm/schemas.py) and
\* sent back in the next round: content or calls, and only decoded calls.
AnswersAreMessages ==
    \A t \in Threads :
        At(t, "answered") =>
            /\ thread[t].resp \in LLMResponse
            /\ thread[t].resp.content = "text" \/ thread[t].resp.calls # <<>>

\* A thread that entered get_agent_runtime or chat leaves it: nobody waits
\* forever for the lock, whatever raises in there, and retries come to an end.
CallsReturn ==
    \A t \in Threads :
        (\E pc \in {"waiting", "holding", "built", "sending", "pending", "sleeping"} :
            At(t, pc)) ~> (\E pc \in {"ready", "answered", "raised", "ended"} : At(t, pc))

-----------------------------------------------------------------------------
(***************************************************************************)
(* The inductive invariant behind the properties of the shared runtime and *)
(* of the retry loop.                                                      *)
(***************************************************************************)

Holds(t) == At(t, "holding") \/ At(t, "built")

Closing == shutdown.pc \in {"holding", "closing"}

\* The lock has one holder at most, and is free without one.
LockInv ==
    /\ \A t \in Threads : Holds(t) => locked /\ ~Closing
    /\ Closing => locked
    /\ \A t, u \in Threads : Holds(t) /\ Holds(u) => t = u

\* What a holder has in hands is open, and not published.
HandInv ==
    /\ \A t \in Threads : At(t, "built") =>
         thread[t].rt # NoRuntime /\ client[thread[t].rt] = "open" /\ published = NoRuntime
    /\ shutdown.pc = "closing" => published = NoRuntime

OwnerInv ==
    \A r \in Runtimes : client[r] = "open" =>
       \/ published = r
       \/ shutdown.pc = "closing" /\ shutdown.rt = r
       \/ \E t \in Threads : At(t, "built") /\ thread[t].rt = r

\* The loop counts what it sends, and sleeps only before another attempt.
ChatInv(local) ==
    /\ local.pc \in {"sending", "pending", "sleeping"} => local.rt # NoRuntime
    /\ local.pc \in {"ready", "answered"} => local.rt # NoRuntime
    /\ local.pc = "sending" => local.sends = local.attempt
    /\ local.pc \in {"pending", "sleeping"} => local.sends = local.attempt + 1
    /\ local.pc = "sleeping" => ~LastAttempt(local.attempt) /\ Retryable(local.last)
    /\ local.pc = "raised" /\ Retryable(local.last) => local.sends = MaxAttempts
    /\ local.pc = "answered" =>
         /\ local.resp \in LLMResponse
         /\ local.resp.content = "text" \/ local.resp.calls # <<>>

\* The wait that led to this attempt, or to the next, was that of its own index.
WaitInv(local) ==
    /\ local.pc \in {"sending", "pending"} /\ local.attempt = 0 => local.wait = 0
    /\ local.pc \in {"sending", "pending"} /\ local.attempt # 0 =>
         local.wait <= 11 * (DelayTenth * TwoTo[local.attempt - 1])
    /\ local.pc = "sleeping" => local.wait <= 11 * (DelayTenth * TwoTo[local.attempt])

IInv ==
    /\ TypeOK
    /\ LockInv
    /\ HandInv
    /\ OwnerInv
    /\ PublishedIsOpen
    /\ \A t \in Threads : ChatInv(thread[t])
=============================================================================
