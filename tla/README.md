# AgentFlow in TLA+

This directory models the durable execution core of AgentFlow
(`src/backend/app`), checks it with TLC on small instances and proves its
safety properties with TLAPS for every size. AgentFlow runs an LLM agent on
behalf of a *Task*. A Tool that is not declared free of side effects needs a
human *Approval*: the workflow is parked in a LangGraph checkpoint, the Task
waits, and the decision resumes it, possibly in another process. The approved
Tool runs under a *ToolExecution* row, a ledger that has to survive crashes
between the effect and its record. An operator may ask for *recovery* of a
Task at any time, while its owner may be dead or merely slow.

## 1. Inventory

Paths are relative to `src/backend/app`.

| Component | State | Operations | Interacts with |
|---|---|---|---|
| Task lifecycle: `tasks/service.py`, `models.py`, `repository.py`, `pause_persistence.py`, `resume.py` | table `tasks`: status, `updated_at` | `execute`, `continue_running`, its three exits (pause, succeed, fail) and review, `resume` | calls the runtime; its exits are compare-and-set on (status, `updated_at`), the *generation* of the owner |
| Approvals: `approvals/*` | table `approvals`: status | `decide`: approve or reject, with the Task in one transaction | conditional on the status of Approval and Task; dispatches `resume` after commit |
| Execution ledger: `approved_execution.py`, `executions/*` | table `tool_executions`: status, `updated_at`, result | `execute` (validate, look up, claim, run, finish), `recover` (claim a stale row and run again), replay | reads Approvals; calls Tools |
| Operator recovery: `tasks/recovery.py` | none | `recover`: read Task, checkpoint, ledger and Approval, classify, compare-and-set, dispatch | all of the above |
| Workflow and runtime: `agents/runtime.py`, `workflows/*`, `protected_execution.py` | the LangGraph checkpoint of the thread named after the Task | `run`, `resume`, `resume_pending_tool`, the nodes `llm`, `tool`, `approval_pause` | checkpoint store (external library), LLM client, Tools, ledger |
| Permission scope: `tools/permission.py`, `agents/policy.py` | context variable; provenance in the checkpoint | restore the Agent before continuation | runtime, ledger |
| Delegation: `agents/supervisor.py`, `tasks/delegation.py` | none durable | run a worker's Task, project its outcome into a reply | Task lifecycle, checkpoint |
| LLM client: `llm/client.py` | none durable | `chat` with bounded retry | HTTP |
| Runtime provider: `api/dependencies.py` | the process-wide runtime, a lock | get, close | every request |
| Tools: `tools/*` | registry | `execute` with schema validation | external systems |
| HTTP API: `api/tasks.py`, `approvals.py`, `agent.py` | none | page the Task list; hand requests to the services | all of the above |
| Observability, demo, configuration, schema | none that the above reads back | | |

The behaviours that are hard here, and hard to test:

* **Several owners.** Nothing tells a dead request thread from a slow one.
  Recovery decides by age, so a superseded thread may still run its Tool,
  answer, fail, pause or succeed after its successor did.
* **Crashes and lost acknowledgements** between any two transactions, and
  between an external effect and its record.
* **Stale reads.** Decisions and recoveries build their candidate from rows
  read in an earlier transaction; the checkpoint, the ledger, the Approval and
  the Task are read at four different times.
* **Clocks** of different hosts order and fence the writes: ties and lags matter.
* **The checkpoint store is not fenced** by the Task's generation.

What makes each component correct:

* *Ledger*: a Tool without declared idempotency is entered at most once per
  call; every attempt is covered by the one Approval of the row; the row tells
  the answer of its latest attempt; a result once returned is durable and the
  same for every caller; takeovers wait and fence.
* *Task*: the committed statuses follow the domain model's transitions whatever
  threads race; a pause and a decision move Task and Approval together; finished
  Tasks stay finished; a claim of a RUNNING Task waits and fences.
* *Recovery*: dispatches at most one owner per generation, never from a stale
  snapshot, and in the end settles or hands over what it finds.
* *Workflow*: never runs a protected Tool without its Approval; work done before
  a pause is not done again after it.
* *End to end*: a transcript has only results the ledger has; a Task does not end
  past an approved call that never ran, nor over a row in doubt; a healthy Task is
  left alone; a dead one is not left RUNNING.
* *Task list*: a client that turns pages is shown every Task that was there all
  the time, or can be told why not.
* *Runtime provider*: one open runtime per process. *LLM client*: bounded retries,
  of retryable failures only. *Delegation*: a reply never contradicts the Task.

## 2. Modules

| Module | What it models |
|---|---|
| `ExecutionLedger` | the ledger and its two drivers, for any number of calls, Approvals and threads |
| `DurableExecution` | abstract: what the rows of the ledger promise to their readers |
| `ExecutionLedgerProofs` | theorems of `ExecutionLedger`, the refinement of `DurableExecution` among them |
| `TaskContract` | abstract: what a client may see of one Task and its Approvals |
| `TaskLifecycle` | the durable life of one Task: row, Approvals, checkpoint, and every request that acts on them |
| `TaskLifecycleProofs` | its theorems, the refinement of `TaskContract` among them |
| `TaskFlow` | one Task composed: row, Approvals, checkpoint and ledger, driven by requests, recovery weighing the real rows |
| `TaskFlowProofs` | its theorems; those about recovery and the ends of the Task hold while no live request is taken for dead |
| `TaskFlowFaultProofs` | its theorems under any faults, the refinement of `TaskContract` among them |
| `AgentGraph` | the workflow of one Task with its data: transcript, batch cursor, budget, Agent; the invocations that run it |
| `AgentGraphProofs` | its theorems |
| `LlmService` | the process-wide runtime, its lock and its shutdown; the chat calls through its client, with their retries |
| `LlmServiceProofs` | its theorems |
| `Delegation` | a delegated Task, the caller's REQUEST and the replies projected for it; uses `TaskContract` |
| `DelegationProofs` | its theorems |
| `TaskListing` | the paged Task list, read while Tasks are created and move |
| `TaskListingProofs` | its theorems |
| `MC...` | the values of the constants for TLC, and the symmetry |

The modules meet at their interfaces. `TaskLifecycle` decides who may continue a
workflow and what becomes of the Task; `AgentGraph` lets anyone continue at any
time and says what the workflow's data look like then; `ExecutionLedger` says
what happens to one approved call that the `tool` node makes. `Delegation` takes
the Task's transitions from `TaskContract`, which `TaskLifecycle` implements. In
each of them the neighbours are replaced by every behaviour they could have, so
that what holds in a module holds beside its neighbours. `TaskFlow` composes the Task,
its Approvals, its checkpoint and the ledger, with less detail of each, for what
only the four together can say. `TaskListing` stands alone.

### ExecutionLedger

State: `approval` (status per Approval), `ledger` (row per call), `actor`
(program counter and locals per request thread), `clock`, and `journal`, a
history variable with one entry per committed claim: the Approval it was made
under, whether the operation happened, what the Tool answered. A *call* is
(task id, tool call id), the UNIQUE key of the table. `CallOf` says which call,
Tool and arguments an Approval names: `_replay`, `validate` and `recover` only
ever compare them for equality.

Each action is one transaction, one clock reading or one crossing of the Tool
boundary. `StartExecute`, `ReadRow`, `RefuseInput`, `Claim` are `execute`;
`StartRecover`, `ReadForRecovery`, `ClaimRecovery` are `recover`; `Effect`,
`Respond`, `Finish` are `_execute_claimed`, shared by both. `...RollsBack` are
the failing transactions, with both exceptions `_transaction` may raise. A
commit whose acknowledgement is lost is a disjunct of `Claim`, `ClaimRecovery`
and `Finish`. `Crash` drops the locals of a thread anywhere. The Tool is
external: it may perform its operation and answer or raise anything; it reports
"no effect" only when there was none (`ToolExecutionFailedWithoutEffect` is
defined that way). Timestamps are readings of a clock that lags the most
advanced one by up to `Skew` ticks.

### DurableExecution

`decision` is the Approvals' statuses; `record` says of each call its status, its
Approval, how often it was claimed, and which claim a stored result is of. A call
is claimed under a granted Approval that names it, claimed again only if its Tool
declares idempotency, and each claim ends at most once. `ExecutionLedger` implements
it with `claims` the length of the call's journal and `tells` the claim whose answer
the row has: a late answer of a superseded claim would be a step that the abstract
specification does not have.

### TaskContract and TaskLifecycle

`TaskContract` has two variables, the Task's status and the Approvals' statuses,
and one action per transition of the domain models. `Approve` and `Reject` move
both at once; `Ask` opens a question and parks the Task.

`TaskLifecycle` has the row `task`, the Approvals, the latest `checkpoint` of
the Task's thread, the request threads `actor` and the `clock`. Tasks share no
row, so one Task stands for all. A transaction, a read, and a graph node up to
its synchronous checkpoint are one action each:

* `Create`, `Start`, `Begin`, `LlmNode`, `ToolNode`, `Interrupt`, `Raise`,
  `Pause`, `PauseRaises`, `Fail`, `Review`, `Succeed`: `execute` and
  `continue_running`, the graph they run and its exits. A pause whose
  acknowledgement is lost goes on into the generic failure path, as in the code.
* `ReadForDecision`, `Decide`, `Resume`, `LoadPaused`, `PauseNode`: `decide`, the
  dispatch after its commit, and the resumed graph.
* `ReadForRecovery`, `ReadEvidence`, `Weigh`, `Reconcile`, `Dispatch`,
  `ReloadTool`: operator recovery, with its reads at different times. `Verdicts`
  is the classification; where the code looks at ledger rows, every answer those
  rows could give is allowed.
* `Abandon`: the process dies, or the request raises without writing.

The checkpoint store is external: LangGraph with `durability="sync"` makes a
node's output the latest checkpoint before the next node runs, whoever writes
it. Nothing fences it, and the model does not either.

### TaskFlow

State: `task` and `approval` (statuses), `checkpoint` (the next node, the pending
call and Approval, the rounds, and the calls whose results are in the messages),
`ledger` (a row per call), `thread` (per request where it is and what it holds),
`fresh` and `history`. One Task; a batch of the model is one protected call, because
`AgentGraph` has the batches.

Timestamps do two things in the code, and the model keeps these two. A conditional
write compares a timestamp with one that was read: a request keeps in `valid` the
things nobody has written since it read them. Recovery compares a timestamp with the
cutoff: `fresh` is the rows written less than `stale_after_seconds` ago, and `Age`
takes one out. What happens when timestamps tie or run backwards is the subject of
`TaskLifecycle` and `ExecutionLedger`.

* `Create`, `Start`, `Begin`, `LlmNode`, `Ask`, `Pause`, `Execute`, `Finish`,
  `ToolDone`, `Fail`, `Review`, `Succeed`: `execute`, `continue_running`, the nodes and
  the protected call, with `validate`, the ledger's claim and its fenced result write.
  `Raise` is an exception anywhere in the workflow before the request has written.
* `Decide`, `Resume`, `LoadPaused`, `PauseNode`: `decide` and `TaskResumeService`.
* `ReadForRecovery`, `ReadCheckpoint`, `Weigh`, `Reconcile`, `Recheck`,
  `RecoverExecution`, `ReloadTool`: `recover`, each read at its own time. `Verdict`
  is the chain of conditions of `_recover`, over the rows as they are.
* `Crash`: the process dies anywhere, or a transaction fails and the request ends.
  `Suspect`: a row ages while a live request works, which is the case where age does
  not mean death. `AgeUnattended`: a row ages when none does.

`history` counts crashes and suspicions, and remembers whether a Tool's answer was in
doubt. Some properties are about histories without suspicion: with one, the code cannot
give more (see below). The others hold whatever is taken for dead: `TaskFlowFaultProofs` has those.

For `TaskContract` an Approval is what is persisted of it (`Shown`): a draft in a
checkpoint is a question nobody has asked yet. `Remaining` measures how far a request is
from its end, in steps: the rounds its state leaves it, and its place.

### TaskListing

State: `row` (the status and `created_at` of each Task) and `reader` (filter and
offset of a client that turns the pages, the Tasks that were in its list all the
time, the ones it has been shown, and how many left the list from a place it had
passed). `Page` is the SELECT of `TaskRepository.list`: WHERE, ORDER BY `created_at`
and `id` descending, OFFSET, LIMIT. `Moves` is the Task's transitions.

### AgentGraph

State: `checkpoint` (the next node and the `AgentGraphState`), `run` (per thread
the invocation it is in: node, state, the runtime's own `max_steps`, permission
scope, remaining supersteps), `approval` (per id the status and the call it was
drawn for), and two history variables: `origin`, the Agent and the budget the
workflow began with, and `entered`, the calls whose Tool was entered with the
Approval they were entered under.

* `Run`, `Resume`, `ResumePendingTool`, `Enter`: `AgentRuntime.run`, `resume` and
  `resume_pending_tool`. The guards read a snapshot; `Enter` is `graph.invoke`,
  which loads whatever is the latest checkpoint by then.
* `LlmNode`, `RunTool`, `RunApproved`, `Ask`, `ToolsDone`, `Interrupt`,
  `PauseNode`: the nodes. The `tool` node is one action per call of the batch,
  because it may die between two; its output is written when it returns, in
  `Ask` or `ToolsDone`.
* `Pause`, `Decide`, `Raise`: the persisted question, its answer, and any
  exception or crash.

Tool calls are model values with what the code compares (`Protected`, `Grants`);
a message is its role with the calls it asks for or the call it answers. A
superstep of the graph library costs one unit of the recursion limit (external).

### LlmService

State: `published` and `locked` are the module globals of `api/dependencies.py`;
`client` says of each runtime whether its HTTP client is open; `thread` has the
place and the locals of each request; `shutdown` those of `close_agent_runtime`.

* `Get`, `Acquire`, `Take`, `Build`, `BuildRaises`, `Publish`: `get_agent_runtime`,
  with the look before the lock, the look under it, and a construction that raises.
* `AcquireForClose`, `Unpublish`, `CloseClient`: `close_agent_runtime`.
* `Chat`, `Send`, `Receive`, `RequestFails`, `Wake`: `LLMClient.chat`, one action
  per request sent, answer, failure and sleep. Of a response the shape is kept
  that decides about its acceptance; delays are integers, in tenths of the least
  base delay, so that the jitter limit of ten percent is exact.

A request that comes after the shutdown builds a runtime that nobody closes. The
server accepts no request then, so the code is right to leave it; the model
allows it, and the properties hold there too.

### Delegation

State: `status` and `question` as in `TaskContract`, `result`, `owner` (who wrote
the row last: with the status, the generation that `reconcile_if_unchanged`
compares), `checkpoint` (the Agent it is bound to, and the final answer once no
node is next), `run` (continuations and recoveries), `request` (what
`execute_delegated_task` returned), `reader` (the row that a call of
`read_delegation_result` holds) and `replies`.

`Create`, `Start`, `Delegate`, `Begin` are `execute_delegated_task` down to the
Worker's first checkpoint; `Work`, `Answer`, `Pause`, `Succeed`, `Fail`, `Review`,
`Abandon` the invocation and `continue_running`; `Approve`, `Reject`, `Resume`,
`Load`, `Look`, `Adopt`, `Claim` decisions and recoveries; `ReadTask` and `Project`
the two reads of the projection. Recovery may come at any time: how long it waits
is `TaskLifecycle`'s subject.

Operators marked *Mutant* stand before the definition they vary. No
specification uses them; they are the bugs the properties are known to catch.

## 3. Runs

`calls` and `live` check liveness, under the `FairSpec` of their modules. The others
are safety runs and assume no fairness.

| Run | Instance | Checks |
|---|---|---|
| `rival` | 2 threads, 3 Approvals for 2 calls (INHERENT, and NONE with two Approvals), clock 0..1, no lag | `OneApprovalPerCall`, `NoneAtMostOnce`, `NoneFailedMeansNoEffect` |
| `takeover` | 3 threads, 1 call, clock 0..2, lag 1 | `RowTellsLatestAttempt`, `DistinctClaims`, `ReturnedResultIsDurable`, `TakeoverIsStaleAndFences`, `ImplementsDurableExecution` |
| `failed` | 2 threads, 1 call | `FailedMeansNoEffect`, violated |
| `lifecycle` | 2 threads, 3 Approvals, clock 0..3, lag 1, 7 checkpoints | `ImplementsContract`, `ClaimIsStaleAndFences` |
| `owner` | 2 threads, 1 Approval | `SoleOwner`, violated |
| `clock` | 2 threads, 3 Approvals, no lag | `TimestampsAdvance`, violated |
| `runs` | 2 overlapping invocations, 2 Agents, budgets 1 and 3, 3 batches (one call, the protected one in the middle, it twice), 3 Approvals | `BudgetSpansResumes`, `LimitIsOnlyAGuard`, `GrantsSurvivePauses`, `TranscriptIsComplete`, `PendingNamesItsCall`, `ProtectedEntriesApproved` |
| `calls` | 2 requests, 3 runtimes, 3 attempts, 3 jitters, every shape of response with one call, one shutdown | `TypeOK`, `OnlyTransientFailuresRetried`, `AnswersAreMessages`, `OpenClientsAreOwned`, `PublishedIsOpen`, `WaitsGrow`, `CallsReturn` |
| `replies` | 3 continuations, 1 Approval, 2 answers, 1 reader, Agents with equal names and wrong roles | `RepliesTellTheEnd`, `RequestHasProvenance` |
| `flow` | 2 requests, 2 calls (one with a key, one without idempotency), 2 Approvals, 3 rounds, 2 crashes, 2 suspicions | `TranscriptTellsLedger`, `ApprovedCallsRan`, `HealthyTaskLeftAlone`, `NoDoubtBuried`, `OneHandPerTask`, `SucceededIsAtEnd`, `OnlyApprovedCallsRun`, `RowsKeepTheirWord`, `ImplementsContract`, `RequestsRunDown` |
| `live` | 2 requests, 1 call with a key, 2 Approvals, 2 rounds, 2 crashes, 1 suspicion | `RunningIsLeft`, `PendingIsLeft`, `ReviewIsLeft` |
| `pages` | 3 Tasks, 2 clock readings, limits 1 and 2, 2 departures | `MissedAtMostDeparted`, `UnfilteredMissesNone` |

Bounds. With `StaleAfter = 1` a clock that reaches 2 (`takeover`) allows a claim,
a takeover and a takeover of the takeover; one that reaches 1 (`rival`) allows one
takeover, which the rival Approval of the same call can meet at any step, and the
second call shows that neither mode lends its rules to the other. Two threads are
an owner and a recoverer; the third (`takeover`) is the second recoverer with the same
snapshot. In `TaskLifecycle` the second thread serves again when its request is done, so
that two suffice for any order of an owner, a decision and recoveries. A lag of one tick gives
both the tie and the reading that is behind. Five checkpoints are the way from
the start through one pause to the end of the workflow; seven, with three
Approvals, are two pauses and a third one asked by a superseded thread. Threads
return to the pool, so the number of requests is bounded only by what they can
still change. Threads and Approvals are symmetric: no definition distinguishes
them, except `CallOf` and `Mode`, for which `MCExecutionLedger` permutes threads
only. `ExecutionLedger` runs check deadlock: a thread can always be used again.
`TaskLifecycle` runs do not: with one Task, a finished one leaves nothing to do,
and one whose creator died between its two saves stays PENDING for ever, in the
code as in the model.

`AgentGraph`: a budget of three lets a workflow pause in two rounds and answer, and
continue under a runtime with a smaller or a larger budget each time; the batches put
the protected call in the middle, at both ends and twice. Two overlapping invocations
with three Approvals are an owner and a superseded one which both ask. The run does
not check deadlock: a workflow at its end leaves nothing to do. `LlmService`: two
threads and the shutdown are the three parties of the lock, and one runtime more than
threads lets a runtime be closed while each thread holds another; three attempts give
two delays to compare, and the jitters lie below, within and beyond the limit of each.
`Delegation`: three continuations are the first execution, a recovery or decision that
supersedes it, and a recovery that supersedes both; its one reader may read again and
again.

`TaskFlow`: two requests are an owner and a recovery or a decision, and each thread
serves again; two crashes are the owner's and its recovery's, at any two places; three
rounds let both calls be asked for, or one of them twice, under two Approvals, before
the answer; the two calls differ in whether they may be retried. There are two
suspicions because there are two kinds of row to age under a live request, the Task's
and its call's: with both, a recovery supersedes the Task's owner and claims the row it
holds, and the two go on beside each other. Five of the ten properties of `flow` speak of
histories without a suspicion; the other five are checked, and proved, whatever is taken
for dead. Two Approvals are one per call, or one in the hands of the
owner and one in those of its successor. `live` has two crashes, the owner's and its
recovery's, and a suspicion; a request that finds no id free raises, so that none waits
for one. The runs do not check deadlock: a finished Task leaves nothing to do.
`TaskListing`: three Tasks are one already passed, one to be skipped and one behind it;
two clock readings give both order and tie; two departures may both come before a skip.
It may stop too: the reader is done and the Tasks are finished.

Fairness. `FairSpec` of `LlmService` assumes weak fairness of each thread while it is inside
`get_agent_runtime` or `chat`, and of the shutdown once it has the lock: threads are
scheduled, HTTP requests have a timeout (`llm/client.py` sets one), sleeps end, and
a free `threading.Lock` is given to a waiting thread. A thread waits at most for
holders that came before it, of which the runs have two. New requests, new chat
calls and the shutdown itself need not come.

`FairSpec` of `TaskFlow` assumes weak fairness of each request's own steps: a live
thread runs on, and the Tools and the model answer or raise. It assumes that time
passes while no request works on the Task (`AgeUnattended`): this is the only use the
code makes of its threshold, that a Task nobody works on becomes old. And it assumes
that the operator asks again while there is something to recover (`Recovery`): recovery
is triggered by an operator, the code has no timer for it, so without this nothing is
promised. Nobody has to create, decide, crash or suspect.

### What the code does otherwise than documented

* `failed`. ADR-007 in `docs/DECISIONS.md` says that FAILED means an explicit
  known no-effect failure. A first attempt performs its operation and its
  process dies; a recovery retries with the same key; the retry reports that it
  had no effect; the row becomes FAILED. FAILED speaks of the last attempt only.
  For Tools without idempotency the sentence is true (`NoneFailedMeansNoEffect`,
  proved), because they are never retried.
* `owner`. `docs/ARCHITECTURE.md` says that the compare-and-set exits fence
  normal continuations against a newer recovery owner while that owner is still
  RUNNING. `TaskResumeService.resume` re-reads the Task instead of carrying the
  generation it was dispatched for. A continuation that was dispatched, was slow
  for longer than the threshold and was superseded by a recovery reads the
  recovery's row and takes its generation for its own: both threads then run the
  workflow and both pass every fence. The ledger still keeps the Tool from being
  run twice.
* `clock`. The Task model refuses an `updated_at` that moves backwards, and a
  test asserts it. The decision's update compares the statuses only. A candidate
  built while the Task waited on one Approval can be applied after the Task was
  recovered and paused again, and then writes the older stamp. The trace is long
  (a late checkpoint of a superseded thread hides the first Approval from
  recovery, so that two Approvals are PENDING at once), but nothing in it is
  outside the code's transactions.

### What a false suspicion costs

Three guarantees of `TaskFlow` are stated for histories in which no live request was
taken for dead. No document claims more, so these are limits and not findings, but a
reader of the code should know them:

* The checkpoint is not fenced. After a crash and a false suspicion a superseded
  request may write the latest checkpoint over the one its successor left; a recovery
  then settles the Task as SUCCEEDED past an approved call that never ran.
* The slow dispatch of a decision re-reads the Task after a recovery has claimed it,
  finds a checkpoint that is not paused on its Approval, and writes FAILED under the
  recovery's generation while the recovered call is EXECUTING: a Task ends over a row
  in doubt.
* Nothing of this reaches the transcript: `TranscriptTellsLedger` holds whatever the
  suspicions, because a result enters it only from the ledger's fenced row. And no call
  runs without its Approval, no row takes back an outcome, no client sees the Task make
  a move that `TaskContract` has not.

Reading the list with a status filter is another limit: a Task that leaves the filter
from a place the reader has passed moves the others up, and one of them is skipped.
Without a filter nothing leaves the list (no operation deletes a Task) and nothing is
skipped.

## 4. Proofs

The theorems hold for every number of calls, Approvals and threads, every
`CallOf` and `Mode`, every `StaleAfter > 0` and every clock lag. They assume the
named `ConstantsAssumption` of their module, which in the first two has: types of the constants, `StaleAfter`
positive (the service's constructor demands it) and placeholders outside the
sets they stand next to.

**ExecutionLedger.** The properties are not inductive by themselves. `IInv` adds
what links a thread's locals to the row: a thread in progress is authorized
(`RequestInv`); a recovery about to claim read a recoverable row of its own
Approval (`SnapshotInv`); past its claim a thread either is the latest claim,
and then the row is still EXECUTING with its timestamp, or was superseded by a
strictly later timestamp (`HolderInv`). From the last part no late answer can
match the row. One lemma per action shows that `IInv` is preserved; each safety
property is then an implication. The timing property needs `CutoffInv` as well:
the cutoff a recovery carries lies at least `StaleAfter` behind the clock, and
the clock only advances.

`DurableExecutionImplemented` follows from the same `IInv`: a holder whose claim matches
the row is the author of the journal's last entry, so that the result it records is
the latest claim's, and each action is one abstract step or a stutter.

**TaskLifecycle.** `IInv` says what each thread's locals mean at the place it is
in (`Coherent`): supervised threads expect a RUNNING row, recovery candidates are
legal transitions of their snapshot and a claim was weighed on a stale one; and
that between its two saves only the creator knows the Task (`CreatorInv`), which
is what makes the unconditional save of `Start` harmless. `EveryRowStep` then
lists all that one step can do to the row and the Approvals together; the
refinement `ContractImplemented` and the other properties follow from that list.

**AgentGraph.** `IInv` says of every pair of a node and the state it runs from,
in the checkpoint and in each invocation, that it is legitimate (`Legit`): the
rounds are counted by `step`, within the budget of the origin (`StepsInv`); a
pending Approval was drawn for the call at the cursor (`PendingInv`); batches
before the open one are answered, and the answers of the open one are those before
the cursor (`TranscriptInv`). Overlapping invocations are harmless to it because
`Legit` never compares one state with another, only with the origin and the
Approvals, and what it says of an Approval (its call) never changes. `RunInv` adds
that the remaining supersteps suffice for the remaining budget (`Needed`) and that
the scope is the origin's Agent. All seven properties of the run are proved,
for any numbers of threads, calls, Agents, budgets and Approvals.

**LlmService.** `LockInv` says that the lock has one holder, `HandInv` that what a
holder has built is open while nothing is published, `OwnerInv` that every open
client is published, being built or being closed; from these three follows that two
are never open at once. `ChatInv` relates the requests sent to the attempt, and
gives the retry properties, for any number of attempts. `WaitsGrow` needs two more
things. `WaitInv` bounds the wait that a request still has in mind by the attempt it
was for, so that two waits of one chat can be compared. And the delays are powers of
two: `TwoTo` is a recursive function, whose unfolding and range are proved by
induction over a set of numbers (`SetInduction`), and the comparison of a delay with
the next is linear from there: a jitter adds a tenth at most, so each wait is at
least 20/11 of the one before, for any base delay and any number of attempts.
`CallsReturn` is a liveness property and stays with TLC.

**Delegation.** `RunInv` says that a continuation with a REQUEST works on a
checkpoint bound to its receiver, `ReaderInv` that a finished row in a reader's
hands is the row still. With `RepliesTellTheEnd` and `RequestHasProvenance` they
are inductive: no step leaves a finished status.

**TaskFlow.** `IInv` has three parts. `Sound` holds always: what a checkpoint or a
request's graph may look like, that the calls in any transcript are SUCCEEDED in the
ledger, and that a request which holds a claim or a result has a row that says so. `Calm` holds as long as there was no suspicion: one worker at most
(`SoleWorker`), the Task, the checkpoint and the Approvals agree with each other
(`DurableState`), the worker holds the row and runs from the latest checkpoint
(`WorkerHolds`), and a recovery that still holds what it read holds true evidence
(`EvidenceHolds`). `Healthy` holds as long as there was no fault at all: then the
worker is alive whenever the Task is RUNNING. The circle is that a recovery can only
claim when the Task is old, which without suspicion needs that nobody works on it, and
that one worker keeps the four stores in step. Steps are proved by their kind (a read, a
checkpoint, a row, a settlement) rather than one by one for each conjunct.

**TaskFlow under any faults.** After a suspicion two requests may be at work on the
Task, each from its own checkpoint, and `Calm` says nothing. `Robust` is what is left,
and it is inductive beside `IInv`: whatever a request holds, however old, `Fits` (a
pending Approval was drawn for the pending call, and past the pause a human has given
it; the rounds are within the budget); a request that may still write the Task knows its
status (`Generation`); a draft is in one request's hands (`OwnDrafts`); and nothing of
the workflow exists before its run begins (`Beginnings`). None of these compares two
requests' checkpoints, which is why a late one cannot break them. From `Robust` follow:

* `NoCallWithoutYes`: a call has a row only under an Approval given to this very call,
  and `validate` never has to refuse one in the Tool's node: it is a second line of
  defence, and the theorem is that the workflow alone would hold.
* `LedgerIsTrue`: each write of a row is fenced, so no request takes back an outcome.
* `FlowImplementsContract`: the composed Task makes the moves of `TaskContract` only.
  The steps that write the Task map to its actions, `Generation` gives their guards; a
  draft and every other step are stutters.
* `RequestsEnd`: every step of a request lowers `Remaining`, and the step of another
  leaves it alone. With `RequestsFindTheirWay` (a request in the graph is at a node
  that has an action, and one that begins finds no checkpoint), this is the safety part
  of why each request ends; that a request takes its next step is the fairness.

**TaskListing.** The proof is about ranks. A Task that is created ahead moves the others
back, which shows one twice and hides none; one that departs ahead moves the others up
by one. What is missed has a rank below the offset and was not shown, so the missed are
no more than the departures that moved the ranks. The cardinality facts are lemmas.

The assumptions are in each module's `ConstantsAssumption`, and TLC evaluates them in
every run.

Some properties follow from a refinement that a run checks, and have a
theorem but no run of their own: `TerminalRowsAreFinal` (from
`ImplementsDurableExecution`), `WaitingCanBeDecided`, `RejectionEndsTask` and
`FinishedTasksStay` (from `ImplementsContract`). `TypeOK` of every module is a theorem;
only the run `calls` checks it too, where it says that no attempt lies beyond the last.

Only model-checked: the three violations, `CallsReturn`, `RunningIsLeft`,
`PendingIsLeft`, `ReviewIsLeft`, and that the
state machines do reach the interesting cases (every action fires in the passing
runs). Liveness and ENABLED are out of this prover's reach.

## 5. Not modelled

* Message contents, Tool arguments and results: a call is what the code compares.
  JSON parsing of the provider's payload is its outcome.
* In `TaskLifecycle`, the ledger rows (any age, any status the code tells apart)
  and the permission scope (a refusal is an exception like another).
* In `Delegation`, artifacts and metadata of messages, which no code reads, and
  the wrong use of the reader's Session that the documentation warns of.
* The checkpoint store's own tables and its history: only the latest checkpoint is
  ever read.
* In `TaskFlow`, batches of several calls, calls without an Approval and timestamps
  (`AgentGraph`, `TaskLifecycle` and `ExecutionLedger` have them); the orphan reports of
  recovery, which write nothing; evidence that contradicts itself (another Task's
  checkpoint, a call that is not the Approval's), which no operation can produce.
* Unused single-row writers of the repositories; HTTP status codes; observability,
  which nothing modelled reads back and which swallows its own errors; migrations. The
  demo (`demos/`) calls the modelled operations once each in a fixed order, with a
  scripted model and volatile effects.
* PostgreSQL is READ COMMITTED with atomic single statements; each transaction
  here makes its writes conditional in single UPDATE or INSERT statements, so one
  atomic action per transaction loses no behaviour.

## 6. Plan

Done: the ledger and its abstract specification, the Task's contract and life, the
composed flow with its liveness, the workflow, the LLM service, the delegation and the
Task list, each with its proofs. What could follow:

1. That `TaskLifecycle` implements the Task's part of `Delegation`, with the result.
2. That `TaskFlow` implements `DurableExecution` as well, which needs the attempts of a
   call in its state; `RowsKeepTheirWord` is what it says without them.
3. `TaskFlow` with batches of several calls, which needs a smaller state than
   `AgentGraph` has to stay within TLC's reach.
