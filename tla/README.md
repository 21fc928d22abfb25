# A TLA+ model of platform-agentscope

`platform-agentscope` runs AI agents behind an HTTP API: single runs, resumable sessions, DAGs of
agents with a quality loop, and asynchronous tasks that workers claim from a central service. Its
state is small; what is hard about it is concurrency and failure: coroutines that are cancelled at
any `await`, leases that change hands, replies that get lost, writes that must happen once. The
modules here model those parts from the source under `src/agentscope_platform` (paths below are
relative to it), TLC checks them on small instances, and TLAPS proves their safety properties for
every instance.

## 1. Inventory

| Component | State | Operations | Hard part |
|---|---|---|---|
| async task manager `application/async_task.py` | registry of handles, stop flags, semaphore, closing flag | `submit`, `adopt`, `cancel`, `shutdown`, `_run`, `_heartbeat`, `_complete_once` | checks and registration are separated by awaits; verdicts of unknown fate; takeovers; cancellation at every await |
| durable worker `infrastructure/async_worker.py`, `worker.py` | the claim in hand | `poll_once`, `serve` | claims that are refused, version mismatches, crash with a claim |
| central task client `infrastructure/http/async_task_client.py` | none (the service holds status, lease, epoch, checkpoint) | `create`, `lease`, `claim`, `update_status`, `cancel`, `checkpoint`, `stream` | lost requests and replies |
| dependency guard `infrastructure/http/resilience.py` | per dependency: failures, open-until, probe flag, in-flight count | `_enter`, `_leave` | late results while the circuit is open or a probe is out |
| DAG execution `application/dag.py`, `dag_scheduler.py`, `dag_reuse.py`, `dag_budget.py` | results of a round, reuse entries, budget, worker slots shared by all runs | `_run`, `_execute`, `run_ready`, `acquire`, `record`, `reserve` | parallel nodes that fail or are cancelled, semaphores that are made anew, results reused across rounds |
| DAG recovery `application/dag_recovery.py`, `domain/dag_checkpoint.py` | checkpoint with revision, deadline, counters and operations | `open`, `run`, `reserve`, `_save` | two executions of one task, saves of unknown fate |
| agent sessions `application/session.py`, `infrastructure/persistence/agent_session.py` | checkpoint with revision, lease, status, side-effect flag | `run`, `persist_progress`, `_validate_resume`, `compare_and_set` | takeover of a running session, interrupted side effects |
| tool confirmation and governed tools `application/confirmation.py`, `infrastructure/security/tool_confirmation.py`, `infrastructure/agentscope/governed_tools.py` | replay store | `verify_tokens`, `consume`, `refund_start` | one write per grant, writes of unknown fate |
| DAG planning `application/planning.py`, `infrastructure/agentscope/planner.py` | the plan, as an operation of the checkpoint | `_resolve_plan`, plan-and-run | a plan that is made again after a takeover |
| model calls `infrastructure/agentscope/budget_model.py`, `closing_model.py`, `conversation_candidate.py`, `api/conversation_app.py` | the tenant's charge (at the authority), closers of a stream, conversation slots | reserve, call, settle; relay of a stream | retried calls of unknown fate, closers that raise, clients that leave |
| DAG diagnostics `application/dag_diagnostics.py`, `diagnostic_model.py` | queue of records, counters of gaps and usage | `diagnostic_scope`, `enqueue`, publisher, `summary` | full queue, deadline or cancellation at the end, calls without known usage |
| agent runner and remote tools `infrastructure/agentscope/runner.py`, `trajectory.py`, `infrastructure/sandbox/client.py` | the trajectory of a run, the remote browser session | `run`, tool calls, `close_browser` | parallel tool calls, swallowed cancellation, cleanup after the deadline |
| API streams `api/routes.py` | buffer of an SSE relay, queue of a reflexion response | `_project_task_events`, `_reflexion_events` | frames cut anywhere, a full queue nobody drains |
| sibling workflows `application/sibling.py`, legacy DAG levels `application/dag.py` | tasks of a request, slots shared by all | voting, prompt chain, reflexion, `_run_level` | one call of several fails or the request is cancelled |
| readiness `infrastructure/http/readiness.py` | none | `GET /readiness` | dependencies that change during the check, probes that raise |
| assembly, credentials, read-only tools, configuration, evaluation | none that a decision depends on | | not modelled, see section 7 |

Interactions. The API submits to the task manager, which creates and leases the task in the central
service and runs a session, a DAG or a plan as a coroutine. A worker claims durable tasks and adopts
them into the same manager; a DAG it runs stores its progress through the checkpoint call, fenced by
the lease epoch. Every HTTP client enters the guard of its dependency; an event stream holds its
place there for as long as it lasts. A session's run calls tools; governed tools ask the policy,
consume a grant and call the workflow service, or act on a remote browser that the runner closes at
the end. Every model call goes through the budget of its DAG, the tenant's budget, the owner of the
stream's resources and, inside a DAG, the observer of usage.

What makes each part correct is stated by its properties (section 4); the places where this is
hard to test are the `hazards` of `PROJECT.json`.

## 2. Modules

| Module | Models | Uses |
|---|---|---|
| `CentralTasks` | the central async-task service as the client uses it (external) | |
| `AsyncTaskManager` | task manager, worker poll loop, lost calls | extends `CentralTasks` |
| `TaskLifecycle` | abstract specification: what a caller is promised | |
| `AsyncTaskManagerProofs` | theorems | extends `AsyncTaskManager` |
| `DependencyGuard` | bulkhead and circuit breaker | |
| `DagExecution` | one or more DAG runs of a process, optimized mode | |
| `DagRecovery` | executions of one durable DAG that share a checkpoint | |
| `DagPlanning` | plan-and-run: the plan as first operation of that checkpoint | extends `DagRecovery` |
| `ToolConfirmation` | grants, replay store, `refund_start` | |
| `AgentSession` | sessions and their runs | extends `ToolConfirmation` |
| `ModelCall` | one model call with its wrappers; conversations | |
| `DagDiagnostics` | the diagnostic session of a DAG run | extends `ModelCall` |
| `AgentRun` | runs of the agent, trajectory, remote tools | |
| `TaskStream` | the relayed event stream of a task | extends `DependencyGuard` |
| `ReflexionStream` | the reflexion service and its response | |
| `GatheredCalls` | voting, prompt chain, legacy DAG levels | |
| `Readiness` | the readiness check | |
| `ApiEndpoints` | the four above, one per behaviour | extends them |
| `DagExecutionProofs`, `DagRecoveryProofs`, `AgentSessionProofs`, `AgentRunProofs` | theorems about `DagExecution`; `DagRecovery` and `DagPlanning`; `ToolConfirmation` and `AgentSession`; `AgentRun` | extend those |
| `ModelCallProofs`, `EndpointsProofs` | theorems about `ModelCall` and `DagDiagnostics`; `DependencyGuard` and `ApiEndpoints` | extend those and `Induction` |
| `Induction` | induction over numbers and sequences, least and greatest elements | |
| `MC*` | instances for TLC | |

### Correspondence

*Coroutines.* A coroutine is a program counter that moves at its awaits; everything between two
awaits is one step, as in asyncio. Processes interleave freely.

*Calls.* A call that changes the state of a service is sent in one step, arrives (or is lost) in
another, and its reply is used in a third, so that every order of arrival, loss, timeout and crash
is covered. Where a reply only states a stable fact, reading it early or late makes no difference
and the two steps are one.

*Time.* Deadlines, leases, TTLs and back-offs are actions that may happen at any moment
(`DeadlineFires`, `LeaseExpires`, `LeaseLapses`, `GrantLapses`, `EntryExpires`, `Lapse`, `Unwind`).

*`AsyncTaskManager`.* `handles`, `hepoch`, `stop`, `work` and `hb` are the registry, the fields of
`ExecutionHandle` and its two coroutines. `submit` is `SubmitStarts` … `SubmitRegisters`, with the
rollback for each failure; `poll_once` is `PollSends` … `Adopt`; `_run` is `WorkStarts`,
`WorkAdmitted`, `Exec…`, `Success…`/`FailureReported` and `Unregister`; `cancel` and `shutdown`
likewise. `AfterCancel` says what `task.cancel()` makes of a coroutine at each of its awaits. A
restarted process has a new worker id and is another member of `Proc`. The rollback of `submit`
runs under the registry's lock in the code; the model lets others in between, which only adds
behaviours.

*`DependencyGuard`.* `_enter` and `_leave` are one step each (the lock is never held over an
await). `open_until` is only compared with zero and the clock: closed, open, lapsed.

*`DagExecution`.* One program counter per node of the current round. `Begin`, `Collect`, `Unwind`
and `UnwindEnds` are `run_ready` inside `_execute`; `Node…` are the awaits of `execute_node`,
`_run_one` and `acquire`; `Synthesize`, `Critique` and `Revise` are the quality loop of `_run`. A
result is its stop reason, the description it was made for, its version and the versions of its
inputs. The budget counts calls; tokens are a refusal that may come at any call. A refused call may
end the agent or, as an adapter may do, be turned into a result: the code's own comment says the
outer check must then fail the run, and `BudgetFailsClosed` checks it.

*`DagRecovery`.* Session `s` is the execution under lease epoch `s`. The lock of `_save`, the
revision, the three saves around a node and the reservation before each model call are kept; a
version is the session that wrote it. The service compares epoch and revision. In this model the
epoch comparison alone would suffice, for a session has one save under way at a time.

*`AgentSession`, `ToolConfirmation`.* All requests name one session id. `compare_and_set` compares
the revision of the checkpoint a request has last written (or read). The tool calls of a run are
taken one at a time. The writes of a grant are numbered (`nth`), so that a late first write of a
request is told from its second one under the same grant, which is possible once the entry of an
expired grant has left the replay store. A `compare_and_set` that takes effect after its caller has given up on it is
not modelled: the caller sees the outcome or an error after which nothing was stored or it was
stored before. `SessionExpires` is possible while no run is active, which is so with the default TTL
of a day and agent timeout of 120 s; the settings also admit a TTL of 300 s below a timeout of up to
3600 s, and nothing is claimed of those.

*`DagPlanning`.* The plan is one more key of the checkpoint, and `Scheduled` lets a session run only
the tasks of the plan it has. `Resolve` is the code's check of a proposal and its fallback. A
description is the set of kinds of markers in it. Fingerprints of inputs are versions, as in
`DagRecovery`.

*`ModelCall`.* The pc of a call goes through reserve, provider, stream and settle. `Attempt` is one
POST to the authority that arrives or not and is answered or not; the authority charges an
operation id once. `Close` runs the closers in the order of the stack, and `AfterParser` says what
an exception in one does to the next. The final chunk repeats the text (`snapshot`); `Relay` is what
the code sends of it. A conversation has its slot from `Begin` to its end. A client that leaves
between the settlement and the last piece of text is not modelled.

*`DagDiagnostics`.* `CallStep` joins each step of a role's call with the record the observer makes
of it. `Take` and `Deliver` are the publisher; `JoinStarts` … `Summarise` are the end of
`diagnostic_scope`. The status of the summary is the reply's own, as `_to_reply` sets it.

*`AgentRun`.* AgentScope's loop is the source of the events the runner consumes: `Ask` (a tool call
asked for), `ModelCallEnd`, `Act`, `RunTool` and the tool's answers, `ReplyEnds`. `Interrupt` is the
timeout, cancellation or exception at any await; calls under way are then abandoned and may still
reach the sandbox (`late`). `Closes`, `CloseFails` and `CloseCancelled` are `close_browser`.

*`TaskStream`, `ReflexionStream`.* A stream's bytes arrive in chunks of any length; `ProjectFrame`
is one turn of the loop around `_frame_boundary`, and `Given` what `_project_task_frame` yields. What a
client should be given is defined by a reader of one character at a time (`Scanned`). In the reflexion response `Puts` is a `queue.put`
of the producer, `Takes` and `Sends` are the generator, `Leaves` is the client, `Closes` the
`finally` clause that cancels and awaits the producer, and `SentinelFollows` its rule that a
cancelled producer puts no sentinel.

*`GatheredCalls`.* `GatherRaises` is the `except BaseException` clause: it cancels all tasks and
gathers them. `majority`, `check_gate` and `chain` are functions of their inputs; what they should
return is said by `VerdictIsRight` and `ReplyIsExact`, which the ASSUMEs of `MCEndpoints` evaluate over
small inputs and section 5 proves. `critical_path` likewise, with `CriticalPathIsPath` and
`CriticalPathCovers`, in `MCModels`.

*`Readiness`.* `well` remembers which dependencies were well at some moment of the present check.

## 3. Runs

| Run | Instance | Shows |
|---|---|---|
| `async_inline` | one inline process that may crash or drain, two tasks, both limits 1 | `LeaseIsWatched`, `RegistryTracksWork`, `CapacityRespected`, `CancelAnswerIsTrue`, `FencedExecutorStops`, `EventuallyTerminal`, `ShutdownCompletes` |
| `async_durable` | two workers, one of which may crash or drain, one durable task, two claims | `SuccessIsEarned`, `EpochsAreExclusive`, `EventuallyTerminal`, `FencedExecutorStops`, and that it implements `TaskLifecycle` |
| `endpoints` | three calls of one dependency, one of them a stream, bulkhead 2, threshold 2; one reflexion of two attempts; two requests that gather up to three calls in two slots; two dependencies | `BulkheadIsExact`, `SingleProbe`, `CircuitMatchesFailures`, `AdmitsAgain`, `FramesIgnoreChunking`, `StreamEnds`, `GatherIsClean`, `ReadyIsTrue` |
| `dag` | two runs of two tenants, two nodes, one slot, one replan | `ResultsAreConsistent`, `CapacityIsExact`, `BudgetFailsClosed`, `RunsEnd` |
| `dag_recovery` | plan, two nodes and synthesis (room for three entries), two epochs, two calls | `CallsAreReserved`, `DeliveredIsCommitted`, `InputsAreCurrent`, `PlanIsFixed`, `CheckpointIsMonotone` |
| `session` | two requests, two owners, one key, two grants, one expiry | `OneAnswer`, `GrantBuysOneWrite`, `RefundAnswersAreTrue`, `WritesAreFenced` |
| `models` | two calls, reservation 2, usage 1 or 3, one slot, two pieces of text, queue of one record | `ChargesAreRight`, `StreamsAreClosed`, `ConversationIsWhole`, `SummaryIsHonest`, `GapsAreCounted` |
| `tools` | two runs of three and one tool calls, two actions, repeat limit and window 2, three model calls | `BrowserIsClosed` |
| `async_deadline`, `async_registry`, `guard_client_errors`, `session_resume` | the smallest instance | one violated property each: section 6 |

### Why the bounds are enough to be interesting

- Limits of 1 with two tasks make every admission, rejection and wait happen. One process suffices
  for the inline role, since inline processes share no task.
- Two workers and two claims give a takeover by the other worker, one by the same worker (which then
  has two epochs of the task), and the end of the claims. `MaxClaims` is the dispatch limit of the
  service; the theorems of section 5 hold for every value of it.
- In `endpoints`, more calls than the bulkhead and a threshold that two concurrent calls reach give
  late failures after the trip and while the probe is out. Five characters hold the longest frame
  end and one more character, so that each end occurs inside, before and across the others and cut
  at every place. Two attempts with a queue of five fill the queue with the last event still to
  come: the last case in which `3 * (max_improvements + 1) <= maxsize + 1`, the relation
  of the settings' limit of ten improvements to the queue of 32, holds. Beyond it `StreamEnds` fails:
  a service that fails with the queue full waits to put its error, a cancellation there is not the
  one `produce()` notes, and the sentinel waits for a reader that has left.
  Three members in two
  levels and two slots give waiting, running and not yet created tasks at each failure.
- In `dag`, r1 starts as a chain and is revised into the same chain, a changed one, two independent
  nodes or a cycle: each case of the fingerprint (same, changed description, rerun dependency,
  changed dependencies) occurs. r2 competes for the only slot. Five model calls are what two
  rounds need without a call of a node, so the budget runs out at every place.
- In `dag_recovery` both limits are hit before and after a takeover, and the second session may
  find no plan, one under way, or a stored one with or without entries of its nodes. A process plan
  without the permission to refund has every case of an unsafe plan.
- In `session`, two requests give create/create, take/take and run/take races; `MaxGen` is one
  expiry and a new incarnation; requests and owners are interchangeable (`SYMMETRY`; no liveness is
  checked there).
- In `models`, usage below and above the reservation, one slot for two conversations and a queue of
  one record for the records of two calls make each refusal, overrun and gap happen.
- In `tools`, the second run opens the browser while the first closes it, and three calls with a
  window of two include a repetition in a batch, over turns, and one that has left the window.

`CHECK_DEADLOCK FALSE` everywhere: every system here ends when its tasks, runs or requests are done.

## 4. Properties

- Tasks. *One verdict*: `SuccessIsEarned`, `TaskLifecycle`. *Fencing*: `EpochsAreExclusive`,
  `FencedExecutorStops`, `LeaseIsWatched` (an execution that may still report has a heartbeat or has
  been told to stop, and no heartbeat outlives its execution). *Local control*:
  `RegistryTracksWork`, `CapacityRespected`, `CancelAnswerIsTrue`. *Progress*:
  `EventuallyTerminal`, `ShutdownCompletes`. In the inline role `FencedExecutorStops` is about a task
  that was cancelled between its lease and its registration, when `cancel()` finds no handle.
- Guard. `BulkheadIsExact`, `SingleProbe`, `CircuitMatchesFailures`, `AdmitsAgain`.
- DAG. `ResultsAreConsistent` (what is synthesized was made for this round's tasks from the results
  that stand beside it, and what is accepted is complete), `CapacityIsExact` (no slot is lost or
  doubled, no coroutine outlives its run), `BudgetFailsClosed`, `RunsEnd`.
- Recovery and planning. `CallsAreReserved`, `DeliveredIsCommitted`, `InputsAreCurrent`,
  `CheckpointIsMonotone`, `PlanIsFixed`.
- Sessions. `WritesAreFenced`, `OneAnswer`, `GrantBuysOneWrite`, `RefundAnswersAreTrue`.
  `GrantBuysOneWrite` is about grants that have not expired: a consume that is under way when the
  grant expires could reach the store after its entry was evicted; the workflow service still
  deduplicates by key.
- Model calls. `ChargesAreRight` (charged once, and never nothing for a call that reached the
  provider), `StreamsAreClosed`, `ConversationIsWhole`.
- Diagnostics. `SummaryIsHonest` (every call counted once, unknown usage not taken for zero),
  `GapsAreCounted`.
- Runs of the agent. `BrowserIsClosed`. That repeated calls and a used-up token budget end a run is a
  guard of `Ask` and `ModelCallEnd` and no property of its own.
- Endpoints. `FramesIgnoreChunking` (against a reader of one character at a time), `StreamEnds`,
  `GatherIsClean`, `ReadyIsTrue`.

Each property has a mutant, a plausible bug in one definition (`Mutant:` in the modules), under
which TLC finds it violated. The type invariants of the modules (`TypeOK`, `…TypeOK`) document the
state; they are proved.

### Fairness

- `AsyncTaskManager!FairSpec`: weak fairness of the awaits of a live process (each call has a
  timeout), of the reaper and of leases that nobody renews; strong fairness of the semaphore
  (asyncio serves waiters in order) and of a worker's claim (the dispatch queue is polled for ever
  and hands out each task). That `execute()` ends is an assumption of the two properties that
  need it (`ExecutionsEnd`): runner, DAG and task have deadlines, but an execution may swallow its
  cancellation. Nothing is assumed of users, crashes, outcomes or single messages.
- `TaskStream!StreamFairness` (and `DependencyGuard!FairSpec`): calls end (they have timeouts), a
  stream ends, breaks or loses its client (its lease has a deadline), and the clock goes on.
- `ReflexionStream!ReflexionFairness`: model calls end by their timeouts, coroutines that can go on
  do, and a client takes the next event or leaves. It need not do either in particular.
- `DagExecution!FairSpec`: weak fairness of the steps of a run that has begun, except deadlines and
  cancellations; `Unwind` is fair only once a coroutine has raised. Rounds and calls are bounded,
  so no worker is overtaken for ever and strong fairness of the semaphores is not needed.

## 5. Proofs

The theorems hold for all values of the constants that satisfy the named `ASSUME`s of the modules,
which TLC evaluates in every run: limits are numbers in the range the settings allow, placeholders
such as `NoResult` are no members of the set they stand beside, roles are disjoint, and the legacy
levels of a DAG are a sequence of disjoint sets, as `_topological_levels` makes them. Each proof has
the same form: an inductive invariant that was first checked by TLC, one step per action, lemmas for
what several actions share, and the property as a consequence. What follows is why the property is
not inductive by itself and what was added.

**`AsyncTaskManagerProofs`**, for any sets of processes and tasks, limits and numbers of claims.

1. `TypeCorrect`.
2. `LeaseInvariant`. `SuccessIsEarned` and `EpochsAreExclusive` say nothing of a claim that
   `poll_once` holds, a lease that `submit` has got and not registered, or a write on the wire, any
   of which may become a handle or a verdict later. `LeaseInv` closes this: an epoch is granted once
   and to one process (`GrantsAreExclusive`); handles, offers and writes carry granted epochs
   (`HandlesAreGranted`, `OffersAreGranted`, `WritesAreGranted`); a success on the wire has a
   completed execution; no epoch is granted after an accepted write (`WritesAreFinal`); `submit`
   works on tasks that its process does not run (`SubmitsAreFresh`). From it: `EpochExclusion`,
   `EarnedSuccess`.
3. `RegistryComplete`, `CancelTruth` (with the lemma that the service never changes a terminal
   status) and `LeaseWatched`, which rests on the registry: `shutdown()` waits for the handles it
   finds there, and a watched execution without one would be left behind.
4. `LimitsHold`. Only `submit` and `adopt` add handles, each after a look of its own at the limit
   under the registry's lock; that an offer belongs to a worker and a lease in hand to an inline
   process is part of `LeaseInv`. Cardinalities of possibly infinite `Task` need the finiteness of
   the registry and of the executions as part of the invariant (`HandlesFit`, `SlotsFit`).
5. `ManagerImplementsLifecycle`: the refinement of `TaskLifecycle`. One lemma per visible step:
   creating accepts, granting starts a run, a complete result completes the run its handle was
   leased for, an accepted write or the reaper speaks the verdict. `LeaseInv` gives the two facts
   that are not local: a run that has just started has no completed execution yet, and an accepted
   SUCCEEDED finds the latest run among the completed ones.

**`DagRecoveryProofs`**, for any number of takeovers. The properties speak of the checkpoint and of
what sessions have returned, not of a save on its way, which may change the checkpoint after its
session was told nothing. `RecoveryInv` adds: a session has one save out at a time and its lock while
it waits (`SavesAreSerial`); a session that has the lease and has not failed is in step with the
checkpoint (`InStep`), and what it has out extends the checkpoint (`SavesExtend`); a version is not
newer than its session (`VersionsAreOld`); what the session with the lease has returned is in the
checkpoint and in its save (`ReturnsAreCommitted`); a run keeps the inputs that were delivered to it
(`InputsAreKept`); calls and answered reservations are covered by the counter (`CallsAreCovered`).
From it: `RecoveryTypes`, `BudgetSurvivesTakeovers`, `ReturnsSurviveTakeovers`,
`NoStalePredecessor`, and the action property `CheckpointGrows`. `PlanningIsRecovery` shows that
plan-and-run only takes steps of the recovery sessions, so that all this holds of it;
`PlanningInvariant` adds that every state of the checkpoint is whole (its entries are of tasks of its
plan) and that a plan a session can read or has saved is that of the checkpoint, which it does not
replace (`StatesAreWhole`, `PlansAreSettled`). It gives `PlanChosenOnce`.

**`AgentSessionProofs`**, for any requests, owners, keys, grants and numbers of expiries.
`SessionInv`: what a request has read or written describes the stored checkpoint as long as the
revisions agree (`FencesHold`), the stored checkpoint is of the present incarnation
(`StoreIsReadable`), those told of success were told what is stored (`AnswersAgree`), a call on its
way to the replay store has a grant and a key (`CallsHaveGrants`, `CallsHaveKeys`), a valid grant
that bought a write is in the store (`GrantsAreSpent`), and no write is numbered beyond those sent
(`WritesAreCounted`). It gives `SessionTypes`, `SuccessIsToldOnce`, `GrantsAreUsedOnce`,
`RefundAnswersStayTrue` and the action property `RunsAreFenced`. The proof of
`RefundAnswersStayTrue` failed on an earlier form of the model, which took two writes of one request
under one grant for one; the numbering of writes is its repair.

**`ModelCallProofs`**, for any calls, slots, reservations, texts and queue lengths: `ModelInvariant`
ties the charge, the closers still to run and the relayed text to the program counter of a call
(`CallsAreSound`), the slots to the conversations that hold one (`SlotsAreHeld`) and the counters of
the session to the calls and records that exist (`CountsAreRight`, `GapsAreKnown`), with a summary
that nothing changes afterwards (`SummaryIsFinal`). It gives `ChargedOnce`, `StreamsClose`,
`ConversationsAreWhole`, `SummariesAreHonest` and `GapsAreReported`. `StreamsClose` and
`SummariesAreHonest` rest on the cardinality of the sets of calls that the counters count.
`CriticalPathLongest` is about the algorithm: `critical_path` returns a dependency path with its
duration, and no path takes longer, for every graph whose nodes come in the order of their
dependencies and all durations. By induction over the
nodes in their order, the path stored for a node is a longest one that ends there; a path that ends
at a node is a path that ends at one of its dependencies, and the node.

**`AgentRunProofs`**, for any runs, tools and limits. An open browser session belongs to a run that
has still to close it, or is a known leak (`SessionIsOwned`); a run that has not stopped has tokens
left (`TokensAreLeft`), which keeps the count within the budget. It gives `RunTypes` and
`BrowserCloses`.

**`EndpointsProofs`**, with `EndpointTypes` for all the variables.

1. The guard: `GuardTypes`, `OneProbe`, `CircuitAndFailures` and `BulkheadExact` (by the cardinality
   of the set of calls in progress). `StreamsAreGuarded` shows that the streams use the guard as its
   own specification allows, so `GuardOfStreams` follows.
2. The task stream: `ChunksDoNotMatter` (`FramesIgnoreChunking`). The code searches the buffer for the
   leftmost marker, the reference reads one character at a time and stops at the end of the first
   marker; both cut in the same place because no marker ends before the leftmost one does
   (`LeftmostEndsFirst`) and no text ends with two (`OneEnding`). The invariant `Faithful` says of an open stream that the reader, going
   on from the frames given so far over what is in the buffer, ends where it ends on the whole text:
   receiving keeps it because reading is a fold, and a turn of the loop because it is one frame of it.
3. The reflexion stream. `StreamEnds` is liveness, but what it rests on is proved for every number of
   improvements that the queue was made for. `ReflexionNeverHangs`: nobody waits for a coroutine that
   is gone, and a cancellation always finds an await it can strike. The invariant is `Backlog`, how
   many events can be in the queue at each point of the service, which is why an error event always
   finds room, with `SentinelIsLast` and `CancelIsForClosing`. `ReflexionIsBounded`: every step
   leaves less `Work`, a natural number.
4. Gathered calls. `GatheringIsClean` needs that the slots in use are those of running tasks
   (`SlotsAreUsed`), that levels behind the present one are answered (`LevelsAreOrdered`) and that a
   request that has given up has cancelled what it still has (`OthersAreUnwanted`). `VerdictRight` and
   `ChainExact` are about the decisions of the services, for any votes and chains.
5. `ReadyMeansWell` needs that the history of a check knows whoever is well now (`WellIsKnown`).

**`DagExecutionProofs`**, for any plans, replans, tenants and limits. `DagInvariant`: counters and
semaphores match the nodes that hold or wait for a slot (`CountersAreExact`); no version is given
twice (`VersionsAreUnique`); what is cached ended well and so did all it was made from
(`CacheIsSound`); nodes start on collected dependencies and finish with the right result
(`NodesAreSound`); rounds and ends of a run fit its budget (`RunIsSound`). The cache is the
interesting part: `DagResultReuse` compares versions, not results, and is right only because equal
versions are one result. It gives `DagTypes`, `CapacityExact`, `BudgetsFailClosed` and
`ResultsConsistent`. Two more theorems are what `RunsEnd` needs besides fairness. `RoundsNeverStall`:
a round that goes on has a coroutine to wait for, and whoever waits for a slot waits for a worker
further on. It needs that the plan of the round has levels and that a task that is not submitted has
a dependency that is not collected (`NothingIsOverlooked`). `RunsOnlyGoForward`: every step takes one
run to a later round, stage or place of a coroutine, or spends a call or a cached result, and leaves
the others alone; as each of these is bounded, a run over finitely many tasks takes finitely many
steps.

**Induction over data.** The library's induction theorems have an operator as a parameter, which the
provers cannot instantiate. `Induction` states what is needed with a set in its place (a set that has
0 and with each number the next one has them all; the same for sequences and `Append`), and derives
it from the fact that a set of numbers that is not empty has a least one. The property to prove
becomes the set of numbers, or sequences, that have it. Recursive functions are used through their
defining equation, which is proved to have a solution first.

**Only model-checked.** Liveness (`EventuallyTerminal`, `ShutdownCompletes`, `FencedExecutorStops`,
`AdmitsAgain`, `RunsEnd`, `StreamEnds`), which is out of the prover's reach: that somebody can always
go on and that nobody goes on for ever are theorems for the last two, that fairness then brings the
end is not. The violations of section 6.

## 6. Where code and documentation disagree

1. `async_deadline` / `DeadlineIsNoSuccess`. The runner turns the cancellation of the task's hard
   deadline into an ordinary reply with stop reason CANCELLED; `asyncio.timeout` then does not
   raise, and a late result is reported as SUCCEEDED.
2. `async_registry` / `RegistryReleased`. A coroutine cancelled before its first step, or again in
   its `finally` clause, never pops its handle: token and slot stay until shutdown.
3. `guard_client_errors` / `TrippedByFaults`. A 4xx of the event stream raises inside the lease and
   counts as a failure of the dependency.
4. `session_resume` / `SideEffectResumeIsConfirmed`. The side-effect flag is only written after a
   tool has returned: a run cut short in a governed write is paused without it, and is resumed
   without key and confirmation. The write itself stays protected by its own grant.

The quoted lines are in `PROJECT.json`.

Further places a reader should know of, which the models keep and no property contradicts:

- `docs/governed-tools.md:125` promises ids that are stable over retries. The sequence number in an
  operation id is one counter for all tools of a run, so this holds only if a retry calls the tools
  in the same order.
- `docs/dag-diagnostics.md:62` counts failed deliveries. The record that is under way when a
  cancelled or expired run takes its publisher down is in no count (`cut` in `GapsAreCounted`), and a
  cancellation during the final join leaves no summary at all (`JoinCancelled`).
- `docs/delivery/governed-agent-tools-migration/REVIEW_REPORT.md:23` says that every tool of the
  browser session is serialized. An agent puts its own tools in a row; the workers of a level of a
  legacy DAG run side by side in one context, and so in one browser session, and their actions may
  overlap (`RunTool` of two runs in `AgentRun`). An optimized DAG allows its workers no browser.
- A second cancellation inside `close_browser` leaves the browser session to the sandbox's own
  expiry (`CloseCancelled`), and a second one while a voting or legacy request unwinds leaves tasks
  that are cancelled and not awaited (`UnwindCancelled`); `GatherIsClean` allows those.
- The deadline of a stream's lease can end a response without an error event, when it strikes while
  a frame is being sent.
- Step numbers of a session can repeat after it is resumed from a checkpoint with gaps.

## 7. Not modelled

Metrics, spans, logs and progress events (no decision reads them; a sink that fails to emit is one
of the causes of `Unwind` and `StepFails`); signing and claim parsing; the routes that only call a
service and map its errors; settings and their validation, which appear as constants and their
assumptions; the assembly, with a lifespan that closes its resources one after another; read-only
tools and workflow drafts (one call, no state); evaluation scripts; the contents of prompts,
answers and evidence. AgentScope's own model loop, the central task service, the budget authority,
the workflow service, the sandbox and Redis are external and modelled as the code uses them.

## 8. Plan

All components that keep state or have a protocol of their own have a module, and every safety
property and action property that a passing run checks is a theorem. What is left:

- what `EventuallyTerminal` and `ShutdownCompletes` need besides fairness, as for `RunsEnd`: that a
  handle whose work is not over has a coroutine that can go on;
- shorter proofs where one lemma can serve two actions.
