# AfterFlow: formal models of the after-sales desk and the runtime under it

AfterFlow decides and executes e-commerce after-sales cases: a complaint becomes
a case with a decision, a decision becomes an action request (a refund or a
replacement), the action is signed by supervisors, executed against a payment
or dispatch adapter, and every step is appended to an audit chain. It runs on
the DeerFlow agent harness: a gateway that starts, streams, cancels and
schedules runs of an agent, with subagents, memory, MCP sessions and sandboxes.
This directory models the part that moves money, the part that proves it did,
the rules that decide it, and the parts of the harness that keep state across
awaits, threads, processes and restarts. `backend/...` is below `src/`;
`app/...` is below `src/backend/`, `runtime/...`, `agents/...`, `subagents/...`,
`mcp/...`, `community/...` and `persistence/...` below
`src/backend/packages/harness/deerflow/`.

## Inventory

| Part | State | Operations | Hard behaviour |
| --- | --- | --- | --- |
| Payment adapter, `app/after_sales/actions.py` `MockRefundExecutor` | available and reserved pool per order, receipts by idempotency key, settled keys | reserve, release, refund, settle | double release, retry of a captured key |
| Approval desk, `app/gateway/routers/after_sales.py`, `app/after_sales/operations.py`, `actions.py`, `repository.py` | case rows, action rows (status, version, signatures, reserved flag, expiry) | create, approve, reject, execute, supplement, list (which reaps) | every handler reads, decides and writes in separate awaits; money moves between the read and the compare-and-set |
| Dispatch adapter, `app/after_sales/reverse_execution.py` | inventory, outbound references | dispatch; dispositions | retry after a lost save |
| Case event chain, `repository.py` `append_event`, `verify_event_chain` | rows with per-case `seq`, `prev_hash`, `event_hash` | append with bounded retry, verify | concurrent writers read the same last row |
| Idempotency-Key contract, `app/after_sales/idempotency.py`, `_idem_replay_or_run` | records with a time to live, one process-local lock per key | lookup, run, store | simultaneous retries, expiry, restart |
| Case rules, `decision.py`, `risk_scoring.py`, `reverse.py`, `intake.py`, `workflow.py`, `reverse_execution.py` | the case's claim, decision and disposition | intake, supplement, decide, plan, inspect, settle | facts that outlive the claim they were given for; thresholds |
| Run manager and worker, `runtime/runs/manager.py`, `worker.py`, `app/gateway/services.py` | run records, abort flags, task handles, the thread's checkpoint; the run row | create or reject, launch, stream, cancel, roll back, drain, reconcile | cancellation at every await, a replacement that starts while its predecessor cleans up, lost and repeated writes |
| Run journal, `runtime/journal.py`, event store | buffer, one flush task, one progress task | put, flush, snapshot | appends while a batch is being stored; failed batches |
| Stream bridge, `runtime/stream_bridge/`, `sse_consumer` | bounded event log per run, end marker | publish, end, subscribe from Last-Event-ID, clean up | a window that moves past a reconnecting client |
| Goal loop, `worker.py` `_prepare_goal_continuation_input`, goal endpoints | the goal in the checkpoint | evaluate, persist, continue, set, clear | a model's verdict about a goal the user has changed |
| Scheduled tasks, `app/scheduler/service.py`, `persistence/scheduled_tasks`, `scheduled_task_runs` | task row with lease, run rows | claim, dispatch, trigger, complete, pause, resume, reconcile | each repository call its own commit; crash between them |
| Subagents, `subagents/executor.py`, `tools/builtins/task_tool.py` | background registry, pool, results | start, run, time out, cancel, poll, clean up | three threads share one result |
| Memory, `agents/memory/queue.py`, `storage.py`, `updater.py` | debounce queue and timer, file, cache, facts | add, flush, fire, load, save, apply | timers that cannot be cancelled any more; model output that may say anything |
| Circuit breaker, `llm_error_handling_middleware.py` | state, failure count, probe flag | check, record success or failure | one probe that must report back |
| Loop detection, `loop_detection_middleware.py` | window and counters per thread, bounded table | track, warn, stop | eviction of a thread that is running |
| Write gate, `read_before_write_middleware.py`, `sandbox/tools.py` | lock per thread and path, read marks in the messages | check, read, write, replace, bash | parallel calls, subagents, tool threads that outlive a cancelled run |
| Tool progress guard, `tool_progress_middleware.py`, `tool_result_meta.py` | phase per thread and tool, bounded table, pending hints | assess, warn, block, reset | late results, eviction |
| Agent loop, the other middlewares of `lead_agent/agent.py`, `runtime/context_compaction.py` | messages, todos, budget of a run, checkpoint | summarize, remind, ask, filter, stop, route, run tools, compact | cancellation between two checkpoints, a compaction beside a run |
| MCP session pool, `mcp/session_pool.py` | entries, creations in flight, owner tasks | get, promote, evict, close | several event loops and cancellation |
| AIO sandboxes, `community/aio_sandbox/` | active maps, warm pool, containers | acquire, reclaim, release, sweep, shut down, adopt | lock given up around every docker call |
| E2B sandboxes, `community/e2b_sandbox/` | active maps, warm pool, remote machines | acquire, reclaim, discover, evict, release, shut down | releases and evictions that hold no thread lock, machines the service reaps |
| Schema bootstrap, `persistence/bootstrap.py`, `persistence/migrations/` | tables, columns, indexes, version | create, stamp, upgrade | racing starts, a crash inside a revision |
| Guardrail, tool policy, audits, knowledge health | counters per run, audit rows | check, record | not modelled, see the end |
| Gateway shell, frontend, path translation, skills, client, prompts | sessions, UI, files | | not modelled, see the end |

How they interact. The desk calls the payment and dispatch adapters
synchronously and the repository asynchronously. The gateway is a single asyncio
process (`lock_for` says so), so code between two awaits is atomic and
everything else interleaves; subagent pools, memory timers and sync tool
wrappers are threads of their own. HTTP handlers run under the Idempotency-Key
contract; agent tools run inside a run's task, which `RunManager.cancel`
cancels: that is `Cancel` in `ActionDesk`. A run's task publishes to the stream
bridge, records to the journal, loops over the thread's goal and ends in a row
of the run store. The scheduler launches runs and hears of their completion. The
schema bootstrap precedes all of them.

What makes the parts correct: money is conserved and paid once per key; it moves
only for a signed action; an approved action is funded; frozen money has an
owner; a row is never overwritten from a stale copy; the chain is linear,
verifiable and complete; a keyed request runs once; no unsigned refund escapes
the policy; a thread's runs do not take each other's messages; a stream ends and
has no gap that the window does not explain; orphaned rows are recovered; a
user's goal wins over a verdict about an older one; tasks, loops and circuits
come to an end; nothing started by a pool or a provider is forgotten while it
runs; a database reaches the current schema.

## Modules

| Module | Models |
| --- | --- |
| `RefundLedger` | `MockRefundExecutor`. One action per method. `captured` is a history variable: what left the merchant |
| `RefundPromise` | abstract specification of the desk: keys are signed, then paid |
| `ActionDesk` | the handlers over database, adapters and clock |
| `AuditLog` | abstract specification of the audit trail: a sequence that grows at its end |
| `CaseEventChain` | `append_event`, `verify_event_chain` |
| `IdempotencyKeys` | `_idem_replay_or_run` over `SqlIdempotencyStore` |
| `CaseRules` | intake, supplement, scorecard, decision, reverse plan, disposition graph |
| `ThreadRuns` | `create_or_reject`, `start_run`, `run_agent`, `cancel`, rollback |
| `RunRows` | the run row: status writes with retries, drain, reconciliation |
| `RunJournal` | `RunJournal` buffer, flush, progress reports |
| `StreamBridge` | both bridges and `sse_consumer` |
| `GoalLoop` | `_prepare_goal_continuation_input` and the goal endpoints |
| `Scheduler` | `ScheduledTaskService` and its two repositories |
| `Subagents` | `SubagentExecutor.execute_async`, `task_tool` |
| `MemoryQueue`, `MemoryFile`, `MemoryFacts` | debounce queue; file and cache; application of an update |
| `LlmCircuit` | retries and circuit breaker of the model calls |
| `LoopGuard` | `LoopDetectionMiddleware` |
| `ReadGate` | `ReadBeforeWriteMiddleware` over the file tools and `bash` |
| `ToolProgress` | `ToolProgressMiddleware` over `normalize_tool_message` |
| `AgentTurns` | the loop of model and tools through the middlewares of `build_middlewares`, `compact_thread` |
| `McpSessions` | `MCPSessionPool` |
| `AioSandboxes` | `AioSandboxProvider` over the local container backend |
| `E2bSandboxes` | `E2BSandboxProvider` over the e2b service |
| `SchemaBootstrap` | `bootstrap_schema`, the fourteen revisions and their helpers |
| `Filters` | the list comprehension with which the harness rebuilds its queues and caches; sums of amounts |
| `MCActionDesk`, `MCRuns`, `MCCalls`, `MCStores` | instances for TLC |
| `FilterProofs` | what `Filters` computes, for every sequence and every finite set |
| `ActionDeskProofs` | theorems about the desk and its refinements |
| `DataProofs` | about `RefundLedger` and `CaseRules`, and all of `MCStores` |
| `CallProofs` | about the components of `MCCalls` |
| `RunProofs` | about `ThreadRuns`, `RunRows`, `RunJournal`, `StreamBridge`, `Scheduler`, `GoalLoop`, and all of `MCRuns` |
| `StoreProofs` | about `MemoryFile`, `MemoryFacts`, `ReadGate`, `McpSessions`, `ToolProgress`, `AgentTurns` |
| `SandboxProofs` | about `AioSandboxes` and `E2bSandboxes` |
| `SchemaProofs` | about `SchemaBootstrap` |

`MCRuns`, `MCCalls` and `MCStores` put several components into one run. Their
components share no variable; a behaviour is a behaviour of one of them, the one
`focus` names from the initial state on, and the others rest. This is the
disjoint union of their state spaces, not the product, so it neither hides nor
adds an interleaving: what is interleaved is inside a component, which has the
concurrent actors of the code as its own actions.

### ActionDesk

A request `r` runs the handler `Kind[r]`. `pc[r]` is where it stands between two
awaits and `mem[r]` what it carries: the copy of the action (`act`, replaced by
the row to be saved once the handler has decided), the copy of the case (`cas`),
the version it will compare with, and the reaper's batch.

| Handler | Steps |
| --- | --- |
| create (`create_case_action`) | `ReadCase`, `CreateAction`, `InsertAction`, `Reread`, `UpdateCase`, `AppendEvent` |
| approve, reject | `ReadAction`, `ReadActionCase`, `Approve` or `Reject`, `SaveAction`, `Reread`, `AppendEvent`, `UpdateCase` |
| execute (`execute_case_action`) | `ReadAction`, `ReadActionCase`, `Pay` or `Dispatch`, `SaveAction`, `Reread`, `UpdateCase`, `AppendEvent` |
| supplement (`continue_intake_case`) | `ReadCase`, `ListActive`, `SaveAction`, `ReleaseInvalidated`, `SaveAction`, `Reassess`, `AppendEvent` twice |
| list (`release_expired_reservations`) | `ReapList`, then `ReapRelease`, `SaveAction` for each expired action, `ReapDone` |

Failures: `Refuse` and `CreateRefused` are the early returns; `SaveConflict`,
`InsertConflict` and `CaseConflict` the lost races; `StorageError` any exception
of a database call, before or after its commit; `Abort` is the common exit,
which gives a reservation back exactly where the code has an `except` clause for
it; `Cancel` is `CancelledError` in an agent tool, which enters none of them.

Abstractions. A payload is its order, amount and return flag, and the
idempotency key is the record of case, type and payload: hashes do not collide.
A decision is a plan (`Plans`): type, amount, whether policy approves it, how
many signatures it needs, whether goods must come back first; which plans the
rules produce is `CaseRules`. New evidence may lead to any plan and any order.
`expected_version` and the submitted payload are inputs: a wrong one leads to
`Refuse`. A case whose order is cleared is not modelled. The select before the
insert of an action is subsumed by the two unique constraints. There is one SKU.
The case exists and is decided at the start, as `create_case` leaves it. A
restart, which empties the in-memory mock ledger, is outside what
`src/docs/OPERATIONS.md` claims and is left out.

### CaseEventChain, IdempotencyKeys

The hash of a row is represented by the list of all events up to it: it changes
exactly if any of them does. The jittered sleep is the interleaving itself. Each
call has an event of its own. `Keys` are keys already scoped by caller, role and
endpoint. The keyed handler is one step that succeeds or raises; what it does
inside is `ActionDesk`. `ran` is a history variable. Lookup and store may raise: a
request whose store raised has run its handler and left no record
(`"unstored"`), and a retry runs it again, which `RunsOnce` excepts.

### CaseRules

The orders are dossiers: shipped value, buyer history, warranty and logistics as
the rules tell them apart. `Assess` is the scorecard with its level and tier,
`Decide` the refund decision, `PlanReverse` the choice by cost. A case is opened
by the intake or by `POST /cases`, supplemented one field at a time by either
role, and its return moves through the disposition graph. Keyword extraction is
string matching and left out: what it yields is any claim. A preference for
`refund` and the branch for unsupported products (`reverse.py:71` and `112`) are
reached only by the stateless planning tool and left out. Whether a picture still
belongs to the claim is not in the claim: the decision takes the flag it is given,
and so does `DecisionSound`.

### ThreadRuns, RunRows, RunJournal, StreamBridge, GoalLoop

`run[r].phase` is where a run's task stands between two awaits; `RunManager._lock`
shows only where it is kept across an await. A checkpoint is the runs whose
messages it holds. `untasked` and the phase "killed" remember two launch
windows that the properties except by name: a run aborted before it has a task,
and a task cancelled before its first step. In `RunRows` a write is the status
it carries, which may land, land without acknowledgement, or be given up. In
`StreamBridge` event `n` is the `n`-th published, so an identifier is its number
and the window an interval; the Redis key comes with the first event or the end
marker, and the event of an error is published after the final status. In `GoalLoop` a goal is its generation (`chosen` is
the user's last) and its count of turns; `lost` remembers that a writer without
`goal_thread_lock` put an older checkpoint back. Its `ReadGoal` is the two reads of
the worker (lines 797 and 827) in one; an `aput` that fails is left out; of the
worker's claim at line 870 `UserGoalWins` is the half about the goal, not the one
about messages posted meanwhile.

### Scheduler

`task` and `rows` are the two tables, `dispatch[t]` a dispatch between two commits.
Cron arithmetic is a nondeterministic next time; the clock shows as "due" and
"lease expired". Each repository call is a step and may raise. Raised by the launch
or by a write after it, the row and the task are written off (`FailRow`,
`FailTask`); by any other call of a dispatch, it goes to the poller or the route
and leaves row and task as they are (`DispatchRaises`); by the completion hook, the
worker logs it and the run is over (`CompletionRaises`); by one of the two sweeps
of a start, `start()` goes on without it (`SweepRaises`). A row whose run is over
and that no dispatch holds is free for the next dispatch once its status is final,
which keeps `rows` small. History variables remember the paths the properties
except: `raced`, two dispatches past the overlap check; `echoed`, a status written
back from a stale read; `swallowed`, a once task's completion or sweep that raised.
There is one task: the other tasks of a batch whose poll ends in an exception keep
their lease and are claimed again when it has expired.

### Subagents, MemoryQueue, MemoryFile, MemoryFacts

The three threads of a subagent (coroutine, pool worker, poller) take one step
per unlocked access of the shared result. Timers of the memory queue are set,
fired or loose: `Timer.cancel` does nothing for one that has fired. A queued
context is the exchanges it carries; `corrections` are those in which the user
corrects the agent, `told` those that were given to the updater in a flagged
context, `displaced` those that a newer context of the conversation pushed out of
the queue. Memory files
are versions with modification times; `crossed` names the times of files that came
while another save or a reload had its content and not yet its time. A fact is its
content, confidence, source and whether it mentions an upload; an update is any combination of removals, staleness removals, additions
and merges within the bounds.

### LlmCircuit, LoopGuard, McpSessions, AioSandboxes, E2bSandboxes

A model call succeeds, fails with a retriable error, bubbles an interrupt up or
fails with another error. A tool call is its tool and its arguments, as the hash
tells them apart. In `McpSessions` a call and the session it creates have the
same name; `owner` is the owner task on its loop; a close takes its sessions out and
signals them in one step. A caller cancelled while it waits for the end of a
creation on another loop (`session_pool.py:319`) is not modelled: it leaves with its
own creation in flight and the rest of its evictions undone. In `AioSandboxes` an
acquisition walks from cache to warm pool to discovery to creation with the lock
given up around each backend call; `container[t]` is what docker runs under the
thread's name, `lost` the containers a failed docker command, a cancelled wait or
a stale second entry (`Forgotten`) has orphaned. `Twice` is a sandbox with an
entry in both maps.

In `E2bSandboxes` a machine is its number and the thread it was made for, in the
order they were made. `taker[c]` is an acquisition between two calls of the
service, under its thread's lock; `releaser[r]` a release, which has taken the
sandbox out of the maps and not parked it yet. A search finds machines by their
tags whatever the maps say. `unseen` names the threads whose running machine a
failed search or connection has hidden, which `OneVmPerThread` excepts. An
acquisition without a thread (line 205: no lock, no tags) is left out, so both
properties speak of machines made for a thread. Two
instances: two threads while nothing fails, one thread with two failures or ends
of the process.

### ReadGate, ToolProgress, AgentTurns

`ReadGate` is one path of one thread. `fop[c]` is a tool call between two awaits;
contents stand for their hashes. The gate's lock is held by a call, by nobody, or
`Lost`: taken by the worker thread of a call that was cancelled while it waited.
It stays so as long as another thread waits for the same lock object, because the
table of locks is weak. A cancelled call whose tool thread has started runs on,
outside the gate (`live`). `broken` remembers the promises a finished call broke;
`stray` who wrote outside the gate meanwhile, which the properties except.

In `ToolProgress` a result is its class, in the six the state machine tells
apart. `use[c]` is a call that runs or is about to queue its hint, in the run
that made it. `ended` and `grave` are history variables; `grave` has the tools of
which a call came back during the run with a failure the model could not repair,
late calls of an earlier run included.

In `AgentTurns` a message is its type and its tool calls, a reply the names of
the tools it calls, valid ones first. `at` is the node of the graph; every node
saves, so `saved` is `chat` unless a compaction has written. The order of the
nodes after the model is the reverse of the registration in `build_middlewares`.
Where summarization may cut, and the edges of the graph, are the library's. An
answer costs one token. Every call has an id of its own: calls without one
(`dangling_tool_call_middleware.py:254`) and reused ids, for which the patch keeps
queues, are not exercised. A compaction's look for runs in flight and its read of
the checkpoint are one step.

### SchemaBootstrap

A database is its objects, its version and the revisions that ran. Postgres runs
an upgrade in one transaction; SQLite commits each DDL statement. Initial
databases are the empty one, every one older than alembic, and every revision.

## Runs

The bounds are the constants of the configurations.

| Run | Shows |
| --- | --- |
| `approval` | one signature: two creations, two approvals, a rejection and an execution race for a balance of one and a half refunds. `ApprovedIsFunded`, `FrozenIsOwned`, and the refinement `KeepsPromise` |
| `four_eyes` | two signatures, three approvals, four supervisors of whom one is the requester: `MovedWasSigned` |
| `upkeep` | supplement, reaper, execution, two orders, clock, one storage error, cancellation: `CompletedHasReceipt`, `RowLifecycle` survive all of them |
| `resend` | one unit in stock, two executions, one storage error: `ShippedOnce`, and `Answered` under weak fairness |
| `runs` | `MCRuns`: threads, rows, journal, stream, goal and scheduler |
| `calls` | `MCCalls`: chain, keys, circuit, loops, subagents, memory queue |
| `stores` | `MCStores`: ledger, MCP pool, memory file and facts, sandboxes of both providers, case rules, schema, write gate, progress guard, agent loop |

What the last three check, by component:

| Component | Property |
| --- | --- |
| `ThreadRuns` | `Serialised`: no run in the graph beside an older one; `OwnMessagesOnly`: cleanup takes only its own run's messages; `StreamEnds` (liveness) |
| `RunRows` | `RowSettles`: whichever write lands last, a finished run has a final row; `OrphansRecovered` (liveness): a row left in flight by a dead process becomes final |
| `RunJournal` | `StoredInOrder`: events are stored in order, only an unacknowledged batch twice; `QuietAfterFlush` |
| `StreamBridge` | `NoGapNoRepeat`: over all its connections a client misses only what the window dropped; `EndReaches` (liveness), given that `publish_end` itself does not fail |
| `GoalLoop` | `UserGoalWins`, `ContinuationsBounded` |
| `Scheduler` | `NoOverlap`: no two live runs that the check could see, unless two dispatches raced past it; `LeavesRunning` (liveness): a task does not stay running, whatever raises, but for the paths below |
| `CaseEventChain` | `Linear`, `TamperEvident`, the refinement `KeepsLog`, `EveryCallEnds` (liveness) |
| `IdempotencyKeys` | `RunsOnce`: per life of the process, and for responses that could be stored; `EveryoneAnswered` (liveness), `AnswersOwnBody` |
| `Subagents` | `TokensReachParent`, `TaskSettles` (liveness) |
| `LoopGuard` | `LoopsEnd` (liveness): a run ends or its thread is evicted again and again |
| `MemoryQueue` | `OneUpdater`; `CorrectionReaches` (liveness): the exchange with the correction reaches the updater, flagged, or was pushed out of the queue |
| `RefundLedger` | `Conservation`, `CapturedIsReceipted`, `OneReceiptPerKey` |
| `McpSessions` | `NoLostOwner`, `EntryIsLive` |
| `ReadGate` | `OverwritesWhatWasRead`: a write through the gate replaces what its conversation read last; `ReplacesWhatItRead`, `MarkIsShown` |
| `ToolProgress` | `BlockIsFinal`, `BlockHasCause`, `NoPhantomHints` |
| `AgentTurns` | `RequestAccepted`: every request is one a provider accepts, and no result is lost to a placeholder; `CutOffNeverRuns`, `BudgetHolds` |
| `MemoryFile` | `HitIsFresh`: a load that finds the file's time in the cache misses no save; `CacheWasOnDisk` |
| `MemoryFacts` | `UpdateSound`: a fact leaves only for a reason the code has, limits hold |
| `AioSandboxes` | `NothingLeaks`, `StaleProbeSpares` |
| `E2bSandboxes` | `OwnVmOnly`: a thread is given machines made for it only; `OneVmPerThread`: an acquisition that meets its machine half parked or half evicted finds it and makes no other |
| `CaseRules` | `DecisionSound`: no unsigned refund the policy would review, a worse claim is judged no lighter, the cheaper plan, returns settle by their grade |
| `SchemaBootstrap` | `BootsToHead` |

`RunsInvariant`, `CallsInvariant` and `StoresInvariant` collect the type
invariants and the invariants above that have no entry of their own in a cfg.

Why the bounds are enough. The requests of an `ActionDesk` script run once each
in every interleaving; `ActionIds` has one id for each creation that can
succeed, `Versions` covers every version a row reaches, `MaxTime` is one tick
past the expiry of an action (the reaper compares strictly), `MaxFaults` allows
one storage error, which is what it takes to separate an effect from its record.
Chain: each lost attempt has a winner that races no more, so a call gives up
only when more calls than attempts race; `_MAX_APPEND_ATTEMPTS` is 8, two
attempts and three writers show both outcomes. Threads: two runs, the second of
which interrupts, is rejected by or rolls back the first. Stream: four events
through a window of two, so that a client that reconnects may be behind it.
Journal: a threshold of two and four events, so that a batch is stored while
another forms, and two failures. Scheduler: two places for
rows, so that two dispatches meet, a budget of two, and two upsets, which may be a
manual trigger, a pause or resume, a call that raises or a crash. Goal: two turns, two
edits. Subagents: two tasks in a pool of one. Loop guard: a table of one thread
for two threads, and a window shorter than the frequency limit. MCP: two calls,
two scopes, a pool of one. Sandboxes: two threads, one replica, two container
generations per thread name. Schema: two callers, two crashes. Write gate: two conversations and
three calls, so that a parallel pair meets a third; two contents, so that a file
can change and change back. Progress guard: two threads in a table of one, two
calls, two runs each. Memory facts: two facts, and one mention of an upload among
them and the answer. Agent loop: two runs with three answers, or two answers and
one compaction; a budget that the second answer reaches.

Fairness is weak fairness of a step that has begun: the asyncio loop resumes
every ready task, a thread of a pool runs, a timer that is set fires, a database
call returns, a lock is handed on first come, first served. For the scheduler
the poller claims what is due, leases expire and a crashed process is restarted and
gets through its start (`StartStep`);
for the circuit breaker the recovery time passes. Nothing is assumed about
requests that have not arrived, about users, about failures or about a model's
answer (a subagent's coroutine may never return; its timeout fires).

Deadlock is not checked in `runs`, `calls` and `stores`: their actors finish, and
a system in which every request is answered stops. Liveness properties say what
must have happened by then.

### Where the code and its comments disagree

Each of these runs expects TLC to find a violation of the one property it
checks; `PROJECT.json` quotes the line.

| Run | Property | What happens |
| --- | --- | --- |
| `second_signers` | `ApprovedIsFunded` | of two racing second signers the loser gives back the reservation the first signer made |
| `audit_gap` | `ExecutionAudited` | the late case update of the approval makes the one of the execution conflict; the payment has no audit event |
| `half_open` | `CircuitRecovers` | a probe that ends in an error that is not retriable leaves the flag set; every later call is refused |
| `rollback` | `RollbackReverts` | a rollback that arrives before the snapshot takes the thread for an empty one and deletes it |
| `schema` | `AppliedIsBuilt` | a crash between the two tables of revision 0003 on SQLite records the revision with one of them missing |

Found while modelling, without a run of their own:

- Desk. `ApprovedIsFunded` also fails when two loads of the desk reap one expired
  action, when a rejection releases and loses against the second signature, when
  the case moves to another order during a creation, and when the read after a
  committed save raises. `FrozenIsOwned` fails when a tool is cancelled between
  reservation and insert. Execute may pay a copy of an action that has been
  invalidated since. A withdrawn action can never be requested again with the
  same payload, because its key stays taken. The two properties are therefore
  proved under hypotheses that name these paths (`DeskFundsApprovals`,
  `DeskFreezesForOwners`), which the script of `approval` satisfies; everything
  else that is proved of the desk holds with all of them present.
- Rules. A serial-mismatch hold does not stop a refund asked for directly;
  pictures, damage and serial checks survive a supplement that changes the order;
  a not-received claim with proof of delivery never leaves `awaiting_evidence`.
- Runs. A task cancelled before its first step never enters `finally`, so its
  stream has no end event. A run aborted in the launch window overlaps its
  replacement. `start_run` raising after `create_or_reject` strands a pending
  record. The shutdown drain stores "interrupted" even over a success.
  `RunManager.cleanup` has no caller.
- Stream. In memory, a client that subscribes after the cleanup reads heartbeats
  for ever. On Redis a run that fails before its first event has its final status
  before its stream: a client that asks in between is sent the end and not the
  error.
- Goal. `POST /state` and graph turns write whole checkpoints without
  `goal_thread_lock` and can put an older goal back.
- Scheduler. Two dispatches can pass the overlap check; a pause during a dispatch
  is overwritten; a crash between launch and `update_after_launch` launches
  again. An exception of the completion hook is swallowed (`worker.py:623`): a
  once task then stays running, its lease cleared, until the next start, and the
  row of the run stays active, so that every later dispatch of the task is
  skipped or refused and the row counts against `max_concurrent_runs` until then.
  So does the row of a dispatch whose own writes raised. A manual trigger that
  fails writes back the status it read, also over a newer one.
- Journal. A `flush()` that fails at the end of a run drops its buffer; an
  unacknowledged commit stores a batch twice.
- Subagents. A timed-out task reports no usage; a queued task behind a full pool
  spends its polling budget waiting.
- Memory. A background update and an edit over the API are a lost update; a
  corrupt file reads as empty. The context of a flush before summarization and the
  one of the turn after it replace each other in the queue: the flag for a
  correction survives, the exchange that held it may not (`queue.py:154`). Facts
  made or imported over the API may mention an upload; the next update deletes
  them, protected corrections too (`updater.py:447`), after they have counted
  against the limit. Two saves that cross between replace and stat leave the older
  facts in the cache under the newer file's time.
- MCP. Concurrent creations exceed the pool's bound; eviction closes a session in
  the middle of a call; `close_all_sync` can wait for an owner that never starts.
- Write gate. A call cancelled while it waits for the gate's lock leaves a worker
  thread that takes the lock and never releases it; while another call waits for
  that lock, it and every later call on the path wait for ever
  (`read_before_write_middleware.py:136` calls the acquisition in a worker thread
  safe). After a cancellation a running tool goes on writing outside the gate. A
  `read_file` that failed is still marked if the second read succeeds.
  `str_replace` documents that the string must appear exactly once
  (`sandbox/tools.py:2164`) and replaces the first of several.
- Agent loop. `compact_thread` looks for runs in flight, then waits for a model
  and writes the checkpoint it read before: a run that started and ended
  meanwhile loses its messages. The todo list can bring the model back after the
  budget's stop.
- Progress guard. A call of an abandoned run that fails in the next one can block
  the tool there, although `_reset_run_states` says that state from a previous run
  "never bleeds into the next" (`tool_progress_middleware.py:449`).
- Circuit. The gateway builds the middleware anew for every run; one breaker is
  shared by several runs, as in `half_open`, where a client keeps its agent.
- Sandboxes. The idle sweep stops by name, so a container recreated meanwhile may
  be hit; a cancelled acquisition leaks its container. Two cancelled acquisitions
  can leave a thread with an entry in the active maps and another in the warm
  pool: `release` then keeps the warm one (`aio_sandbox_provider.py:956`), and
  `_remove_tracked_sandbox` takes the active one whichever of the two was
  checked, so that a stale health check removes a sandbox that was freshly
  created, which its docstring (lines 635 to 638) rules out. It takes three
  acquisitions, one more than `stores` has, and was met while proving
  `NothingLeaks` and `StaleProbeSpares`, which except it by name. The E2B provider's release
  takes a machine out of the maps and parks it some calls later, its eviction
  takes it out of the pool and kills it later: the thread's next acquisition
  finds the machine by its tags meanwhile and uses it, and the eviction then
  kills a machine that is in use.
- Loop guard. Two threads in a table of one evict each other and neither is ever
  stopped; counts per tool are kept across the runs of a thread.
- Schema. On SQLite a crash inside `create_all`, or between `CREATE TABLE
  alembic_version` and its row, makes every later start fail; 0009 adds a NOT
  NULL column without a default and fails on a populated `case_events`.

## Proofs

TLAPS checks every theorem for all values of the constants. The assumptions are
the named ones of the modules (`LedgerAssumption`, `DeskAssumption`,
`ChainAssumption`, `IdemAssumption`, `CircuitAssumption`, `LoopAssumption`,
`SubagentAssumption`, `MemoryQueueBounds`, `MemoryFileBounds`, `MemoryFactsBounds`,
`BootAssumption`, `GateAssumption`,
`McpAssumption`, `ProgressAssumption`, `TurnsAssumption`, `AioAssumption`,
`E2bAssumption`, `RunBounds`, `RowBounds`, `BridgeBounds`, `JournalAssumption`,
`SchedulerBounds`, `GoalBounds`, `RulesAssumption`):
balances, amounts and bounds are naturals, budgets and sizes are positive, the
names of nobody and nothing are not names of somebody, sets of actors are finite
where something is counted. TLC evaluates all of them on the runs.

Every safety property is proved along the same line: an inductive invariant that
TLC has checked on the instances of the runs, one lemma for each action, and the
property from the invariant. Why the property is not inductive itself, and what
the invariant adds:

`DataProofs`. `LedgerTypeCorrect`, `LedgerConserves`, `LedgerPaysOnce`: the
conjunction is inductive, because release gives back at most what is reserved
and capture looks the key up under the lock. `DecisionsAreSound`: a supplement
changes the claim of a case whose plan is on file, so `RulesInv` says that the
plan of a case is the decision on the claim it holds (`Decided`) and that an
unsigned action was asked for on that plan (`ActionIsPlanned`). That a worse
claim is judged no lighter is arithmetic about the scorecard, for every
threshold (`WorseSignals`). `LedgerReceipts` says that the captures of an order
are the sum of its receipts (`CapturedIsReceipted`): there are finitely many of
them, and one more adds its amount (`SumAdds` of `FilterProofs`).

`DataProofs` also has the theorems about `MCStores`. `StoresImplement` shows that
every behaviour of the run `stores` is one of each component's own specification
(of `FactsSpec` when the memory is in focus, of `McpSpec` without its fairness),
so that what TLC checks there and what is proved of a component are about the
same steps. `StoresAreSafe` is `StoresInvariant` and `StoresKeepTheirPromises`
every other property of the run, both of `StoresSpec`: the conjunction of the
components' inductive invariants (`StoresInv`) is inductive, because a step of
one component leaves the others alone.

`ActionDeskProofs`. `DeskTypeCorrect`, `DeskMovesOnlySigned`,
`DeskCompletesWithReceipt`, `DeskRowLifecycle`, `DeskImplementsLedger`,
`DeskConserves`, `DeskKeepsPromise`, `DeskShipsOnce`, for any number of requests
of every kind, storage errors and cancellations. The properties speak of rows,
while a handler acts on what it read some awaits ago. `DeskInv` adds

- `RowOK`, of every stored row: its signatures are of distinct others, an
  approved or completed row has enough of them, a completed one its receipt;
- `Copy`, of a row a request has read: same contract, version not newer, and as
  long as the version is the same, same status and signatures;
- `Writable`, of a row a request is about to save: if the version in the database
  is the expected one, the write is a `RowStep`;
- the place each request is in (`HeldAs`).

`CopyStable` and `WritableStable` are the heart: both survive any `RowStep` by
another request, because a write either raises the version or leaves status and
signatures alone. That is why the reaper, which saves without raising the
version, loses nobody's update. One lemma per action establishes `HeldAs` where
it arrives (`StepKeeps`). `OneCall` gives the refinement of the ledger,
`WriteSigns` and `PaySigned` that of the promise.

`DeskFreezesForOwners` and `DeskFundsApprovals` bound the reserved pool of an
order from both sides. A row alone does not tell what the pool holds: a request
reserves before it stores the row that shows it, and releases after the row has
been closed. Both proofs therefore count, beside the rows, what a request has
reserved and not stored (`HeldSum`), and take a row out of the count while a
request is about to release for it (`Undone`):

- `OwnedInv`: reserved is at most the sum of the active, reserved and unpaid rows
  plus `HeldSum`. When no request is under way this is `FrozenIsOwned`.
- `FundedInv`: the sum of the approved, unpaid rows plus `HeldSum` is at most
  reserved, from which `ApprovedIsFunded` follows at every moment. With it
  `FirmInv`: a rejection that can still save finds its row pending, and an
  approval that `execute` has seen is not taken back before it pays.

Both rest on `BooksInv`: there is one row per key, a case stays with its order,
and the signatures of a row tell whether its funds are reserved. A step changes
one row, one request's share and one pool, so that each sum changes by one term
(`SumExchange`); the lemmas per action compute which.

Their hypotheses are the paths on which the code breaks the property, each
confirmed with TLC by a counterexample when it is let in again. For
`DeskFreezesForOwners`: no supplement, and no create or approve in a tool, whose
cancellation no `except` clause catches; storage errors, reapers and four-eyes
plans are in. For `DeskFundsApprovals`: no supplement, no reaper, no storage
error, and refunds of one signature; cancelled tools, approvals by policy,
expiry, replacements of any number of signatures, and any number of orders,
cases, operators and requests are in.

`CallProofs`.

- Chain: `ChainTypeCorrect`, `ChainIsLinear`, `ChainRecordsOnce`,
  `ChainIsTamperEvident`, `ChainKeepsLog`, for any number of writers and any
  budget. A call continues a row that is in the chain (`ReadSomething`); in a
  linear chain the row before another is the one numbered one less. The rows in
  the order of their numbers (`Numbering`) are the abstract log, which makes
  every step of a call an append or a stutter of `AuditLog`.
- Keys: `HandlerRunsOnce`, `RepliesOwnBody`. Whoever is past the lookup holds the
  lock of the key (`Exclusive`) and found no live record (`NothingCached`); the
  record of a handler that has ended is there until its lifetime is over, or is
  about to be stored, or its store raised (`Covered`).
- Subagents: `SubagentTokensReported`, because the payload of a result is there
  before its status is (`PayloadFirst`). Memory queue: `OneUpdaterAtATime`.
- `CallsAreSafe` is the invariant of the whole run `calls`.

`RunProofs`.

- `DoneIsFinal`: once a task has its final status every write in flight carries
  a final one (`FinalWrites`), and the row lacks one only while every write
  since was given up (`Counted`).
- `RunsSerialised` and the action property `CleanupTakesOwn`: `ThreadInv` orders
  the runs of a thread by what a replacement waits for, `SnapshotInv` says whose
  messages a snapshot for the rollback can hold.
- `EventsInOrder`, `FlushIsLast`: buffer, batch in flight and store are
  consecutive pieces of what was put.
- `StreamIsWhole` (an action property): an offset is never behind what its
  client has seen, and ahead of it only by events that left the window.
- `OneRunAlive`: a dispatch that is past its row's creation has a row of its own,
  in a state that fits its place (`Structure`); as long as the last check did not
  pass beside another one, a dispatch before its launch excludes every run the
  check can see and every other such dispatch (`Sole`), whichever calls raise.
- `TurnsAreCapped`, `LatestGoalWins`: unless an older checkpoint was put back, the
  checkpoint has the user's last goal or none, and what a run writes was compared
  with it under the lock (`Loyal`).
- `RunsAreSafe` is the invariant of the whole run `runs`.

`StoreProofs`.

- `CacheFromDisk`: what a thread holds between the file and the cache has been on
  disk (`InHand`). `HitsAreFresh`: no thread holds a time the file has not reached
  (`TimesPast`), and what it holds together with the file's time is the file's
  content, unless that file crossed another save or a reload (`Paired`).
- `FactsTypeCorrect` and the action property `FactsUpdateSound`: `_apply_updates`
  is five passes over the list of facts (`Stages`), and a fact that is gone was
  taken by one of them: by the answer, by its age, by a mention of an upload, by the limit, which keeps as
  many that are as confident (`TrimmedKeeps`, counting by the order the code sorts
  in), or by a merge, which never leaves more facts than it found and none more
  confident than its best source (`ConsolidatedKeeps`). The passes that loop over
  the answer are recursive functions; that their recursion has a solution is
  itself proved, from the existence of a fold (`FoldExists`). What an update needs
  of the memory it finds is that ids are unique (`Known`).
- `GatedWritesSeeDisk`, `ReplaceIsAtomic`, `MarksWhatWasShown`: a call of a live
  run is inside only while it holds the gate (`HoldsGate`), so what it saw stays
  on disk until somebody writes outside the gate (`SeesDisk`); `str_replace`
  keeps the file's lock meanwhile (`HoldsFile`, `FoundOnDisk`).
- `NoOwnerIsLost`, `EntriesAreLive`: what is evicted is out of the pool until its
  owner is told (`PendingIsGone`), what is being created is awaited by its
  creator and not told to stop (`InflightIsAwaited`), an owner belongs to the
  call that created it (`OwnersAreCreators`).
- `BlocksAreEarned`: a call may come back after its run has ended or its thread
  was evicted, so the invariant `ProgressInv` says that a thread the table has
  forgotten has no blocked tool and no hints (`Unblocked`, `NoHintsLeft`).
- `RequestsAreAccepted`: in every thread, running, kept or read for a compaction,
  an id is of one call, and a result is behind the answer with its call with only
  results between them (`Transcript`). From that alone `PatchedIsWellFormed`
  shows that each message becomes a piece that is well formed by itself, that
  joining pieces keeps it, and that no result is lost.
- `RunsStayInBounds` (`CutOffNeverRuns`, `BudgetHolds`): behind the safety filter
  the last answer has no valid call that was cut off, behind the budget's stop no
  valid call at all (`LastAnswerKnown`); the ids of a new answer have not run (`RanBefore`); every answer since the stop was asked for by a
  reminder (`Budget`).

`SandboxProofs`.

- `NoContainerLeaks` and the action property `StaleProbesSpare`. An acquisition
  has the lock file from discovery to readiness, so the container it waits for is
  the thread's or has died, and the one it drops after a failed check is not the
  thread's (`AcqOK`); the warm entries of a sandbox share a container (`MapsOK`);
  what is listed for a stop was made (`StopsOK`). Each step moves one sandbox
  from one of these places to another.
- `OwnMachines`, `OneMachine`: an acquisition has its thread's lock, its thread
  has no machine in use once it is past the ping, and when its search of the pool
  and the service has found nothing, nothing runs for the thread unless a call
  failed (`TakerOK`); a release keeps the thread the machine was made for
  (`ReleaserOK`).

`SchemaProofs`.

- `BootTypeCorrect`: `alembic_version` lists revisions of the code only.
- `BootReachesHead`: no bootstrap fails and one that returns leaves the complete
  schema at head. The property says nothing while a bootstrap is under way, so
  `BootInv` says what is left to be done: the statements the lock's holder has
  before it are never refused and take the database to one that is ready for its
  next phase (`Reaches`, `PhaseReady`), commits come last in them, and the head is
  recorded in the last transaction only (`HolderInv`); without a holder, and on
  Postgres also when one dies, the database is one that `_decide_state` sends down
  the right branch (`Rest`). `RevisionTakes` goes through the fourteen revisions:
  on any database where the revisions below it have been applied (`Good`), none of
  its statements is refused, and what it leaves can be upgraded further - whichever
  of the two heads of 0006 and 0007 comes first. The number of callers, of crashes
  and the databases found are arbitrary; the revisions are the repository's.

`FilterProofs` proves, by induction over the length stated for sets of numbers,
that a filtered list is no longer than the list, contains exactly the members
that were kept, and repeats none unless the list did. The queues, the pools, the
gate, the table of the progress guard and the calls of an answer rest on it. It
also proves what the sums of the money properties need: `SumBy` is a fold of the
community modules, which takes the terms in an order of its own choice; its
recursion has a solution on every finite set (`SumExists`), and one element more
adds its weight whichever term the fold takes first (`SumAdds`).

Only model-checked is liveness, which the prover cannot express under fairness.
Every invariant and every other safety property that a passing run checks is the
statement of a theorem.

## Not modelled, and the plan

Most of the repository's lines have no state a model checker could say anything
about, which is why the map covers only a part of them: translation of virtual
paths and the search tools (`sandbox/tools.py`), the skill scanner's patterns,
search and crawl adapters (`community/`), model clients (`models/`),
configuration classes, prompt text and assembly, the embedded `client.py`,
request and response schemas of the routers, keyword extraction and document
retrieval, reports and metrics, the frontend. They are string processing, I/O
and wiring; authentication and authorization are taken as given.
`cancellation.py` is consulted by no production code.

With state and still to be modelled, in this order:

1. `ToolPolicy`: guardrail, tool policy and tool audit of the after-sales tools,
   whose recorder can fail; knowledge health.
2. Threads router (create, branch, delete against a running run), the login
   limiter.
