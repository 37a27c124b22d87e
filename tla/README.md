# Verification of theos-agent

TLA+ models of the stateful core of theos-agent (Python, asyncio), the TLC
runs that check them on small instances, and TLAPS proofs of what matters most
for instances of every size. Paths below are relative to the package,
`src/src/`, unless they say otherwise.

Contents: [the system](#1-the-system), [modules](#2-modules-and-code),
[properties](#3-properties), [runs](#4-runs-and-bounds),
[fairness](#5-fairness), [proofs](#6-proofs), [findings](#7-findings),
[not modelled](#8-what-is-left-out), [plan](#9-plan).

## 1. The system

theos-agent is a personal assistant. Channels (Telegram, Feishu, CLI, cron ...)
publish messages on a bus; one consumer distributes them to one worker per
session; a worker runs a *turn* (context, model calls, tools, GenVer loop);
tools may spawn *subagents*, which are asyncio tasks that spawn further ones;
results go back to the bus. Sessions, checkpoints, memory, cron jobs and
OAuth tokens are files. Nearly everything runs on one event loop, so an
interleaving happens at an `await` only; what is hard is what may have changed
across one, and what `cancel()` does to a coroutine suspended in one.

| Component | State | Operations | Interacts with | What is hard | What makes it correct |
|---|---|---|---|---|---|
| Message bus (`bus/`) | bounded inbound and outbound queues | publish (drops the oldest when full), consume | channels -> run loop -> channels | a full queue | order kept, bounded, newest kept |
| Run loop (`agent/loop.py`) | running flag, pending questions | consume, /stop, hand an answer to a waiting turn, shut down | bus, dispatcher, executor, GenVer | /stop suspends it; a question may die while it looks, or outlive its turn | a turn that waits gets the answers of its session; /stop discards what came before it |
| Group dispatcher (`session/group_dispatcher.py`) | a queue and a worker task per session | dispatch, cancel_group, cancel_all, worker loop with idle timeout | run loop | idle timer and cancel race with put; every ending worker pops the entry | one worker per session, FIFO, nothing lost |
| Delegation (`agent/delegation/`, `agent/subagent.py`, the subagent tools) | records, asyncio tasks, consumed results, session locks | spawn, send_message, wait, kill, cancel_by_session, the lifecycle of a task | tools of every agent, run loop, bus | cancels at every await, swallowed cancels, timeouts, cascades, locks held across a gather | limits hold, a tree, no orphan executes, a result survives until it is read, /stop drains, everything ends |
| Turn lifecycle and policies (`orchestrator/`) | task records, in-flight registry, retry counts | handle a message, retry, fail, block, finish | workers, providers, checkpoint store | failures inside failure handling, cancellation | every turn gets exactly one reply, status machine respected, registry emptied |
| Session log (`session/manager.py`) | JSONL file, cached session objects, persisted count | load, append, compact, clear, evict | turns, consolidation | crash in an append, two objects for one file, counts as positions | what was saved is loaded again, in order |
| Checkpoints (`session/turn_store.py`, `subagent_store.py`) | append-only rows | checkpoint, mark interrupted on restart | orchestrator, executor | crash between steps, torn rows | a restart knows what was in flight |
| Memory consolidation (`memory/consolidation.py`, `tiers.py`) | cursor into a session, queue of facts, background task | consolidate, archive, flush | sessions, models | the cursor is computed before an await and stored after it | no message skipped or consolidated twice |
| Cron (`cron/`) | jobs, timer task, running jobs | add, remove, enable, tick, run | agent loop, itself (jobs edit the schedule), `theos cron` and `theos agent` in other processes (the same file) | editing from inside a job re-arms the timer; two processes write one file from memory | each due job runs, what is over never again, a restart loses nothing |
| Provider recovery (`providers/recovery_provider.py`) | provider, attempt, whether anything was passed on | chat, stream, retry, fail over | model APIs | failure after part of a stream | no text twice, every provider tried in order |
| OAuth (`auth/`) | credential store, refresh thread | get, refresh; login, removal, keys, default | several processes, file lock | a credential read before the lock; writers that do not take it | a credential is refreshed once |
| GenVer (`genver/`) | phases left, the step of a review, artifacts of the workspace | run, review, repair, report | turn, tool loop, later runs | documents outlive the run that wrote them; reviewers that never agree | a run ends |
| Tool loop (`agent/loop_core.py`) | calls of the response, preflight tasks, iteration | stream, preflight, execute in parallel or in turn, leave | providers, tools | a response fails after its tools were started | each call runs once and in order; nothing is left running; it ends |
| Stores, recall, prompt text, single tools, channels, Feishu, pollers, dream, safety, UI, CLI | various | various | | mostly data or I/O | see section 8 |

`PROJECT.json` lists each of them with its sources and status, and every
hazard with the line where it bites.

## 2. Modules and code

| Module | Models | Kind |
|---|---|---|
| `SerialGroups` | what the dispatcher promises | abstract specification |
| `GroupDispatcher` | `bus/queue.py` (inbound), `AgentLoop.run` and `_handle_stop`, `PerGroupDispatcher`, `ask_user` of `agent/loop_genver.py` | detailed specification |
| `GroupDispatcherProofs` | | theorems of `GroupDispatcher` |
| `TaskPool` | what the executor promises | abstract specification |
| `Delegation` | `SubagentExecutor`, `SubagentManager.spawn` and `send_message`, the tools that call them | detailed specification |
| `DelegationProofs` | | theorems of `Delegation` |
| `CronService` | `cron/service.py`, `cron/types.py` | detailed specification |
| `CronProofs` | | theorems of `CronService` |
| `ProviderRecovery` | `providers/recovery.py`, `RecoveryProvider` | the steps of one request, run by its caller |
| `ToolLoop` | `run_tool_loop` of `agent/loop_core.py` | composes `ProviderRecovery` |
| `ToolProofs` | | theorems of `ToolLoop` |
| `TurnLifecycle` | `TurnLifecycle`, `OrchestratorPolicy`, `AgentLoop._process_message`, `finalize_turn`, `TurnStore` | detailed specification |
| `TurnProofs` | | theorems of `TurnLifecycle` |
| `GenVerPipeline` | `GenVerPipeline`, its phases, `PhaseReviewProtocol`, the artifacts | detailed specification |
| `OAuthTokens` | `OAuthManager`, the profile operations of `auth/store.py` | detailed specification |
| `OAuthProofs` | | theorem of `OAuthTokens` |
| `SessionLog` | `SessionManager`, consolidation, the commands and turns that write a session | detailed specification |
| `SessionProofs` | | theorems of `SessionLog` |
| `MemoryTiers` | the immediate tier of `memory/tiers.py` | detailed specification |
| `TiersProofs` | | theorems of `MemoryTiers` |
| `MC_GroupDispatcher`, `MC_Delegation` | | constants and symmetry for TLC |
| `MC_Services`, `MC_Turns`, `MC_Sessions` | | constants for TLC, and the parts that are checked side by side |

**Grain.** One action is the code between two awaits that may suspend. An
`await` that cannot suspend (a `put` on an unbounded queue, `checkpoint`
coroutines that do file I/O synchronously) does not split an action. Two
actions of one handler are never merged: the state in between is what other
tasks see.

**asyncio, as modelled** (external to the repository; the semantics of Python
3.12, which the repository's Dockerfile uses):

- `task.cancel()` marks the task and cancels the future it waits for; the
  `CancelledError` is raised at the task's next step (`cancel`, `hit`).
- A task cancelled before its first step never enters its coroutine: not a
  `try`, not a `finally` (`WorkerNeverRan`, `CancelledEarly`).
- `wait_for` is `async with timeout`: the timer cancels the *own* task, and the
  `CancelledError` becomes a `TimeoutError` on the way out only when nobody
  else cancelled it. If the body swallows the cancel, there is no timeout.
  (`IdleTimer`, `Timeout`, `LoopCancelled`). Up to 3.11 `wait_for` wraps a
  coroutine in a task of its own; the race windows differ.
- A cancelled `gather` passes the cancel to its children and raises once they
  are all done (`Reach`, `Gathered`).
- A lock with waiters is handed to the first waiter.

### GroupDispatcher

| Variable | Code |
|---|---|
| `inbound` | `MessageBus.inbound`; a message is its number, its group and whether it is /stop |
| `running`, `stopping` | `AgentLoop._running`; run is inside `await cancel_by_session` |
| `queue`, `entry` | `PerGroupDispatcher._queues`, `_workers` |
| `wk` | the worker tasks: where each is suspended, its message, cancel and timer flags, and the future of a question |
| `asker`, `stale` | `LoopGenVer._pending_questions`: the worker whose turn waits for the question, or the state of a future nobody waits for |
| `lastStop` | history for a property; read by no guard |

| Action | Code |
|---|---|
| `Publish` | `publish_inbound`, drop-oldest |
| `Dispatch`, `Answer`, `HandleStop`, `StopReturns` | the branches of `run` after `consume_inbound`: dispatch, answer to a pending question, /stop with `cancel_group` (drains and cancels; the entry stays) and the wait for subagents |
| `Shutdown` | the `finally` of `run`, also when the reply to a question cannot be stored: `cancel_all` |
| `WorkerStart`, `WorkerWake`, `ProcessDone` | `_worker` takes the next message or waits |
| `IdleTimer`, `IdleExit` | `wait_for(queue.get(), WORKER_IDLE_TIMEOUT)`: the timer fires, and later the worker exits, with or without something put into the queue in between |
| `ProcessCancelled`, `ProcessSwallows`, `WorkerNeverRan` | the three fates of a cancelled worker |
| `AskUser`, `AskReturns` | `ask_user` registers its future; returns an answer, or "abort" after its timeout |
| `AskFails` | the checkpoint `ask_user` writes after it registered its future raises: the future stays registered, and the turn goes on or ends |

`ProcessSwallows` is not a generosity of the model: `SubagentExecutor.wait` and
`kill` catch the `CancelledError` of the turn that called them (see
`Delegation`), so a cancelled worker can carry on with its turn and its queue.
Worker ids are reused, as `_workers` may name a task that is done; with ids
used once the state space would be unbounded for no extra behaviour.

### Delegation

| Variable | Code |
|---|---|
| `records`, `handles`, `consumed` | keys of `_records`, `_tasks`; `_consumed` |
| `finishOrder` | the order of `finished_at`, by which `_gc_results` sorts |
| `task` | the fields of `SubagentRecord` that steer control, and where the asyncio task is suspended |
| `call` | the tool call an agent (root turn or subagent) is suspended in |
| `cancel` | cancels not yet delivered |
| `stopping`, `draining` | `cancel_by_session`: the lock it holds, the tasks it gathers |

Actions follow the methods: `Spawn`, `SendMessage`, `SpawnResumes` (the body of
`spawn` under the session's lock, at once or after waiting for it), `Wait`,
`WaitReturns`, `Kill`, `KillGathered`, `KillReturns`, `Stop`, `StopReturns`, and
for `_execute`: `Start`, `WorktreeReady`, `CancelledEarly`, `LoopEnds`,
`Timeout`, `LoopCancelled`, `Reaped`, `CleanedUp`. `Finish` and `Retire` are the
`except` clauses and the `finally`, up to and after its awaits.

Data abstracted: task text, labels, results, role and tool filtering, wording
of errors. "completed" stands for FAILED too: both end the loop the same way
and no code path tells them apart. A root turn is named by its session: a
session has one turn at a time, which is what `OneWorkerPerGroup` shows of the
dispatcher. `SendMessage` has no access check because the code has none.

The policy's default `max_depth` is 2; one level of subagents exists then. The
runs use 3, so that nested tasks exist.

### CronService

| Variable | Code |
|---|---|
| `jobs`, `file` | `CronService._store` and the JSON file; of a job what the scheduler compares: enabled, whether it has a next run and whether that has come, whether it ever ran |
| `copies` | `_store` of the CronService another process made: `theos cron add`, `remove`, `enable`, `run`, `theos agent` |
| `schedule` | kind of each id: a one-shot that is deleted after its run, one that is disabled, a recurring job |
| `timer`, `execs` | `_timer_task`; the executions of each job: of the running tick, cancelled but not yet unwound, started by hand |
| `past`, `expired` | what the clock has reached of `at_ms` and `expires_at_ms` |
| `closed` | history: removed or completed jobs |
| `apart` | history: jobs another process changed beside the running gateway, or that a process changed unknowingly by writing a store it had read too early |

Actions: the edits `AddJob`, `RemoveJob`, `EnableJob`, `RunJob`/`ManualEnds`, each with
its `_save_and_rearm`; the tick `SleepEnds`, `Fire`, `TickEnds`; `TimedEnds`,
`StaleUnwinds`, `StaleCompletes` for the ends of `_execute_job`; the clock; `Crash`
(also `stop`) and `StartService` with `_recompute_next_runs`. `_arm_timer` cancels
the old timer task; when that one is in its `gather`, the jobs are cancelled with
it. They leave when they get to it, or swallow the cancel and complete.

Every process reads `jobs.json` once (`OtherLoads`, `StartService`) and from then on
writes all it has in memory (`OtherWrites`, `SaveAndRearm`). A command changes what it
has and writes it at once (`OtherAdds`, `OtherRemoves`, `OtherSwitches`) or when the job
it ran has ended (`OtherRan`). The file is not replaced but rewritten, so a reader may
find it half written, which counts as empty (`Read`), and a death cuts it (`Torn`).
`StartService` also starts from a store that was read earlier: the gateway adds its own
jobs before it starts the service.

### ProviderRecovery and ToolLoop

A request is one record (`ask`): provider, attempt, whether something was passed
on. `chat_stream` is an asynchronous generator: it moves when its caller asks for a
chunk, so its steps are operators that `ToolLoop` joins with what the loop does
with the chunk (`ModelText`, `ModelReady`, `ModelCalls` ...). `calls` holds the tool
calls of the response by what the loop tells apart (unsafe, safe, duplicates of
each other); `exec` the execution of each; `preflight` the calls started while the
response arrived. `launches` and `speakers` are histories.

### TurnLifecycle

| Variable | Code |
|---|---|
| `turn`, `at`, `mine` | the turn the session's worker executes, the await of `_process_message` it is in, `persisted_user` |
| `task`, `retries`, `active`, `db` | `OrchestratorPolicy._tasks`, `_active`, `_db` |
| `attempts` | the loop of `_execute_with_retry` |
| `question`, `replies` | the session's pending question, and the messages taken for its answer |
| `log` | `Session.messages`: requests and answers of turns |
| `latest`, `torn` | the last row `TurnStore` can read, and whether half a row follows |
| `fate` | what the user was told |
| `blind`, `lost` | history: turns with a lost checkpoint; the turn the process died in, and where in it |

A session runs one turn at a time (that is `OneWorkerPerGroup`), so a turn is a
program counter. An exception may come at every await (`AttemptFails`), a cancel
too (`Cancel`), and a checkpoint write may fail on its own, which is logged
and forgotten (`Recorded`). `persist_user_message` saves the request (`Persist`) before the
first row is written (`Accept`). `Die` comes anywhere and may cut a row. `Restart` and `OtherProcess`
are the constructor of `AgentLoop`, which marks what looks unfinished
interrupted, also when another process (`theos cron run`) builds one.

### GenVerPipeline, OAuthTokens

`GenVerPipeline` keeps the phases left, the step inside a phase, and of each
artifact the run that wrote it. The phases are those of the estimated complexity or
any list the configuration names (`Configured`). `OAuthTokens` numbers the credentials
the provider issued; a client is where it is in `_refresh_with_lock` and the credential it
holds. A command that logs in, removes a profile, stores a key or chooses a default
(`edit`) loads the whole store and writes it back in a later step, without the lock. What
the provider makes of a credential it has refreshed before is left open: of the two
built-in plugins one sends the same refresh token every time and the other none.

### SessionLog and MemoryTiers

| Variable | Code |
|---|---|
| `heap`, `cached` | Session objects (messages, `last_consolidated`) that something still refers to, and the one in `_cache` |
| `file` | the JSONL file: its messages, the cursor of its last metadata line, whether a line is torn |
| `persisted`, `appended` | `_persisted_msg_count`, `_append_lines_since_compact` |
| `turn`, `jobs`, `exit` | the turn of the session (a chat, /new, /reboot), background consolidations, `drain_and_consolidate` |
| `flag`, `dict`, `holder` | `_consolidating`, `_consolidation_locks`, the locks |
| `archived` | history: messages summarised into HISTORY.md |
| `forked` | history: a message went to one of two objects in use |

`Evict`, `Opened` and `Grows` give the hazard its shape: an object that a turn
holds may leave the cache, and be loaded again as a second one that shares
`persisted` with the first. Consolidation is planned before its model call
(`JobAcquires`) and stored after it (`JobArchives`).

| Variable of `MemoryTiers` | Code |
|---|---|
| `buffer`, `flush` | `_immediate_queues`; `flush_immediate` in the background task and at exit |
| `rows`, `open` | `memory_short_term` as committed; rows inserted in the open transaction of the connection |
| `refused` | entries whose content is not text (an assistant's entry with tool calls may have `None`), which the NOT NULL column refuses |
| `overlapped`, `torn` | history: two flushes wrote at once; failed flushes that left rows in the transaction |

`FlushFails` keeps what `executemany` inserted before it failed, as `execute_many` does
not roll back, and the next commit on the connection stores it (`FlushWrites`,
`OtherCommits`).

## 3. Properties

`GroupDispatcher`:

- `OneWorkerPerGroup`: messages of one session are never processed
  concurrently. Three places write `_workers`; the ending worker pops its
  group's entry without looking whose it is. It holds because an entry is
  replaced only when its task is done, and a cancelled worker keeps its entry.
- `StopDiscardsEarlier`: nothing published before a /stop starts after that
  /stop was handled, also when the running turn swallows its cancel.
- `QuestionOwned`: the turn that waits for an answer is the registered one, so no
  turn waits for a reply that would be dispatched as a new message, and an answer
  meets a turn that can still take it. A question whose checkpoint failed stays
  registered without a turn (see the findings), but never in the place of one that a
  turn waits for.
- `ImplementsSerial`: refinement of `SerialGroups`: FIFO per session, one
  active message.
- `HealthyDelivery` (liveness): what is queued behind a healthy turn or a new
  worker is started or discarded, unless the loop shuts down. The hypothesis
  that the worker is not cancelled or timing out is needed: see finding 1.

`Delegation`:

- `WithinLimits`: what *executes* is bounded by the policy, not just the records
  that are counted.
- `TreeShape`: session and depth follow the parent, through continuations too.
- `NoLiveOrphans`: a finished task leaves no executing child unless kill was
  told not to cascade.
- `UnseenKept`: garbage collection never takes an unread or unfinished result,
  nor too many, nor a newer one first.
- `FinishedOnce`: the first end of a task is the one that counts.
- `ImplementsPool`: refinement of `TaskPool`, which knows no asyncio: a task begins
  within the limits, below a task or a root turn, ends once with an outcome that stays
  (or without one, see finding 2), and its result is kept unless more than
  `KeepCompleted` have piled up.
- `StopDrains`: after /stop returned, nothing of the session executes.
- `AllFinish` (liveness): every task ends.

`CronService`:

- `TimerArmed`: while an enabled job has a next run, there is a timer task. Every
  edit cancels the one there was, and cancelled executions reschedule jobs.
- `NeverAgain`: the timer never starts a removed or completed job again,
  although outcomes reach the file only when the whole tick ended. Excepted are jobs in
  `apart`: a gateway does not know what another process changed beside it.
- `SurvivesRestart`: a restart brings back every job that is not over, whoever added
  it, with the same exception and that of a torn file. Without the exceptions TLC
  finds both violated, by a `theos cron remove` and a `theos cron add` beside the gateway.
- `DueStarts` (liveness): a due job starts, unless it is edited or the process ends.

`ToolLoop`:

- `OneSpeaker`: what the user saw of a response is from one attempt.
- `LaunchedOnce`: no call is executed twice, by preflight and loop or by two attempts.
- `UnsafeInOrder`: a tool that is not parallel_safe starts after all earlier calls
  of its response are over.
- `NoOrphanTools`: an ended loop leaves no tool running. A cancelled one may (see the
  findings), but only tools it had preflighted: no tool that is not parallel_safe acts
  after its turn is over.
- `LoopEnds` (liveness): the loop ends, however the bounded retries, failovers
  and iterations nest.

`TurnLifecycle`:

- `TaskTells`: the task registry and what the user was told agree.
- `LogFollows`: in the history an answer follows its request, also after a retry.
- `NoFalseInterruption`: nobody is told that an answered turn was interrupted.
- `InterruptedReported`: a turn the process died in is reported if it died between
  the rows of an attempt (`Recording`). A turn whose answer was not published yet stays
  completed, and one that had no row of its attempt yet is not known (see the
  findings).
- `TurnEnds` (liveness).

`PipelineEnds` (liveness) says that a GenVer run ends however its reviewers
disagree; `RefreshedOnce` that no credential is refreshed twice, unless a newer one
was not stored, the profile was removed, or a command without the lock wrote back an
older one.

`SessionLog` and `MemoryTiers`:

- `FileAgrees`: the file is a beginning of what every object in use holds, and the
  persisted count is its length, so that nothing is appended twice or skipped.
- `NeverSkipped`: what lies before the cursor is in the archive.
- `NewKeepsAll`: /new clears nothing that is not archived, however it ends.
- `ConsolidationEnds` (liveness): a session does not stay marked, /new ends.
- `Buffered`: each entry is in the database or the buffer, and a full buffer has a
  flush; in the database it is once and in order as long as no failed flush left rows in
  the transaction.

Hypotheses such as `~forked` (two objects of one session took messages), `~torn`
(a line cut by a crash; in `MemoryTiers`, a batch stored in part), `blind` (a
checkpoint lost), `apart` (a job changed behind the gateway's back), `overlapped` (two
flushes wrote at once) and `mislaid` (a credential lost) name the cases in which the code
does not keep the promise. Those are findings, not assumptions about the code: the
actions that lead there are in the model, and what holds beside them is checked.

Each has a mutant in `PROJECT.json`: a plausible bug (defined next to the
operator it changes and marked "mutant") under which TLC finds it violated.

## 4. Runs and bounds

| Run | Bounds | Shows |
|---|---|---|
| `dispatcher` | 2 sessions, 2 worker ids, 5 messages, inbound queue of 2 | type, `OneWorkerPerGroup`, `QuestionOwned`, `StopDiscardsEarlier`, `ImplementsSerial`; 411 thousand states |
| `dispatcher_live` | 3 messages | `HealthyDelivery` |
| `stranded_message` | 4 messages | finding 1 |
| `delegation_tree` | 3 tasks, kill always cascades (its default), no /stop, no worktrees | type, `WithinLimits`, `TreeShape`, `UnseenKept`, `ImplementsPool`; 241 thousand states |
| `delegation_stop` | 2 tasks, 1 /stop, worktrees, kill with and without cascade | `NoLiveOrphans`, `FinishedOnce`, `StopDrains`; 0.8 million states |
| `delegation_live` | 2 tasks | `AllFinish` |
| `stopped_pending`, `timeout_swallowed`, `stop_hangs` | 2 tasks | findings 2 to 4 |
| `services` | 2 jobs, alone or with another process beside the gateway; 2 providers, 2 retries, 2 iterations, 3 calls per response | `CronService` and `ToolLoop`, all properties; 223 thousand states |
| `turns` | 2 turns, 1 retry, 1 reply to a question; 2 GenVer runs; 2 clients, 1 command, 5 credentials | `TurnLifecycle`, `PipelineEnds`, `RefreshedOnce`; 384 thousand states |
| `sessions` | 4 messages, 2 objects, 1 background consolidation, 2 locks; 5 entries, a queue of 2, 1 batch stored in part | `SessionLog` and `MemoryTiers`; 250 thousand states |

`MC_Services`, `MC_Turns` and `MC_Sessions` hold modules that share no state. A
variable says which one runs; the others rest in a state in which no step that
fairness speaks of is enabled. The states of the parts are added, not multiplied,
and each property is still checked against all behaviours of its part.

Why they are enough:

- *Dispatcher.* Two sessions show that groups do not interfere (only `Shutdown`
  and the shared inbound queue relate them). Two worker ids suffice because the
  proof shows one live worker per session. Five messages in one session allow a
  running turn, a queued one, a /stop, one after it and a successor worker; an
  inbound queue of 2 overflows. The proofs lift every safety property to all
  bounds.
- *Delegation.* Three tasks with two running at once and one child per parent
  make a chain root - a - b, a third refused by each limit and admitted once
  something ended, a continuation of a finished task, and an eviction with
  `KeepCompleted` 1. A /stop multiplies the states, so the stop runs have two
  tasks: a parent and its child, or two siblings. Worktrees add two awaits where
  a cancel can land and matter to how a task ends only, so they are in the stop
  run, as is `cascade=False`: with three tasks it multiplies the states by five.
  No property relates three tasks and a stop.

- *Cron.* Two jobs: one that ends or edits while the tick waits for the other.
  One id is added once; three kinds, so each pair of kinds occurs. In a second scene
  (`busy = "files"`) another process stands beside the gateway; there one job is
  recurring and one a one-shot that is not disabled and whose time does not come, and
  the gateway makes no edit in the middle of a tick (`Beside`): what the two processes do
  to each other's changes needs no more, and the proofs cover the rest. None of these
  bounds stops a step that has fairness.
- *Tool loop.* Three calls: a preflighted one, an unsafe one behind it, and a
  duplicate; two iterations, so that state of the first could leak into the
  second; two providers and two retries give each recovery decision.
- *Turns.* Two turns, of which the first to come is `t1` (they differ in their names
  only), with one retry: a checkpoint of a turn may be the last row
  while the other runs. `MaxAttempts` is the code's 10; `TaskRetries` is 1 where the
  code's default is 3, as a second retry repeats the first. `MaxReplies` bounds
  answers to questions, which otherwise only repeat.
- *OAuth.* Two clients that wait for one lock, and a command that loaded the store
  before either of them wrote it.
- *GenVer.* The configured list has no PLAN and ends with a REVIEW after its REPORT.
- *Sessions.* Four messages with a window of 2 and a keep of 1: a consolidation
  plans, messages arrive during its call, and a second one starts from its
  cursor. A compaction after 5 lines happens within them. Two objects are the
  hazard. One background consolidation at a time is a bound (`Jobs`); with /new
  and the exit there are three.
- *Tiers.* Five entries and a queue of 2: two full batches and one under way. One
  flush may leave rows in the transaction (`MaxTorn`): its retries, and the writes that
  commit those rows, follow.

Deadlock checking is off in every configuration: `MaxMessages` and `MaxStops`
are bounds of the model, task ids are used once, and users, models and timers
owe nothing, so the system may come to rest: so does an idle scheduler, a tool
loop that ended, a session nobody writes to. That it does not rest too early is
what the liveness properties are for.

## 5. Fairness

The event loop runs every ready callback, hence weak fairness of each step of a
task that is ready: `Dispatch`/`Answer`/`HandleStop` (one consumer), `StopReturns`,
`WorkerStep`, `TaskStep`, `CallReturns`. Three assumptions are stronger:

- `SF(ProcessDone)`: a turn ends even if it asks its user again and again.
  GenVer bounds its repair rounds and `ask_user` times out after five minutes.
  Strong, as every question disables it for a while.
- `SF(LoopEnds)`: a tool loop ends although its tool calls disable it for a
  while: `run_tool_loop` has a bounded number of iterations.
- `WF(Timeout)`: the timer of the subagent timeout fires.

Publishing, tool calls, /stop, the idle timer, a swallowed cancel and shutdown
have no fairness.

The other modules:

- `CronFairness`: a sleep ends, the tick runs, a job's callback ends (it is cut
  after `_JOB_TIMEOUT_S`). None for edits, crashes,
  starts, other processes or the clock.
- `ToolFairness`: a request to a provider ends (clients have timeouts), a tool
  ends, the loop goes on. A stream need not say anything, and nothing is fair
  about cancellation.
- `TurnFairness`: the worker goes on; strong for `InferenceEnds`, as a turn that asks
  its user is not at that point for a while (`LoopEnds` of `ToolLoop` is the
  reason that inference ends). Replies, cancels and processes have none.
- `GenVerFairness`: each model call of a phase is a bounded tool loop.
- `LogFairness`: turns and consolidations go on while the process lives, as their
  model calls are answered or fail. Eviction, exit and death have none.

## 6. Proofs

`GroupDispatcherProofs` proves, for any sets of sessions and workers and any
bounds (assumptions: the sentinels are not members of the sets, `MaxInbound`
is at least 1, `MaxMessages` a natural number; all evaluated by TLC):

| Theorem | States |
|---|---|
| `TypeCorrect` | `Spec => []TypeOK` |
| `OneWorker` | `Spec => []OneWorkerPerGroup` |
| `Questions` | `Spec => []QuestionOwned` |
| `StopDiscards` | `Spec => StopDiscardsEarlier` |
| `Refinement` | `Spec => ImplementsSerial` |
| `QueuedServed` | `Init /\ [][Next /\ NobodyMissed]_vars => []QueuedHasWorker` |

`OneWorkerPerGroup` is not inductive: a live worker that is in no entry could be
joined by another. The inductive invariant `IInv` adds

- `TaskShape`: what a task's `pc` implies for its group, message and question;
- `EntryKnows`: while `run` runs, a live worker is the entry of its group, and an
  entry names a task of that group, live or done. After shutdown the entries are
  empty, but then no worker is created any more;
- `QuestionOwned` and `TypeOK`.

`StopDiscardsEarlier` needs `Ordered` on top: the numbers in `inbound` increase,
exceed every `lastStop` and are bounded by `published`, and what is queued for a
group exceeds its `lastStop`. The refinement uses `IInv` to
show that the set of busy workers of a group has at most one element
(`ProcessedFacts`), so that `Processed` is the message of *the* busy worker; each
action then maps to an abstract action or a stutter.

`CronProofs` proves `CronTypes`, `CronTimerArmed`, `CronNeverAgain` and
`CronSurvivesRestart` for any set of jobs and of other processes. The inductive invariant `CronInv` adds to
types and `TimerArmed`:

- `WellKept`, of memory and of the file: an enabled recurring job always has a
  next run. Without it an execution that ends after its tick was cancelled could
  give a job a next run for which no timer was armed. And a one-shot is due only
  when its time has come.
- `Over` and `OverInFile`: what may be left of a job that is over: nothing,
  disabled, or (in the file, before the outcome was saved) a one-shot whose time
  has passed, which the next start drops. `NeverAgain` follows.
- `Missing`: a job that was added and is not in the store is over, passed, expired or
  in `apart`. `SurvivesRestart` follows.
- `Copied`: `WellKept` of the memory of other processes, which may be older than the
  file: nothing more can be said of it. Writing it changes jobs unknowingly, and
  `UndoneMarks` shows that each of them is in `apart` afterwards.

`ToolProofs` proves `ToolTypes`, `ToolOneSpeaker`, `ToolLaunchedOnce`, `ToolNoOrphans`
and `ToolUnsafeInOrder` for any numbers of providers, retries, iterations and calls.
`ToolInv` adds `Quiet` (an attempt that may be retried has shown and started
nothing: this is what ties `yielded` of the provider to the tasks of the loop),
`Counted` (a call was started once or never) and `Whereabouts` (in each branch,
which executions may be on and which must be over). `ToolNoOrphans` adds `Preflighted`
to it: all that was preflighted is parallel_safe, while the calls of a response grow and
the branches take them over.

`OAuthProofs` proves `OAuthRefreshedOnce` for any number of clients, commands and
credentials: as long as nothing was mislaid, the stored credential has not been refreshed
unless its successor is being stored under the lock, and whoever waits with an expired
one has read the stored one (`Fresh`); what a client or a login is about to store nobody
has refreshed (`NewIsGood`, `LoginIsGood`).

`TurnProofs` proves `TurnTypes`, `TurnTasksTell`, `TurnLogFollows`,
`TurnNoFalseInterruption` and `TurnInterruptedReported` for any set of turns and any
limits on retries. A turn leaves three records, written at different moments: its task,
its lines of the log, its checkpoint rows. `TurnInv` says where the turn is when they
differ: `Placed` (a turn in progress has the worker), `Stored` (an attempt that has not
stored the request may still do so, once), `Rows` (what the last row says of the turn it
names, unless a row of that turn was lost), `Asked` (a question nobody waits for belongs to
a turn with a lost row), and `Untouched` (a turn that has not begun is in none of them).

`DelegationProofs` proves, first, `DelegationTypes`, `DelegationTree`, `DelegationLimits`,
`DelegationNoOrphans` and `DelegationStopDrains`, for any finite set of tasks, any sessions
and every policy. `WithinLimits` speaks of tasks that execute, the code counts records;
`Kept` joins the two: what executes is recorded and not finished. `Calls` keeps what a
spawn decided before it waited for the lock true until it gets it, `Parents` that the
parent exists by then. `NoLiveOrphans` needs `Cascaded`: the parent of an executing task
is in its loop, or gathers it, or was told not to cascade. `StopDrains` needs `Drains`:
while a session is stopped, what executes in it is being drained. Almost
every step creates no task (`NoNew`) and can only remove tasks from these counts; the
proof treats those steps together, and the creation of a task (`Made`) apart.

`TiersProofs` proves `TiersBuffered` for any size of the queue, any number of entries
and whichever of them the database refuses: while one flush writes, its batch is what the
buffer begins with (`Written`), so that deleting by count deletes what was written
(`InOrder`). `Once` says that without a batch stored in part the transaction is empty
between flushes and the rows are the entries in order.

`SessionProofs` proves `SessionTypes`, `SessionFileAgrees`, `SessionNeverSkipped` and
`SessionNewKeepsAll` for any number of objects, background consolidations and messages,
any thresholds, and more locks than consolidations (`LocksAssumption`: the code makes a
new one whenever it has none, the model takes one from a set). `SessionManager` keeps one
count for a session, whichever object it saves. `Counted` says that the count is the length
of the file while an object is in use, even when objects diverged; `Agree` that until then
all objects in use hold the same messages, so that what a save appends is what the file
lacks (`SavesFacts`). The cursor and /new then need what is being archived: `Planned` (the
messages up to the cursor a consolidation will set are archived or in its batch) and
`Promised` (so are all messages of a log that /new is archiving, to which nothing is
added). `Locked` says that a lock is held by exactly who archives under it.

### Ends, results and the refinement of TaskPool

`DelegationUnseenKept`, `DelegationFinishedOnce` and `DelegationPool` relate the status of
a task to `finishOrder`, the order of `finished_at`. `DelegationOrder` proves `Ordered` for
that: the sequence names each finished task once and nothing else. `FinishedOnce` is then
a statement about the indices of a task in it. `UnseenKept` is about `_gc_results`, which
sorts by that order and takes the first few that were read. `Evicted` says it by counting
the older ones that may go as well, and `EvictedFacts` looks at the latest of those that
go (`Latest`): at least `KeepCompleted` are left when it does. No induction over the
sequence is needed. Three kinds of steps treat records alike (those that end a task, those that
create one, the others: `StepKinds`), and the refinement has one case for each: `Made` is
`Begin`, the end of a loop is `End` (with an outcome) or `EndWithout` (cancelled before
it), the late eviction of `Retire` is `ForgetSome`, all else is a stutter. `Begin` needs `Limits`
and `Kept` (the code counts records, `TaskPool` counts what executes), `End` needs the
eviction argument.

`DelegationGathersDescend` says that what an agent gathers after cancelling it lies
deeper in the tree than the agent. `kill` may name any task the agent can access, so it
needs that access (`Descendants`, a closure) goes downwards (`AccessDepth`). Hence agents
never wait for each other in a ring through kills and cascades. It says nothing of the lock
that `cancel_by_session` holds; that is finding 4.

### Why the exceptions and the refuted properties are what they are

Where the code does not keep a promise, a theorem says what the *only* cause is: with the
steps of that cause taken out of `Next`, the property holds in full, for every value of
the constants. The restriction is a condition on steps, not a claim about the code.

| Theorem | Steps excluded | Then |
|---|---|---|
| `QueuedServed` | a message put into the queue of a worker that is cancelled or whose idle timer fired; the timer firing on a worker that has a message (`NobodyMissed`) | `QueuedHasWorker` (finding 1). Inductive with `Served`: a worker that leaves has an empty queue |
| `DelegationStoppedTerminal` | a cancel that reaches a task before its loop (`NoEarlyCancel`) | `StoppedAreTerminal` (finding 2), from `Concluded`: what left its loop is terminal |
| `DelegationTimeoutRecorded` | a `wait` or `kill` that returns to a cancelled caller (`NoSwallow`) | `TimeoutRecorded` (finding 3), from `Pending`: the cancel of a fired timer stays undelivered |
| `TiersFlushAlone` | the flush at exit while the background flush is under way (`ExitAlone`); a failed flush that leaves rows in the transaction (`RolledBack`) | rows and buffer together are the entries, each once and in order, without the exceptions of `Buffered` |
| `SessionOneObject` | the eviction of an object that a turn or the exit uses (`EvictsUnused`) | never `forked`: the exception of `FileAgrees`, `NeverSkipped` and `NewKeepsAll` never applies, and the object in use is the cached one |

Each restriction excludes one race of a step that stays possible otherwise: messages, stops,
timeouts, evictions and flushes still happen under it. For finding 4 there is no such theorem, as `StopEnds` is liveness.

Only model-checked: the liveness properties (`HealthyDelivery`, `AllFinish`, `DueStarts`,
`LoopEnds`, `TurnEnds`, `PipelineEnds`, `ConsolidationEnds`), as TLAPS has no rules for
fairness and ENABLED here. Every safety property of the passing runs is proved.

## 7. Findings

Refuted by a run:

1. `stranded_message` (`QueuedHasWorker`): `dispatch` asks only whether the
   worker's task is done. A message dispatched after the idle timer fired, or
   after `cancel_group` cancelled the worker, and before that worker has left,
   waits in a queue without a worker until the session's next message.
2. `stopped_pending` (`StoppedAreTerminal`): a task cancelled before its first
   step (or while its worktree is made) stays PENDING (or RUNNING) for ever; its
   record counts against `max_concurrent` and its `_tasks` entry stays.
3. `timeout_swallowed` (`TimeoutRecorded`): the subagent timeout is a cancel;
   `wait` and `kill` swallow it, and the subagent runs on without a timeout and
   ends COMPLETED.
4. `stop_hangs` (`StopEnds`): `cancel_by_session` holds the session's lock while
   it gathers; a subagent whose cancel was swallowed and that then spawns waits
   for that lock, and the stop for it. The frozen set that should refuse the
   spawn is read under the lock only. Until another cancel ends it, `run` itself
   hangs, as it awaits the stop.

The others are behaviours of the models, met while writing them, that differ from
what the repository says; no run is spent on them. `PROJECT.json` quotes the
lines and names the action that has the behaviour.

| Where | What |
|---|---|
| delegation | `_gc_results` evicts consumed results only, its comments say orphans too; `spawn` promises nested callers a notification they never get |
| orchestrator | a cancelled turn stays in the "in-flight only" registry |
| turn | on a retry the request is stored a second time; a question whose checkpoint failed outlives its turn, takes the next message for its answer (no turn gets it) and may hide the running turn from the restart; a process that dies before it published a finished answer, or before the first row, leaves a turn that is not reported |
| cron | an edit cancels the jobs of the running tick, whose outcome is then not recorded, and starts them again; 'every' drifts; what `theos cron` or `theos agent` changes beside the gateway is not seen by it and overwritten at its next save; the file is rewritten in place and counts as empty when it cannot be parsed; an I/O error of the tick's save leaves the scheduler without a timer |
| session | a process that dies in an append leaves a file that loads as empty, which the next save overwrites |
| consolidation | the flag of a session is not counted: the first of two consolidations to finish clears it for both; archiving at exit puts the cursor back to 0 |
| memory tiers | two flushes at once write the same batch and remove entries by count; a batch that fails half-way is not rolled back, so that its first rows are stored with the next commit and again by each retry, and an entry without text blocks its session's flushes for good |
| tool loop | a cancelled turn leaves preflighted tools running |
| GenVer | no review can abort the pipeline; documents of an earlier run are passed on as approved |
| OAuth | the proactive refresh is undone by its own double check; the other writers of the credential store do not take the lock, and write back what a refresh replaced in between |

## 8. What is left out

Not modelled, because they are mostly sequential transformations of data or plain
I/O: prompt assembly, slash commands
that change no session, recall and ranking, the knowledge graph, Feishu and other
channel adapters (request and conversion code, the largest part of the
repository), the outbound consumer, safety scanning, UI telemetry, the learning
batch jobs, pollers and service files, configuration, and the CLI except where its
commands change a file that a running gateway uses (`theos cron`, `theos agent` and the
auth commands are the other processes of `CronService`, `TurnLifecycle` and `OAuthTokens`;
the sessions of a command line are its own). A model of these would
restate their data transformations line by line. This is why the lines that the
modules stand for are a small share of all lines, though a large one of the
stateful core.

Left out of the modelled parts:

- *GroupDispatcher*: slash commands that `run` answers itself (they change
  neither queue nor worker), the outbound queue, errors of `publish_outbound`.
- *Delegation*: checkpoint rows (written between suspension points, never read
  by the executor; a component of their own), the prompt and tool registry of a
  subagent, the text of announcements. An announcement re-enters the bus as an
  ordinary message of its session; `Publish` covers it on the other side.
- *CronService*: the heartbeat (a loop without state between its questions), wall
  clock arithmetic and parsing of cron expressions; I/O errors of a save while the
  process lives. One of them, in the save at the end of a tick, ends the timer task
  without a successor (see the findings): `TimerArmed` holds of saves that succeed.
- *ToolLoop*: what a tool does, the loop detector, sanitising of results.
- *TurnLifecycle*: Ctrl-C during a turn of the command line; `SubagentStore`, which
  has the structure of `TurnStore` and of which nothing reads more than the rows.
- *GenVerPipeline*: `GenVerLoop` without the pipeline (generate, submit, verify, ask,
  bounded by `max_retries`).
- *OAuthTokens*: the load and the save inside `_save_credential` are one step, and so is
  the write through the temporary file whose name all writers share; the background
  sweep, which nothing starts; a credential that
  expires again while somebody waits for the lock (it lasts an hour, the wait
  30 seconds).
- *MemoryTiers*: two sessions that flush at once over the one connection are seen from
  one of them (`OtherCommits`); a connection that is closed with rows uncommitted.
- *SessionLog*: errors of a write in a process that lives on; a second background
  consolidation at the same time; what MEMORY.md says.

## 9. Plan

Done: everything above. What would come next, in order:

1. An abstract specification of the session log (a log that is appended to, cleared and
   archived), implemented by `SessionLog` where no objects diverge.
2. `Delegation` composed with the bus: announcements of tasks after a /stop.
3. `GenVerLoop` and the background OAuth sweep.
