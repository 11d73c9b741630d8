# Verification of the dsh agent harness

This directory holds TLA+ models of the harness in `src/` (DeepSeek Harness,
"dsh"), the TLC configurations that check them on small instances, and theorems
about them checked by TLAPS. Every definition follows the TypeScript source; the
`map` in `PROJECT.json` names the lines each one stands for.

## The system

The harness is a set of Cordis plugins. A *session* is an append-only event
log; an *agent* drives one session through turns and steps; a step asks a model
for output and runs the tools it calls; everything a client sees is derived from
the log, and a persistence plugin makes the log durable. All of it runs on one
JavaScript thread: code is interleaved at `await`s, and synchronous event
emissions call back into the same objects in the middle of an operation.

### Inventory

| Component (under `src/packages/`) | State | Operations | Hard behaviour | What makes it correct | Module |
|---|---|---|---|---|---|
| Inbox and agent driver (`core/agent`, `core/agent-loop/src/agent.ts`) | two lists; phase, abort signal, latched wake, `activityDone` | send, followup, steer, inject, cancel, runMaintenance, whenIdle; turns and steps | wakes racing the end of a driver, reentrant cancel and send, abort at every await | a message is at one place, no wake lost, an idle log open only where the session refused its closing, whenIdle means idle | `AgentDriver` |
| Tool-call scheduler (`core/agent-loop/src/tool-calls.ts`) | slots, in-flight pool, commit cursor | executeToolCalls, runGroup | overlapping dispatches, abort, reclassification, a failure while others run | results in model order, one per call, exclusive calls alone, nothing left running | `ToolScheduler`, `ToolBatch` |
| Tool runtime and approval (`core/tools`, `interaction/user-approval`, `sandbox/.../escalation.ts`, `guard/timeout-policy`) | stages of an execution; prompts; the policy in the log | gate, question, checkpoint, body, escalation, deadline, post policy | answers racing withdrawals, deadlines and aborts | one decision per question, grants are decided, an honest code for a cancelled call | `ToolExecution` |
| Write-behind (`session/session-persistence/src/write-behind.ts`) | queue, timer, active write, barrier, pause | enqueue, flush, deadline, write settle, teardown | a write failing while events arrive and flushes join | nothing lost or reordered, a flush that returns is durable, nothing waits for ever | `WriteBehind`, `DurableLog` |
| Persistence coordinator (`.../coordinator.ts`, `preparations.ts`) | per-id state and cursor, chains, live sessions, cold preparations | create, append, prepare, load, inspect, publish, retire, dispose | id collisions, takeovers, shared reads, repair, reloads | one owner that continues the log, answers are fresh | `SessionOwnership`, `ColdPreparation` |
| Sessions (`core/session/src/index.ts`) | log, announcement state, attachment | append, announce, dispatch, detach | nested dispatches, veto, detach in a dispatch | everybody hears everything in order, disposal last | `SessionStore` |
| Repair and work accounting (`core/session/src/repair.ts`, `core/agent/src/consumed-work.ts`), checkpoint policy | folds of the log; none | closers; account; three flushes | a crash between any two steps | no tool that ran is called retryable, no input unaccounted for | `SessionRepair`, `CrashRecovery` |
| Jobs (`jobs/jobs-local`, `jobs/tool-jobs`) | records, waiting calls, owners | start, read, kill, wait, settle, both disposals | kill and deadline racing the exit, callbacks in disposals | each end heard once, nothing left behind | `JobRegistry` |
| LLM retry (`llm/llm-retry`) | log of retries, active set | recover, its wait, disposal | policies that alternate, abort and disposal in a wait | bounded, logged before started, silent when late | `LlmRetry` |
| Goals (`goal/goal`, `goal/goal-round-driver`) | goal fold, round attempt | set, pause, resume, cancel, drive | round coalescing, outer listeners | the next round of the goal, none after a cancel | `GoalRounds` |
| Schedule (`schedule/schedule`) | records in the log, timer, queue | create, delete, drive, dispose | crash, clock set back, failing flush | a reminder per occurrence, decisions from what is stored | `Schedule` |
| Agent lifecycle (`core/agent-loop/src/index.ts`, `core/agent/src/index.ts`) | registries, fused signals, fibers | create, resume, configured start, dispose, unload | four disposers at once, setup in progress | one driver per session, nothing left | `AgentLifecycle` |
| Compaction and surface (`compaction/*`, `core/session/src/surface.ts`) | surface, balance cache, transactions in the log | select, compact, recover, prune, command | the surface changing under a summary, crash in a transaction | pairs stay together, a checkpoint stands for what was summarised | `Compaction` |
| Persistence backends (`session-persistence-jsonl`, `-sqlite`) | file or table | appendBatch, commitRepair | torn writes | atomic or detectably torn | not modelled |
| Subagents (`subagent/*`) | continuation records | spawn, continue, cancel | restart, parent cancellation | each child reported once | not modelled |
| Questions, commands, scope, system prompt, policies, execution environments, gateways, SDK, client, settings, vendored code | - | - | mostly I/O, text and views | - | not modelled |

### How the components meet

A client calls `send`, `followup`, `steer` or `inject` on the agent; the inbox
writes an `agent/inbox/spliced` event and the phase machine reserves a driver.
The driver claims messages, logs `turn/start`, `step/start`, `user/message`, and
hands the step's tool calls to the scheduler, which logs `tool/call` and
`tool/result` and dispatches each call through the tool runtime (policy and
approval, wrappers, checkpoint, body). Each append is announced synchronously as
`session/event`; the persistence coordinator copies it into the session's
write-behind controller, which writes batches through a per-session chain.
`session/flush`, called by the checkpoint policy before a model call, a tool
dispatch or a step, waits for all of it to be durable. A failed request goes
through LLM retry and, on overflow, compaction. Goals and schedules put
follow-ups into the inbox of an idle agent; jobs report to their owner. Disposal
cancels the agent, waits for `whenIdle`, and flushes.

## How the modules are built

One module per component: its state, `Init`, an action per operation, handler or
continuation, and its properties. `MC*` modules give the constants of the
component modules values for TLC. A run is one question about a part of the
system, and several components that never share state in the code share a run:
such an MC module is a *sum*, in which a variable chosen in the initial state
(`half`, `protocol`, `instance`, `part`, `service`, `registry`) says which
component the behaviour is about while the variables of the others stay in one
initial state. A property of a sum only names the properties of its parts, which
are stated and explained in their own modules. Where one component is too large
to be checked at once, its MC module chooses a `slice` in the same way: the
behaviours of a slice are behaviours of the component's own specification.

Data is abstracted to what the properties tell apart: a message is its identity,
an event its position, a tool call its place, a price 1 or 2. Definitions whose
comment begins "A bug" or "Wrong" are mutations: each run's properties are shown
to be able to fail by putting one of them in the place of the definition that
follows it.

## The runs

| Run | Shows | Bounds |
|---|---|---|
| `agent` (`MCAgent`) | no wake is stranded, a message has one place, an idle log is balanced but for what the session refused, a latch needs a cancel, turns nest; whenIdle is sound and returns, what is owed is served; rounds and reminders: folds accept the log, a cancel stops, decisions follow a flush, what is due comes | 2 messages, both cancel causes, 2 steps a turn, 2 nested operations; 2 rounds, 2 changes, 1 cancel, an awaiting outer listener; 2 schedule records, 1 failure, 2 lives |
| `tool_calls` (`MCToolCalls`) | exclusive calls run alone, the pool is bounded, nothing starts after an abort, the batch implements `ToolBatch`; approval, effects and outcomes; everything ends | 4 calls and a pool of 2; two calls at once, one call that asks twice and sees one switch of the policy, one call that is retried |
| `persistence` (`MCPersistence`) | nothing is lost, the queue is always somebody's, `DurableLog` is implemented, flushes return; an owner continues the stored log | 3 events, 1 flusher and the teardown; 2 Sessions of one id with 2 events, 1 reload, 1 failure |
| `reload` (`MCReload`) | a preparation has one holder who can publish it, answers are fresh; what repair says after crashes is true, all input is accounted for | 1 preparer, 3 writes, 1 foreign write; 1 loader and 1 inspector; 2 tool calls and 2 crashes; 2 messages and 1 crash |
| `services` (`MCServices`) | ends of owned jobs are heard once, retries are bounded and logged in time, a disposal waits for ever only for a producer that never settles | 2 jobs, 1 owner, 1 waiting call, a limit of 1; 3 requests, 4 policies, 1 reload |
| `lifecycles` (`MCLifecycles`) | observers hear everything in order, one driver per session, nothing is left | 2 sessions, 2 observers, 3 events, 4 nested dispatches; 2 attempts, 1 id, 1 reload |
| `compaction` (`MCCompaction`) | cuts are best and keep pairs, locks are owned, the surface is the one a reload folds, checkpoints replace what they recorded | 1 turn with 2 answers, an overflow and one failure or other client; 2 turns with a failure and a crash; 1 turn with callers beside the driver, two of failures and other clients |
| `agent_driver_drains`, `agent_driver_disposal`, `write_behind_retry`, `cold_preparation_repair` | four statements of comments and READMEs that the code does not keep (below) | the smallest instance that shows it |

Every bound is a guard of the action it limits and is named in its module. They
are chosen so that the cases the hazards name occur: two messages put one in the
driver's batch while another arrives; two nested operations put a cancel inside
a send inside the driver's own emission; four calls and a pool of two hold a
full pool with a call waiting for it and an exclusive one behind it; three
events give one stored, one in a failing write and one queued; two Sessions
follow one another on an id with one still retiring; a second crash cuts the
repair of the first. `PROJECT.json` names a mutation for each property that the
run finds at these bounds.

Deadlock is checked where the system has no end: the driver's half of `agent`,
whose other parts may stutter. Elsewhere a behaviour may really stop: the batch is over, the backend closed, the turns of
the bound are used up.

*Fairness* is weak everywhere and is given to what the code itself schedules:
settled promises resume, synchronous frames finish, timers fire, the backend and
the awaited model, tools and listeners settle (with or without success).
Nothing is assumed of clients, of persons, or of a body whose signal did not
fire. In particular a question may stay open for ever: `CallsEnd` holds because
an abort withdraws it. Nothing is assumed of a job's producer either: it may never
settle, before or after its `cancel()` returned, and `DisposalEnds` says that a
disposal waits for ever for nothing else. A configured setup or a load of an agent
may never settle.

### Configurations run by hand

These are not part of the list of runs; they answer further questions with the
same modules: `ColdPreparationEnds` (calls end), `SessionOwnershipEnds`
(a failed session stays silent, retirements end), `CompactionEnds` (turns and
commands end), `AgentLifecycleEnds` (attempts settle, unloads end). The others
end in a counterexample, each against a sentence of the repository:
`AgentLifecycleUnload` and `AgentLifecycleScope` (the provider's unload does not
await an agent another owner is tearing down, and a scope may be disposed before
its driver drained), `GoalRoundsOuter` and `GoalRoundsDriver` (an outer
`agent/pre-step` listener that awaits lets a goal change under the round
that is admitted; a second loop of a driver may wait beside the first),
`ToolExecutionRetry` and `ToolExecutionRetryStored` (a `tools/execute` wrapper
that calls `next()` again reaches the body without checkpoint and deadline, and
an abort then reports an executed body as never dispatched).

## The modules

### AgentDriver: the inbox and the phase machine

`AgentDriver.tla` models one agent. `phase`, `abort`, `latch`, `phaseTurn` and
`stepNo` are the fields of the `Phase` union (`abort` is the reason of its abort
signal); `nextTurn` and `nextStep` are the inbox lists; `activity` says whether
the promise in `activityDone` is settled and `waiter` follows one caller of
`whenIdle`. `logTurn`, `openTurn`, `openStep` and `lastEnd` are what the session
log says of turns and steps. A listener may throw while an event is published, and
the log then does not hold it: `lost` is the set of closing events that the
session refuses on a way out of a turn (the `finally` around a step, and the one
around the turn with its `catch`), `refused` remembers them, and `BeginTurn` lets
`turn/start` be refused. The driver goes idle all the same, with a step or a turn
left open in the log, as the repository's own tests of these edges have it; so
`IdleIsBalanced` claims balance of everything but the refused events, and that a
turn whose step stayed open is never logged as a success. Two devices carry the
interleavings.

* `pc` is the `await` at which the driver is suspended: assembling the prompt,
  the pre-step plugins, the step itself, the turn-stopping listeners, the
  microtask after a turn (`gapLoop`, `gapExit`), and the emission of
  `agent/error`.
* `stack` holds the rest of every operation that is in the middle of a
  synchronous emission. `send` emits `agent/inbox/inserted` and only then wakes
  the driver; `cancel` empties next-step, emits, empties next-turn, emits, and
  only then aborts; reserving a driver emits `agent/status` before `kick`, and
  `kick` emits it again before it replays a latched wake. While a frame is on
  the stack any client operation may run (a listener's), up to `MaxDepth` of
  them nested, and no `await` resumes.

`owed`, `refused` and `disposing` are history variables: the pending messages that a wake
has promised to run, the closing events that were refused, and whether a disposed
cancel hit the activity that is unwinding. A message is in `owed` from a wake that starts a driver, reaches a
driver that still looks at the inbox, or is latched, until it is claimed,
discarded, or released by a cancel, by a turn that fails or leaves early, or by a
refused start or end of a turn. `NoStrandedWake` and `OwedIsServed` therefore say
nothing of a message that a listener sends while `cancel` clears the lists (the
abort releases it), nor of what a turn leaves behind that returns early: the latter
is what `LiveDriverDrains` looks at.
What a step does inside (building the request, streaming, retrying, tools) is
abstracted to how it ends: tools ran, completed, max-tokens, an error, an abort.
Each message is submitted once, which bounds the turns without limiting the
counters. `MCDrains` adds a memory of the messages that were sent with a wake into
a live, open turn, for the run `agent_driver_drains`.

### ToolScheduler and ToolBatch: one step's tool calls

`ToolScheduler.tla` models `executeToolCalls` and `runGroup`. The scheduler is
one async function, so its state is where it is suspended (`pc`) and its locals:
`group` and `first` are the current group, `started` and `committed` its two
cursors counted over the whole step, `inFlight` the promises the race waits for,
`failure` is `schedulerFailure`. `status` folds the slots into one status for
each call. `Abort`, `Reclassify` and `Tool` are what other code does while the
scheduler is suspended: the signal, the tool registry, and the tools. The local
`aborted` is not a variable of its own: the code refreshes it after every await
and before every start, and `Stops` is that reading. `FillPool` is the loop head
of `fillPool` with the code it falls through to; `NextGroup` is the loop of
`executeToolCalls`; `SkipRest` is both places that record error results after an
abort, which are always run one after the other.

`ToolBatch.tla` says what the step's log is promised, without groups, modes or a
pool: calls and results in model order, a result for every call of a batch that
returns, none invented by one that is rejected, and no tool left running. The
refinement maps its `running` to the calls whose dispatch has not settled and
its `outcome` to how the async function ended.

### ToolExecution: what one call goes through

`ToolExecution.tla` has, for each call of a step, its `stage` (gate, question,
flush of the checkpoint, body, escalation, post policy), its `attempt`, how
often its body `ran`, and its `result`; `prompts` are the questions shown to
somebody, and `log` the session's `asked`, `decided` and policy entries. The
policy in force is the last one in the log. Wrappers are composed as the code's
priorities compose them: retry outside timeout outside checkpoint outside the
body, and preparations are serialized by the runtime. A person may answer a
prompt at any time, also after it was withdrawn, and never has to. A retry that
calls `next()` again gets neither a new deadline nor a new checkpoint, which is
why `EffectsAreHonest` is claimed where no retry wrapper is composed and the
two hand-run configurations refute it where one is. Left out: the registry and
its schemas, nested calls, deferred contexts, content finalizers.

### WriteBehind and DurableLog: one live session's path to the backend

`WriteBehind.tla` models `SessionWriteBehind` and the part of the coordinator
that feeds it. `pending`, `timer`, `expired`, `paused`, `active` and `barrier`
are the controller's fields; `active` also says how far the write has come,
because the code needs three jobs for it (the deferred start, the backend's
answer, and the `finally` that clears the field) and events arrive in between.
`init` is `live.init`, `seed` the length of the snapshot it persists, and
`caller` the callers of `flush`, of whom one is the backend's own teardown.
An event is its number in the log. `SessionFlush`, `FlushJoins`, `FlushOpens`
and `FlushRefused` are the coordinator's `flush` around the await of `init`;
`WriteLands` is `appendLiveBatch` with `appendCore`; `BeginTeardown` and `Close`
are the plugin's disposer. The deadline is a timer, so it fires only when no
settled promise has still to resume (`Settled`).

`DurableLog.tla` is the contract: accepted events become durable in order and
are never rewritten; a flush that succeeds vouches for every event accepted
before the call; a closed backend is not written.

### SessionOwnership: who owns a session id

`SessionOwnership.tla` follows the Sessions that bear one id after one another:
`events` is what each said, `state` the coordinator's `SessionState` (owner,
cursor, materialized), `chain` the id's queue of jobs, `init` and `retire` how
far each Session's initialisation and retirement are. A new Session may be
created, restored from the stored log, found alive by a reloaded plugin, or take
over from an owner that stored nothing. A restored Session is bound in the call;
what it has beyond the stored log (its end-seed mark) is appended by a job on the
chain, which may fail (`Restore`). Each Session's write-behind is the queue
that WriteBehind checks in detail. A restoration may add the closers of an
interrupted turn (`Repair`), or not. A retirement whose flush fails does not
release the id, in the model as in the code.

### ColdPreparation: reading and repairing a stored id

`ColdPreparation.tla` models `preparations.ts` and `prepare`, `load`, `inspect`,
`append`, `commitPrepared`, publication and retirement of one stored id. `pool`
is the id's entry (reserved, with its waiters, or ready), `revision` what a
reader remembers of the stored log, and a foreign writer changes the log behind
the coordinator's back. A reservation that is published or dropped wakes its
waiters in the promise job that the code uses, which comes before another turn
of the event loop (`Between`, `Draining`). Other ids enter through `Evict`, the
pool's least-recently-used limit. It is assumed that nobody appends through the
service to an id that is live. `readFrom` is left out.

### SessionStore: one append and those who hear it

`SessionStore.tla` models the store's `append`: an event is logged, then
announced to each observer synchronously, and an observer may append again, so
`stack` holds the dispatches that are not finished. `session/created` is vetoed
or announced, `detach` may come in the middle of a dispatch, and disposal is the
last thing an observer hears. Listeners are fixed for a behaviour; forks,
`flush` and JSON validation are left out.

### SessionRepair and CrashRecovery: what a restart says

`SessionRepair.tla` is the two folds of a log: `closers`, the events that end an
interrupted turn, and `account`, what became of every claimed input. They are
functions, checked against definitions by positions on every log the runs reach.
`CrashRecovery.tla` lets a driver write turns, steps and tool calls with the
flushes of the checkpoint policy between them; a crash keeps any prefix of the
log that holds what was durable, and the next life repairs it before it goes on.
A flush is an await until `durable` reaches its mark, which is what WriteBehind
is shown to give. A scheduler failure (`SchedulerFails`) ends the turn in error and
leaves what was recorded and not committed without a result; `dropped` remembers
those calls, and `Balanced` excepts them once the log holds the end of their step.
No append is refused here: AgentDriver has that. Replaced messages and streamed
chunks are left out.

### JobRegistry: background jobs and those who wait

`JobRegistry.tla` models `jobs-local` and the waiting of `tool-jobs`. `status`
and `done` are a record and its producer's promise, `wait` the calls of `wait()`
with their deadline and signal, `announcing` a settlement in the middle of its
observers: the record is terminal, the waits are released, and a listener may
call the registry again before the notice is decided (`Commit`, `Announce`). The
end of a job without an owner is told to nobody: the reporter returns, and the
properties speak of owned jobs.
The two teardowns walk their jobs in a loop that calls producers, who may settle
in it. `start()` is one step. A producer whose `cancel()` returned may never settle,
and the disposal that waits for it then never ends, as the comment of
`cancelForTeardown` concedes; `DisposalEnds` says that a disposal waits for nothing
else, so not for a job whose `cancel()` threw. Authorization, scope layers, output text and the wake budget are left out.

### LlmRetry: recovering a failed request

`LlmRetry.tla` follows one step: `requests` sent, `at` where the recovery is
(waterfall, plugin, delay, downstream listeners), `log` its `llm/retry` entries
and `active` the callbacks of the plugin. A policy is what the waterfall returns
at a failure: another one each time, perhaps; a key spells out its policy, as
the code's key does. A listener registered outside the plugin may turn its answer into
a retry or into none (`Return`). The turn may be cancelled and the plugin disposed and
installed again in any wait, so each entry remembers the installation that logged
it. Delays, jitter and the provider lookup are left out.

### GoalRounds: rounds towards a goal

`GoalRounds.tla` joins `goal` (the fold that accepts or refuses events) and the
round driver's loop: it coalesces starts, checks its fence after each await, and
puts the next round into the inbox of an idle agent. `frames` is the synchronous
call stack of the changes that a listener may make. An outer listener of
`agent/pre-step` may await. The end of a turn is one step and what follows in a
later microtask another: the next turn with a fresh signal (`NextTurn`) or the idle
status (`GoIdle`). A cancel between the two aborts no open turn, so nothing pauses
or disarms the goal then; `CancelStops` speaks of cancels of an open turn.
Behaviours stop once the fold refuses an event.
Unloading, the reset at session start, edits of the round limit and steering
inside a round's batch are left out.

### Schedule: reminders

`Schedule.tla` models the runtime's drive (read the fold, flush, put a follow-up
into the inbox, log that it fired), its timer and idle wait, and the tools that
create and delete records through one queue. The fold refuses what the code's does:
a reused id, and a deletion or a dispatch of an id that is not active. The timer is only a hint: every
drive reads the clock and the log. A crash keeps any prefix that holds what was
durable, and the clock may be set back. A rejected flush starts no retry timer,
in the model as in the code. A crash between the follow-up and its record may
repeat a reminder: the model says so by what it promises. Parsing is left out.

### AgentLifecycle: creation and teardown

`AgentLifecycle.tla` models the factory's `create`, `resume` and configured
starts as attempts over fibers: each has a fused signal, a place in its own
sequence of awaits, and an id in the registry of live agents. Unloading a fiber
starts all its disposers at once. A teardown cancels, waits for idle, detaches
and releases. Initiator boundaries, agents registered without the factory and an
unload while the scope is minted are left out.

### Compaction: shortening the surface

`Compaction.tla` has the surface (what a model request is built from), the
cache of balanced cuts, and the transactions in the log: `select` chooses the
cut, a summary is awaited while other clients may change the surface, and the
transaction commits only where its range is still there. Sizes are prices 1 and
2 and the window a threshold on their sum; a summary of price 0 is one the
summarizer refused. Pressure before a step, overflow recovery within it, the
command and the pruner are modelled. The overflow retries of an agent are forgotten
when it goes idle, not between two turns of one activity. The start of a
transaction may be refused, and a pass of the pruner that throws leaves the results
it has already replaced (`BrokenPrunes`). A crash leaves a transaction open in the
log; nothing closes it, it only becomes stale behind the seed mark of the next life,
where the lock no longer looks. `KeepsTurnsApart` is the part of `invariant.ts:94`
that the driver keeps by awaiting its own transactions; a caller of
`compactRegion` for whom the turn does not wait may still be at work when it ends,
which only that companion plugin refuses. The driver's own turn events are never
refused here. The surface `nodes` is advanced beside every append and folded
from the log by a reload; `SurfaceIsFold` says that the two agree. What clients beside the driver do is bounded by `MaxOthers`.

## What the violated runs show

* `LiveDriverDrains` (`agent_driver_drains`). `wakeDriver` leaves a message to a
  live driver because "live drivers claim queued work themselves". A turn whose
  first batch is emptied by a pre-step plugin returns `false`
  before the check of `hasPending`. In the trace a message is sent with a wake after
  the turn has claimed its batch, the wake is left to that live driver, and the turn
  completes with the message still queued: it stays there, the agent idle, until
  something else wakes it.
* `DisposalNeverLatches` (`agent_driver_disposal`). A controller keeps its first
  abort reason. After a user's `cancel(..., { keepInbox: true })`, a disposed
  cancel leaves the reason `user`, and a waking send then latches: the driver
  replays it during disposal and teardown waits for a model turn.
* `TeardownRetries` (`write_behind_retry`). The README of `session-persistence`
  (line 36) says that after a background failure an explicit flush or the
  teardown retries at once. When initialisation is what failed, `live.init`
  stays rejected: every flush and the teardown report the old failure and the
  backend is not asked.
* `AppendContinuesLog` (`cold_preparation_repair`). `commitPrepared` stores the
  closers of an interrupted turn without moving the cursor of an id that is
  already tracked. Until the reload commits, an append from the old cursor is
  accepted although its sequence numbers are taken, and one from the real end is
  refused.

Two more behaviours are visible in AgentDriver and are not claims of the code: a
wake that arrives in the microtasks between the last check of the inbox and the
end of `kick` is parked, and a cancel made by a listener of `turn/end` with work
pending aborts a controller that is about to be replaced.

## What is proved

TLAPS checks these for every value of the constants; the runs show the same
formulas on small instances. The bounds of a model (`MaxEvents`, `MaxRequests`,
`MaxReloads` ...) are constants too: a theorem holds for each of their values.

**AgentDriver** (`AgentDriverProofs`), from
`CausesAssumption` (a disposed cause exists) and `BoundsAssumption`:
`TypeCorrect`; `MessagesKeepOnePlace` (`OnePlace`); `NoWakeIsStranded`
(`NoStrandedWake`); `IdleLogBalanced`; `LatchFollowsCancel`;
`TurnsNeverInterleave` (`TurnsNest`); `WhenIdleIsTrue` (`WhenIdleSound`).
`NoStrandedWake` speaks of an idle agent with an empty stack and is not
inductive: between the end of a driver and the replay of its latch the promise is
kept only by a suspended frame. The invariant therefore says who serves the owed
messages in every state (`SomebodyServes`): a replay frame while idle, a latch or
a replay frame during maintenance, a latch or a live driver while running. Two
facts about the frames make that inductive. `DriverOwnsPhase`: a driver, or the
single `kick` frame that is still to become one, exists only while the phase is
running, so no second driver can end the phase. `LateWakesFindAbort`: a wake
classified as late still finds the activity aborted, so it is latched rather
than left to a driver that will not look. `LogFollowsDriver` ties the log to the
driver's place, with every event that it lacks in `refused`; the balance of an idle
log up to those events and the nesting of turns follow.

**ToolScheduler** (`ToolSchedulerProofs`), from `NumCallsAssumption` and
`MaxParallelAssumption` (both positive): `TypeCorrect`, `ExclusiveRunsAlone`,
`PoolStaysBounded`, `AbortStopsStarts`, and `Refinement`
(`Spec => ImplementsToolBatch`). The invariant relates each call's status to the
two cursors (`StatusFollows`): answered below `committed`, underway up to
`started`, untouched above. `Progress` says that when the loop forms a new group
everything started is committed, because with nothing in flight, no ready slot
and no failure the commit loop cannot have stopped early. `GroupHolds` says that
what was started in a parallel group is parallel and that an exclusive group has
one call. `LogCounts` carries the cursors into the log for the refinement.

**ToolExecution** (`ToolExecutionProofs`), for any set of calls and any number
of questions and switches of the policy, with at least one attempt:
`TypeCorrect`, `ApprovalStaysSound`, `OutcomesAreKept`, and, with one attempt,
`EffectsStayHonest`. That a question has one decision is a fact about positions
of a log that several calls extend at once. The invariant says which of them are
open (`QuestionsAreOpen`: the question a call waits for is its last, and was not
put under `never`), that each decision answers an earlier question of its own
call (`EveryDecisionIsAsked`), that a call has as many decisions as questions
but the open one (`AuditPaired`) and that a grant enters the policy directly
before the decision that gives it (`GrantIsDecided`). `AttemptsAreCounted` ties
how often a body was invoked to the call's stage, which is what an honest code
needs.

**WriteBehind** (`WriteBehindProofs`), from `CallersAssumption` and
`MaxEventsAssumption`: `TypeCorrect`, `NothingIsLost` (`NothingLost`),
`QueueKeepsMoving` (`QueueIsMoving`) and `Refinement`
(`Spec => ImplementsDurableLog`). Neither invariant is inductive by itself: an
event is lost or kept by what a write leaves behind two jobs later. `Ordered`
says that batch and queue are the end of the log, `Covered` that what is before
them is stored or will be by initialisation, `WriteFollows` and `ExpiryFollows`
what is left in each state of a write, and `TeardownIsLast` and
`ClosedIsAnswered` that nobody is answered or asks after the close. For the
refinement each action maps to one of `DurableLog` or to a stutter; a caller
that awaits `init` or a barrier maps to a waiting one.

**SessionOwnership** (second half of `WriteBehindProofs`, about the instance `Own`
of the sum MCPersistence), for `OwnersAreMeant` (`NoOne` is not a Session and the
bounds are numbers): `OwnershipIsTyped`, `OwnersKeepTheirLog`
(`OwnerContinuesLog`), `WritersOwn`, `ReleasedAreStored` and
`FailedStoresNothing` (`FailedIsSilent`). What a queued job finds when it runs
depends on every job before it, so the invariant speaks of the chain as a whole:
`Succession` (an initialisation that has not run is behind everything of the
Session before it, and that one is being retired), `JobsAreMeant` (each queued
write, release and initialisation belongs to a Session in the state that queued
it), `WorkIsKept` (what is stored, what is queued and what is still to be queued
of the owner make up its log), `OwnerIsBound`, `StateIsStored`, `OneAtATime`.

**JobRegistry** (`JobRegistryProofs`), from the module's three assumptions:
`TypeCorrect` (with the limit of jobs in progress), `CompletionsStaySound`
(`CompletionsAreSound`) and `SettlementsAreKept`. `CallsAreCounted` says that a
call of `wait()` holds back the notice exactly while its promise has not
answered, and `SilenceIsCovered` that a settlement in the middle of its
observers keeps silent only for somebody who told the end or will;
`DisposalsAreWhole` says what a teardown has still to visit.

**LlmRetry** (second half of `JobRegistryProofs`, about the instance `Retries` of
the sum `MCServices`, which leaves the policies and bounds open), from
`PoliciesAssumption` (keys spell out their policies) and `BoundsAssumption`:
`RetriesTypeCorrect`, `RetriesStaySound` (`RetriesAreSound`) and
`NothingIsLoggedLate` (`LogsInTime`). The number of a retry
is read from the log that other policies extend too. `WaitsForLast` says that
the retry that waits is the last entry, `Numbered` that retries of a key are
numbered upwards to the limit, and `LogIsShort` that each request logs at most
two entries, which is why the numbers stay within the type.

**ColdPreparation** (`ColdPreparationProofs`), from `CallersAssumption` (callers
are finitely many and of one kind each): `PreparationInvariant`,
`PreparationsAreSound` (`PreparationIsSound`: `OneHolder`, `HeldIsPublishable`,
`CursorIsEnd`, `EntryIsAttended`) and `AnswersStayFresh` (`AnswersAreFresh`).
`EntryIsAttended`, "whoever waits has somebody who will settle it", is not
inductive: whether a wait is attended depends on which queued operation belongs
to which entry and caller. `CallFits` and `JobFits` say what each caller and
each queued operation knows of its entry, and `Pairs` that no two of them belong
to the same wait. `PoolFits` ties the phase of the pooled entry to its one
holder, and `InOrder` puts the commits of an entry that was replaced before the
read of its successor: that is why such a commit never finds itself pooled
again. `Copied` says that whatever was read of the backend is no newer than the
backend, and equal to it at equal revisions; with it a compared revision makes a
shared source `Fresher` than the call that reuses it. `Alone` states the stronger
facts that hold until another process writes, on which the borrowed view of
`inspect` rests.

**SessionStore** (`LifecycleProofs`), from `Bounds` (at least one observer,
the bounds are numbers): `TypeCorrect`, `EverybodyHears` (`HeardInOrder`,
`DisposalIsLast`, `EveryoneHeard`, `DetachIsHonoured`). What an observer hears
next is decided by a stack of dispatches that other observers suspend. The
invariant says of the stack (`Nested`) that a session has at most one dispatch
of a kind on it and that all but the innermost are in the middle of an observer;
of an entry (`EntryFollows`) that a detachment that waits has a dispatch to wait
for, and that a session in such a dispatch is attached; and of an observer that
it has heard all events of a session but the one that a dispatch on the stack
owes it (`EventsAreCounted`, with `DispatchSays`: that one is the last
published) and is owed creation and disposal until it heard them and never again
(`OnceIsOwed`). With an empty stack nothing is owed, which gives the two
properties of the unwound store.

**AgentLifecycle** (`LifecycleProofs`), for `NamesAreApart` (attempts are not
`None` nor the loop's fiber, `MaxReloads` is a number): `AgentsInductive`,
`DriversStayAlone` (`OneDriver`) and `NothingStaysLeft` (`NothingIsLeft`). An
attempt may be cancelled, its handle disposed, and its owner or the provider
unloaded between any two of its awaits, and in the middle of its announcement.
`Fits` says of each attempt what its place in that sequence tells: whether a
scope was minted, whether its effect is still registered with its owner, what
it borrowed, and that a disposal that began has aborted it. `StackPublishes`
says that only attempts that are published and undisposed are being announced,
each in one dispatch; `LiveStands` and `HeardStands` that the registries, and the
creations announced without a disposal, belong to attempts that stand;
`LoopWaits` that a provider is gone only when all of its attempts are over.
Most steps concern one attempt: `AloneStep` shows once that such a step keeps
the other attempts' part.

**Compaction** (`CompactionProofs`), from `BoundsAssumption` (the budgets and
bounds are numbers): `CompactionInvariant`, `CompactionsStaySound`
(`CompactionsAreSound`: `LockIsOwned`, `ReportedIsStored`, `OneBracket`,
`SurfaceIsFold`) and `ReplacementsStaySound` (`ReplacementsAreSound`:
`ReplacesRecorded` and `KeepsTurnsApart`). The invariant is these four with the
types and `RetryIsLeft`: an overflow that is being recovered has not used up its
retries. `SurfaceIsFold` compares two ways to compute the surface, and the fold
is recursive; the proof does not use induction over the log. A value of the fold
is the end of a trace with one surface per event, of two traces over logs with a
common beginning the least place of difference is a contradiction, and from that
the fold over an appended log is the fold over the rest from the surface so far
(`AdvanceThrough`). `AddsFacts` and its companions say once what survives when a
log grows by events of given types: the lock, the brackets, what was reported.
Most steps add nothing that opens, closes or replaces, and follow from it
(`QuietHolds`). The three that do have a proof each: a transaction begins only
where nothing is locked and records the span it found; settling either replaces
that span, still whole on the surface, or closes the bracket without a
checkpoint; a crash ends the log with the seed mark, behind which nothing is
locked.

**GoalRounds** (second part of `AgentDriverProofs`, about the instance `Goals` of
the sum MCAgent), for `RoundsAreMeant` (the bounds are numbers):
`RoundsInductive` and `RoundsStop` (`CancelStops`). That no round is queued
without authority says nothing of the moment in between: a cancellation aborts a
turn that stays open, and the goal stays armed until that turn has ended or, when
it ran a round, until the agent is idle. The invariant says so
(`CancelledIsAborted`: what is armed without authority has an open, aborted turn, or
a cancelled round whose driver is on its way to idle) beside the types and
`ArmedIsActive`. An aborted turn can only end; its end disarms the goal or marks the
round it ran as cancelled, whose goal the idle status then pauses; and no pass of a
loop reserves a round before the agent is idle.

**Schedule** (third part of `AgentDriverProofs`, about the instance `Reminders`),
for `RemindersAreMeant` (rules are made of instants and intervals, the bounds are
numbers): `SchedulesInductive`, `SchedulesAreSound` (`FoldsClean`,
`RemindedFirst`, `RemindedOnce`, `ConfirmedIsStored` and the types) and
`SchedulesDecideFromStored`. The log is folded by a recursive function; as for
Compaction, the fold of an appended log is had from its trace without induction
over the log (`FoldAppend`). `LogIsKept` states what the fold must have been in
every prefix: accepted, its ids numbered without a gap, one record to an id, every
dispatch of an active one, and whatever it retires reminded of before it; so a crash, which leaves a
prefix, keeps it. `OncePerLife` counts the reminders of an occurrence, and
`NotYet` says that no occurrence that may still come was reminded of in this
life, unless the runtime has faulted after a partial append, when no drive is
left that could repeat it. A batch is the one place where several entries are
appended at once: `AdmissionAppends` and `AdmissionReminds` follow it entry by
entry, and hold for each beginning of it, which is what a failed append leaves.
`QueueIsOrdered` says that what the head of the queue flushes is still the end
of the log when it decides, since nobody else appends; with it a decision follows
a stored prefix.

**The sums.** What a run checks of a sum follows from the theorems about its
parts through a named instance of their proof module, for the constants the MC
module gives them: `MCServices.RetriesAreSound` and `NothingComesLate` (end of
`JobRegistryProofs`, which extends the sum), `MCAgent.FollowUpsAreSound`,
`CancelStops` and `StepsDecideFromStored` (end of `AgentDriverProofs`, which
extends the sum; the driver's theorems are about `Spec` of AgentDriver, the steps
the driver's part of MCAgent takes), `MCToolCalls.ApprovalIsSound`, `EffectsAreHonest` and
`OutcomeIsKept` (end of `ToolSchedulerProofs`), `MCPersistence.OwnerContinuesLog`
and `OwnershipIsSound` (end of `WriteBehindProofs`, which extends the sum), and
`MCLifecycles.AudienceIsServed`, `OneDriver` and `NothingIsLeft` (end of
`LifecycleProofs`, which extends the sum). They say that the formula in a run is
the one proved. In `MCReload` the two slices of ColdPreparation take steps of its
`Next` only, so that its two properties are those of the theorems.

### Only model-checked

* Every liveness property (`OwedIsServed`, `WhenIdleReturns`, `CallsEnd`,
  `EverythingSettles`, `FollowUpsCome`, `EverythingEnds`): the provers cannot
  reason about `ENABLED`, and so not about fairness.
* Safety of SessionRepair and CrashRecovery (`RecoveryIsHonest`,
  `InputIsAccounted`), and `SelectionsAreSound` of Compaction. Both compare a
  scan of the log with a definition over the whole of it (the open calls of every
  prefix; the best cut by a running sum of prices), and the
  argument by traces that Compaction and Schedule use for their folds has not
  been made for these scans.

## What is not modelled, and why

* The inside of a step (building the request, streaming, header epochs): to the
  driver it is an await that ends in one of five ways.
* Several sessions at once, except where they share an id or a registry. Chains,
  controllers and agents of different sessions share only the backend, whose
  calls are per session.
* Payloads. Rendering, schemas and formats are left out.
* The components marked not modelled in `PROJECT.json`: persistence backends (a
  call lands, fails, or leaves a torn tail that a reader detects), subagents,
  questions and commands, and what is I/O, text, views and transport, whose
  effect on the core is that an awaited call settles or fails.

## Plan

Proofs to come: of `SessionRepair` and `CrashRecovery` what does not depend on
the fold (what is durable is a beginning of every later log); `PairsTogether`, the
part of `SelectionsAreSound` that follows from the balance cache. Modules to prove
about use recursive functions or folds and no RECURSIVE operator. The fold of
`Schedule` is shown clean for any log the model reaches (`FoldAppend`); the same
way of reasoning about a trace is open to the scans of `SessionRepair`.
