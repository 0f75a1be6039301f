# A verification model of the VYOM Brain

VYOM is a personal assistant. Its **Brain** (`services/brain/app`, Python, about 75 000 lines) is
one process: an asyncio loop that serves an HTTP API and WebSockets over one SQLite database,
runs tasks, and keeps its services (schedulers, a supervisor, dispatchers, connectors)
as coroutines of that loop. Around it are a React interface (`src/`), its desktop shell
(`src-tauri/`), a mobile companion (`apps/mobile`), a browser extension, and an older
standalone assistant (`jarvis/`). This directory models the parts of the Brain where something
can go wrong that its tests would hardly reach: where coroutines overlap, where the process
dies between two writes, and where rows outlive the processes that wrote them.

Paths below are relative to `services/brain/app` unless they start with another directory of
the repository. `PROJECT.json` lists every component, every run, the source lines behind every
definition, the hazards and the theorems.

## Reading order

1. this file: the inventory, the models, what the runs and proofs show, the plan;
2. `TaskRuntime.tla`, the core, and the first half of `TaskRuntimeProofs.tla`;
3. `MissionLoop.tla` and `MissionLoopProofs.tla`, the work a task does;
4. `TaskLeases.tla` and `TaskLeaseProofs.tla`;
5. `StreamPromise.tla`, `EventStream.tla`, which implements it, and `EventStreamProofs.tla`, which
   proves that it does;
6. `Maintenance.tla` and `MaintenanceProofs.tla`;
7. `Automations.tla`, `Kanban.tla` and `PaperTrading.tla` with `AutomationProofs.tla`,
   `KanbanProofs.tla` and `PaperTradingProofs.tla`, and `ModelQuota.tla` with the second half of
   `TaskRuntimeProofs.tla`, in any order.

Each module but `StreamPromise` has an `MC…` module for TLC and `.cfg` files named after the
runs.

## Inventory

### How the parts interact

Everything in the Brain shares three things. **The database** is one aiosqlite connection;
statements are served in the order they are issued, each `await` on it lets other coroutines
run, and a handler that reads a row and writes it back later overwrites what happened in
between. **The event bus** (`runtime/event_bus.py`) fans every event out to bounded queues, one
per WebSocket. **The task runtime** is the one way to get work done: the chat, the remote
gateway, automations, missions and kanban workers all end in `TaskRuntime.create_task`.
`main.py` builds the services, recovers what the last process left behind, and then starts the
loops.

### Components with state of their own that others rely on

| component | state it keeps | operations | what is hard | what makes it correct |
|---|---|---|---|---|
| **Task runtime** `runtime/task_runtime.py`, `persistence/task_store.py`, `distributed/ownership.py`, `reliability/recovery.py` | task rows, idempotency records, checkpoints; in memory the coroutine of each task | create, pause, resume, cancel, approve, reject, interrupt, recover | requests overlap the coroutine and each other; every writer saves a whole stale row; a kill at any await | consequential work starts at most once and only after an approval; completion is earned; cancel is final; a restart leaves work at rest alone; every run settles |
| **Leases and placement** `distributed/` | lease rows, the budget row of the day | dispatch, heartbeat, release, sweep, handoff | two dispatches of a task, a heartbeat beside the sweep, midnight | a task has one owner; the count keeps to its limit; a lease is taken away only when it has run out or nobody could see it, and an expired one does go |
| **Kanban board** `kanban/` | card rows; in memory a Popen per card; worker processes outside the Brain | create, claim, spawn, record, mark, reap, reclaim, report | workers outlive the Brain; statements of the loop interleave with reports | one worker per card; a ceiling on workers; completion is earned; a stale card is reclaimed |
| **Automation scheduler** `automation/scheduler.py`, `store.py`, `events.py`; pause and resume in `distributed/coordinator.py` | automation rows with their next slot, run rows with an idempotency key | tick, run, advance, pause, resume, pause everything, resume all | a crash between the run row and the advance; a user's pause while the action runs; a raise that ends the loop | a slot runs at most once; an automation that is due runs; a pause holds |
| **Event stream** `runtime/event_bus.py`, `api/websocket.py` | a history of 500 events, queues of 200, the 512 last terminal events | publish, register, replay, stream, reconnect | a slow client, a reconnect after the history rolled over | a client that reconnects misses nothing it could still be told; one terminal event per task |
| **Offline commands and sync** `sync/` | queued commands, a journal with sequence numbers | enqueue, submit on reconnect, expire, pull, push, resolve | two reconnects at once, a crash between submit and status, a command queued again under its id | a command is submitted once; an expired consequential one never |
| **Remote gateway and approvals** `remote/`, `devices/` | sessions in memory and rows, nonces, device trust | open, submit, cancel, decide, revoke | a revocation beside a command in flight; an approval at its expiry | a nonce is used once; nothing passes after revocation; expired approvals need a new evaluation |
| **Mission loop** `runtime/mission_loop.py` | the mission's steps, counters and challenges; its checkpoint | run a plan, adapt, execute a step, cancel, checkpoint, resume | a cancellation between two awaits, a crash, a planner that answers anything | it ends; answers rest on evidence; no step is passed over; a cancellation stops it |
| **Reliability** `reliability/circuit_breaker.py`, `watchdog.py`, `supervisor.py` | breaker states, attempts per task, component health | allow, record, tick, decide | probes at half-open, counters that never reset | an open breaker refuses; recovery attempts are bounded |
| **Model routing** `routing/` with the callers in `runtime/planner.py`, `agents/` | pacing windows, day counters on disk, cooldowns, slots | route, acquire, send, clamp, cool down, fall back | callers that wait while the window moves, callers that look at nothing, midnight, a restart, a cancellation that holds the lock | no more requests than the allowance; the count is true; a cooldown holds; nothing stays locked |
| **Paper trading and risk** `trading/`, `risk/` | portfolio, orders, journal, kill switches in memory | place, propose, fill, cancel, close all, pause, recheck | whole portfolios saved from copies that waited for a quote; a switch that a restart forgets | cash and holdings are what the fills say; no more positions than allowed; settled orders rest |
| **Backup and migrations** `backup/`, `migrations/` | the database file, snapshot directories, the version table | migrate, snapshot, prune, validate, restore | a crash between two statements, a restore under the log of a running database, a backup that prunes beside a restore | what is recorded is done; what is restored is what was signed; the newest good backup stays |

## The models

### TaskRuntime — the life of a task

Source: `runtime/task_runtime.py`, with `persistence/task_store.py`, `distributed/ownership.py`
(the idempotency record), `reliability/recovery.py`, the checkpoint `runtime/mission_loop.py`
writes, and the restart sequence of `main.py`.

| model | code |
|---|---|
| `store[t]` | the row of task `t`: its status and `approval_granted` |
| `reserved` | the `idempotency_records` rows `task_exec:<task>` |
| `checkpoint[t]` | the `TaskCheckpoint` of the mission |
| `run[t]` | the coroutine `_run_guarded` of `t`, with the `Task` object it holds; `"idle"` means that `active` has no live entry |
| `req[r]` | a coroutine that serves `create_task`, `pause`, `resume`, `cancel`, `decide_approval` or an interrupt |
| `announced[t]` | `_terminalized`: the terminal event published in this life of the Brain |
| `phase`, `toRecover` | the start-up: the tasks `resume_incomplete_tasks` has still to deal with |
| `effects`, `approved`, `rejected`, `parked` | history, read by the properties and by no action's guard |

The Brain is one asyncio loop and one SQLite connection. Code between two awaits is atomic,
and the model has one action for each stretch between two awaits at which another coroutine
could make a difference. A handler that reads a row, checks its status and saves it (pause,
resume, cancel, decide_approval) is therefore two actions, `Ask` and the write, and the write
uses the row that was read. The coroutine of a task saves its own copy at every stage and
looks at the stored row only at its control points (`CheckControl`).

What is folded together: saves that follow each other with the same status and no control
point in between; a save and the `return` or publication that follows it (aiosqlite serves its
callers in order, so nobody can act on the new row before the return). What is made wider: the
read and the write of a request may be any number of steps apart. Assumed: operations of the
database do not fail; the parts of a task's work that never touch its row, the reservation or
its control state are the one step `RunAct`, which may also raise.

Which tasks are consequential (L2/L3), missions, answered by a model, or leased are constants:
the classifier decides them from the request's text alone. A task answered by a model is not
consequential: nothing but text comes out of it.

| run | instance | what it asks and shows |
|---|---|---|
| `task_requests` | one consequential mission, two overlapping requests, two crashes | `ConsequentialAtMostOnce`, `ConsequentialApproved`, `CompletionIsEarned`, `ParkedStaysParked`: every way to run a task again (resume, a second start, recovery after a crash, a stale row) meets the idempotency record and the approval. 458 000 states; one request more would bring no new overlap of a *pair* of stale rows with the coroutine |
| `task_cancel` | one consequential and one ordinary task, two overlapping requests, interrupts, a crash | `CancelIsFinal`: a cancelled task neither runs on nor changes its status, except where a request had read its row before, or where an approval overlaps its rejection (below). 390 000 states; pauses and resumptions join in `task_requests`, and the theorem has them all |
| `task_liveness` | a task with two routed models, two requests, a crash, fairness | `RunsSettle`: no control poll, fallback loop or recovery leaves a task spinning |
| `task_terminal` | violation | "A task may enter a terminal state exactly once" (`task_runtime.py:2882`) fails: `cancel` saves a row it read before the task ended |

`CHECK_DEADLOCK FALSE`: when every task has ended, the bound on crashes is used up and nobody
asks for anything, the Brain really does nothing.

**Fairness.** The event loop runs every coroutine that can go on: weak fairness of each task's
coroutine, of each request in flight, of recovery and of the end of the start-up. There is none
for users (`Create`, `Ask`, `Interrupt`), crashes or the restart of the process.

More differences from the documents, which the model has and no run states:

- an approval that read the row before a rejection was saved undoes the rejection, which
  `docs/AUTONOMY_POLICY.md:104` calls persisted;
- a consequential mission that was at work when the process went down is started again and not
  put up for review (`recovery.py:21`): the evidence of its checkpoint stays empty;
- a pause that is stored between two control points of the coroutine is overwritten by the
  coroutine's next save (`task_runtime.py:2762`, `2871`);
- after a restart in-flight tasks that are no missions are parked as paused, where
  `docs/ARCHITECTURE.md:213` has them re-queued (`recovery.py:84`; actions `Decide`, `Recover`);
- `_start` does nothing while the task has a live coroutine (`:238`), so that a task resumed at
  that moment may stay queued until the next restart; a crash between the completed row and its
  event (`:2698`) leaves the event unpublished; `performance_store.record` runs after the event
  inside the same `try` (`:2740`), so that its error turns a completed task into a failed one.

### TaskLeases — who works on a task

Source: `distributed/leases.py`, `budgets.py`, `task_dispatcher.py`, `task_handoff.py`, the sweep
of `coordinator.py` with `reliability/supervisor.py`, and the endpoints of `api/nodes.py`.

| model | code |
|---|---|
| `lease[t]` | the row of `task_leases`: a node and the end of its lease |
| `usage` | `concurrent_tasks` in the row of `budget_usage` for today |
| `job[w]` | a coroutine that dispatches, heartbeats or sweeps, with what it has read |
| `now`, `Tick`, `Midnight` | the clock and the day; no relation between them is assumed |
| `granted[t][n]` | history: until when node `n` was told that `t` is its own |
| `overlapped` | history: two operations have been under way at once |
| `since[w]` | history: the leases granted since worker `w`, which is about to take rows away, last looked |

Between a read and the write that follows it, anything may happen: `DispatchSelect` /
`DispatchSave`, `HeartbeatRead` / `HeartbeatSave`, `ReleaseRead` / `ReleaseDelete`,
`DropRead` / `DropDelete`, `DispatchLoad` / `DispatchRecord`. The router is any node or none:
which node is capable, online and trusted changes under it anyway. Production builds the
dispatcher without an executor (`main.py:1253`), the tests with one: the constant `Executor`
says which. `LeaseManager.heartbeat` is tested and public but has no production caller; it is an
action because the lease's promise includes it.

| run | instance | what it asks and shows |
|---|---|---|
| `leases` | a worker that dispatches, heartbeats and releases beside the supervisor; two tasks of which one is portable, two nodes, an executor, midnight at any moment, a crash, fairness | `Exclusive`, `HardLimit`: the logic of the lease and of the count is right until two operations overlap. `LosesOnlyUnseen`: whatever overlaps, a release and a sweep take away no lease that was there to be seen. `ExpiredIsReclaimed`: whatever overlaps, an expired lease of a portable task does not stay. 917 000 states |

`MaxTime = 2` with `Ttl = 1` lets a lease run out, be taken over by the other node and run out
again; a second node and a second task are what exclusion and the limit of one are about; `Floor`
bounds how far yesterday's tasks that end today take the count below zero.

`Exclusive` and `HardLimit` say "as long as no two operations have overlapped", and the code
needs it: `acquire` reads the lease, decides, and upserts it in separate awaits, so that two
dispatches of one task may both win, against "exactly one node may hold a lease on a task at a
time" (`leases.py:15`); and nothing is reserved between the check of the budget and the record,
against "a hard limit is never silently exceeded" (`budgets.py:29`). Nothing in the Brain
serialises dispatches. `LosesOnlyUnseen` needs no such exception and says where the sweep is blind:
`handle_expired_leases` works through the list `expired` made (`coordinator.py:116`) and does not look
at the clock again, so a lease that its node renewed meanwhile goes; `release` compares the node once
more, so what it loses was granted after that. More that the model has: an executor that raises leaves the lease and the
count behind (`task_dispatcher.py:78`); a handoff gives its target no lease
(`task_handoff.py:91`); the flag of a paused coordinator is read by nobody (`coordinator.py:139`).

**Fairness.** Weak fairness of each coroutine's steps, and of `Sweep` of the supervisor, whose
loop runs every few seconds for as long as the Brain is up.

### Kanban — workers in processes of their own

Source: `kanban/store.py`, `kanban/dispatcher.py`, `kanban/worker.py`, `api/kanban.py`.

| model | code |
|---|---|
| `card[c]` | the row of `kanban_cards`: its status and `worker_pid` (`NoPid` for NULL and for 0) |
| `processes[c]` | `KanbanDispatcher._processes`, the Popen kept for a card |
| `tick` | where the dispatcher's loop is, the rows `reclaim_stale` has read, the card in hand |
| `worker[p]` | a worker process: how far `run_worker` is, whether the Brain that spawned it is gone, whether its pid was written to the card |
| `earned` | history: cards a task was completed for |

One action per statement of the loop (`Reap`, `List`, `Judge`, `Select`, `Claim`, `Spawn`,
`Record`, `Mark`); the worker's requests and the crash of the Brain come in between. A process
is *alive* for `os.kill(pid, 0)` also as a zombie, or on Windows as long as the Popen holds its
handle: `Alive` therefore includes a process that has ended and was not polled yet, and `Reap`
runs before `List` for that reason. A statement and its commit are one step. A worker may end at
any point (`Exit`): killed, on an error nothing catches, or after its report.

| run | instance | what it asks and shows |
|---|---|---|
| `kanban_board` | two cards, a board of one worker, two pids, any number of crashes and worker deaths, fairness | `OneWorker`, `CompletionIsEarned`, `SettledRests`, `StaleIsReclaimed`. 289 000 states. Two pids are enough for an orphan beside a worker of the new Brain, two cards for one that waits; pids are given again once no active card names them, so the run has no bound on retries |

`OneWorker` states its exception: a Brain that goes down between `Popen` and the write of the
pid leaves a worker nobody can find, and the card is run a second time beside it.
`SettledRests` says when a settled card is safe: when no process of it lives and the dispatcher
holds nothing it read. It does not hold any earlier: `mark_in_progress` and the release in
`reclaim_stale` write without looking, so a card that was reported meanwhile is put back and run
again. Four things the documents leave open or deny and the model shows: the ceiling on "simultaneous
real OS subprocesses" (`dispatcher.py:16`) counts the processes of this Brain only, so that
workers of the one before run beyond it; a spawn that raises fails the card for good (`:104`),
although the comment at `:84` has it retried; a card whose worker always dies is claimed first at
every turn, before younger ones; at the deadline the card fails while its task goes on
(`worker.py:88`).

**Fairness.** Weak fairness of the loop only: `_loop` catches what a tick raises and sleeps at
most `poll_seconds`. Workers and the restart of the Brain are not fair.

Assumed: the system does not give a pid that an active card names to another process
(`store.py:204` would take that process for the worker).

### MissionLoop — the work of a mission

Source: `runtime/mission_loop.py`: `run` (a plan known up front), `run_adaptive` (the planner
decides each next call from what was observed), `_execute_step`, `_check_limits`, `_checkpoint`,
`cancel` and `resume`.

| model | code |
|---|---|
| `m.mode`, `m.at` | which of the two runs, and at which await it is |
| `m.completed`, `m.model`, `m.tool`, `m.late` | the results so far and what `_check_limits` looks at |
| `m.step`, `m.attempt` | the plan's index and the attempt at the step |
| `m.required`, `m.fresh`, `m.grounded`, `m.challenged` | whether a tool must be used, whether the goal is about the world right now, whether there is evidence, the challenges made |
| `m.seen`, `m.repeated`, `m.warned`, `m.waits`, `m.todo` | the guard against repeated calls, the waits for a rate limit, the calls of one response |
| `m.plan`, `Plans`, `PlanLength` | the plan in hand, the caller's or one `_plan` made; of a plan only its length matters |
| `checkpoint` | the row of `task_checkpoints`: status, plan and next step |
| `tried`, `left`, `m.overrun` | history: steps carried out, of whichever plan; steps a cancellation interrupted or a resume entered a new plan behind; calls begun after a cancellation |

Planner, executor and verifier answer anything. `Cancel`, `TimePasses` and `Crash` come at any
await; a resumed run keeps nothing but the checkpoint, and of that not the plan: `resume` calls `run`
without `plan=` (`mission_loop.py:720-733`), which has the planner make one (`:145`), any of `Plans`.

| run | instance | what it asks and shows |
|---|---|---|
| `mission` | two calls, plans of one and of two steps, responses of up to two calls, two runs | `TypeOK` (no limit is passed by more than one response), `Grounded`, `CoversSteps`, `CancelStops`, `Ends`. Two calls tell a repeated call from a new one, two steps a finished one from the one that is interrupted, two plans the one the checkpoint counts in from a shorter or longer one made anew, and a second run is what a resume needs. 801 000 states |

**Fairness.** Weak fairness of `Step`: every tool and every provider call has a timeout. Nothing
is assumed of cancellations, the clock, crashes or the caller that starts a run.

What the model shows beside its properties: a resumed mission whose plan came from the caller
(`task_runtime.py:2443-2450`) goes on in another plan at the old place, and what the new plan has
before that place is never carried out (`CoversSteps` names it; the row holds the plan, but only its
count is used); `resume` judges the mission by the steps verified
since the resume, so that one whose steps all succeeded before the crash ends failed; a limit that
is reached inside `_execute_step` escapes as `MissionLimitError` without verdict or checkpoint; the
second refusal of the planner ends the mission without one too; after a single nudge prose is
accepted as the answer (`task_runtime.py:2032` decides when, `mission_loop.py:465` nudges).

### StreamPromise and EventStream — a promise and how it is kept

Source: `runtime/event_bus.py`, `api/websocket.py`, the client's reconnection in
`src/brain/brain-client.ts`, and the bridges `remote/delivery.py` and `sync/bridge.py`.

`StreamPromise` is what a client may believe, whatever the mechanism: from the first event it has
seen it sees every event it asked for, in order, none twice; an event is lost to it only when it
is more than `Capacity` events behind or when the process goes down. `EventStream` has the
mechanism:

| model | code |
|---|---|
| `history` | `EventBus.history`, a deque of the last 500 |
| `terminals` | `_terminalized`, the tasks of the last 512 terminal events |
| `conn[c]` | a connection: what is still to be replayed, what was replayed, the subscriber's queue (200), the wire |
| `cursor[c]` | the client's `lastEventId` |
| `loop[l]`, `table[l]` | the two bridges with their queues, and the rows they wrote |
| `log`, `lost`, `missed` | history: all events, and those a client or a bridge can no longer get |
| `boots` | history: where in the log the process came back |

The refinement mapping takes `log` to the tasks of the events, `pos` to `cursor`, `lost` to
itself, and `Capacity` to the smaller of queue and history. `Publish` maps to the promise's
`Publish`, `Receive` to `See`, `Connect` to `FallBehind` (or to nothing), `Restart` to
`ProcessDown`, all else to stuttering. `EventStreamProofs` proves the mapping for any sizes.

| run | instance | what it asks and shows |
|---|---|---|
| `event_stream` | a client that asks for one of two tasks, queues of one event, a history of two, a memory of one end, four events, one break, restart or raise | `KeepsPromise` (the refinement), `CatchesUp` (its liveness), `OneTerminal`, `Arrives`. A queue of one and a history of two overflow separately within four events, so that a replay that overlaps the live queue, a cursor the history no longer holds and a dropped event all happen. 444 000 states |

**Fairness.** The client's timer reconnects after every close (`Connect`), the handler sends as
long as its connection lives (`Serve`), the client handles every message (`Receive`), the bridges
take every event. None for publishers, breaks or restarts; `MaxBreaks` is what makes "again and
again" reachable.

`OneTerminal` has two exceptions, no more: a task is told to be at its end a second time only if the
process came back between the two (`boots`), or `TerminalSize` other tasks ended between them. Broken
connections and bridges that raise change nothing about it.

What the model shows: a client that falls 200 events behind is not told so (`event_bus.py:72`),
and its cursor passes over the gap; the sync bridge ends for good, without a log line, at the
first statement that raises (`sync/bridge.py:72`), the delivery bridge goes on.

### Automations — slots, events and pauses

Source: `automation/scheduler.py`, `automation/events.py`, `automation/store.py`,
`api/automations.py`, `pause_everything` and `resume_all` of `distributed/coordinator.py`.

| model | code |
|---|---|
| `row[a]` | the row of `automations`: status, `next_run_at`, `last_run_at` |
| `runs` | the table `automation_runs`; an automation and a basis (slot or event) are the idempotency key |
| `runner["tick"]`, `runner["event"]` | the scheduler's loop and the event loop: list, copy in hand, run |
| `client[c]` | a request with the copies it read |
| `pausedAll`, `owned` | `_paused_by_pause_everything`; `_owned_tasks`, a deque of the last `OwnedMemory` (500) tasks (`events.py:23`) |
| `forgot` | history: runs the event loop could not remember, since the process went down or the save after them raised |
| `queue`, `live` | the event loop's subscription, the tasks actions created |

Everybody saves whole copies, so `Read`, `Write` and `Answer` of a request and `Count`, `Begin`,
`ActionEnds` and `Save` of a loop are steps of their own.

| run | instance | what it asks and shows |
|---|---|---|
| `automations` | one automation of any type with all requests; or a one-time and a recurring one that share a due list of one, with requests to resume; or two conditional ones that share a memory of one task; one request at a time, two days, two events, one restart or raising statement | `SlotsAdvance`, `DailyBudget`, `NoSelfTrigger`, `StoppedRests`, `DueIsTaken`. Automations share the due list (`Limit = 1`: the earlier slot crowds the later out, a stuck one for good) and the memory of own tasks (`OwnedMemory = 1`: the second forgets the first), so each of these is shared in one of the `Worlds`; two ticks a day, a budget of one and two days let the count be taken on one side of midnight and the run be inserted on the other. 684 000 states |

**Fairness.** Weak fairness of the scheduler's loop, which sleeps `poll_seconds` between turns
and puts a timeout on every action. None for the event loop, requests, faults or the clock.

What the model shows: a crash between `begin_run` and the save leaves the slot's key taken and the
slot where it was, so the automation never runs again and takes a place of the recovery limit at
every turn (`scheduler.py:58`); so does an automation that failed and is resumed, because its slot
was not advanced; a save of a late copy undoes a pause and brings a deleted automation back
(`:79`); the scheduler's loop has no `except` and ends at the first statement that raises (`:84`);
`resume_all` also resumes what a failure or a user paused, as long as it ran before, against the
comment at `coordinator.py:158`.

Two properties name what they except. `NoSelfTrigger`: the task of a run that failed (`ActionEnds`
remembers none), of a run during which the process went down or whose save raised (`forgot`), and of a
run after which `OwnedMemory` others were remembered: the deque has lost it, and its next event sets
the automation off. `DueIsTaken`: slots no later than its own that can never run again fill the list
(`Crowded`), a request to resume is under way (`Resuming`: it may set a slot back again and again), or
the loop is dead.

### PaperTrading — books saved from copies

Source: `trading/paper_broker.py`, `trading/order_simulator.py`, `trading/trade_manager.py`,
`risk/engine.py`, `risk/kill_switch.py`, `api/paper_trading.py`, and the paper trading automation
of `main.py`.

| model | code |
|---|---|
| `portfolios`, `newest` | the table `portfolios`, and the row the next read finds |
| `orders` | the table `paper_orders`; an order that is not saved yet is `"unsaved"` |
| `client[c]` | an operation with its copy of the portfolio and the orders it has listed |
| `triggered` | `RiskKillSwitch._active`, in memory only |
| `fills` | history: what was applied to any copy for an order |

| run | instance | what it asks and shows |
|---|---|---|
| `paper_trading` | two operations of any kind at a time, two orders, two symbols of which the rules allow one, two portfolios | `TypeOK`, `SoundBooks`, `PositionLimit`, `SettledRests`. A fill that is lost or counted twice needs two copies of one portfolio and no more; the second order is what one fill can hide. Limit orders only: a market order is the limit order whose price any quote meets |

`SoundBooks` allows a fill to be lost, because the code loses some: the later of two overlapping
saves wins (`paper_broker.py:69`). It allows no fill to be made up or counted twice. The switch a
paused broker sets (`PaperKillSwitch`) is a flag nothing reads; direct orders pass the risk rules
by; `recheck_pending` has no caller in production, the tests call it. There is no fairness and no
liveness: every operation begins with a request, and a pending order is nobody's duty.

### ModelQuota — allowances, pace, cooldowns and slots

Source: `routing/quota_budgeter.py`, `routing/provider_health.py`, `routing/model_router.py`,
`providers/google.py` with the response cache of `providers/base.py`, and everyone who calls a model
through the budgeter of the Brain:

| kind | callers | what they look at |
|---|---|---|
| `walk`, slotted | `runtime/planner.py`, `agents/autonomous_worker.py` | allowance in the router, cooldown before and inside a slot |
| `walk`, text | the text answers of `runtime/task_runtime.py` | allowance in the router, cooldown; no slot |
| `first` | the triage (`runtime/llm_triage.py:59-78`), the mission plan of the planner (`_model_plan`) | allowance in the router; the first candidate is asked, success and refusal are not recorded |
| `fixed` | the research synthesizer (`research/synthesizer.py:79-85`) on the model `main.py:855-859` gives it | nothing |

All of them send through `acquire`. The judge of a query's safety builds a provider of its own
without the budgeter and is outside the model. The callers of the last two kinds are the same tasks
that walk at other times; `Direct` is the set of callers that make such calls as well.

| model | code |
|---|---|
| `meter`, `file` | `_date`, `_counts`, `_clamped`, and `quota-usage.json` |
| `window`, `lock` | `_windows` of the last minute, and the one `asyncio.Lock` with its queue |
| `slots`, `until` | the semaphore of each model with its queue, `rate_limited_until` |
| `caller[c]` | a call: its kind, the model in hand, those left, its deadline |
| `recent`, `today`, `unrouted` | history: requests of the last minute and of the day, and how many of the day's went past the router |
| `taught`, `after` | history: limits a 429 taught, requests sent into a cooldown by those that walk |

The definitions every specification has are called `QuotaInit`, `QuotaNext`, `QuotaSpec` and
`QuotaTypeOK` here, so that `TaskRuntimeProofs` can extend this module beside TaskRuntime; the
theorems about it stand there. `Route` begins a call and each `Look` is one look of the router at the
meter: it awaits `performance.statistics` between them (`model_router.py:58-63`), so that a candidate
list may be out of date in part. A hit in the response cache (`Prepared`, `AsksFirst`) skips `acquire`
and is reported as a success all the same. `LastMinute` drops the old requests from the front only, as the
deque does.

| run | instance | what it asks and shows |
|---|---|---|
| `model_quota` | a planner with a second model, a planner without, a text caller that makes direct calls as well; one slot, one request a minute and one a day, one midnight, one restart | `WithinAllowance`, `MeterIsTrue`, `CooldownHolds`, `NothingLeaks`. Three callers are one in the slot, one behind it and one that needs none; a day of two minutes and a cooldown of one or two put midnight and the end of a cooldown at each wait. 813 000 states |

The run tells states apart by `McView`: of a window what `acquire` would remember of it, of the file
what a restart would load, of the meter what `_roll_date_if_needed` would leave of it (unless a sleeper
is about to use it as it is), and no cooldown that is over. Nothing a step or a property looks at is
left out, so the view merges only states that behave alike; without it the run passes too, over
6 100 000 states.

Each bound says by how much the code passes its limit. The day's allowance holds for the calls the
router let through, and callers that were routed together spend it together; the synthesizer's
requests are past the router, and nothing but the pace bounds them (`unrouted`). One request that
waits over midnight is counted for the day that is gone. Walking callers past their last look send
into a cooldown; triage, mission plan and synthesizer send into it without any look, and a refusal
they meet begins none, so `CooldownHolds` is about the others only. Further: a 429 that comes after midnight clamps
the *new* day to the little it has used so far; a success that comes late removes a cooldown
another caller has just caused; callers of one model wait for the lock while its holder sleeps for
another. That every call returns is not checked: with fairness the graph is beyond this instance;
`NothingLeaks` is what it would rest on.

### Maintenance — migrations, backups and restores

Source: `migrations/manager.py` as `production/startup_checks.py` runs it, `backup/manager.py`,
`snapshot.py`, `validation.py`, `restore.py`, `api/backup_api.py`.

| model | code |
|---|---|
| `db` | the live database as it reads, the file under its log: which statements' effects are in it, its `schema_migrations`, whether it can be read, and (history) whether it is blended of two files |
| `logged` | whether the write-ahead log (`journal_mode=WAL`, `persistence/database.py:17`) has pages |
| `start` | `apply_pending`: the version, the statement, the versions it read at first |
| `backup`, `due`, `restore` | `SnapshotService.create`, the requests whose backup is made and recorded and that come to `_apply_retention` yet, `restore` |
| `shelf` | the directories of `backup_root`: file and manifest |
| `release` | how many migrations the installed program has |

`restore` copies over the main file (`restore.py:69`), while `-wal` and `-shm` stay and the Brain's
connection is open and writes the record of the restore (`:72`). What lies in the log hides the pages
of the restored file. `Reads` is what the database may be after that: when the log is empty, the
backup; otherwise the version table of one of the two, of the statements any mixture of both, or
nothing that can be read. `Write` is any other statement of the running program, which fills the log;
a clean `Stop` brings it into the file, a `Crash` leaves it.

| run | instance | what it asks and shows |
|---|---|---|
| `maintenance` | two migrations, two kinds of backup of which one is kept, two seconds, four backups and restores, two faults | `RecordedIsDone`, `RestoresSigned`, `NewestGoodStays`, `ComesUp`. One of the migrations has an `ALTER`, two kinds show that names sort by kind first, two seconds that a directory may be used again, two faults a backup that breaks off before a crash; four copies are two backups, whose retention overlaps a third, and a restore. 1 573 000 states |

**Fairness.** Weak fairness of `Starting`: the shell restarts a Brain that is down.

What the model shows: a migration is not "inside a transaction", as its docstring has it: an
`ALTER` lasts by itself, and after a crash before the version is recorded no start gets past it
(`migrations/manager.py:249`). `docs/BACKUP_RECOVERY.md:24-26` has retention keep the newest `N` and
never take the only good copy; `_apply_retention` sorts by name, kind first, and counts directories
that cannot be restored, so the newest good backup of a kind goes when enough of the others come
before it: `NewestGoodStays` says when, and that it goes in no other way but by a backup of its second
that is written into its directory. The same document has a restore "replace the live database" (`:49`); under
a log it blends the two, and `RecordedIsDone` holds of what is not blended of files that had recorded
different versions. A restore whose backup was pruned
while it waited reports success (`restore.py:54`). The copy over the live file is not atomic, and a
crash in it leaves a file that does not open, or half a file under a log. `ComesUp` names as `Blocked`
what no start gets past.

## What is proved

TLAPS proves the following for every value of the constants that satisfies the modules'
assumptions (`TaskAssumption`, `BoundAssumption`, `LeaseAssumption`, `LeaseBounds`,
`MissionAssumption`, `MaintenanceAssumption`, `KanbanAssumption`, `AutomationAssumption`,
`PaperAssumption`, `StreamAssumption`, `QuotaAssumption`); nothing else is assumed, and the sets of
tasks, requests, nodes, workers, calls, migrations, backups, cards, automations, orders and clients
may be of any size; those of the model callers and of the models are finite, since the allowances are
counted in them. The assumptions say of what kind the constants are, and little more: there is a pid that is no
process's, no automation is of two types, there is a price, and a unit costs at least what is charged
for it. Every run evaluates those of its module.

**`TaskRuntimeProofs`**, first half: TaskRuntime

| theorem | property | inductive invariant, and why it is needed |
|---|---|---|
| `TypeCorrect` | `TypeOK` | itself |
| `AtMostOnce` | `ConsequentialAtMostOnce` | `Once`: a coroutine between the guard and the work has the reservation *and* has not worked yet; work done is reserved. Without the second half a second coroutine might already be past the guard |
| `Approved` | `ConsequentialApproved` | `GrantedRows`: a grant, in a row, in a coroutine's copy or in a copy a request holds, was given; `GrantedWork`: past the gate the copy is granted. Copies are what makes the plain property not inductive |
| `Completion` | `CompletionIsEarned` | `Earned` follows the completion backwards through the copy and the announcement to the points behind the work; `OwnTask`: the task an interrupt completes is never consequential |
| `ParkedAtRest` | `ParkedStaysParked` | `AtRest`: no recovery list and no request about to start holds a parked task |
| `CancelHolds` | `CancelIsFinal` | `Ended`: a cancelled task has no coroutine, or one that looks at the row first; `OwnCopy`: no coroutine but one on its way out holds a cancelled row to save; `Restarting`: the restart's list and the requests never meet |

**`TaskRuntimeProofs`**, second half: ModelQuota, the model calls that tasks make. The module extends
both specifications, which share no variable; that is why the definitions of ModelQuota that every
specification has bear a prefix (`QuotaInit`, `QuotaNext`, `QuotaSpec`, `QuotaTypeOK`).

| theorem | property | inductive invariant, and why it is needed |
|---|---|---|
| `QuotaTypes` | `QuotaTypeOK` | with `Calls`: a caller at a point where it works on a model has one, which it has taken off its list |
| `NothingIsLeaked` | `NothingLeaks` | `InOrder`: those in the lock's queue are exactly those at the points behind it, each once, and a sleeper is its head (`Locked`); whoever is in a model's queue is at work on that model, and whoever is past the slot stands in front (`Slotting`). The property only says that who is in a queue belongs there; that who belongs there is in it is what keeps two callers from holding the lock |
| `MeterTrue` | `MeterIsTrue` | `Metered`: the meter in memory and its file agree as far as they are of one day, also about what was taught and about the one model that may have been missed (`Fits`); and as long as somebody sleeps with yesterday's meter in hand, nothing was asked today |
| `Cooldowns` | `CooldownHolds` | `Cooled`: the requests that walking callers have sent since the cooldown began *and* the walking callers past their last look are together fewer than slots and text callers. The count alone says nothing of who is still to send. Direct calls are in neither: they hold no slot, and their refusals begin no cooldown |
| `Allowances` | `WithinAllowance` | `Paced`: of the requests of the last minute all but those of earlier lives are the end of the window, in order of time, so that a place in the window is a place in the minute. `Allowed`: the count of the day with the callers that hold the model on their list or are on their way to it, against the allowance, one request of each caller and what went past the router (`unrouted`). A list grows only while the router looks (`Look`), one model at a time; with `Metered`, since a router that looks at the meter misses one request at most |

The queues hold callers in order, so these proofs rest on lemmas about what stays when one leaves from
the middle (`LeavingStays`, `LeavingDistinct`) and about the last minute of a sequence of times
(`LastMinuteIs`). Every step of a caller is one of six as far as the queues see it (`StepMoves`: it
stays apart, takes its place for a slot, takes its place for the lock, keeps it, gets through with it,
goes away), and the four invariants look at those six and not at the actions.

**`TaskLeaseProofs`**

| theorem | property | inductive invariant, and why it is needed |
|---|---|---|
| `LeaseTypes` | `TypeOK` | itself |
| `SerialExclusive` | `Exclusive` | `Leases`: as long as nothing has overlapped, at most one worker is under way (`Apart`), what it has read is still so (`Fresh`), and a node that believes in a lease is the one the row names, at least as long (`Backed`) |
| `NothingSeenIsLost` | `LosesOnlyUnseen` | `Unlost`: every lease that a release or a sweep has on its list or in hand has run out, or was granted since it looked (`Watched`); whatever changes a row is noted by everyone who watches it (`WatchSees`). Says nothing of `overlapped`: any operations overlap |
| `SerialBudget` | `HardLimit` (for a limit that is not 0) | `Budget`: there is room for the task the one worker has let through (`Room`) |

`overlapped` is the point of `SerialExclusive` and `SerialBudget`: they say exactly when the code is right, for any
number of workers, and stop saying anything at the first overlap, where it is wrong.

**`MissionLoopProofs`**

| theorem | property | inductive invariant, and why it is needed |
|---|---|---|
| `LimitsHold` | `TypeOK` | `Bounded`: between two looks at the limits there is room for one step, or for the calls of one response; the limits alone are not inductive |
| `AnswersAreGrounded` | `Grounded` | `Honest`: evidence is a result that succeeded, so that a way out which looks only at one of the two is as good as the other |
| `NoGap` | `CoversSteps` | `Reached`: the steps of the plan in hand before the counter were carried out or left, those before the place where a resume entered it among the latter. The checkpoint names the plan it counts in, and is behind the counter or at it, never before |
| `OneMoreCall` | `CancelStops` | `Stops`: once a call has begun after the cancellation the loop is at no point from which another begins unseen |

**`MaintenanceProofs`**

| theorem | property | inductive invariant, and why it is needed |
|---|---|---|
| `RecordedHolds` | `RecordedIsDone` | `Recorded`: every file anywhere is sound or blended (`SoundFiles`), since any of them may become the live one; the start has done the statements behind it (`Upto`), and nobody replaces the file under it (`Apart`). A copy under a log reads as a mixture of two sound files, which is sound when both had recorded the same versions |
| `RestoredHolds` | `RestoresSigned` | `Accepted`: a directory bears no later second than now (`Dated`), so that a backup made while a restore waits is not the one it accepted (`Making`), which is as it was or gone (`Waiting`) |
| `NewestGoodHolds` | `NewestGoodStays` (every step) | `Made`: the directory of a backup that is being copied holds a torn file, so that rewriting it loses nothing; the signed directories are finitely many, so that of the good ones of a kind there is a newest, and what retention counts before it is either newer and good or among those the property names |
| `Types` | `TypeOK` | itself |

**`KanbanProofs`**

| theorem | property | inductive invariant, and why it is needed |
|---|---|---|
| `TypeCorrect` | `TypeOK` | itself |
| `WorkersApart` | `OneWorker` | `OneEach`. The plain property says nothing about where the next worker comes from: what keeps it off the card is that the card of a worker that counts names its pid, or is about to (`Named`, `JustSpawned`), that the card in the loop's hand is not up for a claim and has no other worker (`InHand`, `HandsFree`), and that nobody writes a pid between the SELECT of `reclaim_stale` and its verdict (`RowsHold`) |
| `CompletionsEarned` | `CompletionIsEarned` | `Ran`: a worker that is about to report had its task completed, however late it reports |
| `SettledStays` | `SettledRests` (every step) | only `TypeOK`: each action alone leaves a card at rest as it is, which is what makes `AtRest` the right exception |

**`AutomationProofs`**

| theorem | property | inductive invariant, and why it is needed |
|---|---|---|
| `TypeCorrect` | `TypeOK` | `Typed`: the loops hold copies of automations that exist and of their own kind, the scheduler's are due, events are about tasks of runs that have begun |
| `SlotsGoForward` | `SlotsAdvance` | `OneAhead`: of all the copies of an automation, in the table, in the loop's hand and in requests, those whose slot has not been run name one and the same slot, later than all that were; while its action runs there is none. A late copy that is saved back can therefore bring back only a slot that has been run, and its key is taken. `Uncreated` and `BegunCame` are what `create` and `resume` need |
| `BudgetHolds` | `DailyBudget` | `Counted`: the count taken before the INSERT still holds then. The runs of an automation are inserted by one loop only, one at a time |
| `OwnEventsIgnored` | `NoSelfTrigger` | `Remembered`: a conditional run is in `_owned_tasks` or about to be, or forgotten with the process or a save that raised, or it was pushed out and then as many later runs as the memory holds are over (`Evicted`; `MemorySound`: the memory holds runs in their order); `Untriggered`: the event in hand is not one of those remembered |
| `StoppedStays` | `StoppedRests` (every step) | `Typed` |

**`PaperTradingProofs`**

| theorem | property | inductive invariant, and why it is needed |
|---|---|---|
| `TypeCorrect` | `TypeOK` | `Typed`: an order that an operation made is unsaved and no other operation's, and what is on a list triggered at no quote before |
| `BooksSound` | `SoundBooks` | `Accounted`: not only the rows but every copy that may yet be saved is explained by a set of fills, and that set has none of an order that is still open, but the one the operation has just filled. Without it a copy might be given the fill of an order it has already counted |
| `PositionsLimited` | `PositionLimit` | `Limiting`: the limit also of the copies, and, between the risk check and the fill, of the copy after the order |
| `OrdersRest` | `SettledRests` (every step) | `Typed` |

**`EventStreamProofs`**

| theorem | property | inductive invariant, and why it is needed |
|---|---|---|
| `TypeCorrect` | `TypeOK` | `Typed`: the history is the end of the log (`Recent`); what a connection holds is unseen and in order: the wire before the replay, the replay before the queue, the queue the end of the log (`InOrder`) |
| `OneEnd` | `OneTerminal` | `Remembering`: no task is twice in the memory of ends; as seen from each end in the log, the memory holds its task and after it only tasks that have ended since, or it has forgotten the task and is full of such (`Since`); all this from the last time the process came back (`Standing`), whatever connections and bridges do |
| `StreamKeepsPromise` | `KeepsPromise` | `Keeping`: what an open connection does not hold is lost, or lies before all that a client without a cursor will be sent (`Complete`); as long as the history is not full, what is before it is lost to everyone who has not seen it (`Held`: only a restart empties it). With both, the event that comes next on the wire is the next one the promise allows, and a connection that finds less than it needs finds a history that is full |

The refinement is proved step by step (`StreamStep`): each step of the stream keeps the invariant, and
is a step of the promise (`PromisedPublish`, `PromisedSee`, `PromisedConnect`, `PromisedRestart`) or
changes nothing the promise sees (`Unpromised`).

**Induction over data.** `Sum` of PaperTrading and `Only` of EventStream are recursive functions, and
`LastMinute` of ModelQuota is chosen by where the old requests end, which must be shown to exist. The
library states induction for an operator, which the provers cannot be given, so the proofs take it
from the least element of a set of numbers (`WFMin` on `<`, lemmas `Least` and `LeastNumber`): were the claim
false, there would be a least number at which it is. That gives what a sum changes by when one amount
does, and which elements `Only` keeps and in which order.

**Only model-checked:** the violation of `TerminalOnce`, and the liveness properties
(`RunsSettle`, `ExpiredIsReclaimed`, `StaleIsReclaimed`, `DueIsTaken`, `CatchesUp`, `Arrives`, `Ends`,
`ComesUp`), since fairness and ENABLED are out of the prover's reach. Every invariant and every action
property that a passing run checks is proved.

Every module has a `TypeOK` (`QuotaTypeOK` in ModelQuota), and all of them are proved. It is a property of the runs
`paper_trading` and `mission`, where it says something of its own (no portfolio is overdrawn, no
limit is passed by more than one response); in the other modules it documents the variables.

## What is not modelled inside the modelled parts

Failures of database statements in TaskRuntime, TaskLeases and Kanban (the code has no handler for
them beyond the loops' catch-all); the self-healing retry that creates a linked task
(`task_runtime.py:939`); the contents of plans, results, evidence and messages; node registration,
presence and the budgets other than the number of tasks; the messages between kanban workers, which
are marked delivered before the worker has them (`kanban/store.py:266`); the journal's sequence
number, which a bridge leaves empty; the webhook engine, which never reaches the automations'
tables; exposure limits, the trading journal and the portfolios a user edits through `api/finance`;
the failures that close a whole provider, and providers the budgeter does not pace.

## Plan

What would be next, by what would hurt most.

1. **OfflineQueue** with the sync journal — submit on reconnect, expiry, requeue; composes with
   TaskRuntime's `Create`. "Each queued command submits exactly once" (`sync/offline_queue.py:80`)
   does not hold under two reconnects (`:83`), a crash between submission and status (`:111`) or a
   command sent again under its id (`:51`).
2. **RemoteGateway** — sessions, nonces, revocation, approvals with expiry; composes with the
   `Ask`/`Write` pairs of TaskRuntime. The expiry is checked on an older read
   (`remote/approvals.py:120`), the session two awaits before the command
   (`remote/command_gateway.py:86`). Theorem: a nonce is accepted once.
3. **Abstract task** — what a client may believe of a task (accepted, waiting for approval,
   running, ended), with TaskRuntime shown to implement it.
4. **CircuitBreaker** and the watchdog — half-open lets every caller through
   (`reliability/circuit_breaker.py:65`); attempts are never reset (`reliability/watchdog.py:60`).
5. **That every model call returns**, under fairness — `NothingLeaks` is what it would rest on; the
   graph of the present instance is too large for it.

No module declares a RECURSIVE operator; the two recursive definitions are functions, so that every
module can be proved about.

### Components of the Brain without a model

They are listed in `PROJECT.json` with the reason each. In short: **decisions made from data
alone** (planner, task classifier, model ranking, memory retrieval, research ranking, backtesting
arithmetic, habit and goal statistics) have no state that two actors share; **adapters**
(providers, connectors, messaging, social media, e-mail, sheets, calendar, booking, browser, input
control, desktop) are input and output around one call, and whatever they answer is a choice of the
models; **document and report builders** (artifacts, video, briefing, daily review) compute a file
from a record. The security policies (`security/`, `safety/`) decide from a text, and only their
result, the permission level, reaches the task runtime; it is the constant `Consequential` of the
model. The offline queue, the remote gateway with the devices, and the breakers do have state of
their own and are what the plan begins with. Most of the Brain's lines belong to the first three
groups.
