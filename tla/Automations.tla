----------------------------- MODULE Automations -----------------------------
(***************************************************************************)
(* The automations of the Brain: automation/scheduler.py (the loop that    *)
(* runs what is due, and run_automation), automation/events.py (the loop   *)
(* that runs the conditional ones on events of the bus),                   *)
(* automation/store.py (the tables automations and automation_runs), the   *)
(* HTTP handlers of api/automations.py, and pause_everything and           *)
(* resume_all of distributed/coordinator.py.                               *)
(*                                                                         *)
(* Everybody reads an automation, waits, and saves the whole copy back:    *)
(* the two loops, the handlers and the coordinator interleave at every     *)
(* statement.  The process may go down anywhere; the tables survive.       *)
(***************************************************************************)
EXTENDS Integers, FiniteSets, Sequences

CONSTANTS
    OneTime, Recurring, Conditional,    \* the automations, by type
    Clients,        \* bound: requests served at a time
    Ops,            \* the requests that are made
    Limit,          \* AutomationScheduler.recovery_limit
    MaxRunsPerDay,  \* AutomationBudget.max_runs_per_day
    Interval,       \* interval_minutes of a recurring automation
    Debounce,       \* condition.debounce_seconds
    DayLength,      \* ticks of the clock in a day
    QueueSize,      \* of the event loop's queue of the bus
    OwnedMemory,    \* how many tasks the event loop remembers as its own (500)
    Worlds,         \* bound: automations that exist side by side, with the requests made then
    MaxTime,        \* bound on the clock
    MaxEvents,      \* bound on the events published
    MaxFaults       \* bound on restarts and on statements that raise

Timed == OneTime \cup Recurring
Autos == Timed \cup Conditional

ASSUME AutomationAssumption ==
    /\ IsFiniteSet(Autos)
    /\ OneTime \cap Recurring = {}
    /\ Timed \cap Conditional = {}
    /\ Worlds \subseteq [autos : SUBSET Autos, ops : SUBSET Ops]
    /\ Ops \subseteq {"pause", "resume", "delete", "pauseAll", "resumeAll"}
    /\ {Limit, MaxRunsPerDay, Interval, DayLength, QueueSize, OwnedMemory} \subseteq Nat \ {0}
    /\ {Debounce, MaxTime, MaxEvents, MaxFaults} \subseteq Nat

VARIABLES
    now,        \* the clock
    row,        \* the table automations
    runs,       \* the table automation_runs, in the order of the INSERTs
    runner,     \* the two loops: where each is and what it has read
    client,     \* the requests: where each is and what it has read
    pausedAll,  \* coordinator._paused_by_pause_everything
    owned,      \* AutomationEventEngine._owned_tasks
    queue,      \* the event loop's queue of the bus
    published,  \* how many events there have been
    live,       \* tasks the actions created that may still publish
    faults,     \* how often the process restarted or a statement raised
    forgot      \* history: the runs the event loop cannot have remembered

vars == <<now, row, runs, runner, client, pausedAll, owned, queue, published, live, faults, forgot>>

Null == -1      \* next_run_at or last_run_at that is NULL
Times == 0..(MaxTime + Interval)
Row == [status : {"none", "active", "paused", "completed", "deleted"},
        next : Times \cup {Null}, last : Times \cup {Null}]
Missing == [status |-> "none", next |-> Null, last |-> Null]
Copy == [auto : Autos, row : Row]

\* A run, for a slot of a timed automation or an event of a conditional one (its basis).
\* The task its action creates has the run's place in `runs` for a name.
Run == [auto : Autos, basis : Nat, at : Times,
        status : {"running", "completed", "waiting", "failed"}]

\* An event of the bus, with the task it is about, or none.
NoTask == 0
Event == [id : Nat, task : Nat]
NoEvent == [id |-> 0, task |-> NoTask]

Loops == {"tick", "event"}
Points == {"idle", "next", "spent", "begin", "act", "save", "dead"}
Idle == [at |-> "idle", todo |-> {}, now |-> 0, event |-> NoEvent, auto |-> Null,
         copy |-> Missing, run |-> 0]
Request == [op : (Ops \ {"delete"}) \cup {"none"}, todo : SUBSET Copy, done : SUBSET Autos]
NoRequest == [op |-> "none", todo |-> {}, done |-> {}]

Running(w) == runner[w].at \in {"spent", "begin", "act", "save"}
Acting(w) == runner[w].at \in {"act", "save"}

TypeOK ==
    /\ now \in 0..MaxTime
    /\ row \in [Autos -> Row]
    /\ runs \in Seq(Run)
    /\ \A w \in Loops :
        /\ runner[w].at \in Points
        /\ runner[w].todo \subseteq Copy
        /\ runner[w].event \in Event
        /\ Running(w) => runner[w].auto \in Autos /\ runner[w].copy \in Row
        /\ Acting(w) => runner[w].run \in DOMAIN runs
    /\ client \in [Clients -> Request]
    /\ pausedAll \subseteq Autos
    /\ owned \in Seq(DOMAIN runs)
    /\ Len(owned) <= OwnedMemory
    /\ forgot \subseteq DOMAIN runs
    /\ queue \in Seq(Event)
    /\ Len(queue) <= QueueSize
    /\ live \subseteq DOMAIN runs
    /\ published \in 0..MaxEvents
    /\ faults \in 0..MaxFaults

Init ==
    /\ now = 0
    /\ row = [a \in Autos |-> Missing]
    /\ runs = <<>>
    /\ runner = [w \in Loops |-> Idle]
    /\ client = [c \in Clients |-> NoRequest]
    /\ pausedAll = {}
    /\ owned = <<>>
    /\ queue = <<>>
    /\ published = 0
    /\ live = {}
    /\ faults = 0
    /\ forgot = {}

Day(t) == t \div DayLength
Begun(a, basis) == \E i \in DOMAIN runs : runs[i].auto = a /\ runs[i].basis = basis

------------------------------------------------------------------------------
(* The clock and the bus.                                                   *)

Tick ==
    /\ now < MaxTime
    /\ now' = now + 1
    /\ UNCHANGED <<row, runs, runner, client, pausedAll, owned, queue, published, live, faults, forgot>>

\* A bounded sequence that is full loses its oldest member.
AppendLast(q, x, size) == Append(IF Len(q) = size THEN Tail(q) ELSE q, x)

\* EventBus.publish, for one subscriber.  Events that no automation could want are left out.
Put(q, e) == AppendLast(q, e, QueueSize)

Publish(task) ==
    /\ published < MaxEvents
    /\ \E a \in Conditional : row[a].status # "none"
    /\ published' = published + 1
    /\ queue' = Put(queue, [id |-> published + 1, task |-> task])

ForeignEvent ==
    /\ Publish(NoTask)
    /\ UNCHANGED <<now, row, runs, runner, client, pausedAll, owned, live, faults, forgot>>

\* A task that an action created publishes an event, while the action waits for it or after:
\* an action that times out leaves its task running.
TaskEvent(t) ==
    /\ t \in live
    /\ Publish(t)
    /\ live' = live \ {t}
    /\ UNCHANGED <<now, row, runs, runner, client, pausedAll, owned, faults, forgot>>

------------------------------------------------------------------------------
(* What each loop takes up.                                                 *)

\* Mutant: the paused ones too.
DuePaused == {a \in Timed : /\ row[a].status \in {"active", "paused"}
                            /\ row[a].next # Null /\ row[a].next <= now}

\* store.due: the active ones whose slot has come, the earliest slots first, at most Limit.
Due == {a \in Timed : row[a].status = "active" /\ row[a].next # Null /\ row[a].next <= now}

\* The loop goes on to the next automation on its list, or ends its turn.
Onward(r) == IF r.todo = {} THEN Idle ELSE [r EXCEPT !.at = "next"]

\* Mutant: the latest first.
FirstLate(D) == \A a \in D, b \in Due \ D : row[a].next >= row[b].next

First(D) == \A a \in D, b \in Due \ D : row[a].next <= row[b].next

TickList ==
    /\ runner["tick"].at = "idle"
    /\ Due # {}
    /\ \E D \in SUBSET Due :
        /\ Cardinality(D) = IF Cardinality(Due) < Limit THEN Cardinality(Due) ELSE Limit
        /\ First(D)
        /\ runner' = [runner EXCEPT !["tick"] =
                        [Idle EXCEPT !.at = "next", !.now = now,
                                     !.todo = {[auto |-> a, row |-> row[a]] : a \in D}]]
    /\ UNCHANGED <<now, row, runs, client, pausedAll, owned, queue, published, live, faults, forgot>>

\* handle's first test.
Own(e) == \E k \in DOMAIN owned : owned[k] = e.task

\* handle, up to its first run: the active conditional automations (an event may match the
\* condition of any of them, or of none) that have not run for the debounce.
Matching == {a \in Conditional :
                /\ row[a].status = "active"
                /\ row[a].last # Null => now - row[a].last >= Debounce}

TakeEvent ==
    /\ runner["event"].at = "idle"
    /\ queue # <<>>
    /\ queue' = Tail(queue)
    /\ IF Own(Head(queue))
       THEN UNCHANGED runner
       ELSE \E M \in SUBSET Matching :
                runner' = [runner EXCEPT !["event"] =
                            Onward([Idle EXCEPT !.now = now, !.event = Head(queue),
                                        !.todo = {[auto |-> a, row |-> row[a]] : a \in M}])]
    /\ UNCHANGED <<now, row, runs, client, pausedAll, owned, published, live, faults, forgot>>

------------------------------------------------------------------------------
(* run_automation.                                                          *)

\* Mutants: one run too many, and the slot that is taken runs again.
SpentLate(a, t) == Cardinality({i \in DOMAIN runs : runs[i].auto = a /\ Day(runs[i].at) >= Day(t)})
                     > MaxRunsPerDay
TakenNever(a, basis) == FALSE

\* store.runs_today against the budget; the day is that of the time the loop noted.
Spent(a, t) == Cardinality({i \in DOMAIN runs : runs[i].auto = a /\ Day(runs[i].at) >= Day(t)})
                 >= MaxRunsPerDay

\* The idempotency key, the automation and the basis, is unique.
Taken(a, basis) == Begun(a, basis)
Basis(w) == IF w = "tick" THEN runner[w].copy.next ELSE runner[w].event.id

\* Take up an automation of the list and look at its budget.
Count(w) ==
    /\ runner[w].at = "next"
    /\ \E x \in runner[w].todo :
        LET r == [runner[w] EXCEPT !.auto = x.auto, !.copy = x.row, !.todo = @ \ {x}] IN
        runner' = [runner EXCEPT ![w] =
                    IF Spent(x.auto, r.now) THEN [r EXCEPT !.at = "spent", !.copy.status = "paused"]
                    ELSE [r EXCEPT !.at = "begin"]]
    /\ UNCHANGED <<now, row, runs, client, pausedAll, owned, queue, published, live, faults, forgot>>

\* begin_run's INSERT, and the action it lets start.
Begin(w) ==
    /\ runner[w].at = "begin"
    /\ IF Taken(runner[w].auto, Basis(w))
       THEN /\ runner' = [runner EXCEPT ![w] = Onward(@)]
            /\ UNCHANGED <<runs, live>>
       ELSE /\ runs' = Append(runs, [auto |-> runner[w].auto, basis |-> Basis(w), at |-> now,
                                     status |-> "running"])
            /\ live' = live \cup {Len(runs) + 1}
            /\ runner' = [runner EXCEPT ![w].at = "act", ![w].run = Len(runs) + 1]
    /\ UNCHANGED <<now, row, client, pausedAll, owned, queue, published, faults, forgot>>

\* Automation.advance; a run for an event only notes the time.
Advanced(w) ==
    LET c == runner[w].copy
        t == runner[w].now
    IN  IF runner[w].auto \in OneTime THEN [status |-> "completed", next |-> Null, last |-> t]
        ELSE IF runner[w].auto \in Recurring THEN [c EXCEPT !.next = t + Interval, !.last = t]
        ELSE [c EXCEPT !.last = t]

\* The action answers, answers that it waits for an approval, or raises; a timeout raises.
\* The automation's changes go to the copy, the run's to its row (finish_run).
ActionEnds(w) ==
    /\ runner[w].at = "act"
    /\ \E outcome \in {"completed", "waiting", "failed"} :
        /\ runs' = [runs EXCEPT ![runner[w].run].status = outcome]
        /\ runner' = [runner EXCEPT ![w].at = "save",
                        ![w].copy = IF outcome = "completed" THEN Advanced(w)
                                    ELSE [@ EXCEPT !.status = "paused"]]
    /\ UNCHANGED <<now, row, client, pausedAll, owned, queue, published, live, faults, forgot>>

\* Mutant: the task that waits for an approval is not remembered.
OwnsCompleted(w) == w = "event" /\ Acting(w) /\ runs[runner[w].run].status = "completed"

\* handle remembers the task of a run whose result names one: a run that failed has none.
Owns(w) == w = "event" /\ Acting(w) /\ runs[runner[w].run].status \in {"completed", "waiting"}

\* store.save, an upsert of the whole copy: it also brings back what was deleted meanwhile.
Save(w) ==
    /\ runner[w].at \in {"save", "spent"}
    /\ row' = [row EXCEPT ![runner[w].auto] = runner[w].copy]
    /\ owned' = IF Owns(w) THEN AppendLast(owned, runner[w].run, OwnedMemory) ELSE owned
    /\ runner' = [runner EXCEPT ![w] = Onward(@)]
    /\ UNCHANGED <<now, runs, client, pausedAll, queue, published, live, faults, forgot>>

Runner(w) ==
    \/ w = "tick" /\ TickList
    \/ w = "event" /\ TakeEvent
    \/ Count(w) \/ Begin(w) \/ ActionEnds(w) \/ Save(w)

------------------------------------------------------------------------------
(* The requests.                                                            *)

\* The worlds that have some automations, and the existing ones.
WorldsOf(A) == {W \in Worlds : A \subseteq W.autos}
Existing == {a \in Autos : row[a].status # "none"}
Offered(op) == \E W \in WorldsOf(Existing) : op \in W.ops

\* from_create and its save: the first slot of a one-time automation is the user's, that of
\* a recurring one comes after an interval.
Create(a) ==
    /\ row[a].status = "none"
    /\ WorldsOf(Existing \cup {a}) # {}
    /\ \E next \in IF a \in OneTime THEN 0..MaxTime
                   ELSE {IF a \in Recurring THEN now + Interval ELSE Null} :
        row' = [row EXCEPT ![a] = [status |-> "active", next |-> next, last |-> Null]]
    /\ UNCHANGED <<now, runs, runner, client, pausedAll, owned, queue, published, live, faults, forgot>>

Delete(a) ==
    /\ Offered("delete")
    /\ row[a].status \notin {"none", "deleted"}
    /\ row' = [row EXCEPT ![a] = [Missing EXCEPT !.status = "deleted"]]
    /\ UNCHANGED <<now, runs, runner, client, pausedAll, owned, queue, published, live, faults, forgot>>

\* What a request reads: resume refuses a completed automation, pause takes any.
Resumable(a) == row[a].status \in {"active", "paused"}
Reads(op) ==
    CASE op = "pause"     -> {{a} : a \in {b \in Autos : row[b].status \notin {"none", "deleted"}}}
      [] op = "resume"    -> {{a} : a \in {b \in Autos : Resumable(b)}}
      [] op = "pauseAll"  -> {{a \in Autos : row[a].status = "active"}}
      [] op = "resumeAll" -> {{a \in Autos : row[a].status = "paused"}}

Read(c) ==
    /\ client[c].op = "none"
    /\ \E op \in Ops \ {"delete"} : \E A \in Reads(op) :
        /\ Offered(op)
        /\ client' = [client EXCEPT ![c] = [op |-> op, done |-> {},
                                         todo |-> {[auto |-> a, row |-> row[a]] : a \in A}]]
    /\ UNCHANGED <<now, row, runs, runner, pausedAll, owned, queue, published, live, faults, forgot>>

\* resume_all takes what pause_everything paused and what has run before.
Wanted(c, x) ==
    client[c].op = "resumeAll" => x.auto \in pausedAll \/ x.row.last # Null

Write(c) ==
    /\ \E x \in client[c].todo :
        /\ IF Wanted(c, x)
           THEN row' = [row EXCEPT ![x.auto] = [x.row EXCEPT !.status =
                    IF client[c].op \in {"pause", "pauseAll"} THEN "paused" ELSE "active"]]
           ELSE UNCHANGED row
        /\ client' = [client EXCEPT ![c].todo = @ \ {x}, ![c].done = @ \cup {x.auto}]
    /\ UNCHANGED <<now, runs, runner, pausedAll, owned, queue, published, live, faults, forgot>>

\* The coordinator's set changes once all have been saved.
Answer(c) ==
    /\ client[c].op # "none"
    /\ client[c].todo = {}
    /\ client' = [client EXCEPT ![c] = NoRequest]
    /\ pausedAll' = CASE client[c].op = "pauseAll"  -> pausedAll \cup client[c].done
                      [] client[c].op = "resumeAll" -> {}
                      [] OTHER                      -> pausedAll
    /\ UNCHANGED <<now, row, runs, runner, owned, queue, published, live, faults, forgot>>

------------------------------------------------------------------------------
(* Faults.                                                                  *)

\* The process goes down and comes back: the tables, and tasks that are taken up again,
\* are all that is left.
Restart ==
    /\ faults < MaxFaults
    /\ faults' = faults + 1
    /\ runner' = [w \in Loops |-> Idle]
    /\ client' = [c \in Clients |-> NoRequest]
    /\ pausedAll' = {}
    /\ owned' = <<>>
    /\ forgot' = DOMAIN runs
    /\ queue' = <<>>
    /\ UNCHANGED <<now, row, runs, published, live>>

\* A statement raises.  The event loop catches it and takes the next event; the scheduler's
\* loop catches nothing and ends, and nothing starts it again.
StatementRaises(w) ==
    /\ faults < MaxFaults
    /\ runner[w].at \notin {"dead", "next", "act"}
    /\ runner[w].at = "idle" => w = "tick" \/ queue # <<>>
    /\ faults' = faults + 1
    /\ runner' = [runner EXCEPT ![w] = [Idle EXCEPT !.at = IF w = "tick" THEN "dead" ELSE "idle"]]
    /\ queue' = IF w = "event" /\ runner[w].at = "idle" THEN Tail(queue) ELSE queue
    /\ forgot' = IF w = "event" /\ Acting(w) THEN forgot \cup {runner[w].run} ELSE forgot
    /\ UNCHANGED <<now, row, runs, client, pausedAll, owned, published, live>>

Next ==
    \/ Tick
    \/ ForeignEvent
    \/ \E t \in live : TaskEvent(t)
    \/ \E w \in Loops : Runner(w) \/ StatementRaises(w)
    \/ \E a \in Autos : Create(a) \/ Delete(a)
    \/ \E c \in Clients : Read(c) \/ Write(c) \/ Answer(c)
    \/ Restart

Spec == Init /\ [][Next]_vars

\* The scheduler's loop sleeps poll_seconds between turns, and wait_for ends every action.
Fairness == WF_vars(Runner("tick"))
FairSpec == Spec /\ Fairness

------------------------------------------------------------------------------
(* What the automations promise.                                            *)

\* The slots an automation runs for only ever go forward: a one-time automation runs once
\* in its life and no slot is run twice, whatever copies are saved back late, however often
\* it is resumed and wherever the process goes down (begin_run, the idempotency key).
SlotsAdvance ==
    \A i, j \in DOMAIN runs :
        i < j /\ runs[i].auto = runs[j].auto /\ runs[i].auto \in Timed
        => runs[i].basis < runs[j].basis

\* No day has more runs of an automation than its budget, although the count is taken
\* before the run is inserted and midnight may pass in between (run_automation).
DailyBudget ==
    \A a \in Autos : \A d \in 0..Day(MaxTime) :
        Cardinality({i \in DOMAIN runs : runs[i].auto = a /\ Day(runs[i].at) = d}) <= MaxRunsPerDay

\* A conditional automation is not set off by the task of its own run, nor by that of
\* another one's, unless that run failed, the process went down or the save after it raised,
\* or OwnedMemory later runs have been remembered since: every event such a task publishes
\* while its run lasts is still in the queue when the run is over (handle, _owned_tasks).
Later(t) == {i \in DOMAIN runs : i > t /\ runs[i].auto \in Conditional
                                 /\ runs[i].status \in {"completed", "waiting"}}
NoSelfTrigger ==
    LET t == runner["event"].event.task IN
    Running("event") /\ t # NoTask /\ runs[t].auto \in Conditional
        => runs[t].status = "failed" \/ t \in forgot \/ Cardinality(Later(t)) >= OwnedMemory

\* An automation that is paused, completed or deleted while nobody holds a copy of it stays
\* as it is, and no loop takes it up: only a request to resume it changes that (pause,
\* delete_automation, pause_everything).
Holds(a, C) == \E x \in C : x.auto = a
Held(w, a) == Holds(a, runner[w].todo) \/ (Running(w) /\ runner[w].auto = a)
AtRest(a) ==
    /\ row[a].status \in {"paused", "completed", "deleted"}
    /\ \A w \in Loops : ~Held(w, a)
    /\ \A c \in Clients : ~Holds(a, client[c].todo)

StoppedRests ==
    [][\A a \in Autos : AtRest(a) =>
            /\ \A w \in Loops : ~Held(w, a)'
            /\ row'[a] = row[a] \/ row'[a].status = "deleted"
            /\ row[a].status # "paused" =>
                \A c \in Clients : Holds(a, client'[c].todo) => client'[c].op = "pause"
      ]_vars

\* An active automation whose slot has come is run for it, or stopped, however many are due
\* at once, as long as the loop lives, requests to resume do not go on for ever, and slots no
\* later than its own that can never run again (their keys are taken, so no run moves them
\* on) do not fill the loop's list (tick, store.due).
Ready(a) == row[a].status = "active" /\ row[a].next # Null /\ row[a].next <= now
Waits(a) == Ready(a) /\ ~Begun(a, row[a].next)
Crowded(a) ==
    Cardinality({b \in Timed : Ready(b) /\ Begun(b, row[b].next) /\ row[b].next <= row[a].next}) >= Limit
Resuming == \E c \in Clients : client[c].op \in {"resume", "resumeAll"}
DueIsTaken ==
    \A a \in Timed : Waits(a) ~> ~Waits(a) \/ Crowded(a) \/ Resuming \/ runner["tick"].at = "dead"
==============================================================================
