----------------------------- MODULE ModelQuota -----------------------------
(***************************************************************************)
(* Calls to the models of one provider, and what keeps them within its     *)
(* allowances: routing/model_router.py picks the candidates,               *)
(* routing/provider_health.py keeps cooldowns and a few slots per model,   *)
(* routing/quota_budgeter.py paces each request and counts it for the day, *)
(* providers/google.py sends it. There are three kinds of calls:           *)
(*   - planner and workers (runtime/planner.py, agents/autonomous_         *)
(*     worker.py) walk through the candidates, each in a slot, and         *)
(*     runtime/task_runtime.py walks through them for an answer in text;   *)
(*   - the triage (runtime/llm_triage.py) and the planner's mission plan   *)
(*     ask the first candidate;                                            *)
(*   - the research synthesizer (research/synthesizer.py) asks a model     *)
(*     that main.py fixed at start up.                                     *)
(* The last two look at no cooldown, take no slot and report neither       *)
(* success nor refusal. Whoever walks makes such direct calls as well.     *)
(*                                                                         *)
(* Callers interleave wherever they wait: for a slot, for the budgeter's   *)
(* lock, for a place in the window of the last minute, for the answer.     *)
(* The day may change and the process may restart at any of these; only    *)
(* the budgeter's file survives.                                           *)
(***************************************************************************)
EXTENDS Integers, FiniteSets, Sequences

CONSTANTS
    Callers,
    Slotted,        \* planner and workers, which take a slot; the others answer in text
    Direct,         \* those whose work has triage, mission plan or research in it as well
    Models,
    Compatible,     \* the models the policy, or main.py, lets each caller have
    Slots,          \* MAX_CONCURRENT_PER_MODEL
    MaxFallbacks,   \* budget.max_fallbacks
    PerMinute,      \* requests a model takes in a minute, the margin taken off
    PerDay,         \* ... and in a day
    Minute, DayLength, MaxWait,     \* in ticks: 60 s, a day, max_pace_wait_seconds
    Short, Long,    \* RATE_LIMIT_ and DAILY_QUOTA_COOLDOWN_SECONDS, in ticks
    LastAsk,        \* bound: no call begins later
    MaxTime,        \* bound on the clock
    MaxRestarts     \* bound

ASSUME QuotaAssumption ==
    /\ IsFiniteSet(Callers) /\ IsFiniteSet(Models)
    /\ Slotted \subseteq Callers /\ Direct \subseteq Callers
    /\ Compatible \in [Callers -> SUBSET Models]
    /\ {Slots, PerMinute, PerDay, Minute, DayLength, Short, Long} \subseteq Nat \ {0}
    /\ {MaxFallbacks, MaxWait, LastAsk, MaxTime, MaxRestarts} \subseteq Nat

VARIABLES
    now,
    meter,      \* the budgeter: _date, _counts, _clamped
    file,       \* quota-usage.json
    window,     \* _windows: when each model was asked, as far as remembered
    lock,       \* its asyncio.Lock: the holder and those behind it, first come first
    slots,      \* the semaphore of each model: those in front have a slot
    until,      \* rate_limited_until; 0 when there is none
    caller,     \* where each call is
    restarts,
    recent,     \* history: when each model was asked within the last minute
    today,      \* history: how often each model was asked today
    taught,     \* history: the models whose limit a 429 of today has taught
    unrouted,   \* history: how many requests of today went past the router
    after       \* history: requests sent to a model while its cooldown lasts, of callers
                \*          that walk

memory == <<meter, window, lock, slots, until, caller>>
past == <<recent, today, taught, unrouted, after>>
quotaVars == <<now, memory, file, restarts, past>>

Texts == Callers \ Slotted
Day(t) == t \div DayLength
Unclamped == -1
NoModel == "none"

Meter == [date : Nat, counts : [Models -> Nat], clamped : [Models -> Nat \cup {Unclamped}]]
NewDay == [date |-> Day(now), counts |-> [m \in Models |-> 0],
           clamped |-> [m \in Models |-> Unclamped]]

CallPoints == {"idle", "route", "next", "slot", "prepare", "lock", "sleep", "sent", "finish"}
CallKinds == {"walk", "first", "fixed"}
Call == [at : CallPoints, model : Models \cup {NoModel}, todo : Seq(Models), time : Nat,
         kind : CallKinds]
Idle == [at |-> "idle", model |-> NoModel, todo |-> <<>>, time |-> 0, kind |-> "walk"]

QuotaTypeOK ==
    /\ now \in 0..MaxTime
    /\ meter \in Meter /\ file \in Meter
    /\ window \in [Models -> Seq(Nat)] /\ recent \in [Models -> Seq(Nat)]
    /\ lock \in Seq(Callers) /\ slots \in [Models -> Seq(Callers)]
    /\ until \in [Models -> Nat]
    /\ caller \in [Callers -> Call]
    /\ restarts \in 0..MaxRestarts
    /\ today \in [Models -> Nat] /\ unrouted \in [Models -> Nat] /\ after \in [Models -> Nat]
    /\ taught \subseteq Models

QuotaInit ==
    /\ now = 0
    /\ meter = NewDay
    /\ file = NewDay
    /\ window = [m \in Models |-> <<>>]
    /\ lock = <<>>
    /\ slots = [m \in Models |-> <<>>]
    /\ until = [m \in Models |-> 0]
    /\ caller = [c \in Callers |-> Idle]
    /\ restarts = 0
    /\ recent = [m \in Models |-> <<>>]
    /\ today = [m \in Models |-> 0]
    /\ taught = {}
    /\ unrouted = [m \in Models |-> 0]
    /\ after = [m \in Models |-> 0]

Goes(c, at) == caller' = [caller EXCEPT ![c].at = at]
Leaving(c, queue) ==
    IF ~\E i \in DOMAIN queue : queue[i] = c THEN queue
    ELSE LET i == CHOOSE i \in DOMAIN queue : queue[i] = c
         IN [j \in 1..(Len(queue) - 1) |-> IF j < i THEN queue[j] ELSE queue[j + 1]]

\* Mutant: the lock is left in the hands of a caller that is gone.
LeaveLocked(c) == slots' = [m \in Models |-> Leaving(c, slots[m])] /\ UNCHANGED lock

\* The semaphore and the lock let a caller go wherever its `async with` ends.
Leave(c) ==
    /\ slots' = [m \in Models |-> Leaving(c, slots[m])]
    /\ lock' = Leaving(c, lock)

------------------------------------------------------------------------------
(* QuotaBudgeter: the meter.                                                *)

Rolled == IF meter.date = Day(now) THEN meter ELSE NewDay

DailyLimit(x, m) == IF x.clamped[m] # Unclamped THEN x.clamped[m] ELSE PerDay

\* Mutant: the allowance is taken for used up one request too late.
ExhaustedLate(x, m) == x.counts[m] > DailyLimit(x, m)
Exhausted(x, m) == x.counts[m] >= DailyLimit(x, m)

\* A daily 429: what was counted today is the allowance, unless a smaller one is known.
Clamps(x, m) == x.counts[m] > 0 /\ (x.clamped[m] = Unclamped \/ x.clamped[m] > x.counts[m])
Clamped(x, m) == IF Clamps(x, m) THEN [x EXCEPT !.clamped[m] = x.counts[m]] ELSE x

------------------------------------------------------------------------------
(* ModelRouter.route: it awaits between its looks at the models. Their order *)
(* and which of them it keeps (their scores, and the recent failures of the  *)
(* provider) are left open.                                                  *)

Route(c) ==
    /\ caller[c].at = "idle" /\ now <= LastAsk
    /\ \E kind \in IF c \in Direct THEN {"walk", "first"} ELSE {"walk"} :
         caller' = [caller EXCEPT ![c] = [Idle EXCEPT !.at = "route", !.kind = kind]]
    /\ UNCHANGED <<now, meter, file, window, lock, slots, until, restarts, past>>

Walks(c) == caller[c].kind = "walk"

\* A direct call takes the first candidate and no fallback.
Breadth(c) == IF Walks(c) THEN 1 + MaxFallbacks ELSE 1

Look(c) ==
    /\ caller[c].at = "route"
    /\ meter' = Rolled
    /\ \/ UNCHANGED caller
       \/ /\ Len(caller[c].todo) < Breadth(c)
          /\ \E m \in Compatible[c] :
               /\ ~\E i \in DOMAIN caller[c].todo : caller[c].todo[i] = m
               /\ ~Exhausted(Rolled, m)
               /\ caller' = [caller EXCEPT ![c].todo = Append(@, m)]
    /\ UNCHANGED <<now, file, window, lock, slots, until, restarts, past>>

------------------------------------------------------------------------------
(* The walk through the candidates: _call_with_fallback, _decide, and the   *)
(* loop over models of _run.                                                *)

Cooling(m) == until[m] > now

\* No candidate is left: the last error is raised.
GivesUp(c) ==
    /\ caller[c].at \in {"route", "next"} /\ caller[c].todo = <<>>
    /\ caller' = [caller EXCEPT ![c] = Idle]
    /\ UNCHANGED <<now, meter, file, window, lock, slots, until, restarts, past>>

NextModel(c) ==
    /\ caller[c].at \in {"route", "next"} /\ caller[c].todo # <<>> /\ Walks(c)
    /\ LET m == Head(caller[c].todo)
           taken == [caller[c] EXCEPT !.model = m, !.todo = Tail(@)] IN
       \/ /\ Cooling(m)
          /\ caller' = [caller EXCEPT ![c] = [taken EXCEPT !.at = "next"]]
          /\ UNCHANGED slots
       \/ /\ ~Cooling(m) /\ c \in Slotted
          /\ caller' = [caller EXCEPT ![c] = [taken EXCEPT !.at = "slot"]]
          /\ slots' = [slots EXCEPT ![m] = Append(@, c)]
       \/ /\ ~Cooling(m) /\ c \in Texts
          /\ caller' = [caller EXCEPT ![c] = [taken EXCEPT !.at = "prepare"]]
          /\ UNCHANGED slots
    /\ UNCHANGED <<now, meter, file, window, lock, until, restarts, past>>

HasSlot(c, m) == \E i \in 1..Len(slots[m]) : i <= Slots /\ slots[m][i] = c

\* The wait for the budgeter's lock is part of the time a request may wait; the bound on the
\* clock ends every wait.
Deadline == IF now + MaxWait < MaxTime THEN now + MaxWait ELSE MaxTime
JoinLock(c, call) ==
    /\ caller' = [caller EXCEPT ![c] = [call EXCEPT !.at = "lock", !.time = Deadline]]
    /\ lock' = Append(lock, c)

\* Mutant: the cooldown that began while the caller waited for its slot is not seen.
RefusedNever(m) == FALSE

\* In its slot a caller looks at the cooldown again.
Refused(m) == Cooling(m)
InSlot(c) ==
    /\ caller[c].at = "slot" /\ HasSlot(c, caller[c].model)
    /\ IF Refused(caller[c].model)
         THEN Leave(c) /\ Goes(c, "next")
         ELSE JoinLock(c, caller[c]) /\ UNCHANGED slots
    /\ UNCHANGED <<now, meter, file, window, until, restarts, past>>

\* A text caller announces the model and saves its task first; the response cache may have
\* its answer (BaseProvider.structured_output).
Prepared(c) ==
    /\ caller[c].at = "prepare"
    /\ \/ JoinLock(c, caller[c])
       \/ Goes(c, "finish") /\ UNCHANGED lock
    /\ UNCHANGED <<now, meter, file, window, slots, until, restarts, past>>

\* Triage and mission plan ask the first candidate as it is, unless the cache has the answer.
AsksFirst(c) ==
    /\ caller[c].at = "route" /\ caller[c].todo # <<>> /\ ~Walks(c)
    /\ \/ JoinLock(c, [caller[c] EXCEPT !.model = Head(caller[c].todo), !.todo = <<>>])
       \/ caller' = [caller EXCEPT ![c] = Idle] /\ UNCHANGED lock
    /\ UNCHANGED <<now, meter, file, window, slots, until, restarts, past>>

\* The synthesizer asks its model, which no router has looked at.
Synthesize(c) ==
    /\ caller[c].at = "idle" /\ now <= LastAsk /\ c \in Direct
    /\ \E m \in Compatible[c] : JoinLock(c, [Idle EXCEPT !.model = m, !.kind = "fixed"])
    /\ UNCHANGED <<now, meter, file, window, slots, until, restarts, past>>

------------------------------------------------------------------------------
(* QuotaBudgeter.acquire and _paced_post: a place in the minute, the count   *)
(* of the day, and the request, without a wait in between.                   *)

\* The requests at the front that are a minute old at the time t are dropped.
LastMinute(asked, t) ==
    LET old == CHOOSE n \in 0..Len(asked) : /\ \A i \in 1..n : t - asked[i] >= Minute
                                            /\ n < Len(asked) => t - asked[n + 1] < Minute
    IN SubSeq(asked, old + 1, Len(asked))
Remembered(m) == LastMinute(window[m], now)

Routed(c) == caller[c].kind # "fixed"

Room(m) == Len(Remembered(m)) < PerMinute

Send(c, m, x) ==
    LET counted == [x EXCEPT !.counts[m] = @ + 1] IN
    /\ window' = [window EXCEPT ![m] = Append(Remembered(m), now)]
    /\ meter' = counted
    /\ file' = counted
    /\ lock' = Leaving(c, lock)
    /\ caller' = [caller EXCEPT ![c].at = "sent", ![c].time = 0]
    /\ recent' = [recent EXCEPT ![m] = Append(@, now)]
    /\ today' = [today EXCEPT ![m] = @ + 1]
    /\ unrouted' = IF Routed(c) THEN unrouted ELSE [unrouted EXCEPT ![m] = @ + 1]
    /\ after' = [after EXCEPT ![m] = IF ~Cooling(m) THEN 0 ELSE IF Walks(c) THEN @ + 1 ELSE @]
    /\ UNCHANGED <<slots, until>>

\* A cooldown never gets shorter by another answer that asks for one.
Longer(m, span) == IF until[m] > now + span THEN until[m] ELSE now + span
CoolDown(m, span) ==
    /\ until' = [until EXCEPT ![m] = Longer(m, span)]
    /\ after' = [after EXCEPT ![m] = IF Cooling(m) THEN @ ELSE 0]

\* A refusal is recorded by those that walk on from it; a direct call swallows it.
Refusal(c, m, span) ==
    IF Walks(c)
      THEN Goes(c, "next") /\ CoolDown(m, span)
      ELSE caller' = [caller EXCEPT ![c] = Idle] /\ UNCHANGED <<until, after>>

\* No place came free in time: to the walk this is a rate limit like any other.
TimesOut(c, m, x) ==
    /\ window' = [window EXCEPT ![m] = Remembered(m)]
    /\ meter' = x
    /\ Refusal(c, m, Short)
    /\ Leave(c)
    /\ UNCHANGED <<file, recent, today, unrouted>>

\* The caller sleeps until the oldest request is a minute old, with the lock in its hands.
Sleeps(c, m, x, deadline) ==
    /\ window' = [window EXCEPT ![m] = Remembered(m)]
    /\ meter' = x
    /\ caller' = [caller EXCEPT ![c].at = "sleep", ![c].time = deadline]
    /\ UNCHANGED <<file, lock, slots, until, recent, today, unrouted, after>>

\* The date is looked at when the lock is taken, not after a sleep.
Attempt(c, x) ==
    LET m == caller[c].model
        deadline == caller[c].time IN
    \/ Room(m) /\ Send(c, m, x)
    \/ ~Room(m) /\ now >= deadline /\ TimesOut(c, m, x)
    \/ ~Room(m) /\ now < deadline /\ Sleeps(c, m, x, deadline)

HasLock(c) == lock # <<>> /\ Head(lock) = c

Acquire(c) ==
    /\ caller[c].at = "lock" /\ HasLock(c)
    /\ Attempt(c, Rolled)
    /\ UNCHANGED <<now, restarts, taught>>

Wakes(c) ==
    /\ caller[c].at = "sleep"
    /\ Room(caller[c].model) \/ now >= caller[c].time
    /\ Attempt(c, meter)
    /\ UNCHANGED <<now, restarts, taught>>

------------------------------------------------------------------------------
(* The answer.                                                              *)

\* clamp_daily; the date is looked at again, so a late answer speaks of the new day.
Teaches(m) ==
    LET x == Clamped(Rolled, m) IN
    /\ meter' = x
    /\ file' = IF Clamps(Rolled, m) THEN x ELSE file
    /\ taught' = IF Rolled.counts[m] > 0 THEN taught \cup {m} ELSE taught

Limited(c) ==
    LET m == caller[c].model IN
    /\ caller[c].at = "sent"
    /\ \/ Refusal(c, m, Short) /\ UNCHANGED <<meter, file, taught>>
       \/ Refusal(c, m, Long) /\ Teaches(m)
    /\ Leave(c)
    /\ UNCHANGED <<now, window, restarts, recent, today, unrouted>>

\* record_success: the cooldown another caller caused meanwhile is gone as well.
Succeeds(c) ==
    LET m == caller[c].model IN
    /\ until' = [until EXCEPT ![m] = 0]
    /\ after' = [after EXCEPT ![m] = 0]
    /\ Leave(c)
    /\ caller' = [caller EXCEPT ![c] = Idle]

\* A text caller carries its task to the end before it reports the success; a direct
\* call reports none.
Answered(c) ==
    /\ caller[c].at = "sent"
    /\ \/ Walks(c) /\ c \in Slotted /\ Succeeds(c)
       \/ Walks(c) /\ c \in Texts /\ Goes(c, "finish") /\ UNCHANGED <<until, slots, lock, after>>
       \/ /\ ~Walks(c)
          /\ Leave(c) /\ caller' = [caller EXCEPT ![c] = Idle] /\ UNCHANGED <<until, after>>
    /\ UNCHANGED <<now, meter, file, window, restarts, recent, today, taught, unrouted>>

Finished(c) ==
    /\ caller[c].at = "finish"
    /\ Succeeds(c)
    /\ UNCHANGED <<now, meter, file, window, restarts, recent, today, taught, unrouted>>

\* Any other error ends the call; a text caller goes on to the next model.
Fails(c) ==
    /\ caller[c].at \in {"sent", "finish"}
    /\ Leave(c)
    /\ IF Walks(c) /\ c \in Texts THEN Goes(c, "next") ELSE caller' = [caller EXCEPT ![c] = Idle]
    /\ UNCHANGED <<now, meter, file, window, until, restarts, past>>

\* The task is cancelled, or a worker's time is up (wait_for in MultiAgentOrchestrator.execute),
\* wherever it waits.
CallCancelled(c) ==
    /\ caller[c].at \in {"route", "slot", "prepare", "lock", "sleep", "sent", "finish"}
    /\ Leave(c)
    /\ caller' = [caller EXCEPT ![c] = Idle]
    /\ UNCHANGED <<now, meter, file, window, until, restarts, past>>

------------------------------------------------------------------------------
(* The clock and the process.                                               *)

Tick ==
    /\ now < MaxTime
    /\ now' = now + 1
    /\ recent' = [m \in Models |-> LastMinute(recent[m], now + 1)]
    /\ today' = IF Day(now + 1) = Day(now) THEN today ELSE [m \in Models |-> 0]
    /\ taught' = IF Day(now + 1) = Day(now) THEN taught ELSE {}
    /\ unrouted' = IF Day(now + 1) = Day(now) THEN unrouted ELSE [m \in Models |-> 0]
    /\ UNCHANGED <<memory, file, restarts, after>>

\* Mutant: the file is not read.
LoadedNever == NewDay
Loaded == IF file.date = Day(now) THEN file ELSE NewDay

Restart ==
    /\ restarts < MaxRestarts
    /\ restarts' = restarts + 1
    /\ meter' = Loaded
    /\ window' = [m \in Models |-> <<>>]
    /\ lock' = <<>>
    /\ slots' = [m \in Models |-> <<>>]
    /\ until' = [m \in Models |-> 0]
    /\ caller' = [c \in Callers |-> Idle]
    /\ after' = [m \in Models |-> 0]
    /\ UNCHANGED <<now, file, recent, today, taught, unrouted>>

Step(c) ==
    \/ Look(c) \/ GivesUp(c) \/ NextModel(c) \/ InSlot(c) \/ Prepared(c) \/ AsksFirst(c)
    \/ Acquire(c) \/ Wakes(c)
    \/ Limited(c) \/ Answered(c) \/ Finished(c) \/ Fails(c)

QuotaNext ==
    \/ \E c \in Callers : Route(c) \/ Synthesize(c) \/ Step(c) \/ CallCancelled(c)
    \/ Tick
    \/ Restart

QuotaSpec == QuotaInit /\ [][QuotaNext]_quotaVars

------------------------------------------------------------------------------
(* What the callers may rely on.                                            *)

\* No model is asked more often in a minute than the pace, but for a restart, which forgets
\* the window; and what calls that the router let through asked it today and may still ask is
\* never more than its allowance and one request of each caller: however calls, waits,
\* midnight and restarts overlap (acquire, exhausted). The synthesizer's requests are past
\* the router, so nothing but the pace bounds them: they use the allowance up for others.
MayAsk(c, m) ==
    /\ Routed(c)
    /\ \/ \E i \in DOMAIN caller[c].todo : caller[c].todo[i] = m
       \/ caller[c].model = m /\ caller[c].at \in {"slot", "prepare", "lock", "sleep"}
WithinAllowance ==
    \A m \in Models :
        /\ Len(recent[m]) <= PerMinute * (1 + restarts)
        /\ today[m] + Cardinality({c \in Callers : MayAsk(c, m)})
             <= PerDay + Cardinality(Callers) + unrouted[m]

\* The counter of the day misses at most one request of all models, the one that waited in
\* the window over midnight; and what a 429 has taught holds for the rest of the day, over
\* restarts too (acquire, clamp_daily, _load, _roll_date_if_needed).
Missed(m) == today[m] - (IF meter.date = Day(now) THEN meter.counts[m] ELSE 0)
MeterIsTrue ==
    /\ \A m \in Models : Missed(m) <= 1
    /\ Cardinality({m \in Models : Missed(m) > 0}) <= 1
    /\ \A m \in taught : meter.date = Day(now) /\ Exhausted(meter, m)

\* While a model's cooldown lasts, the callers that walk send it no request but those that
\* were past their last look: one for each slot and each text caller, less the one that was
\* refused (slot, "Re-check `rate_limited` INSIDE the slot"). The direct calls look at no
\* cooldown and report no refusal: they neither respect one nor begin one.
CooldownHolds ==
    \A m \in Models : Cooling(m) => after[m] < Slots + Cardinality(Texts)

\* Nobody keeps the lock or a slot, or a place before others in their queues, who is not
\* there himself, whether he was answered, refused, timed out or cancelled: one that stays
\* behind would stop every later request, of all models or of one (acquire, slot).
NothingLeaks ==
    /\ lock # <<>> => caller[Head(lock)].at \in {"lock", "sleep"}
    /\ \A i, j \in DOMAIN lock : i # j => lock[i] # lock[j]
    /\ \A i \in DOMAIN lock : i > 1 => caller[lock[i]].at = "lock"
    /\ \A m \in Models : \A i \in DOMAIN slots[m] :
        LET c == slots[m][i] IN
        /\ caller[c].model = m
        /\ caller[c].at \in IF i <= Slots THEN {"slot", "lock", "sleep", "sent"} ELSE {"slot"}
==============================================================================
