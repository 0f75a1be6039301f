-------------------------- MODULE AutomationProofs --------------------------
(***************************************************************************)
(* What TLAPS proves of Automations, for any automations, any number of    *)
(* requests, any limits and any number of faults: the slots an automation  *)
(* runs for only go forward, no day has more runs than the budget, an      *)
(* automation is not set off by its own task, and what is stopped rests.   *)
(***************************************************************************)
EXTENDS Automations, SequenceTheorems, FiniteSetTheorems, TLAPS

\* The automations a loop runs: the scheduler's the timed ones, the event loop's the others.
AutosOf(w) == IF w = "tick" THEN Timed ELSE Conditional
Working(w) == runner[w].at \notin {"idle", "dead"}
Starting(w) == runner[w].at \in {"begin", "act"}

LoopState == [at : Points, todo : SUBSET Copy, now : 0..MaxTime, event : Event,
              auto : Autos \cup {Null}, copy : Row, run : Nat]

\* A loop holds copies of automations that exist, of its own kind, and the run it acts for is
\* that of the automation at hand.
LoopsSound ==
    /\ runner \in [Loops -> LoopState]
    /\ \A w \in Loops :
        /\ runner[w].now <= now
        /\ \A x \in runner[w].todo : x.auto \in AutosOf(w) /\ x.row.status # "none"
        /\ Running(w) => runner[w].auto \in AutosOf(w) /\ runner[w].copy.status # "none"
        /\ Acting(w) => runs[runner[w].run].auto = runner[w].auto

\* What the scheduler holds is due.
HoldsDue ==
    /\ \A x \in runner["tick"].todo : x.row.next # Null /\ x.row.next <= runner["tick"].now
    /\ Starting("tick") =>
        /\ runner["tick"].copy.next # Null
        /\ runner["tick"].copy.next <= runner["tick"].now

\* Events are about tasks of runs that have begun, and requests hold automations that exist.
Past ==
    /\ \A i \in DOMAIN queue : queue[i].task \in DOMAIN runs \cup {NoTask}
    /\ \A w \in Loops : runner[w].event.task \in DOMAIN runs \cup {NoTask}
    /\ Acting("event") => runner["event"].event.task < runner["event"].run
    /\ \A c \in Clients : \A x \in client[c].todo : x.row.status # "none"

Typed == TypeOK /\ LoopsSound /\ HoldsDue /\ Past

------------------------------------------------------------------------------
(* Slots.                                                                   *)

\* A slot that a row of the automation names: the one in the table, or a copy that somebody
\* may save back.
Near(a, slot) ==
    \/ row[a].next = slot
    \/ \E x \in runner["tick"].todo : x.auto = a /\ x.row.next = slot
    \/ Running("tick") /\ runner["tick"].auto = a /\ runner["tick"].copy.next = slot
    \/ \E c \in Clients : \E x \in client[c].todo : x.auto = a /\ x.row.next = slot

\* A slot that some row of the automation names and that has not been run.
Ahead(a, slot) == Near(a, slot) /\ ~Begun(a, slot)

\* Every row of an automation names one and the same slot ahead, later than all that have been
\* run, or one that has been run; while the scheduler acts for it none names one ahead.
ActsFor(a) == runner["tick"].at = "act" /\ runner["tick"].auto = a
OneAheadOf(a) ==
    \A s \in Times : Ahead(a, s) =>
        /\ \A t \in Times : Ahead(a, t) => t = s
        /\ \A i \in DOMAIN runs : runs[i].auto = a => runs[i].basis < s
        /\ ~ActsFor(a)
OneAhead == \A a \in Timed : OneAheadOf(a)

\* Only slots that had come have been run, and an automation without a row has none.
BegunCame ==
    \A i \in DOMAIN runs : runs[i].auto \in Timed =>
        /\ runs[i].basis <= now
        /\ runner["tick"].at \notin {"idle", "dead"} => runs[i].basis <= runner["tick"].now

Uncreated ==
    \A a \in Autos : row[a].status = "none" =>
        /\ row[a] = Missing
        /\ ~\E i \in DOMAIN runs : runs[i].auto = a
        /\ \A w \in Loops : ~Held(w, a)
        /\ \A c \in Clients : ~Holds(a, client[c].todo)

Advancing == Typed /\ OneAhead /\ BegunCame /\ Uncreated /\ SlotsAdvance

------------------------------------------------------------------------------
(* Budget and events.                                                       *)

RunsSince(a, t) == {i \in DOMAIN runs : runs[i].auto = a /\ Day(runs[i].at) >= Day(t)}

\* The count still holds when the run is inserted.
Counted ==
    \A w \in Loops : runner[w].at = "begin" =>
        Cardinality(RunsSince(runner[w].auto, runner[w].now)) < MaxRunsPerDay

Budgeted == Typed /\ Counted /\ DailyBudget

\* The run the event loop is acting for.
InHand(i) == Acting("event") /\ runner["event"].run = i
Owned(i) == \E k \in DOMAIN owned : owned[k] = i

\* The memory of the event loop is full, of later runs.
Evicted(i) == Len(owned) = OwnedMemory /\ \A k \in DOMAIN owned : owned[k] > i
Forgotten(i) == runs[i].status = "failed" \/ i \in forgot

\* The memory holds runs that are over, in their order, all earlier than the one in hand.
MemorySound ==
    /\ \A k, l \in DOMAIN owned : k < l => owned[k] < owned[l]
    /\ \A k \in DOMAIN owned : owned[k] \in Later(0)
    /\ Acting("event") =>
        /\ \A k \in DOMAIN owned : owned[k] < runner["event"].run
        /\ runs[runner["event"].run].status = "running" <=> runner["event"].at = "act"

\* The task of a conditional run is remembered or about to be, or its place has been taken.
Remembered ==
    /\ MemorySound
    /\ \A i \in DOMAIN runs :
        runs[i].auto \in Conditional => Forgotten(i) \/ Owned(i) \/ Evicted(i) \/ InHand(i)

Untriggered ==
    LET t == runner["event"].event.task IN
    Working("event") /\ t # NoTask /\ runs[t].auto \in Conditional
        => Forgotten(t) \/ Cardinality(Later(t)) >= OwnedMemory

Heeding == Typed /\ Remembered /\ Untriggered

------------------------------------------------------------------------------
(* The constants and the parts of the state.                                *)

LEMMA Assumed ==
    /\ MaxTime \in Nat /\ Interval \in Nat \ {0} /\ Limit \in Nat \ {0} /\ DayLength \in Nat \ {0}
    /\ QueueSize \in Nat \ {0} /\ MaxRunsPerDay \in Nat \ {0} /\ OwnedMemory \in Nat \ {0}
    /\ Debounce \in Nat /\ MaxEvents \in Nat /\ MaxFaults \in Nat
    /\ OneTime \cap Recurring = {} /\ Timed \cap Conditional = {}
  BY AutomationAssumption

LEMMA TimesAre ==
    /\ 0..MaxTime \subseteq Times /\ Null \notin Times /\ Times \subseteq Nat
    /\ \A t \in 0..MaxTime : t + Interval \in Times
  BY Assumed DEF Times, Null

LEMMA TypeParts ==
    ASSUME Typed
    PROVE  /\ now \in 0..MaxTime /\ row \in [Autos -> Row] /\ runs \in Seq(Run)
           /\ runner \in [Loops -> LoopState] /\ client \in [Clients -> Request]
           /\ owned \in Seq(DOMAIN runs) /\ Len(owned) <= OwnedMemory
           /\ forgot \subseteq DOMAIN runs /\ live \subseteq DOMAIN runs
           /\ queue \in Seq(Event) /\ Len(queue) <= QueueSize
           /\ published \in 0..MaxEvents /\ faults \in 0..MaxFaults
           /\ \A w \in Loops : /\ Running(w) => runner[w].auto \in Autos
                               /\ Acting(w) => runner[w].run \in DOMAIN runs
  BY DEF Typed, TypeOK, LoopsSound

LEMMA RunsAre ==
    ASSUME Typed
    PROVE  /\ Len(runs) \in Nat /\ DOMAIN runs = 1..Len(runs)
           /\ \A i \in DOMAIN runs : runs[i] \in Run
  BY TypeParts, LenProperties, ElementOfSeq

LEMMA IdleIs ==
    /\ Idle \in LoopState
    /\ Idle.at = "idle" /\ Idle.todo = {} /\ Idle.now = 0 /\ Idle.event = NoEvent
  <1>1. NoEvent \in Event /\ Missing \in Row /\ 0 \in 0..MaxTime
    BY Assumed DEF NoEvent, Event, NoTask, Missing, Row
  <1> QED BY <1>1 DEF Idle, LoopState, Points

LEMMA OnwardIs ==
    ASSUME NEW r \in LoopState
    PROVE  /\ Onward(r) \in LoopState
           /\ \/ Onward(r) = Idle
              \/ /\ Onward(r).at = "next" /\ Onward(r).todo = r.todo /\ Onward(r).now = r.now
                 /\ Onward(r).event = r.event
  <1>1. CASE r.todo = {}
    BY <1>1, IdleIs DEF Onward
  <1>2. CASE r.todo # {}
    <2>1. Onward(r) = [r EXCEPT !.at = "next"] /\ "next" \in Points
      BY <1>2 DEF Onward, Points
    <2> QED BY <2>1, Zenon DEF LoopState
  <1> QED BY <1>1, <1>2

\* What one loop does to its state leaves the other's alone.
LEMMA LoopPut ==
    ASSUME Typed, NEW w \in Loops, NEW s \in LoopState, runner' = [runner EXCEPT ![w] = s]
    PROVE  /\ runner' \in [Loops -> LoopState]
           /\ runner'[w] = s
           /\ \A v \in Loops : v # w => runner'[v] = runner[v]
  BY TypeParts

------------------------------------------------------------------------------
(* What each step of a loop does.                                           *)

Listing(D) == {[auto |-> a, row |-> row[a]] : a \in D}

LEMMA ListingIs ==
    ASSUME Typed, NEW D \in SUBSET Autos
    PROVE  /\ Listing(D) \subseteq Copy
           /\ \A x \in Listing(D) : x.auto \in D /\ x.row = row[x.auto]
  BY TypeParts DEF Listing, Copy

LEMMA TickListDoes ==
    ASSUME Typed, TickList
    PROVE  \E D \in SUBSET Due :
            /\ runner' \in [Loops -> LoopState]
            /\ \A v \in Loops : v # "tick" => runner'[v] = runner[v]
            /\ runner'["tick"].at = "next" /\ runner'["tick"].now = now
            /\ runner'["tick"].event = NoEvent
            /\ runner'["tick"].todo = Listing(D)
  <1>1. PICK D \in SUBSET Due :
            runner' = [runner EXCEPT !["tick"] =
                [Idle EXCEPT !.at = "next", !.now = now, !.todo = Listing(D)]]
    BY DEF TickList, Listing
  <1> DEFINE s == [Idle EXCEPT !.at = "next", !.now = now, !.todo = Listing(D)]
  <1>2. D \in SUBSET Autos
    BY DEF Due, Autos
  <1>3. Listing(D) \subseteq Copy /\ "next" \in Points /\ "tick" \in Loops
    BY <1>2, ListingIs DEF Points, Loops
  <1>4. now \in 0..MaxTime
    BY TypeParts
  <1>5. /\ s \in LoopState /\ s.at = "next" /\ s.now = now /\ s.todo = Listing(D)
        /\ s.event = NoEvent
    BY <1>3, <1>4, IdleIs, Zenon DEF LoopState
  <1>6. runner' = [runner EXCEPT !["tick"] = s]
    BY <1>1
  <1> HIDE DEF s
  <1>7. /\ runner' \in [Loops -> LoopState] /\ runner'["tick"] = s
        /\ \A v \in Loops : v # "tick" => runner'[v] = runner[v]
    BY <1>3, <1>5, <1>6, LoopPut
  <1> QED BY <1>5, <1>7

LEMMA TakeEventDoes ==
    ASSUME Typed, TakeEvent, ~UNCHANGED runner
    PROVE  /\ ~Own(Head(queue))
           /\ runner' \in [Loops -> LoopState]
           /\ \A v \in Loops : v # "event" => runner'[v] = runner[v]
           /\ \/ runner'["event"] = Idle
              \/ /\ runner'["event"].at = "next" /\ runner'["event"].now = now
                 /\ runner'["event"].event = Head(queue)
                 /\ \E M \in SUBSET Matching : runner'["event"].todo = Listing(M)
  <1>1. PICK M \in SUBSET Matching :
            runner' = [runner EXCEPT !["event"] =
                Onward([Idle EXCEPT !.now = now, !.event = Head(queue), !.todo = Listing(M)])]
    BY DEF TakeEvent, Listing
  <1> DEFINE s == [Idle EXCEPT !.now = now, !.event = Head(queue), !.todo = Listing(M)]
  <1>2. M \in SUBSET Autos
    BY DEF Matching, Autos
  <1>3. Listing(M) \subseteq Copy /\ "event" \in Loops
    BY <1>2, ListingIs DEF Loops
  <1>4. now \in 0..MaxTime /\ Head(queue) \in Event
    BY TypeParts, HeadTailProperties DEF TakeEvent
  <1>5. s \in LoopState /\ s.now = now /\ s.todo = Listing(M) /\ s.event = Head(queue)
    BY <1>3, <1>4, IdleIs, Zenon DEF LoopState
  <1>6. runner' = [runner EXCEPT !["event"] = Onward(s)]
    BY <1>1
  <1>7. ~Own(Head(queue))
    BY DEF TakeEvent
  <1> HIDE DEF s
  <1> QED BY <1>3, <1>5, <1>6, <1>7, LoopPut, OnwardIs

LEMMA CountDoes ==
    ASSUME Typed, NEW w \in Loops, Count(w)
    PROVE  \E x \in runner[w].todo :
            /\ runner' \in [Loops -> LoopState]
            /\ \A v \in Loops : v # w => runner'[v] = runner[v]
            /\ runner'[w].at \in {"spent", "begin"} /\ runner'[w].auto = x.auto
            /\ runner'[w].todo = runner[w].todo \ {x}
            /\ runner'[w].now = runner[w].now /\ runner'[w].event = runner[w].event
            /\ runner'[w].copy.next = x.row.next
            /\ runner'[w].copy.status \in {x.row.status, "paused"}
            /\ runner'[w].at = "begin" => ~Spent(x.auto, runner[w].now)
  <1>1. PICK x \in runner[w].todo :
            LET r == [runner[w] EXCEPT !.auto = x.auto, !.copy = x.row, !.todo = @ \ {x}] IN
            runner' = [runner EXCEPT ![w] =
                IF Spent(x.auto, r.now) THEN [r EXCEPT !.at = "spent", !.copy.status = "paused"]
                ELSE [r EXCEPT !.at = "begin"]]
    BY DEF Count
  <1> DEFINE l == runner[w]
             r == [l EXCEPT !.auto = x.auto, !.copy = x.row, !.todo = l.todo \ {x}]
             p == [x.row EXCEPT !.status = "paused"]
             s == IF Spent(x.auto, r.now) THEN [r EXCEPT !.at = "spent", !.copy = p]
                  ELSE [r EXCEPT !.at = "begin"]
  <1>2. l \in LoopState /\ x \in Copy /\ l.todo \ {x} \subseteq Copy
    BY TypeParts DEF LoopState
  <1>3. x.auto \in Autos \cup {Null} /\ x.row \in Row
    BY <1>2 DEF Copy
  <1>4. p \in Row /\ p.next = x.row.next /\ p.status = "paused"
    BY <1>3, Zenon DEF Row
  <1>5. /\ r \in LoopState /\ r.auto = x.auto /\ r.copy = x.row /\ r.todo = l.todo \ {x}
        /\ r.now = l.now /\ r.event = l.event /\ r.run = l.run
    BY <1>2, <1>3, Zenon DEF LoopState
  <1>6. /\ runner[w] = l
        /\ [r EXCEPT !.at = "spent", !.copy.status = "paused"] = [r EXCEPT !.at = "spent", !.copy = p]
    BY <1>5, Zenon DEF LoopState
  <1>7. runner' = [runner EXCEPT ![w] = s]
    BY <1>1, <1>6
  <1> HIDE DEF l, r, p
  <1>8. "spent" \in Points /\ "begin" \in Points
    BY DEF Points
  <1>9. /\ s \in LoopState /\ s.at \in {"spent", "begin"} /\ s.auto = x.auto
        /\ s.todo = l.todo \ {x} /\ s.now = l.now /\ s.event = l.event
        /\ s.copy = p \/ s.copy = x.row
        /\ s.at = "begin" => ~Spent(x.auto, r.now)
    <2>1. CASE Spent(x.auto, r.now)
      <3>1. s = [r EXCEPT !.at = "spent", !.copy = p]
        BY <2>1
      <3> HIDE DEF s
      <3> QED BY <1>4, <1>5, <1>8, <3>1, Zenon DEF LoopState
    <2>2. CASE ~Spent(x.auto, r.now)
      <3>1. s = [r EXCEPT !.at = "begin"]
        BY <2>2
      <3> HIDE DEF s
      <3>2. s \in LoopState /\ s.at = "begin" /\ s.auto = r.auto /\ s.todo = r.todo /\ s.now = r.now
            /\ s.event = r.event /\ s.copy = r.copy
        BY <1>5, <1>8, <3>1, Zenon DEF LoopState
      <3> QED BY <1>5, <2>2, <3>2
    <2> QED BY <2>1, <2>2
  <1> HIDE DEF s
  <1>10. /\ runner' \in [Loops -> LoopState] /\ runner'[w] = s
         /\ \A v \in Loops : v # w => runner'[v] = runner[v]
    BY <1>7, <1>9, LoopPut
  <1> QED BY <1>4, <1>5, <1>6, <1>9, <1>10

LEMMA BeginDoes ==
    ASSUME Typed, NEW w \in Loops, Begin(w), ~Taken(runner[w].auto, Basis(w))
    PROVE  /\ runner' \in [Loops -> LoopState]
           /\ \A v \in Loops : v # w => runner'[v] = runner[v]
           /\ runner'[w].at = "act" /\ runner'[w].run = Len(runs) + 1
           /\ runner'[w].todo = runner[w].todo /\ runner'[w].now = runner[w].now
           /\ runner'[w].event = runner[w].event /\ runner'[w].auto = runner[w].auto
           /\ runner'[w].copy = runner[w].copy
  <1> DEFINE s == [runner[w] EXCEPT !.at = "act", !.run = Len(runs) + 1]
  <1>1. runner[w] \in LoopState /\ "act" \in Points /\ Len(runs) + 1 \in Nat
    BY TypeParts, RunsAre DEF Points
  <1>2. /\ s \in LoopState /\ s.at = "act" /\ s.run = Len(runs) + 1 /\ s.todo = runner[w].todo
        /\ s.now = runner[w].now /\ s.event = runner[w].event /\ s.auto = runner[w].auto
        /\ s.copy = runner[w].copy
    BY <1>1, Zenon DEF LoopState
  <1>3. runner' = [runner EXCEPT ![w].at = "act", ![w].run = Len(runs) + 1]
    BY DEF Begin
  <1>4. runner' = [runner EXCEPT ![w] = s]
    BY <1>3, TypeParts, Zenon
  <1> HIDE DEF s
  <1> QED BY <1>2, <1>4, LoopPut

\* The row a run's action leaves behind, and the run's own row.
LEMMA AdvancedIs ==
    ASSUME Typed, NEW w \in Loops, Acting(w)
    PROVE  /\ Advanced(w) \in Row /\ Advanced(w).status # "none"
           /\ \/ Advanced(w).next \in {Null, runner[w].copy.next}
              \/ runner[w].auto \in Recurring /\ Advanced(w).next = runner[w].now + Interval
  <1> DEFINE c == runner[w].copy
             t == runner[w].now
  <1>1. c \in Row /\ t \in 0..MaxTime /\ c.status # "none"
    BY TypeParts DEF LoopState, Typed, LoopsSound, Acting, Running
  <1>2. t \in Times /\ t + Interval \in Times /\ Null \notin Times
    BY <1>1, TimesAre
  <1>3. CASE runner[w].auto \in OneTime
    BY <1>2, <1>3 DEF Advanced, Row
  <1>4. CASE runner[w].auto \notin OneTime /\ runner[w].auto \in Recurring
    <2>1. Advanced(w) = [c EXCEPT !.next = t + Interval, !.last = t]
      BY <1>4 DEF Advanced
    <2>2. /\ Advanced(w) \in Row /\ Advanced(w).next = t + Interval
          /\ Advanced(w).status = c.status
      BY <1>1, <1>2, <2>1, Zenon DEF Row
    <2> QED BY <1>1, <1>4, <2>2
  <1>5. CASE runner[w].auto \notin OneTime /\ runner[w].auto \notin Recurring
    <2>1. Advanced(w) = [c EXCEPT !.last = t]
      BY <1>5 DEF Advanced
    <2>2. /\ Advanced(w) \in Row /\ Advanced(w).next = c.next
          /\ Advanced(w).status = c.status
      BY <1>1, <1>2, <2>1, Zenon DEF Row
    <2> QED BY <1>1, <2>2
  <1> QED BY <1>3, <1>4, <1>5

LEMMA RunPut ==
    ASSUME Typed, NEW i \in DOMAIN runs, NEW st \in {"completed", "waiting", "failed"},
           runs' = [runs EXCEPT ![i].status = st]
    PROVE  /\ runs' \in Seq(Run) /\ DOMAIN runs' = DOMAIN runs
           /\ runs'[i].status = st
           /\ \A j \in DOMAIN runs : /\ runs'[j].auto = runs[j].auto /\ runs'[j].basis = runs[j].basis
                                     /\ runs'[j].at = runs[j].at
           /\ \A j \in DOMAIN runs : j # i => runs'[j] = runs[j]
  <1> DEFINE r == [runs[i] EXCEPT !.status = st]
  <1>1. runs[i] \in Run /\ runs \in Seq(Run) /\ Len(runs) \in Nat /\ DOMAIN runs = 1..Len(runs)
    BY RunsAre, TypeParts
  <1>2. st \in {"running", "completed", "waiting", "failed"}
    OBVIOUS
  <1>3. /\ r \in Run /\ r.status = st /\ r.auto = runs[i].auto /\ r.basis = runs[i].basis
        /\ r.at = runs[i].at
    BY <1>1, <1>2, Zenon DEF Run
  <1>4. runs' = [runs EXCEPT ![i] = r]
    BY Zenon
  <1> HIDE DEF r
  <1>5. runs' \in Seq(Run) /\ Len(runs') = Len(runs) /\ runs'[i] = r
    BY <1>1, <1>3, <1>4, ExceptSeq
  <1>6. DOMAIN runs' = DOMAIN runs /\ \A j \in DOMAIN runs : j # i => runs'[j] = runs[j]
    BY <1>1, <1>4
  <1> QED BY <1>3, <1>5, <1>6

LEMMA ActionEndsDoes ==
    ASSUME Typed, NEW w \in Loops, ActionEnds(w)
    PROVE  /\ runner' \in [Loops -> LoopState]
           /\ \A v \in Loops : v # w => runner'[v] = runner[v]
           /\ runner'[w].at = "save" /\ runner'[w].run = runner[w].run
           /\ runner'[w].todo = runner[w].todo /\ runner'[w].now = runner[w].now
           /\ runner'[w].event = runner[w].event /\ runner'[w].auto = runner[w].auto
           /\ runner'[w].copy.status # "none"
           /\ \/ runner'[w].copy.next \in {Null, runner[w].copy.next}
              \/ /\ runner[w].auto \in Recurring
                 /\ runner'[w].copy.next = runner[w].now + Interval
           /\ \E st \in {"completed", "waiting", "failed"} :
                runs' = [runs EXCEPT ![runner[w].run].status = st]
  <1> DEFINE l == runner[w]
  <1>1. /\ l \in LoopState /\ "save" \in Points /\ Acting(w)
    BY TypeParts DEF ActionEnds, Acting, Points
  <1>2. PICK st \in {"completed", "waiting", "failed"} :
            /\ runs' = [runs EXCEPT ![l.run].status = st]
            /\ runner' = [runner EXCEPT ![w].at = "save",
                            ![w].copy = IF st = "completed" THEN Advanced(w)
                                        ELSE [@ EXCEPT !.status = "paused"]]
    BY DEF ActionEnds
  <1> DEFINE c == IF st = "completed" THEN Advanced(w) ELSE [l.copy EXCEPT !.status = "paused"]
             s == [l EXCEPT !.at = "save", !.copy = c]
  <1>3. l.copy \in Row
    BY <1>1 DEF LoopState
  <1>4. LET q == [l.copy EXCEPT !.status = "paused"] IN
        q \in Row /\ q.next = l.copy.next /\ q.status = "paused"
    BY <1>3, Zenon DEF Row
  <1>5. /\ c \in Row /\ c.status # "none"
        /\ \/ c.next \in {Null, l.copy.next}
           \/ l.auto \in Recurring /\ c.next = l.now + Interval
    BY <1>1, <1>4, AdvancedIs
  <1>6. runner' = [runner EXCEPT ![w] = s]
    BY <1>2, TypeParts, Zenon
  <1> HIDE DEF c
  <1>7. /\ s \in LoopState /\ s.at = "save" /\ s.run = l.run /\ s.todo = l.todo /\ s.now = l.now
        /\ s.event = l.event /\ s.auto = l.auto /\ s.copy = c
    BY <1>1, <1>5, Zenon DEF LoopState
  <1> HIDE DEF s
  <1>8. /\ runner' \in [Loops -> LoopState] /\ runner'[w] = s
        /\ \A v \in Loops : v # w => runner'[v] = runner[v]
    BY <1>6, <1>7, LoopPut
  <1> QED BY <1>2, <1>5, <1>7, <1>8

\* Whoever ends a step by going on or by falling idle.
LEMMA OnwardDoes ==
    ASSUME Typed, NEW w \in Loops, runner' = [runner EXCEPT ![w] = Onward(@)]
    PROVE  /\ runner' \in [Loops -> LoopState]
           /\ \A v \in Loops : v # w => runner'[v] = runner[v]
           /\ \/ runner'[w] = Idle
              \/ /\ runner'[w].at = "next" /\ runner'[w].todo = runner[w].todo
                 /\ runner'[w].now = runner[w].now /\ runner'[w].event = runner[w].event
  <1>1. runner[w] \in LoopState /\ runner' = [runner EXCEPT ![w] = Onward(runner[w])]
    BY TypeParts
  <1>2. PICK s : s = Onward(runner[w])
    OBVIOUS
  <1>3. /\ s \in LoopState
        /\ \/ s = Idle
           \/ /\ s.at = "next" /\ s.todo = runner[w].todo
              /\ s.now = runner[w].now /\ s.event = runner[w].event
    BY <1>1, <1>2, OnwardIs
  <1>4. /\ runner' \in [Loops -> LoopState] /\ runner'[w] = s
        /\ \A v \in Loops : v # w => runner'[v] = runner[v]
    BY <1>1, <1>2, <1>3, LoopPut
  <1> QED BY <1>3, <1>4

LEMMA RaisesDoes ==
    ASSUME Typed, NEW w \in Loops, StatementRaises(w)
    PROVE  /\ runner' \in [Loops -> LoopState]
           /\ \A v \in Loops : v # w => runner'[v] = runner[v]
           /\ runner'[w].at = IF w = "tick" THEN "dead" ELSE "idle"
           /\ runner'[w].todo = {} /\ runner'[w].event = NoEvent /\ runner'[w].now = 0
  <1> DEFINE at == IF w = "tick" THEN "dead" ELSE "idle"
             s == [Idle EXCEPT !.at = at]
  <1>1. at \in Points
    BY DEF Points
  <1>2. runner' = [runner EXCEPT ![w] = s]
    BY DEF StatementRaises
  <1> HIDE DEF at
  <1>3. s \in LoopState /\ s.at = at /\ s.todo = {} /\ s.event = NoEvent /\ s.now = 0
    BY <1>1, IdleIs, Zenon DEF LoopState
  <1> HIDE DEF s
  <1> QED BY <1>2, <1>3, LoopPut DEF at

LEMMA RestartDoes ==
    ASSUME Typed, Restart
    PROVE  runner' \in [Loops -> LoopState] /\ \A w \in Loops : runner'[w] = Idle
  BY IdleIs DEF Restart

Newest == Len(runs) + 1

LEMMA RunInserted ==
    ASSUME Typed, NEW w \in Loops, Begin(w), ~Taken(runner[w].auto, Basis(w))
    PROVE  /\ runs' \in Seq(Run) /\ Newest \notin DOMAIN runs
           /\ DOMAIN runs' = DOMAIN runs \cup {Newest}
           /\ \A i \in DOMAIN runs : runs'[i] = runs[i] /\ i < Newest
           /\ runs'[Newest].auto = runner[w].auto /\ runs'[Newest].basis = Basis(w)
           /\ runs'[Newest].at = now
           /\ runs'[Newest].status = "running"
           /\ Basis(w) \in Nat
  <1> DEFINE e == [auto |-> runner[w].auto, basis |-> Basis(w), at |-> now,
                   status |-> "running"]
  <1>1. /\ runs \in Seq(Run) /\ Len(runs) \in Nat /\ DOMAIN runs = 1..Len(runs)
        /\ runner[w] \in LoopState /\ now \in Times /\ faults \in Nat
    BY TypeParts, RunsAre, TimesAre
  <1>2. runner[w].auto \in Autos
    <2>1. Running(w)
      BY DEF Begin, Running
    <2> QED BY <2>1, TypeParts
  <1>3. Basis(w) \in Nat
    <2>1. CASE w = "tick"
      <3>1. runner["tick"].copy.next # Null /\ runner["tick"].copy.next \in Times \cup {Null}
        BY <1>1, <2>1 DEF Begin, Typed, HoldsDue, Starting, LoopState, Row
      <3> QED BY <2>1, <3>1, TimesAre DEF Basis
    <2>2. CASE w # "tick"
      BY <1>1, <2>2 DEF Basis, LoopState, Event
    <2> QED BY <2>1, <2>2
  <1>4. e \in Run
    BY <1>1, <1>2, <1>3 DEF Run
  <1>5. runs' = Append(runs, e)
    BY DEF Begin
  <1> HIDE DEF e
  <1>6. /\ runs' \in Seq(Run) /\ Len(runs') = Len(runs) + 1
        /\ runs'[Len(runs) + 1] = e
        /\ \A i \in 1..Len(runs) : runs'[i] = runs[i]
    BY <1>1, <1>4, <1>5, AppendProperties
  <1>7. DOMAIN runs' = 1..(Len(runs) + 1)
    BY <1>6, LenProperties
  <1>8. /\ e.auto = runner[w].auto /\ e.basis = Basis(w) /\ e.at = now
        /\ e.status = "running"
    BY DEF e
  <1> QED BY <1>1, <1>3, <1>6, <1>7, <1>8 DEF Newest

LEMMA AppendLastIs ==
    ASSUME NEW S, NEW q \in Seq(S), NEW x \in S, NEW size \in Nat \ {0}, Len(q) <= size
    PROVE  \E a \in Seq(S) : \E d \in 0..1 :
              /\ AppendLast(q, x, size) = a
              /\ d = 1 <=> Len(q) = size
              /\ Len(q) \in Nat /\ DOMAIN q = 1..Len(q) /\ DOMAIN a = 1..(Len(q) + 1 - d)
              /\ Len(a) = Len(q) + 1 - d /\ Len(a) <= size
              /\ a[Len(q) + 1 - d] = x
              /\ \A k \in 1..(Len(q) - d) : k + d \in 1..Len(q) /\ a[k] = q[k + d]
  <1>1. Len(q) \in Nat /\ DOMAIN q = 1..Len(q)
    BY LenProperties
  <1>2. CASE Len(q) = size
    <2>1. q # <<>>
      BY <1>2, EmptySeq
    <2>2. /\ Tail(q) \in Seq(S) /\ Len(Tail(q)) = Len(q) - 1
          /\ \A k \in 1..Len(Tail(q)) : Tail(q)[k] = q[k + 1]
      BY <2>1, HeadTailProperties
    <2> PICK a : a = Append(Tail(q), x)
      OBVIOUS
    <2>3. /\ a \in Seq(S) /\ Len(a) = Len(Tail(q)) + 1 /\ a[Len(Tail(q)) + 1] = x
          /\ \A k \in 1..Len(Tail(q)) : a[k] = Tail(q)[k]
      BY <2>2, AppendProperties
    <2>4. Len(q) - 1 + 1 = Len(q) + 1 - 1 /\ \A k \in 1..(Len(q) - 1) : k + 1 \in 1..Len(q)
      BY <1>1
    <2>5. Len(a) = Len(q) + 1 - 1 /\ a[Len(q) + 1 - 1] = x
      BY <2>2, <2>3, <2>4, Zenon
    <2>6. DOMAIN a = 1..(Len(q) + 1 - 1)
      BY <2>3, <2>5, LenProperties, Zenon
    <2>7. Len(q) + 1 - 1 <= size
      BY <1>1, <1>2
    <2>8. \A k \in 1..(Len(q) - 1) : k + 1 \in 1..Len(q) /\ a[k] = q[k + 1]
      BY <2>2, <2>3, <2>4, Zenon
    <2>9. AppendLast(q, x, size) = a
      BY <1>2 DEF AppendLast
    <2>10. 1 \in 0..1
      OBVIOUS
    <2> QED BY <1>1, <1>2, <2>3, <2>5, <2>6, <2>7, <2>8, <2>9, <2>10, Zenon
  <1>3. CASE Len(q) # size
    <2> PICK a : a = Append(q, x)
      OBVIOUS
    <2>1. /\ a \in Seq(S) /\ Len(a) = Len(q) + 1 /\ a[Len(q) + 1] = x
          /\ \A k \in 1..Len(q) : a[k] = q[k]
      BY AppendProperties
    <2>2. /\ Len(q) + 1 = Len(q) + 1 - 0 /\ Len(q) - 0 = Len(q)
          /\ \A k \in 1..Len(q) : k + 0 = k
      BY <1>1
    <2>3. Len(a) = Len(q) + 1 - 0 /\ a[Len(q) + 1 - 0] = x
      BY <2>1, <2>2, Zenon
    <2>4. DOMAIN a = 1..(Len(q) + 1 - 0)
      BY <2>1, <2>3, LenProperties, Zenon
    <2>5. Len(q) + 1 - 0 <= size
      <3>1. \A m, n \in Nat : m <= n /\ m # n => m + 1 - 0 <= n
        OBVIOUS
      <3>2. size \in Nat
        OBVIOUS
      <3> QED BY <1>1, <1>3, <3>1, <3>2, Zenon
    <2>6. \A k \in 1..(Len(q) - 0) : k + 0 \in 1..Len(q) /\ a[k] = q[k + 0]
      BY <2>1, <2>2, Zenon
    <2>7. AppendLast(q, x, size) = a
      BY <1>3 DEF AppendLast
    <2>8. 0 \in 0..1 /\ 0 # 1
      OBVIOUS
    <2> QED BY <1>1, <1>3, <2>1, <2>3, <2>4, <2>5, <2>6, <2>7, <2>8, Zenon
  <1> QED BY <1>2, <1>3

\* The same, for a task that the event loop remembers.
LEMMA MemoryGrows ==
    ASSUME NEW S, owned \in Seq(S), Len(owned) <= OwnedMemory, NEW n \in S,
           owned' = AppendLast(owned, n, OwnedMemory)
    PROVE  /\ owned' \in Seq(S) /\ Len(owned') <= OwnedMemory
           /\ \E d \in 0..1 :
                /\ d = 1 <=> Len(owned) = OwnedMemory
                /\ DOMAIN owned' = 1..(Len(owned) + 1 - d)
                /\ Len(owned') = Len(owned) + 1 - d
                /\ owned'[Len(owned) + 1 - d] = n
                /\ \A k \in 1..(Len(owned) - d) :
                        k + d \in 1..Len(owned) /\ owned'[k] = owned[k + d]
  <1>1. OwnedMemory \in Nat \ {0}
    BY Assumed
  <1>2. PICK a \in Seq(S), d \in 0..1 :
              /\ AppendLast(owned, n, OwnedMemory) = a
              /\ d = 1 <=> Len(owned) = OwnedMemory
              /\ Len(owned) \in Nat /\ DOMAIN owned = 1..Len(owned)
              /\ DOMAIN a = 1..(Len(owned) + 1 - d)
              /\ Len(a) = Len(owned) + 1 - d /\ Len(a) <= OwnedMemory
              /\ a[Len(owned) + 1 - d] = n
              /\ \A k \in 1..(Len(owned) - d) : k + d \in 1..Len(owned) /\ a[k] = owned[k + d]
    BY <1>1, AppendLastIs
  <1>3. owned' = a
    BY <1>2
  <1> QED BY <1>2, <1>3, Zenon

LEMMA PutIs ==
    ASSUME Typed, NEW e \in Event
    PROVE  /\ Put(queue, e) \in Seq(Event) /\ Len(Put(queue, e)) <= QueueSize
           /\ \A i \in DOMAIN Put(queue, e) :
                Put(queue, e)[i] = e \/ \E j \in DOMAIN queue : Put(queue, e)[i] = queue[j]
  <1>1. queue \in Seq(Event) /\ Len(queue) <= QueueSize /\ QueueSize \in Nat \ {0}
    BY TypeParts, Assumed
  <1>2. PICK a \in Seq(Event), d \in 0..1 :
              /\ AppendLast(queue, e, QueueSize) = a
              /\ Len(queue) \in Nat /\ DOMAIN queue = 1..Len(queue)
              /\ DOMAIN a = 1..(Len(queue) + 1 - d)
              /\ Len(a) <= QueueSize
              /\ a[Len(queue) + 1 - d] = e
              /\ \A k \in 1..(Len(queue) - d) : k + d \in 1..Len(queue) /\ a[k] = queue[k + d]
    BY <1>1, AppendLastIs
  <1>3. \A k \in DOMAIN a : k = Len(queue) + 1 - d \/ k \in 1..(Len(queue) - d)
    BY <1>2
  <1>4. \A k \in DOMAIN a : a[k] = e \/ \E j \in DOMAIN queue : a[k] = queue[j]
    BY <1>2, <1>3
  <1> QED BY <1>2, <1>4 DEF Put

LEMMA TailIs ==
    ASSUME Typed, queue # <<>>
    PROVE  /\ Tail(queue) \in Seq(Event) /\ Len(Tail(queue)) <= QueueSize
           /\ \A i \in DOMAIN Tail(queue) : \E j \in DOMAIN queue : Tail(queue)[i] = queue[j]
           /\ Head(queue) \in Event /\ Head(queue).task \in DOMAIN runs \cup {NoTask}
  <1>1. /\ queue \in Seq(Event) /\ Len(queue) \in Nat /\ DOMAIN queue = 1..Len(queue)
        /\ Len(queue) <= QueueSize /\ QueueSize \in Nat \ {0}
    BY TypeParts, LenProperties, Assumed
  <1>2. /\ Tail(queue) \in Seq(Event) /\ Len(Tail(queue)) = Len(queue) - 1
        /\ \A i \in 1..Len(Tail(queue)) : Tail(queue)[i] = queue[i + 1]
        /\ Head(queue) \in Event
    BY <1>1, HeadTailProperties
  <1>3. DOMAIN Tail(queue) = 1..Len(Tail(queue)) /\ Len(queue) >= 1
    BY <1>1, <1>2, LenProperties, EmptySeq
  <1>4. Head(queue) = queue[1] /\ 1 \in DOMAIN queue
    BY <1>1, <1>3
  <1>5. Head(queue).task \in DOMAIN runs \cup {NoTask}
    BY <1>4 DEF Typed, Past
  <1>6. \A i \in DOMAIN Tail(queue) : i + 1 \in DOMAIN queue
    BY <1>1, <1>2, <1>3
  <1> QED BY <1>1, <1>2, <1>3, <1>5, <1>6

\* Publish, as far as anybody sees it.
LEMMA PublishDoes ==
    ASSUME Typed, NEW t \in DOMAIN runs \cup {NoTask}, Publish(t)
    PROVE  /\ queue' \in Seq(Event) /\ Len(queue') <= QueueSize /\ published' \in 0..MaxEvents
           /\ \A i \in DOMAIN queue' :
                queue'[i].task = t \/ \E j \in DOMAIN queue : queue'[i] = queue[j]
  <1> DEFINE e == [id |-> published + 1, task |-> t]
  <1>1. published \in 0..MaxEvents /\ MaxEvents \in Nat /\ published < MaxEvents /\ t \in Nat
    BY TypeParts, RunsAre, Assumed DEF Publish, NoTask
  <1>2. e \in Event /\ e.task = t
    BY <1>1 DEF Event
  <1>3. queue' = Put(queue, e) /\ published' = published + 1
    BY DEF Publish
  <1> HIDE DEF e
  <1>4. /\ queue' \in Seq(Event) /\ Len(queue') <= QueueSize
        /\ \A i \in DOMAIN queue' : queue'[i] = e \/ \E j \in DOMAIN queue : queue'[i] = queue[j]
    BY <1>2, <1>3, PutIs
  <1>5. published' \in 0..MaxEvents
    BY <1>1, <1>3
  <1> QED BY <1>2, <1>4, <1>5

------------------------------------------------------------------------------
(* Types.                                                                   *)

\* What is left to show of TypeOK once the loops are sound.
Memory == owned \in Seq(DOMAIN runs) /\ Len(owned) <= OwnedMemory /\ forgot \subseteq DOMAIN runs

LEMMA WiderSeq ==
    ASSUME NEW S, NEW T, S \subseteq T, NEW q \in Seq(S)
    PROVE  q \in Seq(T)
  <1>1. Len(q) \in Nat /\ q \in [1..Len(q) -> S]
    BY LenProperties
  <1>2. q \in [1..Len(q) -> T]
    BY <1>1
  <1> QED BY <1>1, <1>2, IsASeq

LEMMA TypedAgain ==
    ASSUME Typed, DOMAIN runs \subseteq DOMAIN runs', UNCHANGED <<owned, forgot>> \/ Memory',
           LoopsSound', now' \in 0..MaxTime, row' \in [Autos -> Row], runs' \in Seq(Run),
           client' \in [Clients -> Request], pausedAll' \subseteq Autos,
           live' \subseteq DOMAIN runs',
           queue' \in Seq(Event), Len(queue') <= QueueSize,
           published' \in 0..MaxEvents, faults' \in 0..MaxFaults,
           \A w \in Loops : Acting(w)' => runner'[w].run \in DOMAIN runs'
    PROVE  TypeOK'
  <1>1. \A w \in Loops : /\ runner'[w].at \in Points /\ runner'[w].todo \subseteq Copy
                         /\ runner'[w].event \in Event /\ runner'[w].copy \in Row
    BY DEF LoopsSound, LoopState
  <1>2. \A w \in Loops : AutosOf(w) \subseteq Autos
    BY DEF AutosOf, Autos
  <1>3. \A w \in Loops : Running(w)' => runner'[w].auto \in Autos /\ runner'[w].copy \in Row
    BY <1>1, <1>2 DEF LoopsSound
  <1>4. Memory'
    <2>1. CASE UNCHANGED <<owned, forgot>>
      <3>1. owned \in Seq(DOMAIN runs) /\ Len(owned) <= OwnedMemory /\ forgot \subseteq DOMAIN runs
        BY TypeParts
      <3>2. owned \in Seq(DOMAIN runs')
        BY <3>1, WiderSeq
      <3> QED BY <2>1, <3>1, <3>2 DEF Memory
    <2> QED BY <2>1
  <1> QED BY <1>1, <1>3, <1>4 DEF TypeOK, Memory

LEMMA Initially == Init => Typed
  <1> SUFFICES ASSUME Init PROVE Typed
    OBVIOUS
  <1>1. runner \in [Loops -> LoopState] /\ \A w \in Loops : runner[w] = Idle
    BY IdleIs DEF Init
  <1>2. /\ 0 \in 0..MaxTime /\ 0 \in 0..MaxEvents /\ 0 \in 0..MaxFaults /\ Missing \in Row
        /\ NoRequest \in Request /\ NoRequest.todo = {}
    BY Assumed DEF Missing, Row, NoRequest, Request
  <1>3. /\ <<>> \in Seq(Run) /\ <<>> \in Seq(Event) /\ <<>> \in Seq(DOMAIN runs) /\ Len(<<>>) = 0
        /\ Len(queue) <= QueueSize
        /\ DOMAIN <<>> = {}
    BY Assumed, EmptySeq DEF Init
  <1>4. \A w \in Loops : ~Running(w) /\ ~Acting(w) /\ ~Starting(w)
    BY <1>1, IdleIs DEF Running, Acting, Starting
  <1>5. LoopsSound
    BY <1>1, <1>2, <1>4, IdleIs DEF LoopsSound, Init
  <1>6. HoldsDue /\ Past
    BY <1>1, <1>2, <1>3, <1>4, IdleIs DEF HoldsDue, Past, Init, Loops, NoEvent
  <1>7. /\ owned \in Seq(DOMAIN runs) /\ Len(owned) <= OwnedMemory /\ forgot \subseteq DOMAIN runs
        /\ live \subseteq DOMAIN runs
    BY <1>3, Assumed DEF Init
  <1>8. TypeOK
    <2>1. \A w \in Loops : /\ runner[w].at \in Points /\ runner[w].todo \subseteq Copy
                           /\ runner[w].event \in Event
      BY <1>1 DEF LoopState
    <2> QED BY <1>2, <1>3, <1>4, <1>7, <2>1 DEF TypeOK, Init
  <1> QED BY <1>5, <1>6, <1>8 DEF Typed

LEMMA WorldTyped ==
    ASSUME Typed, Tick \/ ForeignEvent \/ \E t \in live : TaskEvent(t)
    PROVE  Typed'
  <1>1. UNCHANGED <<row, runs, runner, client, pausedAll, owned, faults, forgot>> /\ live' \subseteq live
    BY DEF Tick, ForeignEvent, TaskEvent
  <1>2. /\ now' \in 0..MaxTime /\ now <= now'
        /\ queue' \in Seq(Event) /\ Len(queue') <= QueueSize /\ published' \in 0..MaxEvents
        /\ \A i \in DOMAIN queue' : queue'[i].task \in DOMAIN runs \cup {NoTask}
    <2>1. CASE Tick
      BY <2>1, TypeParts, Assumed DEF Tick, Typed, Past
    <2>2. CASE \E t \in DOMAIN runs \cup {NoTask} : Publish(t) /\ UNCHANGED now
      <3>1. PICK t \in DOMAIN runs \cup {NoTask} : Publish(t) /\ UNCHANGED now
        BY <2>2
      <3>2. \A j \in DOMAIN queue : queue[j].task \in DOMAIN runs \cup {NoTask}
        BY DEF Typed, Past
      <3>3. now \in 0..MaxTime /\ now <= now
        BY TypeParts, Assumed
      <3> QED BY <3>1, <3>2, <3>3, PublishDoes
    <2>3. live \subseteq DOMAIN runs
      BY TypeParts
    <2> QED BY <2>1, <2>2, <2>3 DEF ForeignEvent, TaskEvent
  <1>3. LoopsSound'
    <2>1. \A w \in Loops : runner[w].now \in 0..MaxTime /\ runner[w].now <= now'
      BY <1>2, TypeParts, Assumed DEF LoopState, Typed, LoopsSound
    <2> QED BY <1>1, <2>1 DEF Typed, LoopsSound, Running, Acting
  <1>4. HoldsDue' /\ Past'
    BY <1>1, <1>2 DEF Typed, HoldsDue, Past, Starting, Acting
  <1>5. TypeOK'
    BY <1>1, <1>2 DEF Typed, TypeOK, Running, Acting
  <1> QED BY <1>3, <1>4, <1>5 DEF Typed

\* The loops take up what is due, and what an event may match.
LEMMA TakingTyped == ASSUME Typed, TickList \/ TakeEvent PROVE Typed'
  <1>1. UNCHANGED <<now, row, runs, client, pausedAll, owned, published, live, faults, forgot>>
    BY DEF TickList, TakeEvent
  <1>2. /\ queue' \in Seq(Event) /\ Len(queue') <= QueueSize
        /\ \A i \in DOMAIN queue' : \E j \in DOMAIN queue : queue'[i] = queue[j]
    BY TypeParts, TailIs DEF TickList, TakeEvent
  <1>3. \A w \in Loops : UNCHANGED runner[w] =>
            /\ Running(w)' <=> Running(w)
            /\ Acting(w)' <=> Acting(w)
            /\ Starting(w)' <=> Starting(w)
    BY DEF Running, Acting, Starting
  <1>4. "tick" \in Loops /\ "event" \in Loops /\ \A w \in Loops : w = "tick" \/ w = "event"
    BY DEF Loops
  <1>5. CASE UNCHANGED runner
    BY <1>1, <1>2, <1>5
    DEF Typed, TypeOK, LoopsSound, HoldsDue, Past, Running, Acting, Starting
  <1>6. CASE TickList
    <2>1. PICK D \in SUBSET Due :
            /\ runner' \in [Loops -> LoopState]
            /\ \A v \in Loops : v # "tick" => runner'[v] = runner[v]
            /\ runner'["tick"].at = "next" /\ runner'["tick"].now = now
            /\ runner'["tick"].event = NoEvent
            /\ runner'["tick"].todo = Listing(D)
      BY <1>6, TickListDoes
    <2>2. ~Running("tick")' /\ ~Acting("tick")' /\ ~Starting("tick")'
      BY <2>1 DEF Running, Acting, Starting
    <2>3. \A x \in Listing(D) : /\ x.auto \in Timed /\ x.row.status = "active"
                                /\ x.row.next # Null /\ x.row.next <= now
      BY ListingIs DEF Due, Timed, Autos
    <2>4. LoopsSound'
      <3>1. \A w \in Loops : w # "tick" => runner'[w] = runner[w] /\ w = "event"
        BY <1>4, <2>1
      <3>2. now <= now
        BY TypeParts, Assumed
      <3> QED BY <1>1, <1>3, <1>4, <2>1, <2>2, <2>3, <3>1, <3>2
              DEF Typed, LoopsSound, AutosOf
    <2>5. HoldsDue'
      BY <2>1, <2>2, <2>3 DEF HoldsDue
    <2>6. Past'
      <3>1. NoEvent.task = NoTask
        BY DEF NoEvent
      <3>2. UNCHANGED queue
        BY <1>6 DEF TickList
      <3> QED BY <1>1, <1>3, <1>4, <2>1, <3>1, <3>2 DEF Typed, Past
    <2>7. \A w \in Loops : Acting(w)' => runner'[w].run \in DOMAIN runs'
      <3> SUFFICES ASSUME NEW w \in Loops, Acting(w)' PROVE runner'[w].run \in DOMAIN runs
        BY <1>1
      <3>1. runner'[w] = runner[w]
        BY <1>4, <2>1, <2>2
      <3>2. Acting(w)
        BY <1>3, <3>1
      <3> QED BY <3>1, <3>2, TypeParts
    <2>8. TypeOK'
      BY <1>1, <1>2, <2>4, <2>7, TypeParts, TypedAgain DEF Typed, TypeOK
    <2> QED BY <2>4, <2>5, <2>6, <2>8 DEF Typed
  <1>7. CASE TakeEvent /\ ~UNCHANGED runner
    <2>1. /\ runner' \in [Loops -> LoopState]
          /\ \A v \in Loops : v # "event" => runner'[v] = runner[v]
          /\ \/ runner'["event"] = Idle
             \/ /\ runner'["event"].at = "next" /\ runner'["event"].now = now
                /\ runner'["event"].event = Head(queue)
                /\ \E M \in SUBSET Matching : runner'["event"].todo = Listing(M)
      BY <1>7, TakeEventDoes
    <2>2. ~Running("event")' /\ ~Acting("event")'
      BY <2>1, IdleIs DEF Running, Acting
    <2>3. /\ runner'["event"].now <= now
          /\ runner'["event"].event.task \in DOMAIN runs \cup {NoTask}
          /\ \A x \in runner'["event"].todo : x.auto \in Conditional /\ x.row.status = "active"
      <3>1. CASE runner'["event"] = Idle
        BY <3>1, IdleIs, TypeParts, Assumed DEF NoEvent
      <3>2. CASE runner'["event"] # Idle
        <4>1. PICK M \in SUBSET Matching : runner'["event"].todo = Listing(M)
          BY <2>1, <3>2
        <4>2. \A x \in Listing(M) : x.auto \in Conditional /\ x.row.status = "active"
          BY ListingIs DEF Matching, Autos
        <4>3. Head(queue).task \in DOMAIN runs \cup {NoTask}
          BY <1>7, TailIs DEF TakeEvent
        <4>4. now <= now
          BY TypeParts, Assumed
        <4> QED BY <2>1, <3>2, <4>1, <4>2, <4>3, <4>4
      <3> QED BY <3>1, <3>2
    <2>4. LoopsSound'
      <3>1. \A w \in Loops : w # "event" => runner'[w] = runner[w] /\ w = "tick"
        BY <1>4, <2>1
      <3> QED BY <1>1, <1>3, <1>4, <2>1, <2>2, <2>3, <3>1 DEF Typed, LoopsSound, AutosOf
    <2>5. HoldsDue'
      BY <1>3, <1>4, <2>1 DEF Typed, HoldsDue
    <2>6. Past'
      BY <1>1, <1>2, <1>4, <2>1, <2>2, <2>3 DEF Typed, Past
    <2>7. \A w \in Loops : Acting(w)' => runner'[w].run \in DOMAIN runs'
      <3> SUFFICES ASSUME NEW w \in Loops, Acting(w)' PROVE runner'[w].run \in DOMAIN runs
        BY <1>1
      <3>1. runner'[w] = runner[w]
        BY <1>4, <2>1, <2>2
      <3>2. Acting(w)
        BY <1>3, <3>1
      <3> QED BY <3>1, <3>2, TypeParts
    <2>8. TypeOK'
      BY <1>1, <1>2, <2>4, <2>7, TypeParts, TypedAgain DEF Typed, TypeOK
    <2> QED BY <2>4, <2>5, <2>6, <2>8 DEF Typed
  <1> QED BY <1>5, <1>6, <1>7

\* A step of a loop that runs no statement on the tables of runs.
LEMMA CountTyped == ASSUME Typed, NEW w \in Loops, Count(w) PROVE Typed'
  <1>1. UNCHANGED <<now, row, runs, client, pausedAll, owned, queue, published, live, faults, forgot>>
    BY DEF Count
  <1>2. PICK x \in runner[w].todo :
            /\ runner' \in [Loops -> LoopState]
            /\ \A v \in Loops : v # w => runner'[v] = runner[v]
            /\ runner'[w].at \in {"spent", "begin"} /\ runner'[w].auto = x.auto
            /\ runner'[w].todo = runner[w].todo \ {x}
            /\ runner'[w].now = runner[w].now /\ runner'[w].event = runner[w].event
            /\ runner'[w].copy.next = x.row.next
            /\ runner'[w].copy.status \in {x.row.status, "paused"}
    BY CountDoes
  <1>3. ~Acting(w)'
    BY <1>2 DEF Acting
  <1>4. /\ runner[w].now <= now /\ \A y \in runner[w].todo : y.auto \in AutosOf(w) /\ y.row.status # "none"
        /\ runner[w].event.task \in DOMAIN runs \cup {NoTask}
    BY DEF Typed, LoopsSound, Past
  <1>5. LoopsSound'
    <2> SUFFICES ASSUME NEW v \in Loops
                 PROVE  /\ runner'[v].now <= now
                        /\ \A y \in runner'[v].todo : y.auto \in AutosOf(v) /\ y.row.status # "none"
                        /\ Running(v)' => runner'[v].auto \in AutosOf(v) /\ runner'[v].copy.status # "none"
                        /\ Acting(v)' => runs[runner'[v].run].auto = runner'[v].auto
      BY <1>1, <1>2 DEF LoopsSound
    <2>1. CASE v = w
      BY <1>2, <1>3, <1>4, <2>1
    <2>2. CASE v # w
      <3>1. runner'[v] = runner[v]
        BY <1>2, <2>2
      <3> QED BY <3>1 DEF Typed, LoopsSound, Running, Acting
    <2> QED BY <2>1, <2>2
  <1>6. HoldsDue'
    <2>1. CASE w = "tick"
      BY <1>2, <2>1 DEF Typed, HoldsDue
    <2>2. CASE w # "tick"
      <3>1. runner'["tick"] = runner["tick"]
        BY <1>2, <2>2 DEF Loops
      <3> QED BY <3>1 DEF Typed, HoldsDue, Starting
    <2> QED BY <2>1, <2>2
  <1>7. Past'
    <2>1. \A v \in Loops : runner'[v].event = runner[v].event
      BY <1>2
    <2>2. Acting("event")' => Acting("event") /\ runner'["event"] = runner["event"]
      BY <1>2, <1>3 DEF Acting, Loops
    <2> QED BY <1>1, <2>1, <2>2 DEF Typed, Past
  <1>8. \A v \in Loops : Acting(v)' => runner'[v].run \in DOMAIN runs'
    <2> SUFFICES ASSUME NEW v \in Loops, Acting(v)' PROVE runner'[v].run \in DOMAIN runs
      BY <1>1
    <2>1. runner'[v] = runner[v]
      BY <1>2, <1>3
    <2>2. Acting(v)
      BY <2>1 DEF Acting
    <2> QED BY <2>1, <2>2, TypeParts
  <1>9. TypeOK'
    BY <1>1, <1>5, <1>8, TypeParts, TypedAgain DEF Typed, TypeOK
  <1> QED BY <1>5, <1>6, <1>7, <1>9 DEF Typed

\* A loop that goes on or falls idle.
LEMMA OnwardTyped ==
    ASSUME Typed, NEW w \in Loops, runner' = [runner EXCEPT ![w] = Onward(@)],
           UNCHANGED <<now, runs, queue, faults, forgot>>
    PROVE  /\ LoopsSound' /\ HoldsDue'
           /\ \A v \in Loops : runner'[v].event.task \in DOMAIN runs \cup {NoTask}
           /\ Acting("event")' => runner'["event"].event.task < runner'["event"].run
           /\ \A v \in Loops : Acting(v)' => runner'[v].run \in DOMAIN runs'
  <1>1. /\ runner' \in [Loops -> LoopState]
        /\ \A v \in Loops : v # w => runner'[v] = runner[v]
        /\ \/ runner'[w] = Idle
           \/ /\ runner'[w].at = "next" /\ runner'[w].todo = runner[w].todo
              /\ runner'[w].now = runner[w].now /\ runner'[w].event = runner[w].event
    BY OnwardDoes
  <1>2. ~Running(w)' /\ ~Acting(w)' /\ ~Starting(w)'
    BY <1>1, IdleIs DEF Running, Acting, Starting
  <1>3. /\ runner'[w].now <= now
        /\ runner'[w].event.task \in DOMAIN runs \cup {NoTask}
        /\ runner'[w].todo \subseteq runner[w].todo
        /\ runner'[w].todo # {} => runner'[w].now = runner[w].now
    <2>1. now \in Nat
      BY TypeParts, Assumed
    <2> QED BY <1>1, <2>1, IdleIs DEF Typed, LoopsSound, Past, NoEvent
  <1>4. ASSUME NEW v \in Loops, v # w
        PROVE  /\ runner'[v] = runner[v] /\ (Running(v)' <=> Running(v))
               /\ (Acting(v)' <=> Acting(v)) /\ (Starting(v)' <=> Starting(v))
    BY <1>1, <1>4 DEF Running, Acting, Starting
  <1>5. LoopsSound'
    <2> SUFFICES ASSUME NEW v \in Loops
                 PROVE  /\ runner'[v].now <= now
                        /\ \A y \in runner'[v].todo : y.auto \in AutosOf(v) /\ y.row.status # "none"
                        /\ Running(v)' => runner'[v].auto \in AutosOf(v) /\ runner'[v].copy.status # "none"
                        /\ Acting(v)' => runs[runner'[v].run].auto = runner'[v].auto
      BY <1>1 DEF LoopsSound
    <2>1. CASE v = w
      BY <1>2, <1>3, <2>1 DEF Typed, LoopsSound
    <2>2. CASE v # w
      BY <1>4, <2>2 DEF Typed, LoopsSound
    <2> QED BY <2>1, <2>2
  <1>6. HoldsDue'
    <2>1. CASE w = "tick"
      BY <1>2, <1>3, <2>1 DEF Typed, HoldsDue
    <2>2. CASE w # "tick"
      BY <1>4, <2>2 DEF Typed, HoldsDue, Loops
    <2> QED BY <2>1, <2>2
  <1>7. \A v \in Loops : runner'[v].event.task \in DOMAIN runs \cup {NoTask}
    BY <1>3, <1>4 DEF Typed, Past
  <1>8. Acting("event")' => runner'["event"].event.task < runner'["event"].run
    BY <1>2, <1>4 DEF Typed, Past, Loops
  <1>9. \A v \in Loops : Acting(v)' => runner'[v].run \in DOMAIN runs'
    BY <1>2, <1>4, TypeParts
  <1> QED BY <1>5, <1>6, <1>7, <1>8, <1>9

LEMMA BeginTyped == ASSUME Typed, NEW w \in Loops, Begin(w) PROVE Typed'
  <1>1. UNCHANGED <<now, row, client, pausedAll, owned, queue, published, faults, forgot>>
    BY DEF Begin
  <1>2. CASE Taken(runner[w].auto, Basis(w))
    <2>1. runner' = [runner EXCEPT ![w] = Onward(@)] /\ UNCHANGED <<runs, live>>
      BY <1>2 DEF Begin
    <2>2. /\ LoopsSound' /\ HoldsDue'
          /\ \A v \in Loops : runner'[v].event.task \in DOMAIN runs \cup {NoTask}
          /\ Acting("event")' => runner'["event"].event.task < runner'["event"].run
          /\ \A v \in Loops : Acting(v)' => runner'[v].run \in DOMAIN runs'
      BY <1>1, <2>1, OnwardTyped
    <2>3. Past'
      BY <1>1, <2>1, <2>2 DEF Typed, Past
    <2>4. TypeOK'
      BY <1>1, <2>1, <2>2, TypeParts, TypedAgain DEF Typed, TypeOK
    <2> QED BY <2>2, <2>3, <2>4 DEF Typed
  <1>3. CASE ~Taken(runner[w].auto, Basis(w))
    <2> DEFINE n == Newest
    <2>1. /\ runner' \in [Loops -> LoopState]
          /\ \A v \in Loops : v # w => runner'[v] = runner[v]
          /\ runner'[w].at = "act" /\ runner'[w].run = n
          /\ runner'[w].todo = runner[w].todo /\ runner'[w].now = runner[w].now
          /\ runner'[w].event = runner[w].event /\ runner'[w].auto = runner[w].auto
          /\ runner'[w].copy = runner[w].copy
      BY <1>3, BeginDoes DEF Newest
    <2>2. /\ runs' \in Seq(Run) /\ DOMAIN runs' = DOMAIN runs \cup {n} /\ n \notin DOMAIN runs
          /\ \A i \in DOMAIN runs : runs'[i] = runs[i] /\ i < n
          /\ runs'[n].auto = runner[w].auto
      BY <1>3, RunInserted
    <2>3. runner[w].at = "begin" /\ live' = live \cup {n}
      BY <1>3 DEF Begin, Newest
    <2>4. n \in Nat /\ 0 < n
      BY RunsAre DEF Newest
    <2> HIDE DEF n
    <2>5. Running(w) /\ Starting(w)
      BY <2>3 DEF Running, Starting
    <2>6. LoopsSound'
      <3> SUFFICES ASSUME NEW v \in Loops
                   PROVE  /\ runner'[v].now <= now
                          /\ \A y \in runner'[v].todo : y.auto \in AutosOf(v) /\ y.row.status # "none"
                          /\ Running(v)' => runner'[v].auto \in AutosOf(v) /\ runner'[v].copy.status # "none"
                          /\ Acting(v)' => runs'[runner'[v].run].auto = runner'[v].auto
        BY <1>1, <2>1 DEF LoopsSound
      <3>1. CASE v = w
        BY <2>1, <2>2, <2>5, <3>1 DEF Typed, LoopsSound
      <3>2. CASE v # w
        <4>1. runner'[v] = runner[v] /\ (Running(v)' <=> Running(v)) /\ (Acting(v)' <=> Acting(v))
          BY <2>1, <3>2 DEF Running, Acting
        <4>2. Acting(v) => runs'[runner[v].run] = runs[runner[v].run]
          BY <2>2, TypeParts
        <4> QED BY <4>1, <4>2 DEF Typed, LoopsSound
      <3> QED BY <3>1, <3>2
    <2>7. HoldsDue'
      <3>1. CASE w = "tick"
        BY <2>1, <2>5, <3>1 DEF Typed, HoldsDue
      <3>2. CASE w # "tick"
        <4>1. runner'["tick"] = runner["tick"]
          BY <2>1, <3>2 DEF Loops
        <4> QED BY <4>1 DEF Typed, HoldsDue, Starting
      <3> QED BY <3>1, <3>2
    <2>8. Past'
      <3>1. \A v \in Loops : runner'[v].event = runner[v].event
        BY <2>1
      <3>2. Acting("event")' => runner'["event"].event.task < runner'["event"].run
        <4>1. CASE w = "event"
          BY <2>1, <2>2, <2>4, <3>1, <4>1 DEF Typed, Past, NoTask
        <4>2. CASE w # "event"
          <5>1. runner'["event"] = runner["event"]
            BY <2>1, <4>2 DEF Loops
          <5> QED BY <5>1 DEF Typed, Past, Acting
        <4> QED BY <4>1, <4>2
      <3> QED BY <1>1, <2>2, <3>1, <3>2 DEF Typed, Past
    <2>9. \A v \in Loops : Acting(v)' => runner'[v].run \in DOMAIN runs'
      <3> SUFFICES ASSUME NEW v \in Loops, Acting(v)' PROVE runner'[v].run \in DOMAIN runs'
        OBVIOUS
      <3>1. CASE v = w
        BY <2>1, <2>2, <3>1
      <3>2. CASE v # w
        <4>1. runner'[v] = runner[v] /\ Acting(v)
          BY <2>1, <3>2 DEF Acting
        <4> QED BY <2>2, <4>1, TypeParts
      <3> QED BY <3>1, <3>2
    <2>10. TypeOK'
      BY <1>1, <2>2, <2>3, <2>6, <2>9, TypeParts, TypedAgain DEF Typed, TypeOK
    <2> QED BY <2>6, <2>7, <2>8, <2>10 DEF Typed
  <1> QED BY <1>2, <1>3

LEMMA ActionEndsTyped == ASSUME Typed, NEW w \in Loops, ActionEnds(w) PROVE Typed'
  <1>1. UNCHANGED <<now, row, client, pausedAll, owned, queue, published, live, faults, forgot>>
    BY DEF ActionEnds
  <1>2. /\ runner' \in [Loops -> LoopState]
        /\ \A v \in Loops : v # w => runner'[v] = runner[v]
        /\ runner'[w].at = "save" /\ runner'[w].run = runner[w].run
        /\ runner'[w].todo = runner[w].todo /\ runner'[w].now = runner[w].now
        /\ runner'[w].event = runner[w].event /\ runner'[w].auto = runner[w].auto
        /\ runner'[w].copy.status # "none"
    BY ActionEndsDoes
  <1>3. Running(w) /\ Acting(w) /\ runner[w].run \in DOMAIN runs
    <2>1. Running(w) /\ Acting(w)
      BY DEF ActionEnds, Running, Acting
    <2> QED BY <2>1, TypeParts
  <1>4. /\ runs' \in Seq(Run) /\ DOMAIN runs' = DOMAIN runs
        /\ \A j \in DOMAIN runs : runs'[j].auto = runs[j].auto
    <2>1. PICK st \in {"completed", "waiting", "failed"} :
            runs' = [runs EXCEPT ![runner[w].run].status = st]
      BY ActionEndsDoes
    <2> QED BY <1>3, <2>1, RunPut
  <1>5. ASSUME NEW v \in Loops, v # w
        PROVE  /\ runner'[v] = runner[v] /\ (Running(v)' <=> Running(v))
               /\ (Acting(v)' <=> Acting(v)) /\ (Starting(v)' <=> Starting(v))
    BY <1>2, <1>5 DEF Running, Acting, Starting
  <1>6. \A v \in Loops : Acting(v)' => Acting(v) /\ runner'[v].run = runner[v].run
                                      /\ runner[v].run \in DOMAIN runs
    BY <1>2, <1>3, <1>5, TypeParts
  <1>7. LoopsSound'
    <2> SUFFICES ASSUME NEW v \in Loops
                 PROVE  /\ runner'[v].now <= now
                        /\ \A y \in runner'[v].todo : y.auto \in AutosOf(v) /\ y.row.status # "none"
                        /\ Running(v)' => runner'[v].auto \in AutosOf(v) /\ runner'[v].copy.status # "none"
                        /\ Acting(v)' => runs'[runner'[v].run].auto = runner'[v].auto
      BY <1>1, <1>2 DEF LoopsSound
    <2>1. CASE v = w
      BY <1>2, <1>3, <1>4, <2>1 DEF Typed, LoopsSound
    <2>2. CASE v # w
      BY <1>4, <1>5, <1>6, <2>2 DEF Typed, LoopsSound
    <2> QED BY <2>1, <2>2
  <1>8. HoldsDue'
    <2>1. CASE w = "tick"
      BY <1>2, <2>1 DEF Typed, HoldsDue, Starting
    <2>2. CASE w # "tick"
      BY <1>5, <2>2 DEF Typed, HoldsDue, Loops
    <2> QED BY <2>1, <2>2
  <1>9. Past'
    <2>1. \A v \in Loops : runner'[v].event = runner[v].event
      BY <1>2
    <2>2. "event" \in Loops
      BY DEF Loops
    <2> QED BY <1>1, <1>4, <1>6, <2>1, <2>2 DEF Typed, Past
  <1>10. TypeOK'
    BY <1>1, <1>4, <1>6, <1>7, TypeParts, TypedAgain DEF Typed, TypeOK
  <1> QED BY <1>7, <1>8, <1>9, <1>10 DEF Typed

LEMMA SaveTyped == ASSUME Typed, NEW w \in Loops, Save(w) PROVE Typed'
  <1>1. /\ UNCHANGED <<now, runs, client, pausedAll, queue, published, live, faults, forgot>>
        /\ runner' = [runner EXCEPT ![w] = Onward(@)]
    BY DEF Save
  <1>2. /\ LoopsSound' /\ HoldsDue'
        /\ \A v \in Loops : runner'[v].event.task \in DOMAIN runs \cup {NoTask}
        /\ Acting("event")' => runner'["event"].event.task < runner'["event"].run
        /\ \A v \in Loops : Acting(v)' => runner'[v].run \in DOMAIN runs'
    BY <1>1, OnwardTyped
  <1>3. row' \in [Autos -> Row]
    <2>1. runner[w].copy \in Row /\ row \in [Autos -> Row]
      BY TypeParts DEF LoopState
    <2>2. row' = [row EXCEPT ![runner[w].auto] = runner[w].copy]
      BY DEF Save
    <2> QED BY <2>1, <2>2
  <1>4. Memory' \/ UNCHANGED <<owned, forgot>>
    <2>1. CASE Owns(w)
      <3>1. runner[w].run \in DOMAIN runs /\ owned' = AppendLast(owned, runner[w].run, OwnedMemory)
        BY <2>1, TypeParts DEF Save, Owns
      <3>2. owned' \in Seq(DOMAIN runs) /\ Len(owned') <= OwnedMemory
        BY <3>1, MemoryGrows, TypeParts
      <3> QED BY <1>1, <3>2, TypeParts DEF Memory
    <2>2. CASE ~Owns(w)
      BY <1>1, <2>2 DEF Save
    <2> QED BY <2>1, <2>2
  <1>5. Past'
    BY <1>1, <1>2 DEF Typed, Past
  <1>6. TypeOK'
    BY <1>1, <1>2, <1>3, <1>4, TypeParts, TypedAgain DEF Typed, TypeOK
  <1> QED BY <1>2, <1>5, <1>6 DEF Typed

LEMMA FaultTyped ==
    ASSUME Typed, Restart \/ \E w \in Loops : StatementRaises(w)
    PROVE  Typed'
  <1>1. /\ UNCHANGED <<now, row, runs, published, live>> /\ faults' = faults + 1
        /\ faults < MaxFaults
        /\ client' = client \/ client' = [c \in Clients |-> NoRequest]
        /\ pausedAll' \subseteq pausedAll /\ owned' \in {owned, <<>>}
    BY DEF Restart, StatementRaises
  <1>2. /\ queue' \in Seq(Event) /\ Len(queue') <= QueueSize
        /\ \A i \in DOMAIN queue' : \E j \in DOMAIN queue : queue'[i] = queue[j]
    <2>1. CASE queue' = queue
      BY <2>1, TypeParts
    <2>2. CASE queue' = <<>>
      BY <2>2, EmptySeq, Assumed
    <2>3. CASE queue # <<>> /\ queue' = Tail(queue)
      BY <2>3, TailIs
    <2>4. ASSUME NEW w \in Loops, StatementRaises(w)
          PROVE  queue' = queue \/ (queue # <<>> /\ queue' = Tail(queue))
      BY <2>4 DEF StatementRaises
    <2>5. Restart => queue' = <<>>
      BY DEF Restart
    <2> QED BY <2>1, <2>2, <2>3, <2>4, <2>5
  <1>3. \E S \in SUBSET Loops :
            /\ runner' \in [Loops -> LoopState]
            /\ \A v \in Loops \ S : runner'[v] = runner[v]
            /\ \A w \in S : /\ runner'[w].at \in {"idle", "dead"} /\ runner'[w].now = 0
                            /\ runner'[w].todo = {} /\ runner'[w].event = NoEvent
    <2>1. CASE Restart
      <3>1. runner' \in [Loops -> LoopState] /\ \A w \in Loops : runner'[w] = Idle
        BY <2>1, RestartDoes
      <3>2. \A v \in Loops \ Loops : runner'[v] = runner[v]
        OBVIOUS
      <3> QED BY <3>1, <3>2, IdleIs
    <2>2. CASE \E w \in Loops : StatementRaises(w)
      <3>1. PICK w \in Loops : StatementRaises(w)
        BY <2>2
      <3>2. /\ runner' \in [Loops -> LoopState]
            /\ \A v \in Loops \ {w} : runner'[v] = runner[v]
            /\ runner'[w].at \in {"idle", "dead"} /\ runner'[w].now = 0
            /\ runner'[w].todo = {} /\ runner'[w].event = NoEvent
        BY <3>1, RaisesDoes
      <3>3. {w} \in SUBSET Loops
        OBVIOUS
      <3> QED BY <3>2, <3>3
    <2> QED BY <2>1, <2>2
  <1>4. PICK S \in SUBSET Loops :
            /\ runner' \in [Loops -> LoopState]
            /\ \A v \in Loops \ S : runner'[v] = runner[v]
            /\ \A w \in S : /\ runner'[w].at \in {"idle", "dead"} /\ runner'[w].now = 0
                            /\ runner'[w].todo = {} /\ runner'[w].event = NoEvent
    BY <1>3
  <1>5. \A w \in S : ~Running(w)' /\ ~Acting(w)' /\ ~Starting(w)'
    BY <1>4 DEF Running, Acting, Starting
  <1>6. ASSUME NEW v \in Loops \ S
        PROVE  /\ runner'[v] = runner[v] /\ (Running(v)' <=> Running(v))
               /\ (Acting(v)' <=> Acting(v)) /\ (Starting(v)' <=> Starting(v))
    BY <1>4 DEF Running, Acting, Starting
  <1>7. LoopsSound'
    <2> SUFFICES ASSUME NEW v \in Loops
                 PROVE  /\ runner'[v].now <= now
                        /\ \A y \in runner'[v].todo : y.auto \in AutosOf(v) /\ y.row.status # "none"
                        /\ Running(v)' => runner'[v].auto \in AutosOf(v) /\ runner'[v].copy.status # "none"
                        /\ Acting(v)' => runs[runner'[v].run].auto = runner'[v].auto
      BY <1>1, <1>4 DEF LoopsSound
    <2>1. CASE v \in S
      BY <1>4, <1>5, <2>1, TypeParts, Assumed
    <2>2. CASE v \notin S
      BY <1>6, <2>2 DEF Typed, LoopsSound
    <2> QED BY <2>1, <2>2
  <1>8. "tick" \in Loops /\ "event" \in Loops
    BY DEF Loops
  <1>9. HoldsDue'
    BY <1>4, <1>5, <1>6, <1>8 DEF Typed, HoldsDue
  <1>10. Past'
    <2>1. \A v \in Loops : runner'[v].event.task \in DOMAIN runs \cup {NoTask}
      BY <1>4 DEF Typed, Past, NoEvent
    <2>2. Acting("event")' => runner'["event"].event.task < runner'["event"].run
      BY <1>5, <1>6, <1>8 DEF Typed, Past
    <2>4. \A c \in Clients : \A x \in client'[c].todo : x.row.status # "none"
      BY <1>1 DEF Typed, Past, NoRequest
    <2>5. \A i \in DOMAIN queue' : queue'[i].task \in DOMAIN runs \cup {NoTask}
      BY <1>2 DEF Typed, Past
    <2> QED BY <1>1, <2>1, <2>2, <2>4, <2>5 DEF Past
  <1>11. \A v \in Loops : Acting(v)' => runner'[v].run \in DOMAIN runs'
    BY <1>1, <1>5, <1>6, TypeParts
  <1>12. client' \in [Clients -> Request] /\ faults' \in 0..MaxFaults
    <2>1. NoRequest \in Request
      BY DEF NoRequest, Request
    <2> QED BY <1>1, <2>1, TypeParts, Assumed
  <1>13. pausedAll' \subseteq Autos /\ Memory'
    <2>1. pausedAll' \subseteq Autos
      BY <1>1 DEF Typed, TypeOK
    <2>2. forgot' \subseteq DOMAIN runs
      <3>1. ASSUME NEW w \in Loops, StatementRaises(w) PROVE forgot' \subseteq DOMAIN runs
        <4>1. Acting(w) => runner[w].run \in DOMAIN runs
          BY TypeParts
        <4> QED BY <3>1, <4>1, TypeParts DEF StatementRaises
      <3> QED BY <3>1 DEF Restart
    <2>3. owned' \in Seq(DOMAIN runs) /\ Len(owned') <= OwnedMemory
      <3>1. <<>> \in Seq(DOMAIN runs) /\ Len(<<>>) <= OwnedMemory
        BY Assumed, EmptySeq
      <3>2. owned' = <<>> \/ owned' = owned
        BY DEF Restart, StatementRaises
      <3> QED BY <3>1, <3>2, TypeParts
    <2> QED BY <1>1, <2>1, <2>2, <2>3 DEF Memory
  <1>14. TypeOK'
    BY <1>1, <1>2, <1>7, <1>11, <1>12, <1>13, TypeParts, TypedAgain
  <1> QED BY <1>7, <1>9, <1>10, <1>14 DEF Typed

------------------------------------------------------------------------------
(* The requests.                                                            *)

LEMMA ReadsAre ==
    ASSUME NEW op \in Ops \ {"delete"}, NEW A \in Reads(op)
    PROVE  /\ A \in SUBSET Autos /\ \A a \in A : row[a].status \notin {"none", "deleted"}
           /\ op # "pause" => \A a \in A : row[a].status # "completed"
  <1>1. op \in {"pause", "resume", "pauseAll", "resumeAll"}
    BY AutomationAssumption
  <1>2. CASE op = "pause"
    BY <1>2 DEF Reads
  <1>3. CASE op = "resume"
    BY <1>3 DEF Reads, Resumable
  <1>4. CASE op = "pauseAll"
    BY <1>4 DEF Reads
  <1>5. CASE op = "resumeAll"
    BY <1>5 DEF Reads
  <1> QED BY <1>1, <1>2, <1>3, <1>4, <1>5

LEMMA ReadDoes ==
    ASSUME Typed, NEW c \in Clients, Read(c)
    PROVE  \E op \in Ops \ {"delete"} : \E A \in Reads(op) :
            /\ client' \in [Clients -> Request]
            /\ client'[c].op = op /\ client'[c].todo = Listing(A)
            /\ \A d \in Clients : d # c => client'[d] = client[d]
  <1>1. PICK op \in Ops \ {"delete"} : \E A \in Reads(op) :
            client' = [client EXCEPT ![c] = [op |-> op, done |-> {}, todo |-> Listing(A)]]
    BY DEF Read, Listing
  <1>2. PICK A \in Reads(op) :
            client' = [client EXCEPT ![c] = [op |-> op, done |-> {}, todo |-> Listing(A)]]
    BY <1>1
  <1> DEFINE r == [op |-> op, done |-> {}, todo |-> Listing(A)]
  <1>3. r \in Request /\ r.op = op /\ r.todo = Listing(A)
    BY ReadsAre, ListingIs DEF Request
  <1>4. client' = [client EXCEPT ![c] = r]
    BY <1>2
  <1> HIDE DEF r
  <1>5. /\ client' \in [Clients -> Request] /\ client'[c] = r
        /\ \A d \in Clients : d # c => client'[d] = client[d]
    BY <1>3, <1>4, TypeParts
  <1> QED BY <1>3, <1>5

LEMMA WriteDoes ==
    ASSUME Typed, NEW c \in Clients, Write(c)
    PROVE  \E x \in client[c].todo :
            /\ x \in Copy
            /\ client' \in [Clients -> Request]
            /\ client'[c].op = client[c].op /\ client'[c].todo = client[c].todo \ {x}
            /\ \A d \in Clients : d # c => client'[d] = client[d]
            /\ row' \in [Autos -> Row]
            /\ \A a \in Autos : a # x.auto => row'[a] = row[a]
            /\ \/ row' = row
               \/ /\ row'[x.auto].next = x.row.next
                  /\ row'[x.auto].status \in {"paused", "active"}
  <1>1. PICK x \in client[c].todo :
            /\ \/ UNCHANGED row
               \/ \E st \in {"paused", "active"} :
                    row' = [row EXCEPT ![x.auto] = [x.row EXCEPT !.status = st]]
            /\ client' = [client EXCEPT ![c].todo = @ \ {x}, ![c].done = @ \cup {x.auto}]
    BY DEF Write
  <1>2. client[c] \in Request /\ client \in [Clients -> Request] /\ row \in [Autos -> Row]
    BY TypeParts
  <1>3. x \in Copy /\ x.auto \in Autos /\ x.row \in Row
    BY <1>2 DEF Request, Copy
  <1> DEFINE r == [client[c] EXCEPT !.todo = @ \ {x}, !.done = @ \cup {x.auto}]
  <1>4. client[c].todo \ {x} \in SUBSET Copy /\ client[c].done \cup {x.auto} \in SUBSET Autos
    BY <1>2, <1>3 DEF Request
  <1>5. r \in Request /\ r.op = client[c].op /\ r.todo = client[c].todo \ {x}
    BY <1>2, <1>4, Zenon DEF Request
  <1>6. client' = [client EXCEPT ![c] = r]
    BY <1>1, <1>2, Zenon
  <1> HIDE DEF r
  <1>7. /\ client' \in [Clients -> Request] /\ client'[c] = r
        /\ \A d \in Clients : d # c => client'[d] = client[d]
    BY <1>2, <1>5, <1>6
  <1>8. ASSUME NEW st \in {"paused", "active"},
               row' = [row EXCEPT ![x.auto] = [x.row EXCEPT !.status = st]]
        PROVE  /\ row' \in [Autos -> Row] /\ row'[x.auto].next = x.row.next
               /\ row'[x.auto].status = st
               /\ \A a \in Autos : a # x.auto => row'[a] = row[a]
    <2> DEFINE q == [x.row EXCEPT !.status = st]
    <2>1. st \in {"none", "active", "paused", "completed", "deleted"}
      OBVIOUS
    <2>2. q \in Row /\ q.next = x.row.next /\ q.status = st
      BY <1>3, <2>1, Zenon DEF Row
    <2>3. row' = [row EXCEPT ![x.auto] = q]
      BY <1>8
    <2> HIDE DEF q
    <2> QED BY <1>2, <1>3, <2>2, <2>3
  <1> QED BY <1>1, <1>2, <1>3, <1>5, <1>7, <1>8

LEMMA AnswerDoes ==
    ASSUME Typed, NEW c \in Clients, Answer(c)
    PROVE  /\ client' \in [Clients -> Request] /\ client'[c] = NoRequest
           /\ \A d \in Clients : d # c => client'[d] = client[d]
           /\ pausedAll' \subseteq Autos
  <1>1. client' = [client EXCEPT ![c] = NoRequest]
    BY DEF Answer
  <1>2. /\ NoRequest \in Request /\ client \in [Clients -> Request] /\ client[c] \in Request
        /\ pausedAll \subseteq Autos
    BY TypeParts DEF NoRequest, Request, Typed, TypeOK
  <1>3. pausedAll' \subseteq Autos
    BY <1>2 DEF Answer, Request
  <1> QED BY <1>1, <1>2, <1>3

\* The table as a create or a delete leaves it.
LEMMA CreateDoes ==
    ASSUME Typed, NEW a \in Autos, Create(a)
    PROVE  /\ row' \in [Autos -> Row]
           /\ row'[a].status = "active"
           /\ \A b \in Autos : b # a => row'[b] = row[b]
  <1>1. PICK next \in IF a \in OneTime THEN 0..MaxTime
                     ELSE {IF a \in Recurring THEN now + Interval ELSE Null} :
            row' = [row EXCEPT ![a] = [status |-> "active", next |-> next, last |-> Null]]
    BY DEF Create
  <1>2. next \in Times \cup {Null}
    BY <1>1, TypeParts, TimesAre
  <1>3. [status |-> "active", next |-> next, last |-> Null] \in Row
    BY <1>2 DEF Row
  <1> QED BY <1>1, <1>3, TypeParts

LEMMA DeleteDoes ==
    ASSUME Typed, NEW a \in Autos, Delete(a)
    PROVE  /\ row' \in [Autos -> Row]
           /\ row'[a].status = "deleted" /\ row'[a].next = Null
           /\ \A b \in Autos : b # a => row'[b] = row[b]
  <1> DEFINE r == [Missing EXCEPT !.status = "deleted"]
  <1>1. r \in Row /\ r.status = "deleted" /\ r.next = Null
    BY DEF Missing, Row
  <1>2. row' = [row EXCEPT ![a] = r]
    BY DEF Delete
  <1> HIDE DEF r
  <1> QED BY <1>1, <1>2, TypeParts

LEMMA RequestTyped ==
    ASSUME Typed,
           \/ \E a \in Autos : Create(a) \/ Delete(a)
           \/ \E c \in Clients : Read(c) \/ Write(c) \/ Answer(c)
    PROVE  Typed'
  <1>1. UNCHANGED <<now, runs, runner, owned, queue, published, live, faults, forgot>>
    BY DEF Create, Delete, Read, Write, Answer
  <1>2. row' \in [Autos -> Row]
    <2>1. CASE UNCHANGED row
      BY <2>1, TypeParts
    <2> QED BY <2>1, CreateDoes, DeleteDoes, WriteDoes DEF Read, Answer
  <1>3. /\ client' \in [Clients -> Request]
        /\ \A c \in Clients : \A x \in client'[c].todo : x.row.status # "none"
    <2>1. \A c \in Clients : \A x \in client[c].todo : x.row.status # "none"
      BY DEF Typed, Past
    <2>2. CASE UNCHANGED client
      BY <2>1, <2>2, TypeParts
    <2>3. ASSUME NEW c \in Clients, Read(c)
          PROVE  /\ client' \in [Clients -> Request]
                 /\ \A d \in Clients : \A x \in client'[d].todo : x.row.status # "none"
      <3>1. PICK op \in Ops \ {"delete"} : \E A \in Reads(op) :
                /\ client' \in [Clients -> Request]
                /\ client'[c].op = op /\ client'[c].todo = Listing(A)
                /\ \A d \in Clients : d # c => client'[d] = client[d]
        BY <2>3, ReadDoes
      <3>2. PICK A \in Reads(op) :
                /\ client' \in [Clients -> Request]
                /\ client'[c].op = op /\ client'[c].todo = Listing(A)
                /\ \A d \in Clients : d # c => client'[d] = client[d]
        BY <3>1
      <3>3. \A x \in Listing(A) : x.row.status # "none"
        BY ReadsAre, ListingIs
      <3> QED BY <2>1, <3>2, <3>3
    <2>4. ASSUME NEW c \in Clients, Write(c)
          PROVE  /\ client' \in [Clients -> Request]
                 /\ \A d \in Clients : \A x \in client'[d].todo : x.row.status # "none"
      <3>1. /\ client' \in [Clients -> Request]
            /\ client'[c].todo \subseteq client[c].todo
            /\ \A d \in Clients : d # c => client'[d] = client[d]
        BY <2>4, WriteDoes
      <3> QED BY <2>1, <3>1
    <2>5. ASSUME NEW c \in Clients, Answer(c)
          PROVE  /\ client' \in [Clients -> Request]
                 /\ \A d \in Clients : \A x \in client'[d].todo : x.row.status # "none"
      BY <2>1, <2>5, AnswerDoes DEF NoRequest
    <2> QED BY <2>2, <2>3, <2>4, <2>5 DEF Create, Delete
  <1>4. pausedAll' \subseteq Autos
    BY AnswerDoes DEF Create, Delete, Read, Write, Typed, TypeOK
  <1>5. LoopsSound' /\ HoldsDue'
    BY <1>1 DEF Typed, LoopsSound, HoldsDue, Running, Acting, Starting
  <1>6. Past'
    BY <1>1, <1>3 DEF Typed, Past, Acting
  <1>7. TypeOK'
    BY <1>1, <1>2, <1>3, <1>4, <1>5, TypeParts, TypedAgain DEF Acting
  <1> QED BY <1>5, <1>6, <1>7 DEF Typed

LEMMA StepTyped == Typed /\ [Next]_vars => Typed'
  <1> SUFFICES ASSUME Typed, [Next]_vars PROVE Typed'
    OBVIOUS
  <1>1. CASE UNCHANGED vars
    BY <1>1 DEF vars, Typed, TypeOK, LoopsSound, HoldsDue, Past, Running, Acting, Starting
  <1>2. ASSUME NEW w \in Loops, Runner(w)
        PROVE  Typed'
    BY <1>2, TakingTyped, CountTyped, BeginTyped, ActionEndsTyped, SaveTyped DEF Runner
  <1> QED BY <1>1, <1>2, WorldTyped, FaultTyped, RequestTyped DEF Next

\* The tables, the loops, the requests and the queue are of the kind the code means them to
\* be.
THEOREM TypeCorrect == Spec => []TypeOK
  <1>1. Typed => TypeOK
    BY DEF Typed
  <1> QED BY <1>1, Initially, StepTyped, PTL DEF Spec

------------------------------------------------------------------------------
(* Which automations a step touches.                                        *)

\* A loop takes up what is active, a row is written by whoever holds a copy of it, created or
\* deleted, and a request reads what is there.
Touched(a) ==
    /\ \A w \in Loops : Held(w, a)' => Held(w, a) \/ row[a].status = "active"
    /\ \/ row'[a] = row[a]
       \/ /\ row'[a].status # "none"
          /\ \/ \E w \in Loops : Held(w, a)
             \/ \E c \in Clients : Holds(a, client[c].todo)
             \/ row[a].status = "none"
             \/ row'[a].status = "deleted"
    /\ \A c \in Clients : Holds(a, client'[c].todo) =>
        \/ Holds(a, client[c].todo)
        \/ /\ row[a].status \notin {"none", "deleted"}
           /\ client'[c].op = "pause" \/ row[a].status # "completed"

LEMMA OnwardTouches ==
    ASSUME Typed, NEW w \in Loops, runner' = [runner EXCEPT ![w] = Onward(@)], NEW a, NEW v \in Loops,
           Held(v, a)'
    PROVE  Held(v, a)
  <1>1. /\ \A u \in Loops : u # w => runner'[u] = runner[u]
        /\ \/ runner'[w] = Idle
           \/ runner'[w].at = "next" /\ runner'[w].todo = runner[w].todo
    BY OnwardDoes
  <1>2. ~Running(w)' /\ runner'[w].todo \subseteq runner[w].todo
    BY <1>1, IdleIs DEF Running
  <1>3. CASE v = w
    BY <1>2, <1>3 DEF Held, Holds
  <1>4. CASE v # w
    BY <1>1, <1>4 DEF Held, Holds, Running
  <1> QED BY <1>3, <1>4

LEMMA LoopTouches ==
    ASSUME Typed, NEW w \in Loops, Runner(w), NEW a \in Autos
    PROVE  Touched(a)
  <1>1. UNCHANGED client
    BY DEF Runner, TickList, TakeEvent, Count, Begin, ActionEnds, Save
  <1>2. ASSUME NEW v \in Loops, Held(v, a)'
        PROVE  Held(v, a) \/ row[a].status = "active"
    <2>1. CASE UNCHANGED runner
      BY <1>2, <2>1 DEF Held, Running
    <2>2. CASE TickList
      <3>1. PICK D \in SUBSET Due :
                /\ \A u \in Loops : u # "tick" => runner'[u] = runner[u]
                /\ runner'["tick"].at = "next" /\ runner'["tick"].todo = Listing(D)
        BY <2>2, TickListDoes
      <3>2. \A x \in Listing(D) : row[x.auto].status = "active"
        BY ListingIs DEF Due, Timed, Autos
      <3>3. CASE v = "tick"
        BY <1>2, <3>1, <3>2, <3>3 DEF Held, Holds, Running
      <3>4. CASE v # "tick"
        BY <1>2, <3>1, <3>4 DEF Held, Holds, Running
      <3> QED BY <3>3, <3>4
    <2>3. CASE TakeEvent /\ ~UNCHANGED runner
      <3>1. /\ \A u \in Loops : u # "event" => runner'[u] = runner[u]
            /\ \/ runner'["event"] = Idle
               \/ /\ runner'["event"].at = "next"
                  /\ \E M \in SUBSET Matching : runner'["event"].todo = Listing(M)
        BY <2>3, TakeEventDoes
      <3>2. ~Running("event")'
        BY <3>1, IdleIs DEF Running
      <3>3. \A x \in runner'["event"].todo : row[x.auto].status = "active"
        <4>1. \A M \in SUBSET Matching : \A x \in Listing(M) : row[x.auto].status = "active"
          BY ListingIs DEF Matching, Autos
        <4> QED BY <3>1, <4>1, IdleIs
      <3>4. CASE v = "event"
        BY <1>2, <3>2, <3>3, <3>4 DEF Held, Holds
      <3>5. CASE v # "event"
        BY <1>2, <3>1, <3>5 DEF Held, Holds, Running
      <3> QED BY <3>4, <3>5
    <2>4. CASE Count(w)
      <3>1. PICK x \in runner[w].todo :
                /\ \A u \in Loops : u # w => runner'[u] = runner[u]
                /\ runner'[w].auto = x.auto /\ runner'[w].todo = runner[w].todo \ {x}
        BY <2>4, CountDoes
      <3>2. CASE v = w
        BY <1>2, <3>1, <3>2 DEF Held, Holds
      <3>3. CASE v # w
        BY <1>2, <3>1, <3>3 DEF Held, Holds, Running
      <3> QED BY <3>2, <3>3
    <2>5. CASE runner' = [runner EXCEPT ![w] = Onward(@)]
      BY <1>2, <2>5, OnwardTouches
    <2>6. CASE (Begin(w) /\ ~Taken(runner[w].auto, Basis(w))) \/ ActionEnds(w)
      <3>1. /\ \A u \in Loops : u # w => runner'[u] = runner[u]
            /\ runner'[w].auto = runner[w].auto /\ runner'[w].todo = runner[w].todo
        BY <2>6, BeginDoes, ActionEndsDoes
      <3>2. Running(w)
        BY <2>6 DEF Begin, ActionEnds, Running
      <3>3. CASE v = w
        BY <1>2, <3>1, <3>2, <3>3 DEF Held, Holds
      <3>4. CASE v # w
        BY <1>2, <3>1, <3>4 DEF Held, Holds, Running
      <3> QED BY <3>3, <3>4
    <2> QED BY <2>1, <2>2, <2>3, <2>4, <2>5, <2>6 DEF Runner, Begin, Save
  <1>3. row'[a] = row[a] \/ (row'[a].status # "none" /\ Held(w, a))
    <2>1. CASE UNCHANGED row
      BY <2>1
    <2>2. CASE Save(w)
      <3>1. row' = [row EXCEPT ![runner[w].auto] = runner[w].copy] /\ Running(w)
        BY <2>2 DEF Save, Running
      <3>2. runner[w].copy.status # "none"
        BY <3>1 DEF Typed, LoopsSound
      <3>3. CASE a = runner[w].auto
        BY <3>1, <3>2, <3>3, TypeParts DEF Held
      <3>4. CASE a # runner[w].auto
        BY <3>1, <3>4, TypeParts
      <3> QED BY <3>3, <3>4
    <2> QED BY <2>1, <2>2 DEF Runner, TickList, TakeEvent, Count, Begin, ActionEnds
  <1> QED BY <1>1, <1>2, <1>3 DEF Touched

LEMMA ElseTouches ==
    ASSUME Typed, NEW a \in Autos,
           \/ Tick \/ ForeignEvent \/ \E t \in live : TaskEvent(t)
           \/ Restart \/ \E w \in Loops : StatementRaises(w)
    PROVE  Touched(a)
  <1>1. UNCHANGED row
    BY DEF Tick, ForeignEvent, TaskEvent, Restart, StatementRaises
  <1>2. CASE UNCHANGED <<runner, client>>
    BY <1>1, <1>2 DEF Touched, Held, Running
  <1>3. CASE Restart
    <2>1. \A w \in Loops : runner'[w] = Idle
      BY <1>3, RestartDoes
    <2>2. \A c \in Clients : client'[c].todo = {}
      BY <1>3 DEF Restart, NoRequest
    <2> QED BY <1>1, <2>1, <2>2, IdleIs DEF Touched, Held, Holds, Running
  <1>4. ASSUME NEW w \in Loops, StatementRaises(w)
        PROVE  Touched(a)
    <2>1. UNCHANGED client
      BY <1>4 DEF StatementRaises
    <2>2. /\ \A v \in Loops : v # w => runner'[v] = runner[v]
          /\ runner'[w].at \in {"dead", "idle"} /\ runner'[w].todo = {}
      BY <1>4, RaisesDoes
    <2>3. ~Held(w, a)'
      BY <2>2 DEF Held, Holds, Running
    <2> QED BY <1>1, <2>1, <2>2, <2>3 DEF Touched, Held, Running
  <1> QED BY <1>2, <1>3, <1>4 DEF Tick, ForeignEvent, TaskEvent

LEMMA RequestTouches ==
    ASSUME Typed, NEW a \in Autos,
           \/ \E b \in Autos : Create(b) \/ Delete(b)
           \/ \E c \in Clients : Read(c) \/ Write(c) \/ Answer(c)
    PROVE  Touched(a)
  <1>1. \A w \in Loops : Held(w, a)' => Held(w, a)
    <2>1. UNCHANGED runner
      BY DEF Create, Delete, Read, Write, Answer
    <2> QED BY <2>1 DEF Held, Running
  <1>2. ASSUME NEW b \in Autos, Create(b) \/ Delete(b)
        PROVE  Touched(a)
    <2>1. UNCHANGED client
      BY <1>2 DEF Create, Delete
    <2>2. row'[a] = row[a] \/ (a = b /\ row'[a].status \in {"active", "deleted"})
      BY <1>2, CreateDoes, DeleteDoes
    <2>3. Create(b) => row[b].status = "none"
      BY DEF Create
    <2>4. Delete(b) => row'[b].status = "deleted"
      BY DeleteDoes
    <2> QED BY <1>1, <1>2, <2>1, <2>2, <2>3, <2>4 DEF Touched
  <1>3. ASSUME NEW c \in Clients, Read(c)
        PROVE  Touched(a)
    <2>1. PICK op \in Ops \ {"delete"} : \E A \in Reads(op) :
            /\ client'[c].op = op /\ client'[c].todo = Listing(A)
            /\ \A d \in Clients : d # c => client'[d] = client[d]
      BY <1>3, ReadDoes
    <2>2. PICK A \in Reads(op) :
            /\ client'[c].op = op /\ client'[c].todo = Listing(A)
            /\ \A d \in Clients : d # c => client'[d] = client[d]
      BY <2>1
    <2>3. \A x \in Listing(A) : /\ row[x.auto].status \notin {"none", "deleted"}
                                /\ op = "pause" \/ row[x.auto].status # "completed"
      BY ReadsAre, ListingIs
    <2>4. UNCHANGED row
      BY <1>3 DEF Read
    <2> QED BY <1>1, <2>2, <2>3, <2>4 DEF Touched, Holds
  <1>4. ASSUME NEW c \in Clients, Write(c)
        PROVE  Touched(a)
    <2>1. PICK x \in client[c].todo :
            /\ client'[c].todo \subseteq client[c].todo
            /\ \A d \in Clients : d # c => client'[d] = client[d]
            /\ \A b \in Autos : b # x.auto => row'[b] = row[b]
            /\ row' = row \/ row'[x.auto].status \in {"paused", "active"}
      BY <1>4, WriteDoes
    <2>2. row'[a] = row[a] \/ (row'[a].status # "none" /\ Holds(a, client[c].todo))
      BY <2>1 DEF Holds
    <2> QED BY <1>1, <2>1, <2>2 DEF Touched, Holds
  <1>5. ASSUME NEW c \in Clients, Answer(c)
        PROVE  Touched(a)
    <2>1. /\ client'[c].todo = {} /\ \A d \in Clients : d # c => client'[d] = client[d]
          /\ UNCHANGED row
      BY <1>5, AnswerDoes DEF Answer, NoRequest
    <2> QED BY <1>1, <2>1 DEF Touched, Holds
  <1> QED BY <1>2, <1>3, <1>4, <1>5

LEMMA StepTouches == Typed /\ [Next]_vars => \A a \in Autos : Touched(a)
  <1> SUFFICES ASSUME Typed, [Next]_vars, NEW a \in Autos PROVE Touched(a)
    OBVIOUS
  <1>1. CASE UNCHANGED vars
    BY <1>1 DEF vars, Touched, Held, Running
  <1> QED BY <1>1, LoopTouches, ElseTouches, RequestTouches DEF Next

RestsAtStep ==
    \A a \in Autos : AtRest(a) =>
        /\ \A w \in Loops : ~Held(w, a)'
        /\ row'[a] = row[a] \/ row'[a].status = "deleted"
        /\ row[a].status # "paused" =>
            \A c \in Clients : Holds(a, client'[c].todo) => client'[c].op = "pause"

\* An automation that is paused, completed or deleted while nobody holds a copy of it is left
\* as it is by both loops, every request and every fault, until somebody asks to resume it or
\* deletes it (pause, delete_automation, store.due).
THEOREM StoppedStays == Spec => StoppedRests
  <1>1. Typed /\ [Next]_vars => RestsAtStep
    <2> SUFFICES ASSUME Typed, [Next]_vars, NEW a \in Autos, AtRest(a)
                 PROVE  /\ \A w \in Loops : ~Held(w, a)'
                        /\ row'[a] = row[a] \/ row'[a].status = "deleted"
                        /\ row[a].status # "paused" =>
                            \A c \in Clients : Holds(a, client'[c].todo) => client'[c].op = "pause"
      BY DEF RestsAtStep
    <2>1. Touched(a)
      BY StepTouches
    <2> QED BY <2>1 DEF Touched, AtRest
  <1> QED BY <1>1, Initially, StepTyped, PTL DEF Spec, StoppedRests, RestsAtStep

------------------------------------------------------------------------------
(* The table of runs.                                                       *)

\* A run is inserted by begin_run and after that only its status changes.
RunsKept ==
    /\ DOMAIN runs' = DOMAIN runs
    /\ \A i \in DOMAIN runs : /\ runs'[i].auto = runs[i].auto /\ runs'[i].basis = runs[i].basis
                              /\ runs'[i].at = runs[i].at

Inserts(w) == Begin(w) /\ ~Taken(runner[w].auto, Basis(w))

LEMMA RunsGrow ==
    ASSUME Typed, [Next]_vars
    PROVE  RunsKept \/ \E w \in Loops : Inserts(w)
  <1>1. CASE UNCHANGED runs
    BY <1>1 DEF RunsKept
  <1>2. ASSUME NEW w \in Loops, ActionEnds(w)
        PROVE  RunsKept
    <2>1. runner[w].run \in DOMAIN runs
      BY <1>2, TypeParts DEF ActionEnds, Acting
    <2>2. PICK st \in {"completed", "waiting", "failed"} :
            runs' = [runs EXCEPT ![runner[w].run].status = st]
      BY <1>2, ActionEndsDoes
    <2> QED BY <2>1, <2>2, RunPut DEF RunsKept
  <1>3. ASSUME NEW w \in Loops, Runner(w) \/ StatementRaises(w)
        PROVE  UNCHANGED runs \/ ActionEnds(w) \/ Inserts(w)
    BY <1>3 DEF Runner, TickList, TakeEvent, Count, Begin, Save, StatementRaises, Inserts
  <1>4. CASE Tick \/ ForeignEvent \/ Restart \/ \E t \in live : TaskEvent(t)
    BY <1>1, <1>4 DEF Tick, ForeignEvent, Restart, TaskEvent
  <1>5. CASE \/ \E a \in Autos : Create(a) \/ Delete(a)
             \/ \E c \in Clients : Read(c) \/ Write(c) \/ Answer(c)
    BY <1>1, <1>5 DEF Create, Delete, Read, Write, Answer
  <1> QED BY <1>1, <1>2, <1>3, <1>4, <1>5 DEF Next, vars

\* Only the loop itself moves on to the insert, from its count.
LEMMA BeginFrom ==
    ASSUME Typed, [Next]_vars, NEW w \in Loops, runner'[w].at = "begin"
    PROVE  runner'[w] = runner[w] \/ (Count(w) /\ UNCHANGED runs)
  <1>1. CASE UNCHANGED runner
    BY <1>1
  <1>2. ASSUME NEW v \in Loops, Runner(v)
        PROVE  runner'[w] = runner[w] \/ (Count(w) /\ UNCHANGED runs)
    <2>1. CASE TickList
      BY <2>1, TickListDoes
    <2>2. CASE TakeEvent /\ ~UNCHANGED runner
      BY <2>2, TakeEventDoes, IdleIs
    <2>3. CASE Count(v)
      <3>1. \A u \in Loops : u # v => runner'[u] = runner[u]
        BY <2>3, CountDoes
      <3> QED BY <2>3, <3>1 DEF Count
    <2>4. CASE runner' = [runner EXCEPT ![v] = Onward(@)]
      BY <2>4, OnwardDoes, IdleIs
    <2>5. CASE Inserts(v) \/ ActionEnds(v)
      BY <2>5, BeginDoes, ActionEndsDoes DEF Inserts
    <2> QED BY <1>1, <1>2, <2>1, <2>2, <2>3, <2>4, <2>5 DEF Runner, Begin, Save, Inserts
  <1>3. ASSUME NEW v \in Loops, StatementRaises(v)
        PROVE  runner'[w] = runner[w]
    BY <1>3, RaisesDoes
  <1>4. CASE Restart
    BY <1>4, RestartDoes, IdleIs
  <1>5. CASE Tick \/ ForeignEvent \/ \E t \in live : TaskEvent(t)
    BY <1>1, <1>5 DEF Tick, ForeignEvent, TaskEvent
  <1>6. CASE \/ \E a \in Autos : Create(a) \/ Delete(a)
             \/ \E c \in Clients : Read(c) \/ Write(c) \/ Answer(c)
    BY <1>1, <1>6 DEF Create, Delete, Read, Write, Answer
  <1> QED BY <1>1, <1>2, <1>3, <1>4, <1>5, <1>6 DEF Next, vars

\* The two loops run automations of different kinds.
LEMMA KindsApart ==
    ASSUME NEW v \in Loops, NEW w \in Loops, v # w
    PROVE  AutosOf(v) \cap AutosOf(w) = {}
  BY Assumed DEF Loops, AutosOf

------------------------------------------------------------------------------
(* The budget.                                                              *)

LEMMA DaysPass == \A m, n \in Nat : /\ m <= n => Day(m) <= Day(n)
                                    /\ Day(m) \in Nat
  BY Assumed DEF Day

LEMMA SomeRunsFinite ==
    ASSUME Typed, NEW S \in SUBSET (DOMAIN runs)
    PROVE  IsFiniteSet(S) /\ Cardinality(S) \in Nat
  <1>1. DOMAIN runs = 1..Len(runs) /\ Len(runs) \in Nat
    BY RunsAre
  <1>2. IsFiniteSet(1..Len(runs))
    BY <1>1, FS_Interval
  <1> QED BY <1>1, <1>2, FS_Subset, FS_CardinalityType

RunsOn(a, d) == {i \in DOMAIN runs : runs[i].auto = a /\ Day(runs[i].at) = d}

LEMMA CountBounds ==
    ASSUME Typed, NEW a, NEW t, ~Spent(a, t)
    PROVE  Cardinality(RunsSince(a, t)) < MaxRunsPerDay
  <1>1. Cardinality(RunsSince(a, t)) \in Nat
    BY SomeRunsFinite DEF RunsSince
  <1>2. ~(Cardinality(RunsSince(a, t)) >= MaxRunsPerDay)
    BY DEF Spent, RunsSince
  <1> QED BY <1>1, <1>2, Assumed

LEMMA InsertBudget ==
    ASSUME Budgeted, NEW w \in Loops, Inserts(w), NEW a \in Autos, NEW d \in 0..Day(MaxTime)
    PROVE  Cardinality(RunsOn(a, d)') <= MaxRunsPerDay
  <1>1. Typed /\ runner[w].at = "begin" /\ Cardinality(RunsOn(a, d)) <= MaxRunsPerDay
    BY DEF Budgeted, DailyBudget, RunsOn, Inserts, Begin
  <1>2. /\ DOMAIN runs' = DOMAIN runs \cup {Newest} /\ Newest \notin DOMAIN runs
        /\ \A i \in DOMAIN runs : runs'[i] = runs[i]
        /\ runs'[Newest].auto = runner[w].auto /\ runs'[Newest].at = now
    BY <1>1, RunInserted DEF Inserts
  <1>3. CASE runner[w].auto = a /\ Day(now) = d
    <2>1. RunsOn(a, d)' = RunsOn(a, d) \cup {Newest}
      BY <1>2, <1>3 DEF RunsOn
    <2>2. runner[w].now \in Nat /\ now \in Nat /\ runner[w].now <= now
      BY <1>1, TypeParts, Assumed DEF LoopState, Typed, LoopsSound
    <2>3. d \in Nat /\ Day(runner[w].now) \in Nat /\ Day(runner[w].now) <= d
      BY <1>3, <2>2, DaysPass
    <2>4. \A i \in DOMAIN runs : Day(runs[i].at) = d => Day(runs[i].at) >= Day(runner[w].now)
      BY <2>3
    <2>5. RunsOn(a, d) \in SUBSET RunsSince(a, runner[w].now)
      BY <2>4 DEF RunsOn, RunsSince
    <2>6. /\ IsFiniteSet(RunsSince(a, runner[w].now)) /\ IsFiniteSet(RunsOn(a, d))
          /\ Cardinality(RunsSince(a, runner[w].now)) \in Nat /\ Cardinality(RunsOn(a, d)) \in Nat
      BY <1>1, SomeRunsFinite DEF RunsOn, RunsSince
    <2>7. Cardinality(RunsOn(a, d)) <= Cardinality(RunsSince(a, runner[w].now))
      BY <2>5, <2>6, FS_Subset
    <2>8. Cardinality(RunsSince(a, runner[w].now)) < MaxRunsPerDay
      BY <1>1, <1>3 DEF Budgeted, Counted
    <2>9. Newest \notin RunsOn(a, d)
      BY <1>2 DEF RunsOn
    <2>10. Cardinality(RunsOn(a, d)') = Cardinality(RunsOn(a, d)) + 1
      BY <2>1, <2>6, <2>9, FS_AddElement
    <2> QED BY <2>6, <2>7, <2>8, <2>10, Assumed
  <1>4. CASE ~(runner[w].auto = a /\ Day(now) = d)
    <2>1. RunsOn(a, d)' = RunsOn(a, d)
      BY <1>2, <1>4 DEF RunsOn
    <2> QED BY <1>1, <2>1
  <1> QED BY <1>3, <1>4

LEMMA StepBudget == Budgeted /\ [Next]_vars => Budgeted'
  <1> SUFFICES ASSUME Budgeted, [Next]_vars PROVE Budgeted'
    OBVIOUS
  <1>1. Typed /\ Typed'
    BY StepTyped DEF Budgeted
  <1>2. DailyBudget'
    <2> SUFFICES ASSUME NEW a \in Autos, NEW d \in 0..Day(MaxTime)
                 PROVE  Cardinality(RunsOn(a, d)') <= MaxRunsPerDay
      BY DEF DailyBudget, RunsOn, Day
    <2>1. CASE RunsKept
      <3>1. RunsOn(a, d)' = RunsOn(a, d)
        BY <2>1 DEF RunsKept, RunsOn
      <3> QED BY <3>1 DEF Budgeted, DailyBudget, RunsOn
    <2> QED BY <1>1, <2>1, RunsGrow, InsertBudget
  <1>3. Counted'
    <2> SUFFICES ASSUME NEW v \in Loops, runner'[v].at = "begin"
                 PROVE  Cardinality(RunsSince(runner[v].auto, runner[v].now)') < MaxRunsPerDay
      BY DEF Counted
    <2>1. CASE Count(v) /\ UNCHANGED runs
      <3>1. PICK x \in runner[v].todo :
                /\ runner'[v].auto = x.auto /\ runner'[v].now = runner[v].now
                /\ ~Spent(x.auto, runner[v].now)
        BY <1>1, <2>1, CountDoes
      <3>2. RunsSince(runner[v].auto, runner[v].now)' = RunsSince(x.auto, runner[v].now)
        BY <2>1, <3>1 DEF RunsSince
      <3> QED BY <1>1, <3>1, <3>2, CountBounds
    <2>2. CASE runner'[v] = runner[v]
      <3>1. Cardinality(RunsSince(runner[v].auto, runner[v].now)) < MaxRunsPerDay
        BY <2>2 DEF Budgeted, Counted
      <3>2. CASE RunsKept
        <4>1. RunsSince(runner[v].auto, runner[v].now)' = RunsSince(runner[v].auto, runner[v].now)
          BY <2>2, <3>2 DEF RunsKept, RunsSince
        <4> QED BY <3>1, <4>1
      <3>3. ASSUME NEW w \in Loops, Inserts(w)
            PROVE  Cardinality(RunsSince(runner[v].auto, runner[v].now)') < MaxRunsPerDay
        <4>1. v # w
          <5>1. runner'[w].at = "act"
            BY <1>1, <3>3, BeginDoes DEF Inserts
          <5> QED BY <5>1
        <4>2. runner[v].auto # runner[w].auto
          <5>1. Running(v) /\ Running(w)
            BY <2>2, <3>3 DEF Running, Inserts, Begin
          <5> QED BY <1>1, <4>1, <5>1, KindsApart DEF Typed, LoopsSound
        <4>3. /\ DOMAIN runs' = DOMAIN runs \cup {Newest}
              /\ \A i \in DOMAIN runs : runs'[i] = runs[i]
              /\ runs'[Newest].auto = runner[w].auto
          BY <1>1, <3>3, RunInserted DEF Inserts
        <4>4. RunsSince(runner[v].auto, runner[v].now)' = RunsSince(runner[v].auto, runner[v].now)
          BY <2>2, <4>2, <4>3 DEF RunsSince
        <4> QED BY <3>1, <4>4
      <3> QED BY <1>1, <3>2, <3>3, RunsGrow
    <2> QED BY <1>1, <2>1, <2>2, BeginFrom
  <1> QED BY <1>1, <1>2, <1>3 DEF Budgeted

\* No day has more runs of an automation than its budget allows, though the count is taken
\* before the run is inserted and the two loops, the requests and midnight come in between
\* (run_automation, runs_today, begin_run).
THEOREM BudgetHolds == Spec => []DailyBudget
  <1>1. Init => Budgeted
    <2> SUFFICES ASSUME Init PROVE Budgeted
      OBVIOUS
    <2>1. Typed
      BY Initially
    <2>2. Counted
      <3>1. \A w \in Loops : runner[w].at = "idle"
        BY IdleIs DEF Init
      <3> QED BY <3>1 DEF Counted
    <2>3. DailyBudget
      <3> SUFFICES ASSUME NEW a \in Autos, NEW d \in 0..Day(MaxTime)
                   PROVE  Cardinality(RunsOn(a, d)) <= MaxRunsPerDay
        BY DEF DailyBudget, RunsOn
      <3>1. RunsOn(a, d) = {}
        BY DEF Init, RunsOn
      <3> QED BY <3>1, FS_EmptySet, Assumed
    <2> QED BY <2>1, <2>2, <2>3 DEF Budgeted
  <1>2. Budgeted => DailyBudget
    BY DEF Budgeted
  <1> QED BY <1>1, <1>2, StepBudget, PTL DEF Spec

------------------------------------------------------------------------------
(* The events of an automation's own tasks.                                 *)

LEMMA TwoLoops ==
    ASSUME NEW w \in Loops
    PROVE  (w = "tick" \/ w = "event") /\ "tick" \in Loops /\ "event" \in Loops
  BY DEF Loops

LEMMA MemoryIs ==
    ASSUME Typed
    PROVE  /\ Len(owned) \in Nat /\ Len(owned) <= OwnedMemory /\ DOMAIN owned = 1..Len(owned)
           /\ \A k \in DOMAIN owned : owned[k] \in DOMAIN runs /\ owned[k] \in Nat
           /\ DOMAIN runs = 1..Len(runs) /\ Len(runs) \in Nat
  <1>1. owned \in Seq(DOMAIN runs) /\ Len(owned) <= OwnedMemory
    BY TypeParts
  <1>2. Len(owned) \in Nat /\ DOMAIN owned = 1..Len(owned) /\ \A k \in DOMAIN owned : owned[k] \in DOMAIN runs
    BY <1>1, LenProperties, ElementOfSeq
  <1> QED BY <1>1, <1>2, RunsAre

\* A step that ends no action, inserts no run and remembers none.
LEMMA RemembersStill ==
    ASSUME Remembered, UNCHANGED <<runs, owned, forgot>>,
           \/ runner'["event"] = runner["event"]
           \/ ~Acting("event") /\ ~Acting("event")'
    PROVE  Remembered'
  <1>1. (Acting("event")' <=> Acting("event")) /\ (Acting("event") => runner'["event"] = runner["event"])
    BY DEF Acting
  <1>2. MemorySound'
    BY <1>1 DEF Remembered, MemorySound, Later
  <1>3. ASSUME NEW i \in DOMAIN runs, runs[i].auto \in Conditional
        PROVE  Forgotten(i)' \/ Owned(i)' \/ Evicted(i)' \/ InHand(i)'
    BY <1>1, <1>3 DEF Remembered, Forgotten, Owned, Evicted, InHand
  <1> QED BY <1>2, <1>3 DEF Remembered

\* A step that leaves the loop with the event it had, and changes no run that is over: what is
\* known of the event's task holds.
LEMMA HeedsStill ==
    ASSUME Typed, Typed', Untriggered, forgot \subseteq forgot', DOMAIN runs \subseteq DOMAIN runs',
           Working("event")' => Working("event") /\ runner'["event"].event = runner["event"].event,
           \A i \in DOMAIN runs :
              /\ runs'[i].auto = runs[i].auto
              /\ runs[i].auto \in Conditional /\ runs[i].status # "running"
                    => runs'[i].status = runs[i].status
    PROVE  Untriggered'
  <1> SUFFICES ASSUME Working("event")', runner'["event"].event.task # NoTask,
                      runs'[runner'["event"].event.task].auto \in Conditional
               PROVE  \/ Forgotten(runner["event"].event.task)'
                      \/ Cardinality(Later(runner["event"].event.task)') >= OwnedMemory
    BY DEF Untriggered
  <1> PICK t : t = runner["event"].event.task
    OBVIOUS
  <1>1. /\ t \in DOMAIN runs /\ runs[t].auto \in Conditional /\ Working("event")
        /\ runner'["event"].event.task = t
    <2>1. runner["event"].event.task \in DOMAIN runs \cup {NoTask}
      BY DEF Typed, Past, Loops
    <2> QED BY <2>1
  <1>2. Forgotten(t) \/ Cardinality(Later(t)) >= OwnedMemory
    BY <1>1 DEF Untriggered
  <1>3. CASE Forgotten(t)
    BY <1>1, <1>3 DEF Forgotten
  <1>4. CASE Cardinality(Later(t)) >= OwnedMemory
    <2> PICK S : S = Later(t)
      OBVIOUS
    <2> PICK T : T = {i \in DOMAIN runs' : i > t /\ runs'[i].auto \in Conditional
                                           /\ runs'[i].status \in {"completed", "waiting"}}
      OBVIOUS
    <2>1. S \subseteq T
      BY DEF Later
    <2>2. IsFiniteSet(T)
      <3>1. DOMAIN runs' = 1..Len(runs') /\ Len(runs') \in Nat
        <4>1. runs' \in Seq(Run)
          BY DEF Typed, TypeOK
        <4> QED BY <4>1, LenProperties
      <3>2. IsFiniteSet(1..Len(runs'))
        <4>1. 1 \in Int /\ Len(runs') \in Int
          BY <3>1
        <4> QED BY <4>1, FS_Interval, Zenon
      <3> QED BY <3>1, <3>2, FS_Subset
    <2>3. Cardinality(S) <= Cardinality(T) /\ Cardinality(S) \in Nat /\ Cardinality(T) \in Nat
      BY <2>1, <2>2, FS_Subset, FS_CardinalityType
    <2>4. Cardinality(T) >= OwnedMemory
      BY <1>4, <2>3, Assumed
    <2> QED BY <1>1, <2>4 DEF Later
  <1> QED BY <1>1, <1>2, <1>3, <1>4

\* A memory that is full of later runs has that many.
LEMMA EvictedLater ==
    ASSUME Typed, MemorySound, NEW t \in Nat, Evicted(t)
    PROVE  Cardinality(Later(t)) >= OwnedMemory
  <1>1. /\ Len(owned) = OwnedMemory /\ Len(owned) \in Nat /\ DOMAIN owned = 1..Len(owned)
        /\ \A k \in DOMAIN owned : owned[k] \in Nat /\ owned[k] > t /\ owned[k] \in Later(0)
    BY MemoryIs DEF Evicted, MemorySound
  <1>2. \A k \in DOMAIN owned : owned[k] \in Later(t)
    BY <1>1 DEF Later
  <1>3. owned \in Injection(1..Len(owned), Later(t))
    <2>1. owned \in [1..Len(owned) -> Later(t)]
      <3>1. owned \in [1..Len(owned) -> DOMAIN runs]
        BY TypeParts, LenProperties
      <3> QED BY <1>1, <1>2, <3>1
    <2>2. ASSUME NEW k \in 1..Len(owned), NEW l \in 1..Len(owned), owned[k] = owned[l] PROVE k = l
      <3>1. ~(k < l) /\ ~(l < k)
        BY <1>1, <2>2 DEF MemorySound
      <3>2. k \in Nat /\ l \in Nat
        BY <1>1
      <3> QED BY <3>1, <3>2
    <2> QED BY <2>1, <2>2 DEF Injection, IsInjective
  <1>4. IsFiniteSet(Later(t)) /\ Cardinality(Later(t)) \in Nat
    BY SomeRunsFinite DEF Later
  <1>5. Cardinality(1..Len(owned)) <= Cardinality(Later(t))
    BY <1>3, <1>4, FS_Injection
  <1>6. Cardinality(1..Len(owned)) = Len(owned)
    <2> PICK n \in Nat : n = Len(owned)
      BY <1>1
    <2>1. 1 \in Int /\ n \in Int
      OBVIOUS
    <2>2. Cardinality(1..n) = IF 1 > n THEN 0 ELSE n - 1 + 1
      BY <2>1, FS_Interval, Zenon
    <2> QED BY <2>2
  <1> QED BY <1>1, <1>4, <1>5, <1>6

LEMMA TakeEventHeeds == ASSUME Heeding, TakeEvent PROVE Remembered' /\ Untriggered'
  <1>1. /\ Typed /\ Remembered /\ MemorySound /\ UNCHANGED <<runs, owned, forgot>>
        /\ runner["event"].at = "idle" /\ queue # <<>>
    BY DEF Heeding, TakeEvent, Remembered
  <1>2. CASE UNCHANGED runner
    <2>1. Remembered'
      BY <1>1, <1>2, RemembersStill
    <2> QED BY <1>1, <1>2, <2>1 DEF Untriggered, Working
  <1>3. CASE ~UNCHANGED runner
    <2> PICK t : t = Head(queue).task
      OBVIOUS
    <2>1. /\ ~Owned(t)
          /\ \/ runner'["event"] = Idle
             \/ runner'["event"].event.task = t
          /\ ~Acting("event") /\ ~Acting("event")'
      BY <1>1, <1>3, TakeEventDoes, IdleIs DEF Own, Owned, Acting
    <2>2. t \in DOMAIN runs \cup {NoTask}
      BY <1>1, TailIs
    <2>3. ASSUME t # NoTask, runs[t].auto \in Conditional
          PROVE  Forgotten(t) \/ Cardinality(Later(t)) >= OwnedMemory
      <3>1. t \in DOMAIN runs /\ t \in Nat
        BY <1>1, <2>2, <2>3, RunsAre
      <3>2. Forgotten(t) \/ Evicted(t)
        BY <1>1, <2>1, <2>3, <3>1 DEF Remembered, InHand
      <3> QED BY <1>1, <3>1, <3>2, EvictedLater
    <2>4. Remembered'
      BY <1>1, <2>1, RemembersStill
    <2>5. ASSUME Working("event")' PROVE runner'["event"].event.task = t
      BY <2>1, <2>5, IdleIs DEF Working
    <2>6. Untriggered'
      BY <1>1, <2>3, <2>5 DEF Untriggered, Forgotten, Later
    <2> QED BY <2>4, <2>6
  <1> QED BY <1>2, <1>3

LEMMA ActionEndsHeeds ==
    ASSUME Heeding, NEW w \in Loops, ActionEnds(w) PROVE Remembered' /\ Untriggered'
  <1> PICK n : n = runner[w].run
    OBVIOUS
  <1>1. /\ Typed /\ Typed' /\ Remembered /\ MemorySound /\ Untriggered
        /\ Acting(w) /\ runner[w].at = "act"
    BY ActionEndsTyped DEF Heeding, ActionEnds, Acting, Remembered
  <1>2. n \in DOMAIN runs /\ runs[n].auto \in AutosOf(w)
    <2>1. Running(w)
      BY <1>1 DEF Acting, Running
    <2> QED BY <1>1, <2>1, TypeParts DEF Typed, LoopsSound
  <1>3. /\ UNCHANGED <<owned, forgot>>
        /\ \A v \in Loops : v # w => runner'[v] = runner[v]
        /\ runner'[w].at = "save" /\ runner'[w].run = n
        /\ runner'[w].event = runner[w].event
    BY <1>1, ActionEndsDoes DEF ActionEnds
  <1>4. /\ DOMAIN runs' = DOMAIN runs /\ runs'[n].status \in {"completed", "waiting", "failed"}
        /\ \A j \in DOMAIN runs : runs'[j].auto = runs[j].auto
        /\ \A j \in DOMAIN runs : j # n => runs'[j] = runs[j]
    <2>1. PICK st \in {"completed", "waiting", "failed"} : runs' = [runs EXCEPT ![n].status = st]
      BY <1>1, ActionEndsDoes
    <2> QED BY <1>1, <1>2, <2>1, RunPut
  <1>5. w = "tick" => runs[n].auto \notin Conditional
    BY <1>2, Assumed DEF AutosOf
  <1>6. w = "event" => runs[n].status = "running"
    BY <1>1 DEF MemorySound
  <1>7. \A k \in DOMAIN owned : owned[k] # n /\ owned[k] \in Later(0)'
    <2>1. \A k \in DOMAIN owned : owned[k] \in Later(0)
      BY <1>1 DEF MemorySound
    <2>2. n \notin Later(0)
      BY <1>5, <1>6, TwoLoops DEF Later
    <2> QED BY <1>4, <2>1, <2>2 DEF Later
  <1>8. /\ Acting("event")' <=> Acting("event")
        /\ Acting("event") => runner'["event"].run = runner["event"].run
    BY <1>1, <1>3, TwoLoops DEF Acting
  <1>9. Acting("event") /\ w = "tick" => runner["event"].run # n
    <2>1. ASSUME Acting("event"), w = "tick" PROVE runs[runner["event"].run].auto \in Conditional
      <3>1. Running("event")
        BY <2>1 DEF Acting, Running
      <3> QED BY <1>1, <2>1, <3>1, TwoLoops DEF Typed, LoopsSound, AutosOf
    <2> QED BY <1>5, <2>1
  <1>10. MemorySound'
    <2>1. ASSUME Acting("event")
          PROVE  runs'[runner'["event"].run].status = "running" <=> runner'["event"].at = "act"
      <3>1. CASE w = "event"
        BY <1>3, <1>4, <3>1
      <3>2. CASE w = "tick"
        <4>1. runner'["event"] = runner["event"] /\ runner["event"].run \in DOMAIN runs
          BY <1>1, <1>3, <2>1, <3>2, TwoLoops, TypeParts
        <4> QED BY <1>1, <1>4, <1>9, <2>1, <3>2, <4>1 DEF MemorySound
      <3> QED BY <3>1, <3>2, TwoLoops
    <2>2. \A k, l \in DOMAIN owned : k < l => owned[k] < owned[l]
      BY <1>1 DEF MemorySound
    <2>3. Acting("event") => \A k \in DOMAIN owned : owned[k] < runner'["event"].run
      BY <1>1, <1>8 DEF MemorySound
    <2> QED BY <1>3, <1>7, <1>8, <2>1, <2>2, <2>3 DEF MemorySound
  <1>11. ASSUME NEW i \in DOMAIN runs', runs'[i].auto \in Conditional
         PROVE  Forgotten(i)' \/ Owned(i)' \/ Evicted(i)' \/ InHand(i)'
    <2>1. i \in DOMAIN runs /\ runs[i].auto \in Conditional
      BY <1>4, <1>11
    <2>2. CASE i = n
      <3>1. w = "event"
        BY <1>5, <2>1, <2>2, TwoLoops
      <3> QED BY <1>3, <2>2, <3>1 DEF InHand, Acting
    <2>3. CASE i # n
      <3>1. Forgotten(i) \/ Owned(i) \/ Evicted(i) \/ InHand(i)
        BY <1>1, <2>1 DEF Remembered
      <3>2. InHand(i) => InHand(i)'
        BY <1>8 DEF InHand
      <3>3. Forgotten(i) => Forgotten(i)'
        BY <1>3, <1>4, <2>1, <2>3 DEF Forgotten
      <3>4. (Owned(i) => Owned(i)') /\ (Evicted(i) => Evicted(i)')
        BY <1>3 DEF Owned, Evicted
      <3> QED BY <3>1, <3>2, <3>3, <3>4
    <2> QED BY <2>2, <2>3
  <1>12. Untriggered'
    <2>1. Working("event")' => Working("event") /\ runner'["event"].event = runner["event"].event
      BY <1>1, <1>3, TwoLoops DEF Working
    <2>2. \A j \in DOMAIN runs :
              /\ runs'[j].auto = runs[j].auto
              /\ runs[j].auto \in Conditional /\ runs[j].status # "running"
                     => runs'[j].status = runs[j].status
      BY <1>4, <1>5, <1>6, TwoLoops
    <2> QED BY <1>1, <1>3, <1>4, <2>1, <2>2, HeedsStill
  <1> QED BY <1>10, <1>11, <1>12 DEF Remembered

LEMMA InsertHeeds ==
    ASSUME Heeding, NEW w \in Loops, Inserts(w) PROVE Remembered' /\ Untriggered'
  <1>1. /\ Typed /\ Typed' /\ Remembered /\ MemorySound /\ Untriggered /\ runner[w].at = "begin"
        /\ UNCHANGED <<owned, forgot>>
    BY BeginTyped DEF Heeding, Inserts, Begin, Remembered
  <1>2. /\ \A v \in Loops : v # w => runner'[v] = runner[v]
        /\ runner'[w].event = runner[w].event /\ runner'[w].at = "act" /\ runner'[w].run = Newest
    BY <1>1, BeginDoes DEF Inserts, Newest
  <1>3. /\ DOMAIN runs' = DOMAIN runs \cup {Newest} /\ runs'[Newest].status = "running"
        /\ runs'[Newest].auto = runner[w].auto
        /\ \A i \in DOMAIN runs : runs'[i] = runs[i] /\ i < Newest
    BY <1>1, RunInserted DEF Inserts
  <1>4. runner[w].auto \in AutosOf(w)
    <2>1. Running(w)
      BY <1>1 DEF Running
    <2> QED BY <1>1, <2>1 DEF Typed, LoopsSound
  <1>5. \A k \in DOMAIN owned : owned[k] \in DOMAIN runs /\ owned[k] \in Later(0)'
    <2>1. \A k \in DOMAIN owned : owned[k] \in Later(0)
      BY <1>1 DEF MemorySound
    <2> QED BY <1>3, <2>1 DEF Later
  <1>6. MemorySound'
    <2>1. CASE w = "event"
      BY <1>1, <1>2, <1>3, <1>5, <2>1 DEF MemorySound
    <2>2. CASE w = "tick"
      <3>1. runner'["event"] = runner["event"] /\ (Acting("event") => runner["event"].run \in DOMAIN runs)
        BY <1>1, <1>2, <2>2, TwoLoops, TypeParts
      <3>2. Acting("event")' <=> Acting("event")
        BY <3>1 DEF Acting
      <3> QED BY <1>1, <1>3, <1>5, <3>1, <3>2 DEF MemorySound
    <2> QED BY <2>1, <2>2, TwoLoops
  <1>7. ASSUME NEW i \in DOMAIN runs', runs'[i].auto \in Conditional
        PROVE  Forgotten(i)' \/ Owned(i)' \/ Evicted(i)' \/ InHand(i)'
    <2>1. CASE i = Newest
      <3>1. w = "event"
        BY <1>3, <1>4, <1>7, <2>1, TwoLoops, Assumed DEF AutosOf
      <3> QED BY <1>2, <2>1, <3>1 DEF InHand, Acting
    <2>2. CASE i \in DOMAIN runs
      <3>1. Forgotten(i) \/ Owned(i) \/ Evicted(i) \/ InHand(i)
        BY <1>1, <1>3, <1>7, <2>2 DEF Remembered
      <3>2. InHand(i) => InHand(i)'
        <4>1. CASE w = "tick"
          <5>1. runner'["event"] = runner["event"]
            BY <1>2, <4>1, TwoLoops
          <5> QED BY <5>1 DEF InHand, Acting
        <4>2. CASE w = "event"
          BY <1>1, <4>2 DEF InHand, Acting
        <4> QED BY <4>1, <4>2, TwoLoops
      <3>3. (Forgotten(i) => Forgotten(i)') /\ (Owned(i) => Owned(i)') /\ (Evicted(i) => Evicted(i)')
        BY <1>1, <1>3, <2>2 DEF Forgotten, Owned, Evicted
      <3> QED BY <3>1, <3>2, <3>3
    <2> QED BY <1>3, <2>1, <2>2
  <1>8. Untriggered'
    <2>1. Working("event")' => Working("event") /\ runner'["event"].event = runner["event"].event
      BY <1>1, <1>2, TwoLoops DEF Working
    <2> QED BY <1>1, <1>3, <2>1, HeedsStill
  <1> QED BY <1>6, <1>7, <1>8 DEF Remembered

\* The run in hand is over and takes a place of the memory.
LEMMA OwningRemembers ==
    ASSUME Heeding, Save("event"), Owns("event") PROVE Remembered'
  <1> PICK n : n = runner["event"].run
    OBVIOUS
  <1>1. /\ Typed /\ Remembered /\ MemorySound /\ UNCHANGED <<runs, forgot>> /\ Acting("event")
        /\ owned' = AppendLast(owned, n, OwnedMemory)
        /\ runs[n].status \in {"completed", "waiting"}
    BY DEF Heeding, Save, Owns, Remembered
  <1>2. n \in DOMAIN runs /\ n \in Nat \ {0} /\ n \in Later(0)
    <2>1. n \in DOMAIN runs
      BY <1>1, TypeParts, TwoLoops DEF Loops
    <2>2. n \in Nat \ {0}
      BY <1>1, <2>1, MemoryIs
    <2>3. runs[n].auto \in Conditional
      <3>1. Running("event")
        BY <1>1 DEF Acting, Running
      <3> QED BY <1>1, <3>1 DEF Typed, LoopsSound, Loops, AutosOf
    <2> QED BY <1>1, <2>1, <2>2, <2>3 DEF Later
  <1>3. /\ Len(owned) \in Nat /\ DOMAIN owned = 1..Len(owned)
        /\ \A k \in DOMAIN owned : owned[k] \in Nat /\ owned[k] < n /\ owned[k] \in Later(0)
        /\ \A k, l \in DOMAIN owned : k < l => owned[k] < owned[l]
    BY <1>1, MemoryIs DEF MemorySound
  <1> PICK a : a = owned'
    OBVIOUS
  <1>4. PICK d \in 0..1 :
              /\ d = 1 <=> Len(owned) = OwnedMemory
              /\ DOMAIN a = 1..(Len(owned) + 1 - d)
              /\ Len(a) = Len(owned) + 1 - d
              /\ a[Len(owned) + 1 - d] = n
              /\ \A k \in 1..(Len(owned) - d) : k + d \in 1..Len(owned) /\ a[k] = owned[k + d]
    <2>1. owned \in Seq(DOMAIN runs) /\ Len(owned) <= OwnedMemory
      BY <1>1, TypeParts
    <2> QED BY <1>1, <1>2, <2>1, MemoryGrows
  <1> PICK m \in Nat : m = Len(owned)
    BY <1>3
  <1>5. \A k \in DOMAIN a : k = m + 1 - d \/ k \in 1..(m - d)
    BY <1>4
  <1>6. \A k \in DOMAIN a : a[k] \in Later(0)
    BY <1>2, <1>3, <1>4, <1>5
  <1>7. ASSUME NEW k \in DOMAIN a, NEW l \in DOMAIN a, k < l PROVE a[k] < a[l]
    <2>1. k \in 1..(m - d)
      BY <1>4, <1>5, <1>7
    <2>2. a[k] = owned[k + d] /\ k + d \in DOMAIN owned
      BY <1>3, <1>4, <2>1
    <2>3. CASE l = m + 1 - d
      BY <1>3, <1>4, <2>2, <2>3
    <2>4. CASE l \in 1..(m - d)
      <3>1. a[l] = owned[l + d] /\ l + d \in DOMAIN owned
        BY <1>3, <1>4, <2>4
      <3>2. k + d < l + d
        BY <1>7, <2>1, <2>4
      <3> QED BY <1>3, <2>2, <3>1, <3>2
    <2> QED BY <1>5, <2>3, <2>4
  <1>8. ~Acting("event")'
    <2>1. runner'["event"] = Idle \/ runner'["event"].at = "next"
      BY <1>1, OnwardDoes DEF Save, Loops
    <2> QED BY <2>1, IdleIs DEF Acting
  <1>9. MemorySound'
    BY <1>1, <1>4, <1>6, <1>7, <1>8 DEF MemorySound, Later
  <1>10. ASSUME NEW i \in DOMAIN runs, runs[i].auto \in Conditional
         PROVE  Forgotten(i)' \/ Owned(i)' \/ Evicted(i)'
    <2>1. Forgotten(i) \/ Owned(i) \/ Evicted(i) \/ InHand(i)
      BY <1>1, <1>10 DEF Remembered
    <2>2. CASE Forgotten(i)
      BY <1>1, <2>2 DEF Forgotten
    <2>3. CASE InHand(i)
      <3>1. i = n
        BY <2>3 DEF InHand
      <3>2. m + 1 - d \in 1..(m + 1 - d)
        <4>1. d = 1 => m \in Nat \ {0}
          BY <1>4, Assumed
        <4>2. m + 1 - d \in Nat \ {0}
          BY <4>1
        <4> QED BY <4>2
      <3> QED BY <1>4, <3>1, <3>2 DEF Owned
    <2>4. CASE Evicted(i)
      <3>1. i \in Nat /\ d = 1 /\ m = OwnedMemory /\ m # 0 /\ \A k \in DOMAIN owned : owned[k] > i
        BY <1>1, <1>4, <2>4, MemoryIs, Assumed DEF Evicted
      <3>2. n > i
        <4>1. 1 \in DOMAIN owned
          BY <1>3, <3>1
        <4>2. n \in Nat
          BY <1>2
        <4>3. PICK x \in Nat : x = owned[1] /\ x < n
          BY <1>3, <4>1
        <4>4. x > i
          BY <3>1, <4>1, <4>3
        <4>5. i \in Nat
          BY <3>1
        <4> QED BY <4>2, <4>3, <4>4, <4>5
      <3>3. \A k \in DOMAIN a : a[k] > i
        BY <1>3, <1>4, <1>5, <3>1, <3>2
      <3>4. Len(a) = OwnedMemory
        BY <1>4, <3>1
      <3> QED BY <1>4, <3>3, <3>4 DEF Evicted
    <2>5. CASE Owned(i)
      <3>1. PICK k \in 1..m : owned[k] = i
        BY <1>3, <2>5 DEF Owned
      <3>2. CASE k > d
        <4>1. k - d \in 1..(m - d) /\ k - d \in DOMAIN a /\ k - d + d = k
          BY <1>4, <3>1, <3>2
        <4> QED BY <1>4, <3>1, <4>1 DEF Owned
      <3>3. CASE ~(k > d)
        <4>1. d = 1 /\ k = 1 /\ m = OwnedMemory
          BY <1>4, <3>1, <3>3
        <4>2. \A l \in 1..(m - d) : l + d \in DOMAIN owned /\ k < l + d
          BY <1>3, <1>4, <4>1
        <4>3. \A l \in 1..(m - d) : a[l] > i
          BY <1>3, <1>4, <3>1, <4>2
        <4>4. n > i
          BY <1>2, <1>3, <3>1
        <4>5. \A l \in DOMAIN a : a[l] > i
          BY <1>4, <1>5, <4>3, <4>4
        <4>6. Len(a) = OwnedMemory
          BY <1>4, <4>1
        <4> QED BY <1>4, <4>5, <4>6 DEF Evicted
      <3> QED BY <3>2, <3>3
    <2> QED BY <2>1, <2>2, <2>3, <2>4, <2>5
  <1> QED BY <1>1, <1>9, <1>10 DEF Remembered

LEMMA SaveHeeds ==
    ASSUME Heeding, NEW w \in Loops, Save(w) PROVE Remembered' /\ Untriggered'
  <1>1. /\ Typed /\ Typed' /\ Remembered /\ MemorySound /\ Untriggered /\ runner[w].at \in {"save", "spent"}
        /\ UNCHANGED <<runs, forgot>>
    BY SaveTyped DEF Heeding, Save, Remembered
  <1>2. /\ \A v \in Loops : v # w => runner'[v] = runner[v]
        /\ \/ runner'[w] = Idle
           \/ runner'[w].at = "next" /\ runner'[w].event = runner[w].event
    BY <1>1, OnwardDoes DEF Save
  <1>3. Remembered'
    <2>1. CASE Owns(w)
      <3>1. w = "event"
        BY <2>1 DEF Owns
      <3> QED BY <2>1, <3>1, OwningRemembers
    <2>2. CASE ~Owns(w) /\ w = "tick"
      <3>1. runner'["event"] = runner["event"] /\ UNCHANGED owned
        BY <1>2, <2>2, TwoLoops DEF Save
      <3> QED BY <1>1, <3>1, RemembersStill
    <2>3. CASE ~Owns(w) /\ w = "event"
      <3>1. UNCHANGED owned /\ ~Acting("event")'
        BY <1>2, <2>3, IdleIs DEF Save, Acting
      <3>2. CASE ~Acting("event")
        BY <1>1, <3>1, <3>2, RemembersStill
      <3>3. CASE Acting("event")
        <4> PICK n : n = runner["event"].run
          OBVIOUS
        <4>1. runs[n].status = "failed"
          <5>1. runs[n].status \in {"running", "completed", "waiting", "failed"}
            <6>1. n \in DOMAIN runs
              BY <1>1, <3>3, TypeParts, TwoLoops
            <6>2. runs[n] \in Run
              BY <1>1, <6>1, RunsAre
            <6> QED BY <6>2 DEF Run
          <5>2. runs[n].status # "running"
            BY <1>1, <2>3, <3>3 DEF MemorySound
          <5> QED BY <2>3, <3>3, <5>1, <5>2 DEF Owns
        <4>2. MemorySound'
          BY <1>1, <3>1 DEF MemorySound, Later
        <4>3. ASSUME NEW i \in DOMAIN runs, runs[i].auto \in Conditional
              PROVE  Forgotten(i)' \/ Owned(i)' \/ Evicted(i)'
          <5>1. Forgotten(i) \/ Owned(i) \/ Evicted(i) \/ InHand(i)
            BY <1>1, <4>3 DEF Remembered
          <5>2. InHand(i) => Forgotten(i)
            BY <4>1 DEF InHand, Forgotten
          <5> QED BY <1>1, <3>1, <5>1, <5>2 DEF Forgotten, Owned, Evicted
        <4> QED BY <1>1, <4>2, <4>3 DEF Remembered
      <3> QED BY <3>2, <3>3
    <2> QED BY <2>1, <2>2, <2>3, TwoLoops
  <1>4. Working("event")' => Working("event") /\ runner'["event"].event = runner["event"].event
    BY <1>1, <1>2, TwoLoops, IdleIs DEF Working
  <1>5. Untriggered'
    BY <1>1, <1>4, HeedsStill
  <1> QED BY <1>3, <1>5

LEMMA FaultHeeds ==
    ASSUME Heeding, Restart \/ \E w \in Loops : StatementRaises(w)
    PROVE  Remembered' /\ Untriggered'
  <1>1. Typed /\ Typed' /\ Remembered /\ MemorySound /\ Untriggered
    BY FaultTyped DEF Heeding, Remembered
  <1>2. CASE Restart
    <2>1. UNCHANGED runs /\ owned' = <<>> /\ forgot' = DOMAIN runs /\ runner'["event"] = Idle
      BY <1>1, <1>2, RestartDoes DEF Restart, Loops
    <2>2. ~Acting("event")' /\ ~Working("event")' /\ DOMAIN owned' = {}
      BY <2>1, IdleIs, EmptySeq DEF Acting, Working
    <2>3. MemorySound'
      BY <2>2 DEF MemorySound
    <2>4. \A i \in DOMAIN runs : Forgotten(i)'
      BY <2>1 DEF Forgotten
    <2> QED BY <2>1, <2>2, <2>3, <2>4 DEF Remembered, Untriggered
  <1>3. ASSUME NEW w \in Loops, StatementRaises(w) PROVE Remembered' /\ Untriggered'
    <2>1. /\ UNCHANGED <<runs, owned>> /\ forgot \subseteq forgot'
          /\ \A v \in Loops : v # w => runner'[v] = runner[v]
          /\ runner'[w].at = IF w = "tick" THEN "dead" ELSE "idle"
      BY <1>1, <1>3, RaisesDoes DEF StatementRaises
    <2>2. Working("event")' => Working("event") /\ runner'["event"].event = runner["event"].event
      BY <2>1, TwoLoops DEF Working
    <2>3. Untriggered'
      BY <1>1, <2>1, <2>2, HeedsStill
    <2>4. CASE w = "tick"
      <3>1. runner'["event"] = runner["event"] /\ UNCHANGED forgot
        BY <1>3, <2>1, <2>4, TwoLoops DEF StatementRaises
      <3> QED BY <1>1, <2>1, <2>3, <3>1, RemembersStill
    <2>5. CASE w = "event"
      <3>1. ~Acting("event")'
        BY <2>1, <2>5 DEF Acting
      <3>2. MemorySound'
        BY <1>1, <2>1, <3>1 DEF MemorySound, Later
      <3>3. ASSUME NEW i \in DOMAIN runs, runs[i].auto \in Conditional
            PROVE  Forgotten(i)' \/ Owned(i)' \/ Evicted(i)'
        <4>1. Forgotten(i) \/ Owned(i) \/ Evicted(i) \/ InHand(i)
          BY <1>1, <3>3 DEF Remembered
        <4>2. InHand(i) => i \in forgot'
          BY <1>3, <2>5 DEF InHand, StatementRaises
        <4> QED BY <2>1, <4>1, <4>2 DEF Forgotten, Owned, Evicted
      <3> QED BY <2>1, <2>3, <3>2, <3>3 DEF Remembered
    <2> QED BY <2>4, <2>5, TwoLoops
  <1> QED BY <1>2, <1>3

\* The rest: a loop goes on with the event it has.
LEMMA ElseHeeds ==
    ASSUME Heeding, Typed', UNCHANGED <<runs, owned, forgot>>,
           \/ runner'["event"] = runner["event"]
           \/ ~Acting("event") /\
                \/ runner'["event"].at = "idle"
                \/ Working("event") /\ ~Acting("event")' /\ runner'["event"].event = runner["event"].event
    PROVE  Remembered' /\ Untriggered'
  <1>1. ~Acting("event") /\ runner'["event"].at = "idle" => ~Acting("event")'
    BY DEF Acting
  <1>2. Remembered'
    BY <1>1, RemembersStill DEF Heeding
  <1>3. Working("event")' => Working("event") /\ runner'["event"].event = runner["event"].event
    BY DEF Working
  <1> QED BY <1>2, <1>3, HeedsStill DEF Heeding

LEMMA LoopHeeds ==
    ASSUME Heeding, Typed', NEW w \in Loops, Runner(w) PROVE Remembered' /\ Untriggered'
  <1>1. CASE TickList
    <2>1. runner'["event"] = runner["event"]
      BY <1>1, TickListDoes, TwoLoops DEF Heeding
    <2> QED BY <1>1, <2>1, ElseHeeds DEF TickList
  <1>2. CASE Count(w)
    <2>1. /\ \A v \in Loops : v # w => runner'[v] = runner[v]
          /\ runner'[w].event = runner[w].event /\ runner[w].at = "next"
          /\ runner'[w].at \in {"spent", "begin"}
      BY <1>2, CountDoes DEF Heeding, Count
    <2>2. \/ runner'["event"] = runner["event"]
          \/ /\ runner["event"].at = "next" /\ runner'["event"].event = runner["event"].event
             /\ runner'["event"].at \in {"spent", "begin"}
      BY <2>1, TwoLoops
    <2> QED BY <1>2, <2>2, ElseHeeds DEF Count, Working, Acting
  <1>3. CASE Begin(w) /\ Taken(runner[w].auto, Basis(w))
    <2>1. /\ runner' = [runner EXCEPT ![w] = Onward(@)] /\ runner[w].at = "begin"
          /\ UNCHANGED <<runs, owned, forgot>>
      BY <1>3 DEF Begin
    <2>2. /\ \A v \in Loops : v # w => runner'[v] = runner[v]
          /\ \/ runner'[w] = Idle
             \/ runner'[w].at = "next" /\ runner'[w].event = runner[w].event
      BY <2>1, OnwardDoes DEF Heeding
    <2>3. \/ runner'["event"] = runner["event"]
          \/ /\ runner["event"].at = "begin"
             /\ \/ runner'["event"].at = "idle"
                \/ runner'["event"].at = "next" /\ runner'["event"].event = runner["event"].event
      BY <2>1, <2>2, TwoLoops, IdleIs
    <2> QED BY <2>1, <2>3, ElseHeeds DEF Working, Acting
  <1> QED BY <1>1, <1>2, <1>3, TakeEventHeeds, InsertHeeds, ActionEndsHeeds, SaveHeeds
          DEF Runner, Inserts

LEMMA StepHeeds == Heeding /\ [Next]_vars => Heeding'
  <1> SUFFICES ASSUME Heeding, [Next]_vars, Typed' PROVE Remembered' /\ Untriggered'
    BY StepTyped DEF Heeding
  <1>1. CASE UNCHANGED vars
    BY <1>1, ElseHeeds DEF vars
  <1>2. CASE Tick \/ ForeignEvent \/ \E t \in live : TaskEvent(t)
    BY <1>2, ElseHeeds DEF Tick, ForeignEvent, TaskEvent
  <1>3. CASE \/ \E a \in Autos : Create(a) \/ Delete(a)
             \/ \E c \in Clients : Read(c) \/ Write(c) \/ Answer(c)
    BY <1>3, ElseHeeds DEF Create, Delete, Read, Write, Answer
  <1> QED BY <1>1, <1>2, <1>3, LoopHeeds, FaultHeeds DEF Next

\* An event of a task that a conditional automation's own run created sets off no automation
\* once that run is over, whatever order the events, the two loops and the requests come in,
\* unless the run failed, the process went down or the save after it raised, or as many later
\* runs as are remembered have ended since (handle, _owned_tasks).
THEOREM OwnEventsIgnored == Spec => []NoSelfTrigger
  <1>1. Init => Heeding
    <2> SUFFICES ASSUME Init PROVE Heeding
      OBVIOUS
    <2>1. Typed
      BY Initially
    <2>2. DOMAIN runs = {} /\ DOMAIN owned = {} /\ runner["event"] = Idle
      BY EmptySeq, IdleIs DEF Init, Loops
    <2>3. ~Acting("event") /\ ~Working("event")
      BY <2>2, IdleIs DEF Acting, Working
    <2> QED BY <2>1, <2>2, <2>3 DEF Heeding, Remembered, MemorySound, Untriggered
  <1>2. Heeding => NoSelfTrigger
    BY DEF Heeding, Untriggered, NoSelfTrigger, Running, Working, Forgotten
  <1> QED BY <1>1, <1>2, StepHeeds, PTL DEF Spec

------------------------------------------------------------------------------
(* The slots.                                                               *)

\* The runs of an automation are for the slots they were for.
SameBases(a) == \A b : Begun(a, b)' <=> Begun(a, b)

LEMMA KeptBases == ASSUME RunsKept, NEW a PROVE SameBases(a)
  BY DEF RunsKept, SameBases, Begun

LEMMA InsertBases ==
    ASSUME Typed, NEW w \in Loops, Inserts(w), NEW a, NEW b
    PROVE  Begun(a, b)' <=> Begun(a, b) \/ (a = runner[w].auto /\ b = Basis(w))
  <1>1. /\ DOMAIN runs' = DOMAIN runs \cup {Newest}
        /\ \A i \in DOMAIN runs : runs'[i] = runs[i]
        /\ runs'[Newest].auto = runner[w].auto /\ runs'[Newest].basis = Basis(w)
    BY RunInserted DEF Inserts
  <1> QED BY <1>1 DEF Begun

\* The event loop inserts runs of conditional automations only.
LEMMA EventBases ==
    ASSUME Typed, Inserts("event"), NEW a \in Timed
    PROVE  SameBases(a)
  <1>1. Running("event") /\ "event" \in Loops
    BY DEF Inserts, Begin, Running, Loops
  <1>2. runner["event"].auto \in Conditional
    BY <1>1 DEF Typed, LoopsSound, AutosOf
  <1>3. a # runner["event"].auto
    BY <1>2, Assumed
  <1> QED BY <1>1, <1>3, InsertBases DEF SameBases

\* A step that begins nothing for an automation, and brings no new slot into its rows.
LEMMA QuietSlots ==
    ASSUME NEW a \in Timed, OneAheadOf(a), SameBases(a),
           \A s \in Times : Near(a, s)' => Near(a, s),
           ActsFor(a)' => ActsFor(a)
    PROVE  OneAheadOf(a)'
  <1> SUFFICES ASSUME NEW s \in Times, Ahead(a, s)'
               PROVE  /\ \A t \in Times : Ahead(a, t)' => t = s
                      /\ \A i \in DOMAIN runs' : runs'[i].auto = a => runs'[i].basis < s
                      /\ ~ActsFor(a)'
    BY DEF OneAheadOf
  <1>1. \A t \in Times : Ahead(a, t)' => Ahead(a, t)
    BY DEF Ahead, SameBases
  <1>2. \A i \in DOMAIN runs' : runs'[i].auto = a => Begun(a, runs'[i].basis)
    <2> SUFFICES ASSUME NEW i \in DOMAIN runs', runs'[i].auto = a, NEW b, b = runs'[i].basis
                 PROVE  Begun(a, b)
      OBVIOUS
    <2>1. Begun(a, b)'
      BY DEF Begun
    <2> QED BY <2>1 DEF SameBases
  <1> QED BY <1>1, <1>2 DEF OneAheadOf, Begun

\* The slot the scheduler is about to run, or to find taken.
LEMMA TickBasis ==
    ASSUME Typed, runner["tick"].at = "begin"
    PROVE  /\ runner["tick"].auto \in Timed
           /\ Basis("tick") \in Times /\ Basis("tick") <= runner["tick"].now
           /\ Near(runner["tick"].auto, Basis("tick"))
  <1>1. Running("tick") /\ Starting("tick") /\ "tick" \in Loops
    BY DEF Running, Starting, Loops
  <1>2. runner["tick"].auto \in Timed
    BY <1>1 DEF Typed, LoopsSound, AutosOf
  <1>3. Basis("tick") = runner["tick"].copy.next
    BY DEF Basis
  <1>4. runner["tick"].copy.next \in Times /\ runner["tick"].copy.next <= runner["tick"].now
    BY <1>1, TypeParts DEF LoopState, Row, Typed, HoldsDue
  <1> QED BY <1>1, <1>2, <1>3, <1>4 DEF Near

------------------------------------------------------------------------------
(* How each step leaves the slots.                                          *)

LEMMA InsertSlots ==
    ASSUME Typed, OneAhead, Inserts("tick"), NEW a \in Timed
    PROVE  OneAheadOf(a)'
  <1> DEFINE h == runner["tick"].auto
             n == Basis("tick")
  <1>1. /\ runner["tick"].at = "begin" /\ "tick" \in Loops /\ ~Begun(h, n)
        /\ UNCHANGED <<row, client>>
    BY DEF Inserts, Begin, Taken, Loops
  <1>2. h \in Timed /\ n \in Times /\ Near(h, n)
    BY <1>1, TickBasis
  <1>3. /\ runner'["tick"].at = "act" /\ runner'["tick"].todo = runner["tick"].todo
        /\ runner'["tick"].auto = h /\ runner'["tick"].copy = runner["tick"].copy
    BY <1>1, BeginDoes DEF Inserts
  <1>4. \A s \in Times : Near(a, s)' => Near(a, s)
    BY <1>1, <1>3 DEF Near, Running
  <1>5. \A b : Begun(a, b)' <=> Begun(a, b) \/ (a = h /\ b = n)
    BY <1>1, InsertBases
  <1> HIDE DEF h, n
  <1>6. CASE a = h
    <2>1. \A s \in Times : Ahead(a, s) => s = n
      BY <1>1, <1>2, <1>6 DEF OneAhead, OneAheadOf, Ahead
    <2>2. \A s \in Times : ~Ahead(a, s)'
      BY <1>4, <1>5, <1>6, <2>1 DEF Ahead
    <2> QED BY <2>2 DEF OneAheadOf
  <1>7. CASE a # h
    <2>1. SameBases(a) /\ ~ActsFor(a)'
      BY <1>3, <1>5, <1>7 DEF SameBases, ActsFor
    <2> QED BY <1>4, <2>1, QuietSlots DEF OneAhead
  <1> QED BY <1>6, <1>7

LEMMA ActionEndsSlots ==
    ASSUME Typed, OneAhead, BegunCame, ActionEnds("tick"), NEW a \in Timed
    PROVE  OneAheadOf(a)'
  <1> DEFINE h == runner["tick"].auto
             n == runner["tick"].now + Interval
  <1>1. /\ runner["tick"].at = "act" /\ "tick" \in Loops /\ UNCHANGED <<row, client>>
        /\ Running("tick")
    BY DEF ActionEnds, Loops, Running
  <1>2. /\ runner'["tick"].at = "save" /\ runner'["tick"].todo = runner["tick"].todo
        /\ runner'["tick"].auto = h
        /\ \/ runner'["tick"].copy.next \in {Null, runner["tick"].copy.next}
           \/ runner'["tick"].copy.next = n
    BY <1>1, ActionEndsDoes
  <1>3. SameBases(a)
    <2>1. RunsKept
      <3>1. PICK st \in {"completed", "waiting", "failed"} :
                runs' = [runs EXCEPT ![runner["tick"].run].status = st]
        BY <1>1, ActionEndsDoes
      <3>2. runner["tick"].run \in DOMAIN runs
        BY <1>1, TypeParts DEF Acting
      <3> QED BY <3>1, <3>2, RunPut DEF RunsKept
    <2> QED BY <2>1, KeptBases
  <1>4. ~ActsFor(a)'
    BY <1>2 DEF ActsFor
  <1>5. ASSUME NEW s \in Times, Near(a, s)', ~Near(a, s)
        PROVE  a = h /\ s = n
    <2>1. Null \notin Times
      BY TimesAre
    <2> HIDE DEF h, n
    <2>2. runner'["tick"].auto = a /\ runner'["tick"].copy.next = s
      BY <1>1, <1>2, <1>5 DEF Near
    <2>3. runner["tick"].auto = a
      BY <1>2, <2>2 DEF h
    <2>4. runner["tick"].copy.next # s
      BY <1>1, <1>5, <2>3 DEF Near
    <2> QED BY <1>2, <2>1, <2>2, <2>4
  <1>6. CASE a = h
    <2>1. \A s \in Times : ~Ahead(a, s)
      BY <1>1, <1>6 DEF OneAhead, OneAheadOf, ActsFor
    <2>2. \A s \in Times : Ahead(a, s)' => s = n
      BY <1>3, <1>5, <2>1 DEF Ahead, SameBases
    <2>3. runner["tick"].now \in Nat /\ n \in Nat /\ runner["tick"].now < n
      BY <1>1, TypeParts, Assumed DEF LoopState
    <2>4. ASSUME NEW b, Begun(a, b)' PROVE b < n
      <3>1. Begun(a, b)
        BY <1>3, <2>4 DEF SameBases
      <3>2. PICK i \in DOMAIN runs : runs[i].auto = a /\ runs[i].basis = b
        BY <3>1 DEF Begun
      <3>3. b \in Nat /\ b <= runner["tick"].now
        BY <1>1, <3>2, RunsAre DEF BegunCame, Run
      <3> QED BY <2>3, <3>3
    <2> HIDE DEF n
    <2>5. \A i \in DOMAIN runs' : runs'[i].auto = a => runs'[i].basis < n
      <3> SUFFICES ASSUME NEW i \in DOMAIN runs', runs'[i].auto = a, NEW b, b = runs'[i].basis
                   PROVE  b < n
        OBVIOUS
      <3>1. Begun(a, b)'
        BY DEF Begun
      <3> QED BY <2>4, <3>1
    <2> QED BY <1>4, <2>2, <2>5 DEF OneAheadOf
  <1>7. CASE a # h
    BY <1>3, <1>4, <1>5, <1>7, QuietSlots DEF OneAhead
  <1> QED BY <1>6, <1>7

\* An automation that is created has one slot, and nothing was run for it.
LEMMA CreateSlots ==
    ASSUME Typed, OneAhead, Uncreated, NEW b \in Autos, Create(b), NEW a \in Timed
    PROVE  OneAheadOf(a)'
  <1>1. /\ UNCHANGED <<runs, runner, client>> /\ row[b].status = "none"
        /\ \A c \in Autos : c # b => row'[c] = row[c]
    BY CreateDoes DEF Create
  <1>2. SameBases(a) /\ (ActsFor(a)' => ActsFor(a)) /\ a \in Autos
    BY <1>1 DEF SameBases, Begun, ActsFor, Autos
  <1>3. CASE a = b
    <2>1. /\ ~\E i \in DOMAIN runs : runs[i].auto = a
          /\ ~Held("tick", a)
          /\ \A c \in Clients : ~Holds(a, client[c].todo)
      BY <1>1, <1>3 DEF Uncreated, Loops
    <2>2. \A s \in Times : Near(a, s)' => s = row'[a].next
      BY <1>1, <2>1 DEF Near, Held, Holds, Running
    <2>3. ~ActsFor(a)
      BY <2>1 DEF ActsFor, Held, Running
    <2> QED BY <1>1, <1>2, <2>1, <2>2, <2>3 DEF OneAheadOf, Ahead
  <1>4. CASE a # b
    <2>1. \A s \in Times : Near(a, s)' => Near(a, s)
      BY <1>1, <1>2, <1>4 DEF Near, Running
    <2> QED BY <1>2, <2>1, QuietSlots DEF OneAhead
  <1> QED BY <1>3, <1>4

\* A loop that goes on to the next of its list, or saves the copy at hand.
LEMMA OnwardSlots ==
    ASSUME Typed, OneAhead, NEW w \in Loops, NEW a \in Timed,
           Save(w) \/ (Begin(w) /\ Taken(runner[w].auto, Basis(w)))
    PROVE  OneAheadOf(a)'
  <1>1. /\ UNCHANGED <<runs, client>> /\ runner' = [runner EXCEPT ![w] = Onward(@)]
        /\ UNCHANGED row \/ row' = [row EXCEPT ![runner[w].auto] = runner[w].copy]
        /\ Running(w)
    BY DEF Save, Begin, Running
  <1>2. /\ \A v \in Loops : v # w => runner'[v] = runner[v]
        /\ runner'[w].at \in {"idle", "next"} /\ runner'[w].todo \subseteq runner[w].todo
    <2>1. /\ \A v \in Loops : v # w => runner'[v] = runner[v]
          /\ \/ runner'[w] = Idle
             \/ runner'[w].at = "next" /\ runner'[w].todo = runner[w].todo
      BY <1>1, OnwardDoes
    <2> QED BY <2>1, IdleIs
  <1>3. SameBases(a)
    BY <1>1 DEF SameBases, Begun
  <1>4. runner["tick"] = runner'["tick"] \/ w = "tick"
    BY <1>2, TwoLoops
  <1>5. ActsFor(a)' => ActsFor(a)
    BY <1>2, <1>4 DEF ActsFor
  <1>6. ASSUME NEW s \in Times, Near(a, s)'
        PROVE  Near(a, s)
    <2>1. \/ row'[a].next = s
          \/ \E x \in runner["tick"].todo : x.auto = a /\ x.row.next = s
          \/ Running("tick") /\ runner["tick"].auto = a /\ runner["tick"].copy.next = s
          \/ \E c \in Clients : \E x \in client[c].todo : x.auto = a /\ x.row.next = s
      <3>1. ~Running(w)'
        BY <1>2 DEF Running
      <3> QED BY <1>1, <1>2, <1>4, <1>6, <3>1 DEF Near, Running
    <2>2. CASE row'[a] = row[a]
      BY <2>1, <2>2 DEF Near
    <2>3. CASE row'[a] # row[a]
      <3>1. runner[w].auto = a /\ row'[a] = runner[w].copy
        <4>1. a \in Autos /\ row \in [Autos -> Row]
          BY TypeParts DEF Autos
        <4> QED BY <1>1, <2>3, <4>1
      <3>2. w = "tick"
        <4>1. a \in AutosOf(w)
          BY <1>1, <3>1 DEF Typed, LoopsSound
        <4> QED BY <4>1, Assumed DEF AutosOf
      <3> QED BY <1>1, <2>1, <3>1, <3>2 DEF Near
    <2> QED BY <2>2, <2>3
  <1> QED BY <1>3, <1>5, <1>6, QuietSlots DEF OneAhead

\* A loop that takes up a list, or an automation of it.
LEMMA TakingSlots ==
    ASSUME Typed, OneAhead, NEW a \in Timed,
           TickList \/ TakeEvent \/ \E w \in Loops : Count(w)
    PROVE  OneAheadOf(a)'
  <1>1. UNCHANGED <<row, runs, client>>
    BY DEF TickList, TakeEvent, Count
  <1>2. SameBases(a)
    BY <1>1 DEF SameBases, Begun
  <1>3. CASE runner'["tick"] = runner["tick"]
    <2>1. \A s \in Times : Near(a, s)' => Near(a, s)
      BY <1>1, <1>3 DEF Near, Running
    <2>2. ActsFor(a)' => ActsFor(a)
      BY <1>3 DEF ActsFor
    <2> QED BY <1>2, <2>1, <2>2, QuietSlots DEF OneAhead
  <1>4. CASE TickList
    <2>1. PICK D \in SUBSET Due : /\ runner'["tick"].at = "next"
                                  /\ runner'["tick"].todo = Listing(D)
      BY <1>4, TickListDoes
    <2>2. \A x \in Listing(D) : x.row = row[x.auto]
      BY ListingIs DEF Due, Autos
    <2>3. \A s \in Times : Near(a, s)' => Near(a, s)
      BY <1>1, <2>1, <2>2 DEF Near, Running
    <2>4. ~ActsFor(a)'
      BY <2>1 DEF ActsFor
    <2> QED BY <1>2, <2>3, <2>4, QuietSlots DEF OneAhead
  <1>5. CASE Count("tick")
    <2>1. PICK x \in runner["tick"].todo :
            /\ runner'["tick"].at \in {"spent", "begin"} /\ runner'["tick"].auto = x.auto
            /\ runner'["tick"].todo = runner["tick"].todo \ {x}
            /\ runner'["tick"].copy.next = x.row.next
      BY <1>5, CountDoes DEF Loops
    <2>2. \A s \in Times : Near(a, s)' => Near(a, s)
      BY <1>1, <2>1 DEF Near
    <2>3. ~ActsFor(a)'
      BY <2>1 DEF ActsFor
    <2> QED BY <1>2, <2>2, <2>3, QuietSlots DEF OneAhead
  <1>6. CASE TakeEvent
    <2>1. runner'["tick"] = runner["tick"]
      BY <1>6, TakeEventDoes, TwoLoops DEF Loops
    <2> QED BY <1>3, <2>1
  <1>7. CASE Count("event")
    <2>1. runner'["tick"] = runner["tick"]
      BY <1>7, CountDoes DEF Loops
    <2> QED BY <1>3, <2>1
  <1> QED BY <1>4, <1>5, <1>6, <1>7, TwoLoops

\* What the event loop does with a run.
LEMMA EventSlots ==
    ASSUME Typed, OneAhead, NEW a \in Timed, Inserts("event") \/ ActionEnds("event")
    PROVE  OneAheadOf(a)'
  <1>1. UNCHANGED <<row, client>> /\ runner'["tick"] = runner["tick"]
    BY BeginDoes, ActionEndsDoes DEF Loops, Inserts, Begin, ActionEnds
  <1>2. SameBases(a)
    <2>1. CASE Inserts("event")
      BY <2>1, EventBases
    <2>2. CASE ActionEnds("event")
      <3>1. "event" \in Loops /\ Acting("event")
        BY <2>2 DEF Loops, ActionEnds, Acting
      <3>2. PICK st \in {"completed", "waiting", "failed"} :
                runs' = [runs EXCEPT ![runner["event"].run].status = st]
        BY <2>2, <3>1, ActionEndsDoes
      <3>3. runner["event"].run \in DOMAIN runs
        BY <3>1, TypeParts
      <3>4. RunsKept
        BY <3>2, <3>3, RunPut DEF RunsKept
      <3> QED BY <3>4, KeptBases
    <2> QED BY <2>1, <2>2
  <1>3. \A s \in Times : Near(a, s)' => Near(a, s)
    BY <1>1 DEF Near, Running
  <1>4. ActsFor(a)' => ActsFor(a)
    BY <1>1 DEF ActsFor
  <1> QED BY <1>2, <1>3, <1>4, QuietSlots DEF OneAhead

\* The requests other than a create save what they read, or clear the slot.
LEMMA RequestSlots ==
    ASSUME Typed, OneAhead, NEW a \in Timed,
           \/ \E b \in Autos : Delete(b)
           \/ \E c \in Clients : Read(c) \/ Write(c) \/ Answer(c)
    PROVE  OneAheadOf(a)'
  <1>1. UNCHANGED <<runs, runner>> /\ a \in Autos
    BY DEF Delete, Read, Write, Answer, Autos
  <1>2. SameBases(a) /\ (ActsFor(a)' => ActsFor(a))
    BY <1>1 DEF SameBases, Begun, ActsFor
  <1>3. ASSUME NEW s \in Times, Near(a, s)'
        PROVE  Near(a, s)
    <2>1. CASE \E b \in Autos : Delete(b)
      <3>1. row'[a].next \in {Null, row[a].next} /\ UNCHANGED client
        BY <1>1, <2>1, DeleteDoes DEF Delete
      <3> QED BY <1>1, <1>3, <3>1, TimesAre DEF Near, Running
    <2>2. ASSUME NEW c \in Clients, Read(c)
          PROVE  Near(a, s)
      <3>1. PICK op \in Ops \ {"delete"} : \E A \in Reads(op) :
                /\ client'[c].todo = Listing(A)
                /\ \A d \in Clients : d # c => client'[d] = client[d]
        BY <2>2, ReadDoes
      <3>2. PICK A \in Reads(op) :
                /\ client'[c].todo = Listing(A)
                /\ \A d \in Clients : d # c => client'[d] = client[d]
        BY <3>1
      <3>3. \A x \in Listing(A) : x.row = row[x.auto]
        BY ReadsAre, ListingIs
      <3>4. UNCHANGED row
        BY <2>2 DEF Read
      <3> QED BY <1>1, <1>3, <3>2, <3>3, <3>4 DEF Near, Running
    <2>3. ASSUME NEW c \in Clients, Write(c)
          PROVE  Near(a, s)
      <3>1. PICK x \in client[c].todo :
                /\ client'[c].todo = client[c].todo \ {x}
                /\ \A d \in Clients : d # c => client'[d] = client[d]
                /\ \A b \in Autos : b # x.auto => row'[b] = row[b]
                /\ row' = row \/ row'[x.auto].next = x.row.next
        BY <2>3, WriteDoes
      <3>2. row'[a] = row[a] \/ (x.auto = a /\ row'[a].next = x.row.next)
        BY <1>1, <3>1
      <3> QED BY <1>1, <1>3, <3>1, <3>2 DEF Near, Running
    <2>4. ASSUME NEW c \in Clients, Answer(c)
          PROVE  Near(a, s)
      <3>1. /\ client'[c].todo = {} /\ \A d \in Clients : d # c => client'[d] = client[d]
            /\ UNCHANGED row
        BY <2>4, AnswerDoes DEF Answer, NoRequest
      <3> QED BY <1>1, <1>3, <3>1 DEF Near, Running
    <2> QED BY <2>1, <2>2, <2>3, <2>4
  <1> QED BY <1>2, <1>3, QuietSlots DEF OneAhead

\* The clock, the bus and the faults: copies are lost and none is made.
LEMMA WorldSlots ==
    ASSUME Typed, OneAhead, NEW a \in Timed,
           \/ Tick \/ ForeignEvent \/ \E t \in live : TaskEvent(t)
           \/ Restart \/ \E w \in Loops : StatementRaises(w)
    PROVE  OneAheadOf(a)'
  <1>1. UNCHANGED <<row, runs>>
    BY DEF Tick, ForeignEvent, TaskEvent, Restart, StatementRaises
  <1>2. \/ runner'["tick"] = runner["tick"]
        \/ runner'["tick"].at \in {"idle", "dead"} /\ runner'["tick"].todo = {}
    <2>1. \A w \in Loops : StatementRaises(w) =>
            \/ runner'["tick"] = runner["tick"]
            \/ runner'["tick"].at \in {"idle", "dead"} /\ runner'["tick"].todo = {}
      BY RaisesDoes, TwoLoops
    <2>2. Restart => runner'["tick"].at = "idle" /\ runner'["tick"].todo = {}
      BY RestartDoes, IdleIs DEF Loops
    <2> QED BY <2>1, <2>2 DEF Tick, ForeignEvent, TaskEvent
  <1>3. \A c \in Clients : client'[c].todo = {} \/ client'[c] = client[c]
    BY DEF Tick, ForeignEvent, TaskEvent, Restart, StatementRaises, NoRequest
  <1>4. SameBases(a)
    BY <1>1 DEF SameBases, Begun
  <1>5. \A s \in Times : Near(a, s)' => Near(a, s)
    BY <1>1, <1>2, <1>3 DEF Near, Running
  <1>6. ActsFor(a)' => ActsFor(a)
    BY <1>2 DEF ActsFor
  <1> QED BY <1>4, <1>5, <1>6, QuietSlots DEF OneAhead

LEMMA StepSlots ==
    ASSUME Typed, OneAhead, BegunCame, Uncreated, [Next]_vars
    PROVE  OneAhead'
  <1> SUFFICES ASSUME NEW a \in Timed PROVE OneAheadOf(a)'
    BY DEF OneAhead
  <1>1. CASE UNCHANGED vars
    <2>1. SameBases(a) /\ (\A s \in Times : Near(a, s)' => Near(a, s)) /\ (ActsFor(a)' => ActsFor(a))
      BY <1>1 DEF vars, SameBases, Begun, Near, Running, ActsFor
    <2> QED BY <2>1, QuietSlots DEF OneAhead
  <1>2. ASSUME NEW w \in Loops, Runner(w)
        PROVE  OneAheadOf(a)'
    BY <1>2, TwoLoops, OnwardSlots, TakingSlots, EventSlots, InsertSlots, ActionEndsSlots
    DEF Runner, Inserts
  <1> QED BY <1>1, <1>2, WorldSlots, RequestSlots, CreateSlots DEF Next

\* The scheduler's clock stands while it works, and starts at the time of the turn.
LEMMA TickFrom ==
    ASSUME Typed, [Next]_vars, runner'["tick"].at \notin {"idle", "dead"}
    PROVE  \/ /\ runner["tick"].at \notin {"idle", "dead"}
              /\ runner'["tick"].now = runner["tick"].now
           \/ runner'["tick"].now = now /\ UNCHANGED <<runs, now>>
  <1>1. CASE runner'["tick"] = runner["tick"]
    BY <1>1
  <1>2. CASE TickList
    <2>1. runner'["tick"].now = now
      BY <1>2, TickListDoes
    <2> QED BY <1>2, <2>1 DEF TickList
  <1>3. CASE TakeEvent /\ ~UNCHANGED runner
    BY <1>1, <1>3, TakeEventDoes DEF Loops
  <1>4. ASSUME NEW w \in Loops, Count(w)
        PROVE  /\ w = "tick" => runner["tick"].at = "next" /\ runner'["tick"].now = runner["tick"].now
               /\ w # "tick" => runner'["tick"] = runner["tick"]
    BY <1>4, CountDoes, TwoLoops DEF Count
  <1>5. ASSUME NEW w \in Loops, Inserts(w) \/ ActionEnds(w)
        PROVE  /\ w = "tick" => /\ runner["tick"].at \in {"begin", "act"}
                                /\ runner'["tick"].now = runner["tick"].now
               /\ w # "tick" => runner'["tick"] = runner["tick"]
    BY <1>5, BeginDoes, ActionEndsDoes, TwoLoops DEF Inserts, Begin, ActionEnds
  <1>6. ASSUME NEW w \in Loops, Save(w) \/ (Begin(w) /\ Taken(runner[w].auto, Basis(w)))
        PROVE  /\ w = "tick" => /\ runner["tick"].at \in {"begin", "save", "spent"}
                                /\ runner'["tick"].now = runner["tick"].now
               /\ w # "tick" => runner'["tick"] = runner["tick"]
    <2>1. /\ runner' = [runner EXCEPT ![w] = Onward(@)]
          /\ runner[w].at \in {"begin", "save", "spent"}
      BY <1>6 DEF Save, Begin
    <2>2. /\ \A v \in Loops : v # w => runner'[v] = runner[v]
          /\ \/ runner'[w] = Idle
             \/ runner'[w].now = runner[w].now
      BY <2>1, OnwardDoes
    <2> QED BY <2>1, <2>2, TwoLoops, IdleIs
  <1>7. ASSUME NEW w \in Loops, StatementRaises(w)
        PROVE  runner'["tick"] = runner["tick"]
    BY <1>7, RaisesDoes, TwoLoops
  <1>8. CASE Restart
    BY <1>8, RestartDoes, IdleIs DEF Loops
  <1>9. CASE \/ Tick \/ ForeignEvent \/ \E t \in live : TaskEvent(t)
             \/ \E a \in Autos : Create(a) \/ Delete(a)
             \/ \E c \in Clients : Read(c) \/ Write(c) \/ Answer(c)
             \/ UNCHANGED runner
    BY <1>1, <1>9 DEF Tick, ForeignEvent, TaskEvent, Create, Delete, Read, Write, Answer
  <1>10. ASSUME NEW w \in Loops, Runner(w)
         PROVE  \/ TickList \/ UNCHANGED runner \/ (TakeEvent /\ ~UNCHANGED runner) \/ Count(w)
                \/ Inserts(w) \/ ActionEnds(w)
                \/ Save(w) \/ (Begin(w) /\ Taken(runner[w].auto, Basis(w)))
    BY <1>10 DEF Runner, Inserts
  <1>11. ASSUME NEW w \in Loops, Runner(w)
         PROVE  \/ /\ runner["tick"].at \notin {"idle", "dead"}
                   /\ runner'["tick"].now = runner["tick"].now
                \/ runner'["tick"].now = now /\ UNCHANGED <<runs, now>>
    BY <1>1, <1>2, <1>3, <1>4, <1>5, <1>6, <1>9, <1>10, <1>11
  <1> QED BY <1>1, <1>7, <1>8, <1>9, <1>11 DEF Next, vars

LEMMA StepCame ==
    ASSUME Typed, BegunCame, [Next]_vars
    PROVE  BegunCame'
  <1>1. now \in Nat /\ now' \in Nat /\ now <= now'
    <2>1. now' = now \/ now' = now + 1
      BY DEF Next, vars, Tick, ForeignEvent, TaskEvent, Restart, Runner, TickList, TakeEvent, Count,
             Begin, ActionEnds, Save, StatementRaises, Create, Delete, Read, Write, Answer
    <2> QED BY <2>1, TypeParts, Assumed
  <1> SUFFICES ASSUME NEW i \in DOMAIN runs', runs'[i].auto \in Timed
               PROVE  /\ runs'[i].basis <= now'
                      /\ runner'["tick"].at \notin {"idle", "dead"} =>
                            runs'[i].basis <= runner'["tick"].now
    BY DEF BegunCame
  <1>2. ASSUME i \in DOMAIN runs, runs'[i].auto = runs[i].auto, runs'[i].basis = runs[i].basis
        PROVE  /\ runs'[i].basis <= now'
               /\ runner'["tick"].at \notin {"idle", "dead"} =>
                     runs'[i].basis <= runner'["tick"].now
    <2>1. runs[i].basis \in Nat
      BY <1>2, RunsAre DEF Run
    <2>2. /\ runs[i].basis <= now
          /\ runner["tick"].at \notin {"idle", "dead"} => runs[i].basis <= runner["tick"].now
      BY <1>2 DEF BegunCame
    <2> QED BY <1>1, <1>2, <2>1, <2>2, TickFrom
  <1>3. CASE RunsKept
    BY <1>2, <1>3 DEF RunsKept
  <1>4. ASSUME NEW w \in Loops, Inserts(w)
        PROVE  /\ runs'[i].basis <= now'
               /\ runner'["tick"].at \notin {"idle", "dead"} =>
                     runs'[i].basis <= runner'["tick"].now
    <2>1. /\ DOMAIN runs' = DOMAIN runs \cup {Newest}
          /\ \A j \in DOMAIN runs : runs'[j] = runs[j]
          /\ runs'[Newest].auto = runner[w].auto /\ runs'[Newest].basis = Basis(w)
      BY <1>4, RunInserted DEF Inserts
    <2>2. CASE i # Newest
      BY <1>2, <2>1, <2>2
    <2>3. CASE i = Newest
      <3>1. Running(w) /\ runner[w].at = "begin"
        BY <1>4 DEF Inserts, Begin, Running
      <3>2. w = "tick"
        <4>1. runner[w].auto \in AutosOf(w)
          BY <3>1 DEF Typed, LoopsSound
        <4> QED BY <2>1, <2>3, <4>1, Assumed DEF AutosOf
      <3>3. Basis("tick") \in Nat /\ Basis("tick") <= runner["tick"].now
        BY <3>1, <3>2, TickBasis, TimesAre
      <3>4. runner'["tick"].now = runner["tick"].now
        BY <1>4, <3>2, BeginDoes DEF Inserts
      <3>5. runner["tick"].now \in Nat /\ runner["tick"].now <= now
        BY <3>2, TypeParts, Assumed DEF LoopState, Typed, LoopsSound
      <3> QED BY <1>1, <2>1, <2>3, <3>2, <3>3, <3>4, <3>5
    <2> QED BY <2>2, <2>3
  <1> QED BY <1>3, <1>4, RunsGrow

LEMMA StepUncreated ==
    ASSUME Typed, Uncreated, [Next]_vars
    PROVE  Uncreated'
  <1> SUFFICES ASSUME NEW a \in Autos, row'[a].status = "none"
               PROVE  /\ row'[a] = Missing
                      /\ ~\E i \in DOMAIN runs' : runs'[i].auto = a
                      /\ \A w \in Loops : ~Held(w, a)'
                      /\ \A c \in Clients : ~Holds(a, client'[c].todo)
    BY DEF Uncreated, Holds
  <1>1. Touched(a)
    BY StepTouches
  <1>2. row'[a] = row[a]
    BY <1>1 DEF Touched
  <1>3. /\ row[a] = Missing /\ row[a].status = "none"
        /\ ~\E i \in DOMAIN runs : runs[i].auto = a
        /\ \A w \in Loops : ~Held(w, a)
        /\ \A c \in Clients : ~Holds(a, client[c].todo)
    BY <1>2 DEF Uncreated
  <1>4. ~\E i \in DOMAIN runs' : runs'[i].auto = a
    <2>1. CASE RunsKept
      BY <1>3, <2>1 DEF RunsKept
    <2>2. ASSUME NEW w \in Loops, Inserts(w)
          PROVE  ~\E i \in DOMAIN runs' : runs'[i].auto = a
      <3>1. /\ DOMAIN runs' = DOMAIN runs \cup {Newest}
            /\ \A j \in DOMAIN runs : runs'[j] = runs[j]
            /\ runs'[Newest].auto = runner[w].auto
        BY <2>2, RunInserted DEF Inserts
      <3>2. runner[w].auto # a
        BY <1>3, <2>2 DEF Held, Running, Inserts, Begin
      <3> QED BY <1>3, <3>1, <3>2
    <2> QED BY <2>1, <2>2, RunsGrow
  <1>5. \A w \in Loops : ~Held(w, a)'
    BY <1>1, <1>3 DEF Touched
  <1>6. \A c \in Clients : ~Holds(a, client'[c].todo)
    BY <1>1, <1>3 DEF Touched
  <1> QED BY <1>2, <1>3, <1>4, <1>5, <1>6

LEMMA StepAdvances ==
    ASSUME Typed, OneAhead, SlotsAdvance, [Next]_vars
    PROVE  SlotsAdvance'
  <1> SUFFICES ASSUME NEW i \in DOMAIN runs', NEW j \in DOMAIN runs', i < j,
                      runs'[i].auto = runs'[j].auto, runs'[i].auto \in Timed
               PROVE  runs'[i].basis < runs'[j].basis
    BY DEF SlotsAdvance
  <1>1. CASE RunsKept
    BY <1>1 DEF RunsKept, SlotsAdvance
  <1>2. ASSUME NEW w \in Loops, Inserts(w)
        PROVE  runs'[i].basis < runs'[j].basis
    <2>1. /\ DOMAIN runs' = DOMAIN runs \cup {Newest} /\ Newest \notin DOMAIN runs
          /\ \A k \in DOMAIN runs : runs'[k] = runs[k] /\ k < Newest
          /\ runs'[Newest].auto = runner[w].auto /\ runs'[Newest].basis = Basis(w)
          /\ DOMAIN runs = 1..Len(runs) /\ Len(runs) \in Nat
      BY <1>2, RunInserted, RunsAre DEF Inserts
    <2>2. i \in DOMAIN runs
      BY <2>1 DEF Newest
    <2>3. CASE j \in DOMAIN runs
      BY <2>1, <2>2, <2>3 DEF SlotsAdvance
    <2>4. CASE j = Newest
      <3>1. Running(w) /\ runner[w].at = "begin" /\ ~Begun(runner[w].auto, Basis(w))
        BY <1>2 DEF Inserts, Begin, Running, Taken
      <3>2. w = "tick"
        <4>1. runner[w].auto \in AutosOf(w)
          BY <3>1 DEF Typed, LoopsSound
        <4> QED BY <2>1, <2>4, <4>1, Assumed DEF AutosOf
      <3>3. Ahead(runner["tick"].auto, Basis("tick")) /\ Basis("tick") \in Times
        BY <3>1, <3>2, TickBasis DEF Ahead
      <3>4. runs[i].auto = runner["tick"].auto /\ runner["tick"].auto \in Timed
        BY <2>1, <2>2, <2>4, <3>2
      <3>5. runs[i].basis < Basis("tick")
        BY <2>2, <3>3, <3>4 DEF OneAhead, OneAheadOf
      <3> QED BY <2>1, <2>2, <2>4, <3>2, <3>5
    <2> QED BY <2>1, <2>3, <2>4
  <1> QED BY <1>1, <1>2, RunsGrow

\* The slots an automation runs for only go forward: whoever saves a late copy of it back,
\* resumes it or restarts the process, no slot is run twice and none before one that was run
\* (store.save, begin_run's key, Automation.advance).
THEOREM SlotsGoForward == Spec => []SlotsAdvance
  <1>1. Init => Advancing
    <2> SUFFICES ASSUME Init PROVE Advancing
      OBVIOUS
    <2>1. Typed
      BY Initially
    <2>2. /\ DOMAIN runs = {} /\ row = [a \in Autos |-> Missing]
          /\ \A w \in Loops : runner[w] = Idle
          /\ \A c \in Clients : client[c].todo = {}
      BY EmptySeq DEF Init, NoRequest
    <2>3. \A a \in Timed, s \in Times : ~Near(a, s)
      <3> SUFFICES ASSUME NEW a \in Timed, NEW s \in Times PROVE ~Near(a, s)
        OBVIOUS
      <3>1. row[a].next = Null /\ Null # s
        BY <2>2, TimesAre DEF Missing, Autos
      <3> QED BY <2>2, <3>1, IdleIs DEF Near, Running, Loops
    <2>4. OneAhead
      BY <2>3 DEF OneAhead, OneAheadOf, Ahead
    <2>5. BegunCame /\ SlotsAdvance
      BY <2>2 DEF BegunCame, SlotsAdvance
    <2>6. Uncreated
      BY <2>2, IdleIs DEF Uncreated, Held, Holds, Running
    <2> QED BY <2>1, <2>4, <2>5, <2>6 DEF Advancing
  <1>2. Advancing /\ [Next]_vars => Advancing'
    BY StepTyped, StepSlots, StepCame, StepUncreated, StepAdvances DEF Advancing
  <1>3. Advancing => SlotsAdvance
    BY DEF Advancing
  <1> QED BY <1>1, <1>2, <1>3, PTL DEF Spec
==============================================================================
