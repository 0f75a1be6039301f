-------------------------- MODULE TaskLeaseProofs --------------------------
(***************************************************************************)
(* What TLAPS proves of TaskLeases.                                        *)
(*                                                                         *)
(* Type correctness holds whatever overlaps.  The promises of the lease    *)
(* and of the budget hold as long as no two operations have overlapped:    *)
(* then at most one coroutine is at work, what it has read is still so     *)
(* when it writes, and that is what the inductive invariants below say.    *)
(* Neither promise holds once two dispatches overlap.  What a release or a *)
(* sweep may take away is bounded whatever overlaps.                       *)
(***************************************************************************)
EXTENDS TaskLeases, TLAPS

Sweeping == {"sweep", "drop", "dropDelete"}

\* What worker w has read of the lease it is about to write, or of those it sweeps.
Fresh(w) ==
    /\ At(w, "acquire") => \/ lease[job[w].task].node \in {None, job[w].node}
                           \/ lease[job[w].task].until <= now
    /\ job[w].pc \in {"extend", "delete"} => Owns(w)
    /\ job[w].pc \in {"release", "delete"} => granted[job[w].task][job[w].node] = 0
    /\ At(w, "drop") /\ Owns(w) => Expired(job[w].task)
    /\ At(w, "dropDelete") => Expired(job[w].task)
    /\ job[w].pc \notin Sweeping => job[w].due = {}
    /\ \A d \in job[w].due : lease[d[1]].node = d[2] => Expired(d[1])

\* A node that believes a task its own is the one the row names, at least as long.
Backed ==
    \A t \in Tasks, n \in Nodes :
        granted[t][n] > now => lease[t].node = n /\ granted[t][n] <= lease[t].until

\* At most one coroutine is at work.
Apart == \A v, w \in Workers : v # w => job[v].pc = "idle" \/ job[w].pc = "idle"

\* What holds for the coroutine that is about to move.
Fit(w) == TypeOK /\ Backed /\ Fresh(w)

Leases == TypeOK /\ (~overlapped => Apart /\ Backed /\ \A w \in Workers : Fresh(w))

\* There is room for the task a worker has let through.
Room(w) ==
    /\ job[w].pc \in {"select", "acquire", "load"} => usage + 1 <= Limit
    /\ At(w, "record") => job[w].count + 1 <= Limit
    /\ At(w, "recordDown") => job[w].count <= Limit

Within == usage <= Limit
Roomy(w) == TypeOK /\ Within /\ Room(w)

Budget == TypeOK /\ (~overlapped => Apart /\ Within /\ \A w \in Workers : Room(w))

-----------------------------------------------------------------------------
(* Type correctness.                                                       *)

\* What is remembered beside the program.
HistoriesTyped == overlapped \in BOOLEAN /\ since \in [Workers -> SUBSET (Tasks \X Nodes)]

LEMMA WatchTyped == ASSUME Watch PROVE since' \in [Workers -> SUBSET (Tasks \X Nodes)]
  BY DEF Watch

\* What a move of worker w leaves behind.
LEMMA Moved ==
    ASSUME job \in [Workers -> Job], NEW w \in Workers, NEW next \in Job, Move(w, next)
    PROVE  /\ job' \in [Workers -> Job]
           /\ job'[w] = next
           /\ \A v \in Workers \ {w} : job'[v] = job[v]
  BY DEF Move

\* The typing of one coroutine.
Typed(j) ==
    /\ j \in Job
    /\ j.pc \notin {"idle", "sweep"} => j.task \in Tasks
    /\ j.pc \notin {"idle", "sweep", "select"} => j.node \in Nodes

LEMMA IdleTyped == Typed(Idle)
  <1>1. 0 \in Instants
    BY LeaseAssumption, LeaseBounds DEF Instants
  <1> QED BY <1>1 DEF Typed, Idle, Job, Points

\* A worker's move to a typed record keeps the typing of all.
LEMMA MovedTyped ==
    ASSUME TypeOK, NEW w \in Workers, NEW next, Typed(next), Move(w, next)
    PROVE  /\ job' \in [Workers -> Job]
           /\ \A v \in Workers : job'[v].pc \notin {"idle", "sweep"} => job'[v].task \in Tasks
           /\ \A v \in Workers : job'[v].pc \notin {"idle", "sweep", "select"} => job'[v].node \in Nodes
  <1>1. /\ job' \in [Workers -> Job]
        /\ job'[w] = next
        /\ \A v \in Workers \ {w} : job'[v] = job[v]
    BY Moved DEF TypeOK, Typed
  <1> QED BY <1>1 DEF TypeOK, Typed

\* The fields of a typed coroutine, one by one.
LEMMA Fields ==
    ASSUME TypeOK, NEW w \in Workers
    PROVE  /\ job[w] \in Job
           /\ job[w].task \in Tasks \cup {None}
           /\ job[w].node \in Nodes \cup {None}
           /\ job[w].until \in Instants
           /\ job[w].count \in Int
           /\ job[w].due \in SUBSET (Tasks \X Nodes)
           /\ job[w].pc \notin {"idle", "sweep"} => job[w].task \in Tasks
           /\ job[w].pc \notin {"idle", "sweep", "select"} => job[w].node \in Nodes
  BY DEF TypeOK, Job

\* Moving on with the fields as they are.
LEMMA GoTyped ==
    ASSUME TypeOK, NEW w \in Workers, NEW pc \in Points,
           job[w].pc \notin {"idle", "sweep", "select"}
    PROVE  Typed([job[w] EXCEPT !.pc = pc])
  BY Fields DEF Typed, Job

\* ... and with a count.
LEMMA CountTyped ==
    ASSUME TypeOK, NEW w \in Workers, NEW pc \in Points, NEW count \in Int,
           job[w].pc \notin {"idle", "sweep", "select"}
    PROVE  Typed([job[w] EXCEPT !.pc = pc, !.count = count])
  BY Fields DEF Typed, Job

LEMMA NewExpiry == ASSUME TypeOK PROVE now + Ttl \in Instants /\ now \in Int
  BY LeaseAssumption, LeaseBounds DEF TypeOK, Instants

LEMMA GrantTyped ==
    ASSUME TypeOK, NEW t \in Tasks, NEW n \in Nodes, NEW until \in Instants, Grant(t, n, until)
    PROVE  /\ lease' \in [Tasks -> Lease]
           /\ \A u \in Tasks : lease'[u].node = None <=> lease'[u] = Free
           /\ granted' \in [Tasks -> [Nodes -> Instants]]
           /\ lease'[t] = [node |-> n, until |-> until]
           /\ \A u \in Tasks \ {t} : lease'[u] = lease[u]
           /\ granted'[t][n] = until
           /\ \A u \in Tasks, m \in Nodes : <<u, m>> # <<t, n>> => granted'[u][m] = granted[u][m]
  <1>1. n # None
    BY LeaseAssumption
  <1>2. lease' = [lease EXCEPT ![t] = [node |-> n, until |-> until]]
    BY DEF Grant
  <1>3. granted' = [granted EXCEPT ![t][n] = until]
    BY DEF Grant
  <1>4. [node |-> n, until |-> until] \in Lease
    BY DEF Lease
  <1>5. /\ lease' \in [Tasks -> Lease]
        /\ lease'[t] = [node |-> n, until |-> until]
        /\ \A u \in Tasks \ {t} : lease'[u] = lease[u]
    BY <1>2, <1>4 DEF TypeOK
  <1>6. \A u \in Tasks : lease'[u].node = None <=> lease'[u] = Free
    BY <1>1, <1>5 DEF TypeOK, Free
  <1>7. /\ granted' \in [Tasks -> [Nodes -> Instants]]
        /\ granted'[t][n] = until
        /\ \A u \in Tasks, m \in Nodes : <<u, m>> # <<t, n>> => granted'[u][m] = granted[u][m]
    BY <1>3 DEF TypeOK
  <1> QED BY <1>5, <1>6, <1>7

LEMMA ForgetTyped ==
    ASSUME TypeOK, NEW t \in Tasks, Forget(t)
    PROVE  /\ lease' \in [Tasks -> Lease]
           /\ \A u \in Tasks : lease'[u].node = None <=> lease'[u] = Free
           /\ lease'[t] = Free
           /\ \A u \in Tasks \ {t} : lease'[u] = lease[u]
  <1>1. Free \in Lease
    BY LeaseAssumption, LeaseBounds DEF Free, Lease, Instants
  <1>2. lease' = [lease EXCEPT ![t] = Free]
    BY DEF Forget
  <1>3. /\ lease' \in [Tasks -> Lease]
        /\ lease'[t] = Free
        /\ \A u \in Tasks \ {t} : lease'[u] = lease[u]
    BY <1>1, <1>2 DEF TypeOK
  <1> QED BY <1>3 DEF TypeOK, Free

\* The sweep's list holds pairs of a task and a node.
LEMMA OverdueTyped == ASSUME TypeOK PROVE Overdue \in SUBSET (Tasks \X Nodes)
  <1>1. \A u \in Tasks : Expired(u) => lease[u].node \in Nodes
    BY DEF TypeOK, Lease, Expired, Held
  <1> QED BY <1>1 DEF Overdue

LEMMA InitTyped == Init => TypeOK
  <1> SUFFICES ASSUME Init PROVE TypeOK
    OBVIOUS
  <1>1. 0 \in Instants
    BY LeaseAssumption, LeaseBounds DEF Instants
  <1>2. Free \in Lease
    BY <1>1 DEF Free, Lease
  <1>3. Typed(Idle)
    BY IdleTyped
  <1>4. now \in 0 .. MaxTime /\ crashes \in 0 .. MaxCrashes
    BY LeaseBounds DEF Init
  <1>5. job \in [Workers -> Job] /\ \A w \in Workers : job[w] = Idle
    BY <1>3 DEF Init, Typed
  <1>6. granted \in [Tasks -> [Nodes -> Instants]]
    BY <1>1 DEF Init
  <1>7. \A t \in Tasks : lease[t] = Free
    BY DEF Init
  <1>8. \A w \in Workers : job[w].pc = "idle"
    BY <1>5 DEF Idle
  <1>9. lease \in [Tasks -> Lease] /\ usage \in Int
    BY <1>2 DEF Init
  <1>10. \A t \in Tasks : lease[t].node = None <=> lease[t] = Free
    BY <1>7 DEF Free
  <1>11. HistoriesTyped
    BY DEF Init, HistoriesTyped
  <1> QED BY <1>4, <1>5, <1>6, <1>8, <1>9, <1>10, <1>11 DEF TypeOK, HistoriesTyped

\* A step that only moves a coroutine.
LEMMA JobStepTyped ==
    ASSUME TypeOK, HistoriesTyped', NEW w \in Workers, NEW next, Typed(next), Move(w, next),
           UNCHANGED <<stored, now, crashes, granted>>
    PROVE  TypeOK'
  BY MovedTyped DEF TypeOK, stored, HistoriesTyped

\* A step that counts and moves a coroutine.
LEMMA CountStepTyped ==
    ASSUME TypeOK, HistoriesTyped', NEW w \in Workers, NEW next, Typed(next), Move(w, next), usage' \in Int,
           UNCHANGED <<lease, now, crashes, granted>>
    PROVE  TypeOK'
  BY MovedTyped DEF TypeOK, HistoriesTyped

LEMMA DispatchTyped ==
    ASSUME TypeOK, HistoriesTyped', NEW w \in Workers,
           \/ \E t \in Tasks : DispatchCheck(w, t)
           \/ DispatchSelect(w) \/ NoNode(w) \/ DispatchSave(w)
           \/ DispatchLoad(w) \/ DispatchRecord(w)
    PROVE  TypeOK'
  <1>1. ASSUME NEW t \in Tasks, DispatchCheck(w, t) PROVE TypeOK'
    <2>1. Typed([Idle EXCEPT !.pc = "select", !.task = t])
      BY IdleTyped DEF Typed, Idle, Job, Points
    <2> QED BY <1>1, <2>1, JobStepTyped DEF DispatchCheck
  <1>2. CASE DispatchSelect(w)
    <2>1. job[w].pc = "select"
      BY <1>2 DEF DispatchSelect, At
    <2>2. PICK n \in Nodes :
            \/ Move(w, Idle)
            \/ Move(w, [job[w] EXCEPT !.pc = "acquire", !.node = n, !.until = now + Ttl])
      BY <1>2 DEF DispatchSelect, Finish
    <2>3. Typed([job[w] EXCEPT !.pc = "acquire", !.node = n, !.until = now + Ttl])
      BY <2>1, Fields, NewExpiry DEF Typed, Job, Points
    <2>4. UNCHANGED <<stored, now, crashes, granted>>
      BY <1>2 DEF DispatchSelect
    <2> QED BY <2>2, <2>3, <2>4, IdleTyped, JobStepTyped
  <1>3. CASE NoNode(w)
    BY <1>3, IdleTyped, JobStepTyped DEF NoNode, Finish
  <1>4. CASE DispatchSave(w)
    <2>1. /\ job[w].pc = "acquire"
          /\ Grant(job[w].task, job[w].node, job[w].until)
          /\ Move(w, [job[w] EXCEPT !.pc = "load"])
          /\ UNCHANGED <<usage, now, crashes>>
      BY <1>4 DEF DispatchSave, At, GoTo
    <2>2. Typed([job[w] EXCEPT !.pc = "load"])
      BY <2>1, GoTyped DEF Points
    <2>3. /\ lease' \in [Tasks -> Lease]
          /\ \A u \in Tasks : lease'[u].node = None <=> lease'[u] = Free
          /\ granted' \in [Tasks -> [Nodes -> Instants]]
      BY <2>1, Fields, GrantTyped
    <2> QED BY <2>1, <2>2, <2>3, MovedTyped DEF TypeOK, HistoriesTyped
  <1>5. CASE DispatchLoad(w)
    <2>1. /\ job[w].pc = "load"
          /\ Move(w, [job[w] EXCEPT !.pc = "record", !.count = usage])
          /\ UNCHANGED <<stored, now, crashes, granted>>
      BY <1>5 DEF DispatchLoad, Load, At
    <2>2. "record" \in Points /\ usage \in Int
      BY DEF Points, TypeOK
    <2>3. Typed([job[w] EXCEPT !.pc = "record", !.count = usage])
      BY <2>1, <2>2, CountTyped
    <2> QED BY <2>1, <2>3, JobStepTyped
  <1>6. CASE DispatchRecord(w)
    <2>1. /\ job[w].pc = "record"
          /\ \/ Move(w, [job[w] EXCEPT !.pc = "execute", !.count = 0])
             \/ Move(w, Idle)
          /\ usage' = job[w].count + 1
          /\ UNCHANGED <<lease, now, crashes, granted>>
      BY <1>6 DEF DispatchRecord, At, Finish
    <2>2. Typed([job[w] EXCEPT !.pc = "execute", !.count = 0])
      <3> DEFINE next == [job[w] EXCEPT !.pc = "execute", !.count = 0]
      <3>1. job[w].task \in Tasks /\ job[w].node \in Nodes
        BY <2>1, Fields
      <3>2. job[w] \in Job /\ 0 \in Int /\ "execute" \in Points
        BY Fields DEF Points
      <3>3. next \in Job /\ next.task = job[w].task /\ next.node = job[w].node
        BY <3>2 DEF Job
      <3> QED BY <3>1, <3>3 DEF Typed
    <2>3. usage' \in Int
      BY <2>1, Fields
    <2> QED BY <2>1, <2>2, <2>3, IdleTyped, CountStepTyped
  <1> QED BY <1>1, <1>2, <1>3, <1>4, <1>5, <1>6

LEMMA ReleaseTyped ==
    ASSUME TypeOK, HistoriesTyped', NEW w \in Workers,
           \/ ExecuteOk(w) \/ ExecuteFail(w)
           \/ ReleaseRead(w) \/ ReleaseDelete(w) \/ DoneLoad(w) \/ DoneRecord(w)
    PROVE  TypeOK'
  <1>1. CASE ExecuteOk(w)
    <2>1. /\ job[w].pc = "execute"
          /\ granted' = [granted EXCEPT ![job[w].task][job[w].node] = 0]
          /\ Move(w, [job[w] EXCEPT !.pc = "release"])
          /\ UNCHANGED <<stored, now, crashes>>
      BY <1>1 DEF ExecuteOk, At, GoTo
    <2>2. Typed([job[w] EXCEPT !.pc = "release"])
      BY <2>1, GoTyped DEF Points
    <2>3. 0 \in Instants
      BY LeaseAssumption, LeaseBounds DEF Instants
    <2>4. granted' \in [Tasks -> [Nodes -> Instants]]
      BY <2>1, <2>3 DEF TypeOK
    <2> QED BY <2>1, <2>2, <2>4, MovedTyped DEF TypeOK, stored, HistoriesTyped
  <1>2. CASE ExecuteFail(w)
    BY <1>2, IdleTyped, JobStepTyped DEF ExecuteFail, Finish
  <1>3. CASE ReleaseRead(w)
    <2>1. /\ job[w].pc = "release"
          /\ \/ Move(w, [job[w] EXCEPT !.pc = "delete"])
             \/ Move(w, [job[w] EXCEPT !.pc = "loadDown"])
          /\ UNCHANGED <<stored, now, crashes, granted>>
      BY <1>3 DEF ReleaseRead, At, GoTo
    <2>2. Typed([job[w] EXCEPT !.pc = "delete"]) /\ Typed([job[w] EXCEPT !.pc = "loadDown"])
      BY <2>1, GoTyped DEF Points
    <2> QED BY <2>1, <2>2, JobStepTyped
  <1>4. CASE ReleaseDelete(w)
    <2>1. /\ job[w].pc = "delete"
          /\ Forget(job[w].task)
          /\ Move(w, [job[w] EXCEPT !.pc = "loadDown"])
          /\ UNCHANGED <<usage, now, crashes, granted>>
      BY <1>4 DEF ReleaseDelete, At, GoTo
    <2>2. Typed([job[w] EXCEPT !.pc = "loadDown"])
      BY <2>1, GoTyped DEF Points
    <2>3. /\ lease' \in [Tasks -> Lease]
          /\ \A u \in Tasks : lease'[u].node = None <=> lease'[u] = Free
      BY <2>1, Fields, ForgetTyped
    <2> QED BY <2>1, <2>2, <2>3, MovedTyped DEF TypeOK, HistoriesTyped
  <1>5. CASE DoneLoad(w)
    <2>1. /\ job[w].pc = "loadDown"
          /\ Move(w, [job[w] EXCEPT !.pc = "recordDown", !.count = usage])
          /\ UNCHANGED <<stored, now, crashes, granted>>
      BY <1>5 DEF DoneLoad, Load, At
    <2>2. "recordDown" \in Points /\ usage \in Int
      BY DEF Points, TypeOK
    <2>3. Typed([job[w] EXCEPT !.pc = "recordDown", !.count = usage])
      BY <2>1, <2>2, CountTyped
    <2> QED BY <2>1, <2>3, JobStepTyped
  <1>6. CASE DoneRecord(w)
    <2>1. /\ usage' = job[w].count - 1
          /\ Move(w, Idle)
          /\ UNCHANGED <<lease, now, crashes, granted>>
      BY <1>6 DEF DoneRecord, Finish
    <2> QED BY <2>1, Fields, IdleTyped, CountStepTyped
  <1> QED BY <1>1, <1>2, <1>3, <1>4, <1>5, <1>6

LEMMA SweepTyped ==
    ASSUME TypeOK, HistoriesTyped', NEW w \in Workers,
           \/ SweepList(w) \/ SweepNext(w) \/ SweepDone(w) \/ DropRead(w) \/ DropDelete(w)
    PROVE  TypeOK'
  <1>0. Typed([Idle EXCEPT !.pc = "sweep", !.due = job[w].due])
    BY IdleTyped, Fields DEF Typed, Idle, Job, Points
  <1>1. CASE SweepList(w)
    <2>1. Typed([Idle EXCEPT !.pc = "sweep", !.due = Overdue])
      BY IdleTyped, OverdueTyped DEF Typed, Idle, Job, Points
    <2> QED BY <1>1, <2>1, JobStepTyped DEF SweepList
  <1>2. CASE SweepNext(w)
    <2>1. job[w].pc = "sweep"
      BY <1>2 DEF SweepNext, At
    <2>2. PICK d \in job[w].due :
            \/ Move(w, [job[w] EXCEPT !.pc = "drop", !.task = d[1], !.node = d[2],
                                      !.due = job[w].due \ {d}])
            \/ Move(w, [job[w] EXCEPT !.due = job[w].due \ {d}])
      BY <1>2 DEF SweepNext
    <2>3. d[1] \in Tasks /\ d[2] \in Nodes
      BY Fields
    <2>4. Typed([job[w] EXCEPT !.pc = "drop", !.task = d[1], !.node = d[2],
                               !.due = job[w].due \ {d}])
      BY <2>3, Fields DEF Typed, Job, Points
    <2>5. Typed([job[w] EXCEPT !.due = job[w].due \ {d}])
      BY <2>1, Fields DEF Typed, Job, Points
    <2>6. UNCHANGED <<stored, now, crashes, granted>>
      BY <1>2 DEF SweepNext
    <2> QED BY <2>2, <2>4, <2>5, <2>6, JobStepTyped
  <1>3. CASE SweepDone(w)
    BY <1>3, IdleTyped, JobStepTyped DEF SweepDone, Finish
  <1>4. CASE DropRead(w)
    <2>1. /\ job[w].pc = "drop"
          /\ \/ Move(w, [job[w] EXCEPT !.pc = "dropDelete"])
             \/ Move(w, [Idle EXCEPT !.pc = "sweep", !.due = job[w].due])
          /\ UNCHANGED <<stored, now, crashes, granted>>
      BY <1>4 DEF DropRead, At, GoTo, BackToSweep
    <2>2. Typed([job[w] EXCEPT !.pc = "dropDelete"])
      BY <2>1, GoTyped DEF Points
    <2> QED BY <1>0, <2>1, <2>2, JobStepTyped
  <1>5. CASE DropDelete(w)
    <2>1. /\ job[w].pc = "dropDelete"
          /\ Forget(job[w].task)
          /\ Move(w, [Idle EXCEPT !.pc = "sweep", !.due = job[w].due])
          /\ UNCHANGED <<usage, now, crashes, granted>>
      BY <1>5 DEF DropDelete, At, BackToSweep
    <2>3. /\ lease' \in [Tasks -> Lease]
          /\ \A u \in Tasks : lease'[u].node = None <=> lease'[u] = Free
      BY <2>1, Fields, ForgetTyped
    <2> QED BY <1>0, <2>1, <2>3, MovedTyped DEF TypeOK, HistoriesTyped
  <1> QED BY <1>1, <1>2, <1>3, <1>4, <1>5

LEMMA HeartbeatTyped ==
    ASSUME TypeOK, HistoriesTyped', NEW w \in Workers,
           \/ \E t \in Tasks, n \in Nodes : HeartbeatRead(w, t, n)
           \/ HeartbeatSave(w)
    PROVE  TypeOK'
  <1>1. ASSUME NEW t \in Tasks, NEW n \in Nodes, HeartbeatRead(w, t, n) PROVE TypeOK'
    <2>1. Typed([Idle EXCEPT !.pc = "extend", !.task = t, !.node = n, !.until = now + Ttl])
      BY IdleTyped, NewExpiry DEF Typed, Idle, Job, Points
    <2> QED BY <1>1, <2>1, JobStepTyped DEF HeartbeatRead
  <1>2. CASE HeartbeatSave(w)
    <2>1. /\ job[w].pc = "extend"
          /\ Grant(job[w].task, job[w].node, job[w].until)
          /\ Move(w, Idle)
          /\ UNCHANGED <<usage, now, crashes>>
      BY <1>2 DEF HeartbeatSave, At, Finish
    <2>2. /\ lease' \in [Tasks -> Lease]
          /\ \A u \in Tasks : lease'[u].node = None <=> lease'[u] = Free
          /\ granted' \in [Tasks -> [Nodes -> Instants]]
      BY <2>1, Fields, GrantTyped
    <2> QED BY <2>1, <2>2, IdleTyped, MovedTyped DEF TypeOK, HistoriesTyped
  <1> QED BY <1>1, <1>2

LEMMA AroundTyped ==
    ASSUME TypeOK, Tick \/ Midnight \/ Crash
    PROVE  TypeOK'
  <1>1. CASE Tick
    <2>1. now' \in 0 .. MaxTime
      BY <1>1, LeaseBounds DEF Tick, TypeOK
    <2> QED BY <1>1, <2>1 DEF Tick, TypeOK, stored
  <1>2. CASE Midnight
    BY <1>2 DEF Midnight, TypeOK
  <1>3. CASE Crash
    <2>1. crashes' \in 0 .. MaxCrashes
      BY <1>3, LeaseBounds DEF Crash, TypeOK
    <2>2. job' \in [Workers -> Job] /\ \A w \in Workers : job'[w] = Idle
      BY <1>3, IdleTyped DEF Crash, Typed
    <2>3. \A w \in Workers : job'[w].pc = "idle"
      BY <2>2 DEF Idle
    <2> QED BY <1>3, <2>1, <2>2, <2>3 DEF Crash, TypeOK, stored
  <1> QED BY <1>1, <1>2, <1>3

LEMMA StepTyped == TypeOK /\ [Next]_vars => TypeOK'
  <1> SUFFICES ASSUME TypeOK, [Next]_vars PROVE TypeOK'
    OBVIOUS
  <1>1. ASSUME NEW w \in Workers, Serve(w) PROVE TypeOK'
    <2>1. HistoriesTyped'
      BY <1>1, WatchTyped DEF Serve, Begins, HistoriesTyped
    <2> QED BY <1>1, <2>1, DispatchTyped, HeartbeatTyped DEF Serve
  <1>2. ASSUME NEW w \in Workers, Sweep(w) PROVE TypeOK'
    <2>1. HistoriesTyped'
      BY <1>2, WatchTyped DEF Sweep, Begins, HistoriesTyped
    <2> QED BY <1>2, <2>1, SweepTyped DEF Sweep
  <1>3. ASSUME NEW w \in Workers, Step(w) PROVE TypeOK'
    <2>1. HistoriesTyped'
      BY <1>3, WatchTyped DEF Step, TypeOK, HistoriesTyped
    <2> QED BY <1>3, <2>1, DispatchTyped, ReleaseTyped, HeartbeatTyped, SweepTyped DEF Step
  <1>4. CASE Tick \/ Midnight \/ Crash
    BY <1>4, AroundTyped
  <1>5. CASE UNCHANGED vars
    BY <1>5 DEF vars, stored, TypeOK
  <1> QED BY <1>1, <1>2, <1>3, <1>4, <1>5 DEF Next

\* Whatever overlaps, every row, count and coroutine keeps its type; in particular a
\* coroutine past its first step names a task and a node (task_dispatcher.py, leases.py).
THEOREM LeaseTypes == Spec => []TypeOK
  BY InitTyped, StepTyped, PTL DEF Spec

-----------------------------------------------------------------------------
(* The leases, while one coroutine at a time is at work.                   *)

LEMMA BackedKept == ASSUME Backed, UNCHANGED <<lease, granted, now>> PROVE Backed'
  BY DEF Backed

\* The types the arithmetic of the steps below needs.
LEMMA Numbers ==
    ASSUME TypeOK
    PROVE  /\ now \in Int /\ usage \in Int /\ Limit \in Int
           /\ \A t \in Tasks : lease[t].until \in Int
           /\ \A t \in Tasks, n \in Nodes : granted[t][n] \in Int
           /\ \A w \in Workers : job[w].until \in Int /\ job[w].count \in Int
  BY LeaseAssumption, LeaseBounds DEF TypeOK, Lease, Instants, Job

\* Nothing a coroutine at rest has read can be out of date.
LEMMA IdleFresh == ASSUME NEW w, job'[w] = Idle PROVE Fresh(w)'
  BY DEF Fresh, Idle, At, Sweeping

LEMMA DispatchFresh ==
    ASSUME NEW w \in Workers, Fit(w), TypeOK',
           \/ \E t \in Tasks : DispatchCheck(w, t)
           \/ DispatchSelect(w) \/ NoNode(w) \/ DispatchSave(w)
           \/ DispatchLoad(w) \/ DispatchRecord(w)
    PROVE  Backed' /\ Fresh(w)'
  <1>0. TypeOK /\ Backed /\ Fresh(w)
    BY DEF Fit
  <1>1. ASSUME NEW t \in Tasks, DispatchCheck(w, t) PROVE Backed' /\ Fresh(w)'
    <2>1. job'[w].pc = "select" /\ job'[w].due = {}
      BY <1>0, <1>1 DEF DispatchCheck, Move, TypeOK, Idle
    <2>2. Backed'
      BY <1>0, <1>1, BackedKept DEF DispatchCheck, stored
    <2>3. Fresh(w)'
      BY <2>1 DEF Fresh, At, Sweeping
    <2> QED BY <2>2, <2>3
  <1>2. CASE DispatchSelect(w)
    <2>1. job[w].pc = "select" /\ UNCHANGED <<lease, now, granted>>
      BY <1>2 DEF DispatchSelect, At, stored
    <2>2. PICK n \in Nodes :
            \/ job'[w] = Idle
            \/ /\ ~Blocks(lease[job[w].task], n)
               /\ job'[w] = [job[w] EXCEPT !.pc = "acquire", !.node = n, !.until = now + Ttl]
      BY <1>0, <1>2 DEF DispatchSelect, Finish, Move, TypeOK
    <2>3. CASE job'[w] = Idle
      BY <1>0, <2>1, <2>3, BackedKept, IdleFresh
    <2>4. CASE /\ ~Blocks(lease[job[w].task], n)
               /\ job'[w] = [job[w] EXCEPT !.pc = "acquire", !.node = n, !.until = now + Ttl]
      <3>1. /\ job'[w].pc = "acquire" /\ job'[w].node = n
            /\ job'[w].task = job[w].task /\ job'[w].due = job[w].due
        BY <1>0, <2>4, Fields DEF Job
      <3>2. job[w].task \in Tasks /\ job[w].due = {}
        BY <1>0, <2>1, Fields DEF Fresh, Sweeping
      <3>3. \/ lease[job[w].task].node \in {None, n}
            \/ lease[job[w].task].until <= now
        BY <1>0, <2>4, <3>2, Numbers DEF Blocks
      <3>4. Fresh(w)'
        BY <2>1, <3>1, <3>2, <3>3 DEF Fresh, At, Sweeping
      <3> QED BY <1>0, <2>1, <3>4, BackedKept
    <2> QED BY <2>2, <2>3, <2>4
  <1>3. CASE NoNode(w)
    <2>1. job'[w] = Idle /\ UNCHANGED <<lease, now, granted>>
      BY <1>0, <1>3 DEF NoNode, Finish, Move, TypeOK, stored
    <2> QED BY <1>0, <2>1, BackedKept, IdleFresh
  <1>4. CASE DispatchSave(w)
    <2> DEFINE t == job[w].task
               n == job[w].node
    <2>1. job[w].pc = "acquire" /\ Grant(t, n, job[w].until) /\ now' = now
      BY <1>4 DEF DispatchSave, At
    <2>2. t \in Tasks /\ n \in Nodes /\ job[w].until \in Instants /\ job[w].due = {}
      BY <1>0, <2>1, Fields DEF Fresh, Sweeping
    <2>3. job'[w] = [job[w] EXCEPT !.pc = "load"]
      BY <1>0, <1>4 DEF DispatchSave, GoTo, Move, TypeOK
    <2>4. job'[w].pc = "load" /\ job'[w].due = {}
      BY <1>0, <2>2, <2>3, Fields DEF Job
    <2>5. /\ lease'[t] = [node |-> n, until |-> job[w].until]
          /\ \A u \in Tasks \ {t} : lease'[u] = lease[u]
          /\ granted'[t][n] = job[w].until
          /\ \A u \in Tasks, m \in Nodes : <<u, m>> # <<t, n>> => granted'[u][m] = granted[u][m]
      BY <1>0, <2>1, <2>2, GrantTyped
    <2>6. \A m \in Nodes \ {n} : ~(granted[t][m] > now)
      <3> SUFFICES ASSUME NEW m \in Nodes \ {n}, granted[t][m] > now PROVE FALSE
        OBVIOUS
      <3>1. lease[t].node = m /\ lease[t].until > now
        BY <1>0, <2>2, Numbers DEF Backed
      <3>2. lease[t].node \in {None, n} \/ lease[t].until <= now
        BY <1>0, <2>1 DEF Fresh, At
      <3> QED BY <1>0, <2>2, <3>1, <3>2, Numbers, LeaseAssumption
    <2>7. Backed'
      <3> SUFFICES ASSUME NEW u \in Tasks, NEW m \in Nodes, granted'[u][m] > now'
                   PROVE  lease'[u].node = m /\ granted'[u][m] <= lease'[u].until
        BY DEF Backed
      <3>1. CASE u # t
        BY <1>0, <2>1, <2>5, <3>1 DEF Backed
      <3>2. CASE u = t /\ m # n
        BY <2>1, <2>5, <2>6, <3>2
      <3>3. CASE u = t /\ m = n
        BY <1>0, <2>5, <3>3, Numbers
      <3> QED BY <3>1, <3>2, <3>3
    <2> QED BY <2>4, <2>7 DEF Fresh, At, Sweeping
  <1>5. CASE DispatchLoad(w)
    <2>1. job[w].pc = "load" /\ UNCHANGED <<lease, now, granted>>
      BY <1>5 DEF DispatchLoad, Load, At, stored
    <2>2. job'[w] = [job[w] EXCEPT !.pc = "record", !.count = usage]
      BY <1>0, <1>5 DEF DispatchLoad, Load, Move, TypeOK
    <2>3. job'[w].pc = "record" /\ job'[w].due = job[w].due
      BY <1>0, <2>2, Fields DEF Job
    <2>4. Fresh(w)'
      BY <1>0, <2>1, <2>3 DEF Fresh, At, Sweeping
    <2> QED BY <1>0, <2>1, <2>4, BackedKept
  <1>6. CASE DispatchRecord(w)
    <2>1. job[w].pc = "record" /\ UNCHANGED <<lease, now, granted>>
      BY <1>6 DEF DispatchRecord, At
    <2>2. \/ job'[w] = Idle
          \/ job'[w] = [job[w] EXCEPT !.pc = "execute", !.count = 0]
      BY <1>0, <1>6 DEF DispatchRecord, Finish, Move, TypeOK
    <2>3. CASE job'[w] = [job[w] EXCEPT !.pc = "execute", !.count = 0]
      <3>1. job'[w].pc = "execute" /\ job'[w].due = job[w].due
        BY <1>0, <2>3, Fields DEF Job
      <3> QED BY <1>0, <2>1, <3>1, BackedKept DEF Fresh, At, Sweeping
    <2> QED BY <1>0, <2>1, <2>2, <2>3, BackedKept, IdleFresh
  <1> QED BY <1>1, <1>2, <1>3, <1>4, <1>5, <1>6

LEMMA ReleaseFresh ==
    ASSUME NEW w \in Workers, Fit(w), TypeOK',
           \/ ExecuteOk(w) \/ ExecuteFail(w)
           \/ ReleaseRead(w) \/ ReleaseDelete(w) \/ DoneLoad(w) \/ DoneRecord(w)
    PROVE  Backed' /\ Fresh(w)'
  <1>0. TypeOK /\ Backed /\ Fresh(w)
    BY DEF Fit
  <1> DEFINE t == job[w].task
             n == job[w].node
  <1>1. CASE ExecuteOk(w)
    <2>1. /\ job[w].pc = "execute"
          /\ granted' = [granted EXCEPT ![t][n] = 0]
          /\ UNCHANGED <<lease, now>>
      BY <1>1 DEF ExecuteOk, At, stored
    <2>2. t \in Tasks /\ n \in Nodes /\ job[w].due = {}
      BY <1>0, <2>1, Fields DEF Fresh, Sweeping
    <2>3. job'[w] = [job[w] EXCEPT !.pc = "release"]
      BY <1>0, <1>1 DEF ExecuteOk, GoTo, Move, TypeOK
    <2>4. /\ job'[w].pc = "release" /\ job'[w].task = t /\ job'[w].node = n
          /\ job'[w].due = {}
      BY <1>0, <2>2, <2>3, Fields DEF Job
    <2>5. /\ granted'[t][n] = 0
          /\ \A u \in Tasks, m \in Nodes : <<u, m>> # <<t, n>> => granted'[u][m] = granted[u][m]
      BY <1>0, <2>1, <2>2 DEF TypeOK
    <2>6. ~(granted'[t][n] > now')
      BY <1>0, <2>1, <2>5, LeaseBounds DEF TypeOK
    <2>7. Backed'
      <3> SUFFICES ASSUME NEW u \in Tasks, NEW m \in Nodes, granted'[u][m] > now'
                   PROVE  lease'[u].node = m /\ granted'[u][m] <= lease'[u].until
        BY DEF Backed
      <3>1. <<u, m>> # <<t, n>>
        BY <2>6
      <3> QED BY <1>0, <2>1, <2>5, <3>1 DEF Backed
    <2>8. Fresh(w)'
      BY <2>4, <2>5 DEF Fresh, At, Sweeping
    <2> QED BY <2>7, <2>8
  <1>2. CASE ExecuteFail(w)
    <2>1. job'[w] = Idle /\ UNCHANGED <<lease, now, granted>>
      BY <1>0, <1>2 DEF ExecuteFail, Finish, Move, TypeOK, stored
    <2> QED BY <1>0, <2>1, BackedKept, IdleFresh
  <1>3. CASE ReleaseRead(w)
    <2>1. job[w].pc = "release" /\ UNCHANGED <<lease, now, granted>>
      BY <1>3 DEF ReleaseRead, At, stored
    <2>2. \/ Owns(w) /\ job'[w] = [job[w] EXCEPT !.pc = "delete"]
          \/ job'[w] = [job[w] EXCEPT !.pc = "loadDown"]
      BY <1>0, <1>3 DEF ReleaseRead, GoTo, Move, TypeOK
    <2>3. /\ job'[w].task = t /\ job'[w].node = n /\ job'[w].due = job[w].due
          /\ \/ job'[w].pc = "delete" /\ Owns(w)
             \/ job'[w].pc = "loadDown"
      BY <1>0, <2>2, Fields DEF Job
    <2>4. Fresh(w)'
      BY <1>0, <2>1, <2>3 DEF Fresh, At, Sweeping, Owns
    <2> QED BY <1>0, <2>1, <2>4, BackedKept
  <1>4. CASE ReleaseDelete(w)
    <2>1. job[w].pc = "delete" /\ Forget(t) /\ UNCHANGED <<granted, now>>
      BY <1>4 DEF ReleaseDelete, At
    <2>2. t \in Tasks /\ n \in Nodes /\ job[w].due = {}
      BY <1>0, <2>1, Fields DEF Fresh, Sweeping
    <2>3. job'[w] = [job[w] EXCEPT !.pc = "loadDown"]
      BY <1>0, <1>4 DEF ReleaseDelete, GoTo, Move, TypeOK
    <2>4. job'[w].pc = "loadDown" /\ job'[w].due = {}
      BY <1>0, <2>2, <2>3, Fields DEF Job
    <2>5. \A u \in Tasks \ {t} : lease'[u] = lease[u]
      BY <1>0, <2>1, <2>2, ForgetTyped
    <2>6. lease[t].node = n /\ granted[t][n] = 0
      BY <1>0, <2>1 DEF Fresh, Owns
    <2>7. \A m \in Nodes : ~(granted[t][m] > now)
      BY <1>0, <2>2, <2>6, LeaseBounds DEF Backed, TypeOK
    <2>8. Backed'
      BY <1>0, <2>1, <2>5, <2>7 DEF Backed
    <2> QED BY <2>4, <2>8 DEF Fresh, At, Sweeping
  <1>5. CASE DoneLoad(w)
    <2>1. job[w].pc = "loadDown" /\ UNCHANGED <<lease, now, granted>>
      BY <1>5 DEF DoneLoad, Load, At, stored
    <2>2. job'[w] = [job[w] EXCEPT !.pc = "recordDown", !.count = usage]
      BY <1>0, <1>5 DEF DoneLoad, Load, Move, TypeOK
    <2>3. job'[w].pc = "recordDown" /\ job'[w].due = job[w].due
      BY <1>0, <2>2, Fields DEF Job
    <2>4. Fresh(w)'
      BY <1>0, <2>1, <2>3 DEF Fresh, At, Sweeping
    <2> QED BY <1>0, <2>1, <2>4, BackedKept
  <1>6. CASE DoneRecord(w)
    <2>1. job'[w] = Idle /\ UNCHANGED <<lease, now, granted>>
      BY <1>0, <1>6 DEF DoneRecord, Finish, Move, TypeOK
    <2> QED BY <1>0, <2>1, BackedKept, IdleFresh
  <1> QED BY <1>1, <1>2, <1>3, <1>4, <1>5, <1>6

LEMMA SweepFresh ==
    ASSUME NEW w \in Workers, Fit(w), TypeOK',
           \/ SweepList(w) \/ SweepNext(w) \/ SweepDone(w) \/ DropRead(w) \/ DropDelete(w)
    PROVE  Backed' /\ Fresh(w)'
  <1>0. TypeOK /\ Backed /\ Fresh(w)
    BY DEF Fit
  <1> DEFINE t == job[w].task
             back == [Idle EXCEPT !.pc = "sweep", !.due = job[w].due]
  <1>9. back.pc = "sweep" /\ back.due = job[w].due
    BY DEF Idle
  <1>1. CASE SweepList(w)
    <2>1. job'[w] = [Idle EXCEPT !.pc = "sweep", !.due = Overdue]
      BY <1>0, <1>1 DEF SweepList, Move, TypeOK
    <2>2. job'[w].pc = "sweep" /\ job'[w].due = Overdue
      BY <2>1 DEF Idle
    <2>3. UNCHANGED <<lease, now, granted>>
      BY <1>1 DEF SweepList, stored
    <2>4. \A d \in Overdue : Expired(d[1])
      BY DEF Overdue
    <2>5. \A d \in Overdue : Expired(d[1])'
      BY <2>3, <2>4 DEF Expired, Held
    <2>6. Fresh(w)'
      BY <2>2, <2>5 DEF Fresh, At, Sweeping
    <2> QED BY <1>0, <2>3, <2>6, BackedKept
  <1>2. CASE SweepNext(w)
    <2>1. job[w].pc = "sweep" /\ UNCHANGED <<lease, now, granted>>
      BY <1>2 DEF SweepNext, At, stored
    <2>2. PICK d \in job[w].due :
            \/ job'[w] = [job[w] EXCEPT !.pc = "drop", !.task = d[1], !.node = d[2],
                                        !.due = job[w].due \ {d}]
            \/ job'[w] = [job[w] EXCEPT !.due = job[w].due \ {d}]
      BY <1>0, <1>2 DEF SweepNext, Move, TypeOK
    <2>3. \/ /\ job'[w].pc = "drop" /\ job'[w].task = d[1] /\ job'[w].node = d[2]
             /\ job'[w].due = job[w].due \ {d}
          \/ /\ job'[w].pc = "sweep"
             /\ job'[w].due = job[w].due \ {d}
      BY <1>0, <2>1, <2>2, Fields DEF Job
    <2>4. \A e \in job[w].due : lease[e[1]].node = e[2] => Expired(e[1])
      BY <1>0 DEF Fresh
    <2>5. \A e \in job[w].due : lease'[e[1]].node = e[2] => Expired(e[1])'
      BY <2>1, <2>4 DEF Expired, Held
    <2>6. Fresh(w)'
      BY <2>3, <2>5 DEF Fresh, At, Sweeping, Owns
    <2> QED BY <1>0, <2>1, <2>6, BackedKept
  <1>3. CASE SweepDone(w)
    <2>1. job'[w] = Idle /\ UNCHANGED <<lease, now, granted>>
      BY <1>0, <1>3 DEF SweepDone, Finish, Move, TypeOK, stored
    <2> QED BY <1>0, <2>1, BackedKept, IdleFresh
  <1>4. CASE DropRead(w)
    <2>1. job[w].pc = "drop" /\ UNCHANGED <<lease, now, granted>>
      BY <1>4 DEF DropRead, At, stored
    <2>2. \/ Owns(w) /\ job'[w] = [job[w] EXCEPT !.pc = "dropDelete"]
          \/ job'[w] = back
      BY <1>0, <1>4 DEF DropRead, GoTo, BackToSweep, Move, TypeOK
    <2>3. \/ Owns(w) /\ job'[w].pc = "dropDelete" /\ job'[w].task = t /\ job'[w].due = job[w].due
          \/ job'[w].pc = "sweep" /\ job'[w].due = job[w].due
      BY <1>0, <1>9, <2>2, Fields DEF Job
    <2>4. \A e \in job[w].due : lease[e[1]].node = e[2] => Expired(e[1])
      BY <1>0 DEF Fresh
    <2>5. \A e \in job[w].due : lease'[e[1]].node = e[2] => Expired(e[1])'
      BY <2>1, <2>4 DEF Expired, Held
    <2>6. Owns(w) => Expired(t)
      BY <1>0, <2>1 DEF Fresh, At
    <2>7. Fresh(w)'
      BY <2>1, <2>3, <2>5, <2>6 DEF Fresh, At, Sweeping, Expired, Held
    <2> QED BY <1>0, <2>1, <2>7, BackedKept
  <1>5. CASE DropDelete(w)
    <2>1. job[w].pc = "dropDelete" /\ Forget(t) /\ UNCHANGED <<granted, now>>
      BY <1>5 DEF DropDelete, At
    <2>2. t \in Tasks /\ job[w].due \in SUBSET (Tasks \X Nodes)
      BY <1>0, <2>1, Fields
    <2>3. job'[w] = back
      BY <1>0, <1>5 DEF DropDelete, BackToSweep, Move, TypeOK
    <2>4. lease'[t] = Free /\ \A u \in Tasks \ {t} : lease'[u] = lease[u]
      BY <1>0, <2>1, <2>2, ForgetTyped
    <2>5. Expired(t)
      BY <1>0, <2>1 DEF Fresh, At
    <2>6. \A m \in Nodes : ~(granted[t][m] > now)
      BY <1>0, <2>2, <2>5, Numbers DEF Backed, Expired
    <2>7. Backed'
      BY <1>0, <2>1, <2>4, <2>6 DEF Backed
    <2>8. ASSUME NEW e \in job[w].due, lease'[e[1]].node = e[2] PROVE Expired(e[1])'
      <3>1. e[1] \in Tasks /\ e[2] \in Nodes
        BY <2>2
      <3>2. e[1] # t
        BY <2>4, <2>8, <3>1, LeaseAssumption DEF Free
      <3>3. lease'[e[1]] = lease[e[1]] /\ Expired(e[1])
        BY <1>0, <2>4, <2>8, <3>1, <3>2 DEF Fresh
      <3> QED BY <2>1, <3>3 DEF Expired, Held
    <2>9. Fresh(w)'
      BY <1>9, <2>3, <2>8 DEF Fresh, At, Sweeping
    <2> QED BY <2>7, <2>9
  <1> QED BY <1>1, <1>2, <1>3, <1>4, <1>5

LEMMA HeartbeatFresh ==
    ASSUME NEW w \in Workers, Fit(w), TypeOK',
           \/ \E t \in Tasks, n \in Nodes : HeartbeatRead(w, t, n)
           \/ HeartbeatSave(w)
    PROVE  Backed' /\ Fresh(w)'
  <1>0. TypeOK /\ Backed /\ Fresh(w)
    BY DEF Fit
  <1>1. ASSUME NEW t \in Tasks, NEW n \in Nodes, HeartbeatRead(w, t, n)
        PROVE  Backed' /\ Fresh(w)'
    <2>1. lease[t].node = n /\ UNCHANGED <<lease, now, granted>>
      BY <1>1 DEF HeartbeatRead, stored
    <2>2. job'[w] = [Idle EXCEPT !.pc = "extend", !.task = t, !.node = n, !.until = now + Ttl]
      BY <1>0, <1>1 DEF HeartbeatRead, Move, TypeOK
    <2>3. job'[w].pc = "extend" /\ job'[w].task = t /\ job'[w].node = n /\ job'[w].due = {}
      BY <2>2 DEF Idle
    <2>4. Fresh(w)'
      BY <2>1, <2>3 DEF Fresh, At, Sweeping, Owns
    <2> QED BY <1>0, <2>1, <2>4, BackedKept
  <1>2. CASE HeartbeatSave(w)
    <2> DEFINE t == job[w].task
               n == job[w].node
    <2>1. job[w].pc = "extend" /\ Grant(t, n, job[w].until) /\ now' = now /\ job'[w] = Idle
      BY <1>0, <1>2 DEF HeartbeatSave, At, Finish, Move, TypeOK
    <2>2. t \in Tasks /\ n \in Nodes /\ job[w].until \in Instants
      BY <1>0, <2>1, Fields
    <2>3. /\ lease'[t] = [node |-> n, until |-> job[w].until]
          /\ \A u \in Tasks \ {t} : lease'[u] = lease[u]
          /\ granted'[t][n] = job[w].until
          /\ \A u \in Tasks, m \in Nodes : <<u, m>> # <<t, n>> => granted'[u][m] = granted[u][m]
      BY <1>0, <2>1, <2>2, GrantTyped
    <2>4. lease[t].node = n
      BY <1>0, <2>1 DEF Fresh, Owns
    <2>5. Backed'
      <3> SUFFICES ASSUME NEW u \in Tasks, NEW m \in Nodes, granted'[u][m] > now'
                   PROVE  lease'[u].node = m /\ granted'[u][m] <= lease'[u].until
        BY DEF Backed
      <3>1. CASE u # t
        BY <1>0, <2>1, <2>3, <3>1 DEF Backed
      <3>2. CASE u = t /\ m # n
        BY <1>0, <2>1, <2>2, <2>3, <2>4, <3>2 DEF Backed
      <3>3. CASE u = t /\ m = n
        BY <1>0, <2>3, <3>3, Numbers
      <3> QED BY <3>1, <3>2, <3>3
    <2> QED BY <2>1, <2>5, IdleFresh
  <1> QED BY <1>1, <1>2

LEMMA AroundBacked ==
    ASSUME TypeOK, Backed, Tick \/ Midnight \/ Crash \/ UNCHANGED vars
    PROVE  Backed'
  <1>1. CASE Tick
    <2>1. now' = now + 1 /\ UNCHANGED <<lease, granted>>
      BY <1>1 DEF Tick, stored
    <2> SUFFICES ASSUME NEW u \in Tasks, NEW m \in Nodes, granted[u][m] > now'
                 PROVE  lease[u].node = m /\ granted[u][m] <= lease[u].until
      BY <2>1 DEF Backed
    <2>2. granted[u][m] > now
      BY <2>1, Numbers
    <2> QED BY <2>2 DEF Backed
  <1> QED BY <1>1, BackedKept DEF Midnight, Crash, vars, stored

LEMMA AroundFresh ==
    ASSUME NEW w \in Workers, TypeOK, Fresh(w), Tick \/ Midnight \/ Crash \/ UNCHANGED vars
    PROVE  Fresh(w)'
  <1>1. CASE UNCHANGED <<lease, now, granted, job>>
    BY <1>1 DEF Fresh, At, Owns, Expired, Held
  <1>2. CASE Tick
    <2>1. now' = now + 1 /\ UNCHANGED <<lease, granted, job>>
      BY <1>2 DEF Tick, stored
    <2>3. \A u \in Tasks : lease[u].until <= now => lease[u].until <= now'
      BY <2>1, Numbers
    <2>4. \A u \in Tasks : Expired(u) => Expired(u)'
      BY <2>1, <2>3 DEF Expired, Held
    <2>5. \A d \in job[w].due : d[1] \in Tasks
      BY Fields
    <2>6. job[w].pc \notin {"idle", "sweep"} => job[w].task \in Tasks
      BY Fields
    <2> QED BY <2>1, <2>3, <2>4, <2>5, <2>6 DEF Fresh, At, Owns
  <1>3. CASE Crash
    <2>1. job'[w] = Idle
      BY <1>3 DEF Crash
    <2> QED BY <2>1, IdleFresh
  <1> QED BY <1>1, <1>2, <1>3 DEF Midnight, vars, stored

\* Whose turn it is: a step of a coroutine leaves the others where they are, ...
LEMMA OthersStay ==
    ASSUME NEW w \in Workers, TypeOK, Serve(w) \/ Sweep(w) \/ Step(w)
    PROVE  \A v \in Workers \ {w} : job'[v] = job[v]
  <1>1. ASSUME NEW next, Move(w, next) PROVE \A v \in Workers \ {w} : job'[v] = job[v]
    BY <1>1 DEF Move, TypeOK
  <1>2. CASE Serve(w)
    BY <1>1, <1>2 DEF Serve, DispatchCheck, HeartbeatRead
  <1>3. CASE Sweep(w)
    BY <1>1, <1>3 DEF Sweep, SweepList
  <1>4. CASE Step(w)
    <2>1. CASE \/ DispatchSelect(w) \/ NoNode(w) \/ DispatchSave(w)
               \/ DispatchLoad(w) \/ DispatchRecord(w)
      BY <1>1, <2>1 DEF DispatchSelect, NoNode, DispatchSave, DispatchLoad, DispatchRecord,
                        Load, GoTo, Finish
    <2>2. CASE \/ ExecuteOk(w) \/ ExecuteFail(w) \/ HeartbeatSave(w)
               \/ ReleaseRead(w) \/ ReleaseDelete(w) \/ DoneLoad(w) \/ DoneRecord(w)
      BY <1>1, <2>2 DEF ExecuteOk, ExecuteFail, HeartbeatSave, ReleaseRead, ReleaseDelete,
                        DoneLoad, DoneRecord, Load, GoTo, Finish
    <2>3. CASE SweepNext(w) \/ SweepDone(w) \/ DropRead(w) \/ DropDelete(w)
      BY <1>1, <2>3 DEF SweepNext, SweepDone, DropRead, DropDelete, BackToSweep, GoTo, Finish
    <2> QED BY <1>4, <2>1, <2>2, <2>3 DEF Step
  <1> QED BY <1>2, <1>3, <1>4

\* ... and while nothing has overlapped the others are at rest.
LEMMA OthersRest ==
    ASSUME NEW w \in Workers, Apart, ~overlapped', Serve(w) \/ Sweep(w) \/ Step(w)
    PROVE  \A v \in Workers \ {w} : job[v].pc = "idle"
  <1>1. CASE Begins(w)
    BY <1>1 DEF Begins
  <1>2. CASE Step(w)
    <2>1. job[w].pc # "idle"
      BY <1>2 DEF Step, At, Load, DispatchSelect, NoNode, DispatchSave, DispatchLoad,
            DispatchRecord, ExecuteOk, ExecuteFail, ReleaseRead, ReleaseDelete, DoneLoad,
            DoneRecord, HeartbeatSave, SweepNext, SweepDone, DropRead, DropDelete
    <2> QED BY <2>1 DEF Apart
  <1> QED BY <1>1, <1>2 DEF Serve, Sweep

LEMMA StillApart ==
    ASSUME NEW w \in Workers, \A v \in Workers \ {w} : job'[v].pc = "idle"
    PROVE  Apart'
  BY DEF Apart

LEMMA NeverOverlapped ==
    ASSUME TypeOK, [Next]_vars, ~overlapped'
    PROVE  ~overlapped
  BY DEF TypeOK, Next, Serve, Sweep, Step, Begins, Tick, Midnight, Crash, vars

\* What a coroutine at work does to the leases.
LEMMA WorkFresh ==
    ASSUME NEW w \in Workers, Fit(w), TypeOK', Serve(w) \/ Sweep(w) \/ Step(w)
    PROVE  Backed' /\ Fresh(w)'
  <1>1. CASE Serve(w)
    BY <1>1, DispatchFresh, HeartbeatFresh DEF Serve
  <1>2. CASE Sweep(w)
    BY <1>2, SweepFresh DEF Sweep
  <1>3. CASE Step(w)
    BY <1>3, DispatchFresh, ReleaseFresh, HeartbeatFresh, SweepFresh DEF Step
  <1> QED BY <1>1, <1>2, <1>3

LEMMA StepFresh == Leases /\ [Next]_vars => Leases'
  <1> SUFFICES ASSUME Leases, [Next]_vars PROVE Leases'
    OBVIOUS
  <1>1. TypeOK /\ TypeOK'
    BY StepTyped DEF Leases
  <1>2. SUFFICES ASSUME ~overlapped' PROVE Apart' /\ Backed' /\ \A w \in Workers : Fresh(w)'
    BY <1>1 DEF Leases
  <1>3. Apart /\ \A w \in Workers : Fit(w)
    BY <1>1, <1>2, NeverOverlapped DEF Leases, Fit
  <1>4. Backed
    BY <1>1, <1>2, NeverOverlapped DEF Leases
  <1>5. ASSUME NEW w \in Workers, Serve(w) \/ Sweep(w) \/ Step(w)
        PROVE  Apart' /\ Backed' /\ \A v \in Workers : Fresh(v)'
    <2>1. \A v \in Workers \ {w} : job'[v] = job[v] /\ job[v].pc = "idle"
      BY <1>1, <1>2, <1>3, <1>5, OthersStay, OthersRest
    <2>2. Backed' /\ Fresh(w)'
      BY <1>1, <1>3, <1>5, WorkFresh
    <2>3. ASSUME NEW v \in Workers \ {w} PROVE Fresh(v)'
      <3>1. job'[v].pc = "idle" /\ job'[v].due = {}
        BY <1>3, <2>1 DEF Fit, Fresh, Sweeping
      <3> QED BY <3>1 DEF Fresh, At, Sweeping
    <2> QED BY <2>1, <2>2, <2>3, StillApart
  <1>6. ASSUME Tick \/ Midnight \/ Crash \/ UNCHANGED vars
        PROVE  Apart' /\ Backed' /\ \A v \in Workers : Fresh(v)'
    <2>1. \A v \in Workers : Fresh(v)'
      BY <1>3, <1>6, AroundFresh DEF Fit
    <2>2. Apart'
      BY <1>3, <1>6 DEF Apart, Tick, Midnight, Crash, vars, Idle
    <2>3. Backed'
      BY <1>1, <1>4, <1>6, AroundBacked
    <2> QED BY <2>1, <2>2, <2>3
  <1> QED BY <1>5, <1>6 DEF Next

LEMMA InitFresh == Init => Leases
  <1> SUFFICES ASSUME Init PROVE Leases
    OBVIOUS
  <1>1. TypeOK
    BY InitTyped
  <1>2. \A t \in Tasks, n \in Nodes : granted[t][n] = 0 /\ now = 0
    BY DEF Init
  <1>3. Backed
    <2> SUFFICES ASSUME NEW t \in Tasks, NEW n \in Nodes, granted[t][n] > now PROVE FALSE
      BY DEF Backed
    <2> QED BY <1>2
  <1>4. ASSUME NEW w \in Workers PROVE Fresh(w)
    <2>1. job[w] = Idle
      BY DEF Init
    <2> QED BY <2>1 DEF Fresh, Idle, At, Sweeping
  <1>5. Apart
    BY DEF Init, Idle, Apart
  <1> QED BY <1>1, <1>3, <1>4, <1>5 DEF Leases

\* As long as no two operations have overlapped, no two nodes believe at once that a task
\* is theirs (leases.py, task_dispatcher.py, task_handoff.py).
THEOREM SerialExclusive == Spec => []Exclusive
  <1>1. Leases => Exclusive
    BY DEF Leases, Backed, Exclusive
  <1> QED BY <1>1, InitFresh, StepFresh, PTL DEF Spec

-----------------------------------------------------------------------------
(* What is taken away, whatever overlaps.                                  *)

\* A lease of node n on task t would not be lost unseen if w took the row away.
Covered(w, t, n) == lease[t].node = n => Expired(t) \/ <<t, n>> \in since[w]

Watched(w) ==
    /\ At(w, "delete") =>
           \A n \in Nodes :
               lease[job[w].task].node = n => n = job[w].node \/ <<job[w].task, n>> \in since[w]
    /\ At(w, "drop") => Covered(w, job[w].task, job[w].node)
    /\ At(w, "dropDelete") => \A n \in Nodes : Covered(w, job[w].task, n)
    /\ job[w].pc \in Sweeping => \A d \in job[w].due : Covered(w, d[1], d[2])

Unlost == TypeOK /\ \A w \in Workers : Watched(w)

\* A change of the row is seen by whoever watches it.
LEMMA WatchSees ==
    ASSUME Watch, NEW w \in Workers, NEW t \in Tasks, NEW n \in Nodes,
           t \in Concern(job'[w]), lease'[t].node = n,
           lease'[t] # lease[t] \/ <<t, n>> \in Unseen(w)
    PROVE  <<t, n>> \in since'[w]
  <1> DEFINE seen == {g \in Tasks \X Nodes :
                        /\ g[1] \in Concern(job'[w]) /\ lease'[g[1]].node = g[2]
                        /\ g \in Unseen(w) \/ lease'[g[1]] # lease[g[1]]}
  <1>1. <<t, n>> \in seen
    OBVIOUS
  <1>2. since'[w] = seen
    BY Zenon DEF Watch
  <1> QED BY <1>1, <1>2

LEMMA CoveredStays ==
    ASSUME TypeOK, Watch, now' = now, NEW w \in Workers, NEW t \in Tasks, NEW n \in Nodes,
           t \in Concern(job'[w]), Covered(w, t, n),
           <<t, n>> \in since[w] => <<t, n>> \in Unseen(w)
    PROVE  Covered(w, t, n)'
  <1> SUFFICES ASSUME lease'[t].node = n, ~Expired(t)' PROVE <<t, n>> \in since'[w]
    BY DEF Covered
  <1>1. CASE lease'[t] # lease[t]
    BY <1>1, WatchSees
  <1>2. CASE lease'[t] = lease[t]
    <2>1. ~Expired(t)
      BY <1>2 DEF Expired, Held
    <2>2. <<t, n>> \in Unseen(w)
      BY <1>2, <2>1 DEF Covered
    <2> QED BY <2>2, WatchSees
  <1> QED BY <1>1, <1>2

LEMMA TimeStays == ASSUME NEW w, Serve(w) \/ Sweep(w) \/ Step(w) PROVE now' = now /\ Watch
  <1>1. CASE Serve(w)
    BY <1>1 DEF Serve, DispatchCheck, HeartbeatRead
  <1>2. CASE Sweep(w)
    BY <1>2 DEF Sweep, SweepList
  <1>3. CASE Step(w)
    BY <1>3 DEF Step, DispatchSelect, NoNode, DispatchSave, DispatchLoad, DispatchRecord, Load,
       ExecuteOk, ExecuteFail, ReleaseRead, ReleaseDelete, DoneLoad, DoneRecord, HeartbeatSave,
       SweepNext, SweepDone, DropRead, DropDelete
  <1> QED BY <1>1, <1>2, <1>3

\* A worker that stays where it is.
LEMMA BystanderWatched ==
    ASSUME TypeOK, Watch, now' = now, NEW w \in Workers, job'[w] = job[w], Watched(w)
    PROVE  Watched(w)'
  <1>1. Unseen(w) = since[w]
    BY DEF Unseen, At
  <1>2. /\ job[w].pc \in {"delete", "drop", "dropDelete"} =>
              job[w].task \in Tasks /\ job[w].node \in Nodes /\ job[w].task \in Concern(job'[w])
        /\ job[w].pc \in Sweeping =>
              \A d \in job[w].due :
                  d[1] \in Tasks /\ d[2] \in Nodes /\ d[1] \in Concern(job'[w])
    BY Fields DEF Concern, Sweeping
  <1>3. ASSUME At(w, "delete"), NEW n \in Nodes, lease'[job[w].task].node = n
        PROVE  n = job[w].node \/ <<job[w].task, n>> \in since'[w]
    <2>1. job[w].task \in Tasks /\ job[w].task \in Concern(job'[w])
      BY <1>2, <1>3 DEF At
    <2>2. CASE lease'[job[w].task] # lease[job[w].task]
      BY <1>3, <2>1, <2>2, WatchSees
    <2>3. CASE lease'[job[w].task] = lease[job[w].task]
      <3>1. n = job[w].node \/ <<job[w].task, n>> \in since[w]
        BY <1>3, <2>3 DEF Watched
      <3> QED BY <1>1, <1>3, <2>1, <3>1, WatchSees
    <2> QED BY <2>2, <2>3
  <1>4. At(w, "drop") => Covered(w, job[w].task, job[w].node)'
    BY <1>1, <1>2, CoveredStays DEF Watched, At
  <1>5. At(w, "dropDelete") => \A n \in Nodes : Covered(w, job[w].task, n)'
    BY <1>1, <1>2, CoveredStays DEF Watched, At
  <1>6. job[w].pc \in Sweeping => \A d \in job[w].due : Covered(w, d[1], d[2])'
    BY <1>1, <1>2, CoveredStays DEF Watched
  <1> QED BY <1>3, <1>4, <1>5, <1>6 DEF Watched, At, Covered, Expired, Held

\* A worker that is not on its way to take a row away.
LEMMA ElsewhereWatched ==
    ASSUME NEW w \in Workers, job'[w].pc \notin {"sweep", "drop", "dropDelete", "delete"}
    PROVE  Watched(w)'
  BY DEF Watched, At, Sweeping

LEMMA DispatchWatched ==
    ASSUME TypeOK, NEW w \in Workers,
           \/ \E t \in Tasks : DispatchCheck(w, t)
           \/ DispatchSelect(w) \/ NoNode(w) \/ DispatchSave(w)
           \/ DispatchLoad(w) \/ DispatchRecord(w)
           \/ \E t \in Tasks, n \in Nodes : HeartbeatRead(w, t, n)
           \/ HeartbeatSave(w) \/ ExecuteOk(w) \/ ExecuteFail(w) \/ ReleaseDelete(w)
           \/ DoneLoad(w) \/ DoneRecord(w) \/ SweepDone(w)
    PROVE  Watched(w)'
  <1>1. job[w] \in Job /\ job \in [Workers -> Job]
    BY DEF TypeOK
  <1>2. Idle.pc = "idle"
    BY DEF Idle
  <1>3. ASSUME NEW t \in Tasks, DispatchCheck(w, t) PROVE job'[w].pc = "select"
    BY <1>1, <1>3 DEF DispatchCheck, Move, Idle
  <1>4. ASSUME NEW t \in Tasks, NEW n \in Nodes, HeartbeatRead(w, t, n) PROVE job'[w].pc = "extend"
    BY <1>1, <1>4 DEF HeartbeatRead, Move, Idle
  <1>5. ASSUME DispatchSelect(w) \/ NoNode(w) \/ DispatchSave(w) \/ DispatchLoad(w)
               \/ DispatchRecord(w)
        PROVE  job'[w].pc \in {"idle", "acquire", "load", "record", "execute"}
    BY <1>1, <1>2, <1>5 DEF DispatchSelect, NoNode, DispatchSave, DispatchLoad, DispatchRecord,
       Load, GoTo, Finish, Move, Job
  <1>6. ASSUME HeartbeatSave(w) \/ ExecuteOk(w) \/ ExecuteFail(w) \/ ReleaseDelete(w)
               \/ DoneLoad(w) \/ DoneRecord(w) \/ SweepDone(w)
        PROVE  job'[w].pc \in {"idle", "release", "loadDown", "recordDown"}
    BY <1>1, <1>2, <1>6 DEF HeartbeatSave, ExecuteOk, ExecuteFail, ReleaseDelete, DoneLoad,
       DoneRecord, SweepDone, Load, GoTo, Finish, Move, Job
  <1> QED BY <1>3, <1>4, <1>5, <1>6, ElsewhereWatched

\* A release that goes on to delete has just found its own lease.
LEMMA ReleaseWatched ==
    ASSUME TypeOK, NEW w \in Workers, ReleaseRead(w)
    PROVE  Watched(w)'
  <1>1. job'[w] = [job[w] EXCEPT !.pc = IF Owns(w) THEN "delete" ELSE "loadDown"]
    BY DEF ReleaseRead, GoTo, Move, TypeOK
  <1>2. lease' = lease /\ job[w] \in Job
    BY DEF ReleaseRead, stored, TypeOK
  <1>3. CASE Owns(w)
    <2>1. job'[w].pc = "delete" /\ job'[w].task = job[w].task /\ job'[w].node = job[w].node
      BY <1>1, <1>2, <1>3 DEF Job
    <2> QED BY <1>2, <1>3, <2>1 DEF Watched, Owns, At, Sweeping
  <1>4. CASE ~Owns(w)
    <2>1. job'[w].pc = "loadDown"
      BY <1>1, <1>2, <1>4 DEF Job
    <2> QED BY <2>1, ElsewhereWatched
  <1> QED BY <1>3, <1>4

\* A sweep looks at what has run out, and takes one row after the other from its list.
LEMMA SweepWatched ==
    ASSUME TypeOK, Watch, now' = now, NEW w \in Workers, Watched(w),
           SweepList(w) \/ SweepNext(w) \/ DropRead(w) \/ DropDelete(w)
    PROVE  Watched(w)'
  <1>1. job[w] \in Job /\ job \in [Workers -> Job] /\ job[w].due \in SUBSET (Tasks \X Nodes)
    BY Fields DEF TypeOK
  <1>2. CASE SweepList(w)
    <2>1. job'[w] = [Idle EXCEPT !.pc = "sweep", !.due = Overdue] /\ lease' = lease
      BY <1>1, <1>2 DEF SweepList, Move, stored
    <2>2. job'[w].pc = "sweep" /\ job'[w].due = Overdue
      BY <2>1 DEF Idle
    <2>3. \A d \in Overdue : Expired(d[1])'
      BY <2>1 DEF Overdue, Expired, Held
    <2> QED BY <2>2, <2>3 DEF Watched, At, Covered
  <1>3. CASE SweepNext(w)
    <2>1. job[w].pc = "sweep"
      BY <1>3 DEF SweepNext, At
    <2>2. PICK d \in job[w].due :
            \/ job'[w] = [job[w] EXCEPT !.pc = "drop", !.task = d[1], !.node = d[2],
                                        !.due = job[w].due \ {d}]
            \/ job'[w] = [job[w] EXCEPT !.due = job[w].due \ {d}]
      BY <1>1, <1>3 DEF SweepNext, Move
    <2>3. /\ job'[w].due = job[w].due \ {d}
          /\ \/ job'[w].pc = "drop" /\ job'[w].task = d[1] /\ job'[w].node = d[2]
             \/ job'[w].pc = "sweep"
      BY <1>1, <2>1, <2>2 DEF Job
    <2>4. \A e \in job[w].due : Covered(w, e[1], e[2]) /\ e[1] \in Tasks /\ e[2] \in Nodes
      BY <1>1, <2>1 DEF Watched, Sweeping
    <2>5. Unseen(w) = since[w]
      BY <2>1 DEF Unseen, At
    <2>6. \A e \in job'[w].due : e \in job[w].due /\ e[1] \in Concern(job'[w])
      BY <2>3 DEF Concern
    <2>7. \A e \in job'[w].due : Covered(w, e[1], e[2])'
      BY <2>4, <2>5, <2>6, CoveredStays
    <2>8. CASE job'[w].pc = "drop" /\ job'[w].task = d[1] /\ job'[w].node = d[2]
      <3>1. d[1] \in Concern(job'[w])
        BY <2>8 DEF Concern
      <3>2. Covered(w, d[1], d[2])'
        BY <2>4, <2>5, <3>1, CoveredStays
      <3> QED BY <2>7, <2>8, <3>2 DEF Watched, At, Covered, Expired, Held
    <2>9. CASE job'[w].pc = "sweep"
      BY <2>7, <2>9 DEF Watched, At
    <2> QED BY <2>3, <2>8, <2>9
  <1>4. CASE DropRead(w)
    <2>1. job[w].pc = "drop" /\ lease' = lease
      BY <1>4 DEF DropRead, At, stored
    <2>2. \A e \in job[w].due : Covered(w, e[1], e[2]) /\ e[1] \in Tasks /\ e[2] \in Nodes
      BY <1>1, <2>1 DEF Watched, Sweeping
    <2>3. job[w].task \in Tasks /\ job[w].node \in Nodes
      BY <2>1, Fields
    <2>4. CASE Owns(w)
      <3>1. job'[w] = [job[w] EXCEPT !.pc = "dropDelete"]
        BY <1>1, <1>4, <2>4 DEF DropRead, GoTo, Move
      <3>2. /\ job'[w].pc = "dropDelete" /\ job'[w].task = job[w].task
            /\ job'[w].node = job[w].node /\ job'[w].due = job[w].due
        BY <1>1, <3>1 DEF Job
      <3>3. Unseen(w) = {g \in since[w] : g[1] = job[w].task => g[2] = job[w].node}
        BY <2>1, <3>2 DEF Unseen, At
      <3>4. lease[job[w].task].node = job[w].node
        BY <2>4 DEF Owns
      <3>5. ASSUME NEW t \in Tasks, NEW n \in Nodes, Covered(w, t, n), t \in Concern(job'[w])
            PROVE  Covered(w, t, n)'
        <4>1. CASE t = job[w].task /\ n # job[w].node
          BY <2>1, <3>4, <4>1 DEF Covered
        <4>2. CASE ~(t = job[w].task /\ n # job[w].node)
          <5>1. <<t, n>> \in since[w] => <<t, n>> \in Unseen(w)
            BY <3>3, <4>2
          <5> QED BY <3>5, <5>1, CoveredStays
        <4> QED BY <4>1, <4>2
      <3>6. Covered(w, job[w].task, job[w].node)
        BY <2>1 DEF Watched, At
      <3>7. \A n \in Nodes : Covered(w, job[w].task, n)
        BY <3>4, <3>6 DEF Covered
      <3>8. job[w].task \in Concern(job'[w]) /\ \A e \in job[w].due : e[1] \in Concern(job'[w])
        BY <3>2 DEF Concern
      <3>9. \A n \in Nodes : Covered(w, job[w].task, n)'
        BY <2>3, <3>2, <3>5, <3>7, <3>8
      <3>10. \A e \in job[w].due : Covered(w, e[1], e[2])'
        BY <2>2, <3>5, <3>8
      <3> QED BY <3>2, <3>9, <3>10 DEF Watched, At, Covered, Expired, Held
    <2>5. CASE ~Owns(w)
      <3>1. job'[w] = [Idle EXCEPT !.pc = "sweep", !.due = job[w].due]
        BY <1>1, <1>4, <2>5 DEF DropRead, BackToSweep, Move
      <3>2. job'[w].pc = "sweep" /\ job'[w].due = job[w].due
        BY <3>1 DEF Idle
      <3>3. Unseen(w) = since[w] /\ \A e \in job[w].due : e[1] \in Concern(job'[w])
        BY <3>2 DEF Unseen, Concern
      <3>4. \A e \in job[w].due : Covered(w, e[1], e[2])'
        BY <2>2, <3>3, CoveredStays
      <3> QED BY <3>2, <3>4 DEF Watched, At
    <2> QED BY <2>4, <2>5
  <1>5. CASE DropDelete(w)
    <2>1. job[w].pc = "dropDelete"
      BY <1>5 DEF DropDelete, At
    <2>2. job'[w] = [Idle EXCEPT !.pc = "sweep", !.due = job[w].due]
      BY <1>1, <1>5 DEF DropDelete, BackToSweep, Move
    <2>3. job'[w].pc = "sweep" /\ job'[w].due = job[w].due
      BY <2>2 DEF Idle
    <2>4. \A e \in job[w].due : Covered(w, e[1], e[2]) /\ e[1] \in Tasks /\ e[2] \in Nodes
      BY <1>1, <2>1 DEF Watched, Sweeping
    <2>5. Unseen(w) = since[w] /\ \A e \in job[w].due : e[1] \in Concern(job'[w])
      BY <2>1, <2>3 DEF Unseen, Concern, At
    <2>6. \A e \in job[w].due : Covered(w, e[1], e[2])'
      BY <2>4, <2>5, CoveredStays
    <2> QED BY <2>3, <2>6 DEF Watched, At
  <1> QED BY <1>2, <1>3, <1>4, <1>5

\* Around the coroutines nothing is granted, and what has run out stays so.
LEMMA AroundWatched ==
    ASSUME TypeOK, NEW w \in Workers, Watched(w), Tick \/ Midnight \/ Crash \/ UNCHANGED vars
    PROVE  Watched(w)'
  <1>1. CASE Crash
    <2>1. job'[w].pc = "idle"
      BY <1>1 DEF Crash, Idle
    <2> QED BY <2>1, ElsewhereWatched
  <1>2. CASE Tick \/ Midnight \/ UNCHANGED vars
    <2>1. UNCHANGED <<lease, job, since>> /\ (now' = now \/ now' = now + 1)
      BY <1>2 DEF Tick, Midnight, vars, stored
    <2>2. \A t \in Tasks : lease[t].until <= now => lease[t].until <= now'
      BY <2>1, Numbers
    <2>3. \A t \in Tasks, n \in Nodes : Covered(w, t, n) => Covered(w, t, n)'
      BY <2>1, <2>2 DEF Covered, Expired, Held
    <2>4. \A d \in job[w].due : d[1] \in Tasks /\ d[2] \in Nodes
      BY Fields
    <2>5. job[w].pc \in {"drop", "dropDelete"} => job[w].task \in Tasks /\ job[w].node \in Nodes
      BY Fields
    <2>6. At(w, "drop") => Covered(w, job[w].task, job[w].node)'
      BY <2>1, <2>3, <2>5 DEF Watched, At
    <2>7. At(w, "dropDelete") => \A n \in Nodes : Covered(w, job[w].task, n)'
      BY <2>1, <2>3, <2>5 DEF Watched, At
    <2>8. job[w].pc \in Sweeping => \A d \in job[w].due : Covered(w, d[1], d[2])'
      BY <2>3, <2>4 DEF Watched
    <2> QED BY <2>1, <2>6, <2>7, <2>8 DEF Watched, At, Covered, Expired, Held
  <1> QED BY <1>1, <1>2

LEMMA StepUnlost == Unlost /\ [Next]_vars => Unlost'
  <1> SUFFICES ASSUME Unlost, [Next]_vars PROVE Unlost'
    OBVIOUS
  <1>1. TypeOK /\ TypeOK'
    BY StepTyped DEF Unlost
  <1>2. ASSUME NEW w \in Workers, Serve(w) \/ Sweep(w) \/ Step(w), NEW v \in Workers
        PROVE  Watched(v)'
    <2>1. now' = now /\ Watch
      BY <1>2, TimeStays
    <2>2. CASE v # w
      <3>1. job'[v] = job[v]
        BY <1>1, <1>2, <2>2, OthersStay
      <3> QED BY <1>1, <2>1, <3>1, BystanderWatched DEF Unlost
    <2>3. CASE v = w
      <3>1. Watched(w)
        BY DEF Unlost
      <3>2. CASE Serve(w)
        BY <1>1, <2>3, <3>2, DispatchWatched DEF Serve
      <3>3. CASE Sweep(w)
        BY <1>1, <2>1, <2>3, <3>1, <3>3, SweepWatched DEF Sweep
      <3>4. CASE Step(w)
        BY <1>1, <2>1, <2>3, <3>1, <3>4, DispatchWatched, ReleaseWatched, SweepWatched DEF Step
      <3> QED BY <1>2, <3>2, <3>3, <3>4
    <2> QED BY <2>2, <2>3
  <1>3. ASSUME Tick \/ Midnight \/ Crash \/ UNCHANGED vars, NEW v \in Workers
        PROVE  Watched(v)'
    BY <1>1, <1>3, AroundWatched DEF Unlost
  <1> QED BY <1>1, <1>2, <1>3 DEF Next, Unlost

LEMMA InitUnlost == Init => Unlost
  <1> SUFFICES ASSUME Init PROVE Unlost
    OBVIOUS
  <1>1. \A w \in Workers : job[w].pc = "idle"
    BY DEF Init, Idle
  <1> QED BY <1>1, InitTyped DEF Unlost, Watched, At, Sweeping

\* However many operations overlap, neither a release nor a sweep takes away a lease that was
\* there to be seen when it looked (leases.py, coordinator.py, task_handoff.py).
THEOREM NothingSeenIsLost == Spec => []LosesOnlyUnseen
  <1>1. Unlost => LosesOnlyUnseen
    <2> SUFFICES ASSUME Unlost, NEW w \in Workers, At(w, "delete") \/ At(w, "dropDelete"),
                        Held(job[w].task)
                 PROVE  \/ IF At(w, "delete") THEN Owns(w) ELSE Expired(job[w].task)
                        \/ <<job[w].task, lease[job[w].task].node>> \in since[w]
      BY DEF LosesOnlyUnseen
    <2>1. job[w].task \in Tasks /\ lease[job[w].task].node \in Nodes
      BY Fields DEF Unlost, At, Held, TypeOK, Lease
    <2> QED BY <2>1 DEF Unlost, Watched, Covered, At, Owns
  <1> QED BY <1>1, InitUnlost, StepUnlost, PTL DEF Spec

-----------------------------------------------------------------------------
(* The budget, while one coroutine at a time is at work.                   *)

LEMMA RoomKept ==
    ASSUME NEW w \in Workers, Limit # 0, Roomy(w), TypeOK',
           \/ Serve(w) \/ Sweep(w) \/ Step(w)
           \/ Tick \/ Midnight \/ Crash \/ UNCHANGED vars
    PROVE  Within' /\ Room(w)'
  <1>0. TypeOK /\ Within /\ Room(w)
    BY DEF Roomy
  <1>n. usage \in Int /\ job[w].count \in Int /\ Limit \in Nat /\ 0 + 1 <= Limit
    BY <1>0, Numbers, LeaseAssumption
  \* Steps that leave the count alone and lead to no point with a condition of its own.
  <1>a. ASSUME usage' = usage,
               job'[w].pc \notin {"select", "acquire", "load", "record", "recordDown"}
        PROVE  Within' /\ Room(w)'
    BY <1>0, <1>a DEF Within, Room, At
  <1>b. ASSUME usage' = usage, job[w].pc \in {"select", "acquire"},
               job'[w].pc \in {"acquire", "load"}
        PROVE  Within' /\ Room(w)'
    BY <1>0, <1>b DEF Within, Room, At
  <1>i. Idle.pc = "idle"
    BY DEF Idle
  <1>1. ASSUME NEW t \in Tasks, DispatchCheck(w, t) PROVE Within' /\ Room(w)'
    <2>1. job'[w] = [Idle EXCEPT !.pc = "select", !.task = t] /\ usage' = usage
      BY <1>0, <1>1 DEF DispatchCheck, Move, TypeOK, stored
    <2>2. job'[w].pc = "select" /\ usage + 1 <= Limit
      BY <1>1, <2>1 DEF Idle, DispatchCheck, Allowed
    <2> QED BY <1>0, <2>1, <2>2 DEF Within, Room, At
  <1>2. ASSUME NEW t \in Tasks, NEW n \in Nodes, HeartbeatRead(w, t, n)
        PROVE  Within' /\ Room(w)'
    <2>1. /\ job'[w] = [Idle EXCEPT !.pc = "extend", !.task = t, !.node = n, !.until = now + Ttl]
          /\ usage' = usage
      BY <1>0, <1>2 DEF HeartbeatRead, Move, TypeOK, stored
    <2>2. job'[w].pc = "extend"
      BY <2>1 DEF Idle
    <2> QED BY <1>a, <2>1, <2>2
  <1>3. ASSUME SweepList(w) PROVE Within' /\ Room(w)'
    <2>1. job'[w] = [Idle EXCEPT !.pc = "sweep", !.due = Overdue] /\ usage' = usage
      BY <1>0, <1>3 DEF SweepList, Move, TypeOK, stored
    <2>2. job'[w].pc = "sweep"
      BY <2>1 DEF Idle
    <2> QED BY <1>a, <2>1, <2>2
  <1>4. ASSUME DispatchSelect(w) PROVE Within' /\ Room(w)'
    <2>1. PICK n \in Nodes :
            \/ job'[w] = Idle
            \/ job'[w] = [job[w] EXCEPT !.pc = "acquire", !.node = n, !.until = now + Ttl]
      BY <1>0, <1>4 DEF DispatchSelect, Finish, Move, TypeOK
    <2>2. job'[w].pc \in {"idle", "acquire"}
      BY <1>0, <1>i, <2>1, Fields DEF Job
    <2>3. usage' = usage /\ job[w].pc = "select"
      BY <1>4 DEF DispatchSelect, At, stored
    <2> QED BY <1>a, <1>b, <2>2, <2>3
  <1>5. ASSUME DispatchSave(w) PROVE Within' /\ Room(w)'
    <2>1. job'[w] = [job[w] EXCEPT !.pc = "load"] /\ usage' = usage /\ job[w].pc = "acquire"
      BY <1>0, <1>5 DEF DispatchSave, GoTo, Move, At, TypeOK
    <2>2. job'[w].pc = "load"
      BY <1>0, <2>1, Fields DEF Job
    <2> QED BY <1>b, <2>1, <2>2
  <1>6. ASSUME DispatchLoad(w) PROVE Within' /\ Room(w)'
    <2>1. /\ job'[w] = [job[w] EXCEPT !.pc = "record", !.count = usage]
          /\ usage' = usage /\ job[w].pc = "load"
      BY <1>0, <1>6 DEF DispatchLoad, Load, Move, At, TypeOK, stored
    <2>2. job'[w].pc = "record" /\ job'[w].count = usage
      BY <1>0, <2>1, Fields DEF Job
    <2> QED BY <1>0, <2>1, <2>2 DEF Within, Room, At
  <1>7. ASSUME DispatchRecord(w) PROVE Within' /\ Room(w)'
    <2>1. /\ usage' = job[w].count + 1 /\ job[w].pc = "record"
          /\ \/ job'[w] = Idle
             \/ job'[w] = [job[w] EXCEPT !.pc = "execute", !.count = 0]
      BY <1>0, <1>7 DEF DispatchRecord, Finish, Move, At, TypeOK
    <2>2. job'[w].pc \in {"idle", "execute"}
      BY <1>0, <1>i, <2>1, Fields DEF Job
    <2>3. usage' <= Limit
      BY <1>0, <2>1 DEF Room, At
    <2> QED BY <2>2, <2>3 DEF Within, Room, At
  <1>8. ASSUME DoneLoad(w) PROVE Within' /\ Room(w)'
    <2>1. job'[w] = [job[w] EXCEPT !.pc = "recordDown", !.count = usage] /\ usage' = usage
      BY <1>0, <1>8 DEF DoneLoad, Load, Move, TypeOK, stored
    <2>2. job'[w].pc = "recordDown" /\ job'[w].count = usage
      BY <1>0, <2>1, Fields DEF Job
    <2> QED BY <1>0, <2>1, <2>2 DEF Within, Room, At
  <1>9. ASSUME DoneRecord(w) PROVE Within' /\ Room(w)'
    <2>1. usage' = job[w].count - 1 /\ job[w].pc = "recordDown" /\ job'[w] = Idle
      BY <1>0, <1>9 DEF DoneRecord, Finish, Move, At, TypeOK
    <2>2. job[w].count <= Limit
      BY <1>0, <2>1 DEF Room, At
    <2>3. usage' <= Limit
      BY <1>n, <2>1, <2>2
    <2> QED BY <1>i, <2>1, <2>3 DEF Within, Room, At
  <1>10. ASSUME \/ NoNode(w) \/ ExecuteOk(w) \/ ExecuteFail(w) \/ ReleaseRead(w)
                \/ ReleaseDelete(w) \/ HeartbeatSave(w) \/ SweepNext(w) \/ SweepDone(w)
                \/ DropRead(w) \/ DropDelete(w)
         PROVE  Within' /\ Room(w)'
    <2>1. usage' = usage
      BY <1>10 DEF NoNode, ExecuteOk, ExecuteFail, ReleaseRead, ReleaseDelete, HeartbeatSave,
                   SweepNext, SweepDone, DropRead, DropDelete, stored
    <2>2. CASE NoNode(w) \/ ExecuteFail(w) \/ HeartbeatSave(w) \/ SweepDone(w)
      <3>1. job'[w] = Idle
        BY <1>0, <2>2 DEF NoNode, ExecuteFail, HeartbeatSave, SweepDone, Finish, Move, TypeOK
      <3> QED BY <1>a, <1>i, <2>1, <3>1
    <2>3. CASE ExecuteOk(w) \/ ReleaseRead(w) \/ ReleaseDelete(w)
      <3>1. PICK pc \in {"release", "delete", "loadDown"} : job'[w] = [job[w] EXCEPT !.pc = pc]
        BY <1>0, <2>3 DEF ExecuteOk, ReleaseRead, ReleaseDelete, GoTo, Move, TypeOK
      <3>2. job'[w].pc = pc
        BY <1>0, <3>1, Fields DEF Job
      <3> QED BY <1>a, <2>1, <3>2
    <2>4. CASE SweepNext(w)
      <3>1. job[w].pc = "sweep"
        BY <2>4 DEF SweepNext, At
      <3>2. PICK d \in job[w].due :
              \/ job'[w] = [job[w] EXCEPT !.pc = "drop", !.task = d[1], !.node = d[2],
                                          !.due = job[w].due \ {d}]
              \/ job'[w] = [job[w] EXCEPT !.due = job[w].due \ {d}]
        BY <1>0, <2>4 DEF SweepNext, Move, TypeOK
      <3>3. job'[w].pc \in {"sweep", "drop"}
        BY <1>0, <3>1, <3>2, Fields DEF Job
      <3> QED BY <1>a, <2>1, <3>3
    <2>5. CASE DropRead(w) \/ DropDelete(w)
      <3>1. \/ job'[w] = [job[w] EXCEPT !.pc = "dropDelete"]
            \/ job'[w] = [Idle EXCEPT !.pc = "sweep", !.due = job[w].due]
        BY <1>0, <2>5 DEF DropRead, DropDelete, GoTo, BackToSweep, Move, TypeOK
      <3>2. job'[w].pc \in {"dropDelete", "sweep"}
        BY <1>0, <3>1, Fields DEF Job, Idle
      <3> QED BY <1>a, <2>1, <3>2
    <2> QED BY <1>10, <2>2, <2>3, <2>4, <2>5
  <1>11. ASSUME Tick \/ UNCHANGED vars
         PROVE  Within' /\ Room(w)'
    <2>1. UNCHANGED <<usage, job>>
      BY <1>11 DEF Tick, vars, stored
    <2> QED BY <1>0, <2>1 DEF Within, Room, At
  <1>12. ASSUME Midnight PROVE Within' /\ Room(w)'
    <2>1. usage' = 0 /\ job' = job
      BY <1>12 DEF Midnight
    <2> QED BY <1>0, <1>n, <2>1 DEF Within, Room, At
  <1>13. ASSUME Crash PROVE Within' /\ Room(w)'
    <2>1. job'[w] = Idle /\ usage' = usage
      BY <1>0, <1>13 DEF Crash, stored
    <2> QED BY <1>a, <1>i, <2>1
  <1>14. ASSUME Step(w) PROVE Within' /\ Room(w)'
    BY <1>14, <1>4, <1>5, <1>6, <1>7, <1>8, <1>9, <1>10 DEF Step
  <1>15. ASSUME Serve(w) PROVE Within' /\ Room(w)'
    BY <1>15, <1>1, <1>2 DEF Serve
  <1> QED BY <1>3, <1>11, <1>12, <1>13, <1>14, <1>15 DEF Sweep

LEMMA StepBudget == ASSUME Limit # 0 PROVE Budget /\ [Next]_vars => Budget'
  <1> SUFFICES ASSUME Budget, [Next]_vars PROVE Budget'
    OBVIOUS
  <1>1. TypeOK /\ TypeOK'
    BY StepTyped DEF Budget
  <1>2. SUFFICES ASSUME ~overlapped' PROVE Apart' /\ Within' /\ \A w \in Workers : Room(w)'
    BY <1>1 DEF Budget
  <1>3. Apart /\ \A w \in Workers : Roomy(w)
    BY <1>1, <1>2, NeverOverlapped DEF Budget, Roomy
  <1>4. Within
    BY <1>1, <1>2, NeverOverlapped DEF Budget
  <1>5. ASSUME NEW w \in Workers, Serve(w) \/ Sweep(w) \/ Step(w)
        PROVE  Apart' /\ Within' /\ \A v \in Workers : Room(v)'
    <2>1. \A v \in Workers \ {w} : job'[v] = job[v] /\ job[v].pc = "idle"
      BY <1>1, <1>2, <1>3, <1>5, OthersStay, OthersRest
    <2>2. Within' /\ Room(w)'
      BY <1>1, <1>3, <1>5, RoomKept
    <2>3. ASSUME NEW v \in Workers \ {w} PROVE Room(v)'
      BY <2>1 DEF Room, At
    <2> QED BY <2>1, <2>2, <2>3, StillApart
  <1>6. ASSUME Tick \/ Midnight \/ Crash \/ UNCHANGED vars
        PROVE  Apart' /\ Within' /\ \A v \in Workers : Room(v)'
    <2>1. \A v \in Workers : Room(v)'
      BY <1>1, <1>3, <1>6, RoomKept
    <2>2. Apart'
      BY <1>3, <1>6 DEF Apart, Tick, Midnight, Crash, vars, Idle
    <2>3. Within'
      <3>1. usage' = usage \/ usage' = 0
        BY <1>6 DEF Tick, Midnight, Crash, vars, stored
      <3> QED BY <1>4, <3>1, LeaseAssumption DEF Within
    <2> QED BY <2>1, <2>2, <2>3
  <1> QED BY <1>5, <1>6 DEF Next

LEMMA InitBudget == Init => Budget
  <1> SUFFICES ASSUME Init PROVE Budget
    OBVIOUS
  <1>1. TypeOK /\ usage = 0
    BY InitTyped DEF Init
  <1>2. \A v \in Workers : job[v].pc = "idle"
    BY DEF Init, Idle
  <1>3. Within
    BY <1>1, LeaseAssumption DEF Within
  <1> QED BY <1>1, <1>2, <1>3 DEF Budget, Apart, Room, At

\* As long as no two operations have overlapped, the recorded count of running tasks never
\* passes a positive limit, midnight and crashes included (budgets.py, task_dispatcher.py).
THEOREM SerialBudget == ASSUME Limit # 0 PROVE Spec => []HardLimit
  <1>1. Budget => HardLimit
    BY DEF Budget, Within, HardLimit
  <1> QED BY <1>1, InitBudget, StepBudget, PTL DEF Spec
=============================================================================
