----------------------------- MODULE TaskLeases -----------------------------
(***************************************************************************)
(* Placing tasks on nodes: leases.py, budgets.py, task_dispatcher.py,      *)
(* task_handoff.py and the expiry sweep of coordinator.py, all under       *)
(* app/distributed.                                                        *)
(*                                                                         *)
(* A worker is a coroutine of the Brain that serves POST /nodes/dispatch,  *)
(* a lease heartbeat or GET /nodes/leases/expired; a supervisor is the     *)
(* loop of reliability/supervisor.py, which only sweeps.  Every await on   *)
(* the store is a place where another worker may run, so a read and the    *)
(* write that follows from it are two steps.  The store itself does not    *)
(* fail.                                                                   *)
(***************************************************************************)
EXTENDS Integers, FiniteSets

CONSTANTS
    Tasks,
    Nodes,
    None,           \* neither a task nor a node
    Workers,        \* coroutines that may be in flight at a time
    Supervisors,    \* those of them that run the supervisor's loop
    Portable,       \* tasks evaluate_portability lets go
    Executor,       \* whether the dispatcher was built with an executor
    Ttl,            \* default_ttl_seconds, in ticks
    Limit,          \* max_concurrent_tasks
    MaxTime,        \* bound: ticks of the clock
    MaxCrashes,     \* bound: how often the Brain goes down
    Floor           \* bound: how far the count of running tasks drifts below 0

ASSUME LeaseAssumption ==
    /\ None \notin Tasks \cup Nodes
    /\ Supervisors \subseteq Workers
    /\ Portable \subseteq Tasks
    /\ Executor \in BOOLEAN
    /\ Ttl \in Nat \ {0}
    /\ Limit \in Nat

ASSUME LeaseBounds == MaxTime \in Nat /\ MaxCrashes \in Nat /\ Floor \in Nat

VARIABLES
    lease,      \* the table task_leases: one row per task
    usage,      \* concurrent_tasks in today's row of budget_usage
    now,        \* the clock
    job,        \* the coroutines
    crashes,
    granted,    \* history: until when a node was told it holds a task
    overlapped, \* history: whether an operation has begun while another was in flight
    since       \* history: the leases granted since a worker that takes rows away last looked

stored == <<lease, usage>>
vars == <<stored, now, job, crashes, granted, overlapped, since>>

Instants == 0 .. MaxTime + Ttl
Lease == [node : Nodes \cup {None}, until : Instants]
Free == [node |-> None, until |-> 0]

Points == {"idle", "select", "acquire", "load", "record", "execute", "release",
           "delete", "loadDown", "recordDown", "extend", "sweep", "drop", "dropDelete"}

\* `due` is the list the sweep fetched, as pairs of a task and the node that held it.
Job == [pc : Points, task : Tasks \cup {None}, node : Nodes \cup {None},
        until : Instants, count : Int, due : SUBSET (Tasks \X Nodes)]
Idle == [pc |-> "idle", task |-> None, node |-> None, until |-> 0, count |-> 0, due |-> {}]

TypeOK ==
    /\ lease \in [Tasks -> Lease]
    /\ \A t \in Tasks : lease[t].node = None <=> lease[t] = Free
    /\ usage \in Int
    /\ now \in 0 .. MaxTime
    /\ job \in [Workers -> Job]
    /\ \A w \in Workers : job[w].pc \notin {"idle", "sweep"} => job[w].task \in Tasks
    /\ \A w \in Workers : job[w].pc \notin {"idle", "sweep", "select"} => job[w].node \in Nodes
    /\ crashes \in 0 .. MaxCrashes
    /\ granted \in [Tasks -> [Nodes -> Instants]]
    /\ overlapped \in BOOLEAN
    /\ since \in [Workers -> SUBSET (Tasks \X Nodes)]

Init ==
    /\ lease = [t \in Tasks |-> Free]
    /\ usage = 0
    /\ now = 0
    /\ job = [w \in Workers |-> Idle]
    /\ crashes = 0
    /\ granted = [t \in Tasks |-> [n \in Nodes |-> 0]]
    /\ overlapped = FALSE
    /\ since = [w \in Workers |-> {}]

Held(t) == lease[t].node # None
Expired(t) == Held(t) /\ lease[t].until <= now
Forget(t) == lease' = [lease EXCEPT ![t] = Free]
Grant(t, n, until) ==
    /\ lease' = [lease EXCEPT ![t] = [node |-> n, until |-> until]]
    /\ granted' = [granted EXCEPT ![t][n] = until]

At(w, pc) == job[w].pc = pc
Move(w, next) == job' = [job EXCEPT ![w] = next]
GoTo(w, pc) == Move(w, [job[w] EXCEPT !.pc = pc])
Finish(w) == Move(w, Idle)

-----------------------------------------------------------------------------
(* TaskDispatcher.dispatch.                                                *)

\* Mutant: the comparison lets one task too many through.
AllowedOneMore == usage <= Limit
Allowed == usage + 1 <= Limit

\* budgets.check_allowed: one more task must fit.
DispatchCheck(w, t) ==
    /\ At(w, "idle")
    /\ Allowed
    /\ Move(w, [Idle EXCEPT !.pc = "select", !.task = t])
    /\ UNCHANGED <<stored, now, crashes, granted>>

\* Mutant: any lease of another node counts as over.
BlocksNever(row, n) == row.node \notin {None, n} /\ row.until > MaxTime + Ttl

\* Another node's lease stands in the way while it lasts; the node's own never does.
Blocks(row, n) == row.node \notin {None, n} /\ row.until > now

\* The router picks a node that is capable, online and trusted at this moment, which
\* may be any node.  LeaseManager.acquire then reads the lease and decides.
DispatchSelect(w) ==
    /\ At(w, "select")
    /\ \E n \in Nodes :
         IF Blocks(lease[job[w].task], n)
           THEN Finish(w)
           ELSE Move(w, [job[w] EXCEPT !.pc = "acquire", !.node = n, !.until = now + Ttl])
    /\ UNCHANGED <<stored, now, crashes, granted>>

NoNode(w) ==
    /\ At(w, "select")
    /\ Finish(w)
    /\ UNCHANGED <<stored, now, crashes, granted>>

\* LeaseManager._save.
DispatchSave(w) ==
    /\ At(w, "acquire")
    /\ Grant(job[w].task, job[w].node, job[w].until)
    /\ GoTo(w, "load")
    /\ UNCHANGED <<usage, now, crashes>>

\* GlobalBudgetManager.record: load, then save the sum.
Load(w, from, to) ==
    /\ At(w, from)
    /\ Move(w, [job[w] EXCEPT !.pc = to, !.count = usage])
    /\ UNCHANGED <<stored, now, crashes, granted>>

DispatchLoad(w) == Load(w, "load", "record")
DispatchRecord(w) ==
    /\ At(w, "record")
    /\ usage' = job[w].count + 1
    /\ IF Executor THEN Move(w, [job[w] EXCEPT !.pc = "execute", !.count = 0])
                   ELSE Finish(w)
    /\ UNCHANGED <<lease, now, crashes, granted>>

\* The executor reports success: the node is done with the task.
ExecuteOk(w) ==
    /\ At(w, "execute")
    /\ granted' = [granted EXCEPT ![job[w].task][job[w].node] = 0]
    /\ GoTo(w, "release")
    /\ UNCHANGED <<stored, now, crashes>>

\* The executor raises or reports failure: lease and count are left as they are.
ExecuteFail(w) ==
    /\ At(w, "execute")
    /\ Finish(w)
    /\ UNCHANGED <<stored, now, crashes, granted>>

\* LeaseManager.release reads the lease and compares the node ...
Owns(w) == lease[job[w].task].node = job[w].node

ReleaseRead(w) ==
    /\ At(w, "release")
    /\ GoTo(w, IF Owns(w) THEN "delete" ELSE "loadDown")
    /\ UNCHANGED <<stored, now, crashes, granted>>

\* ... and deletes the row of the task, whatever it holds by then.
ReleaseDelete(w) ==
    /\ At(w, "delete")
    /\ Forget(job[w].task)
    /\ GoTo(w, "loadDown")
    /\ UNCHANGED <<usage, now, crashes, granted>>

DoneLoad(w) == Load(w, "loadDown", "recordDown")
DoneRecord(w) ==
    /\ At(w, "recordDown")
    /\ job[w].count - 1 >= -Floor
    /\ usage' = job[w].count - 1
    /\ Finish(w)
    /\ UNCHANGED <<lease, now, crashes, granted>>

-----------------------------------------------------------------------------
(* LeaseManager.heartbeat: whether the lease has expired is not asked.     *)

HeartbeatRead(w, t, n) ==
    /\ At(w, "idle")
    /\ lease[t].node = n
    /\ Move(w, [Idle EXCEPT !.pc = "extend", !.task = t, !.node = n, !.until = now + Ttl])
    /\ UNCHANGED <<stored, now, crashes, granted>>

HeartbeatSave(w) ==
    /\ At(w, "extend")
    /\ Grant(job[w].task, job[w].node, job[w].until)
    /\ Finish(w)
    /\ UNCHANGED <<usage, now, crashes>>

-----------------------------------------------------------------------------
(* DistributedCoordinator.handle_expired_leases.                           *)

Overdue == {<<t, lease[t].node>> : t \in {u \in Tasks : Expired(u)}}

SweepList(w) ==
    /\ At(w, "idle")
    /\ Overdue # {}
    /\ Move(w, [Idle EXCEPT !.pc = "sweep", !.due = Overdue])
    /\ UNCHANGED <<stored, now, crashes, granted>>

\* A portable task is handed off, another one waits for its owner.
SweepNext(w) ==
    /\ At(w, "sweep")
    /\ \E d \in job[w].due :
         LET left == job[w].due \ {d} IN
         IF d[1] \in Portable
           THEN Move(w, [job[w] EXCEPT !.pc = "drop", !.task = d[1], !.node = d[2], !.due = left])
           ELSE Move(w, [job[w] EXCEPT !.due = left])
    /\ UNCHANGED <<stored, now, crashes, granted>>

SweepDone(w) ==
    /\ At(w, "sweep")
    /\ job[w].due = {}
    /\ Finish(w)
    /\ UNCHANGED <<stored, now, crashes, granted>>

\* Mutant: the node is not compared.
DropBlind(w) ==
    /\ At(w, "drop")
    /\ GoTo(w, "dropDelete")
    /\ UNCHANGED <<stored, now, crashes, granted>>

\* TaskHandoffService.handoff: release the lease of the node that lost the task, and
\* announce the node the router would choose next; that one gets no lease.
BackToSweep(w) == Move(w, [Idle EXCEPT !.pc = "sweep", !.due = job[w].due])

DropRead(w) ==
    /\ At(w, "drop")
    /\ IF Owns(w) THEN GoTo(w, "dropDelete") ELSE BackToSweep(w)
    /\ UNCHANGED <<stored, now, crashes, granted>>

\* Mutant: the lease is looked at and left in place.
DropKeeps(w) ==
    /\ At(w, "dropDelete")
    /\ BackToSweep(w)
    /\ UNCHANGED <<stored, now, crashes, granted>>
DropDelete(w) ==
    /\ At(w, "dropDelete")
    /\ Forget(job[w].task)
    /\ BackToSweep(w)
    /\ UNCHANGED <<usage, now, crashes, granted>>

-----------------------------------------------------------------------------
(* The clock and the Brain itself.                                         *)

Tick ==
    /\ now < MaxTime
    /\ now' = now + 1
    /\ UNCHANGED <<stored, job, crashes, granted, overlapped, since>>

\* budget_usage is keyed by the day: at midnight the count starts again, while a
\* record in flight still writes the sum it loaded the day before.
Midnight ==
    /\ usage' = 0
    /\ UNCHANGED <<lease, now, job, crashes, granted, overlapped, since>>

\* The rows stay, the coroutines are gone.
Crash ==
    /\ crashes < MaxCrashes
    /\ crashes' = crashes + 1
    /\ job' = [w \in Workers |-> Idle]
    /\ since' = [w \in Workers |-> {}]
    /\ UNCHANGED <<stored, now, granted, overlapped>>

Begins(w) ==
    overlapped' = (overlapped \/ \E v \in Workers \ {w} : job[v].pc # "idle")

\* What a worker on its way to take rows away has not seen: of the rows it is concerned with,
\* the leases granted since the sweep made its list and, once the node was compared, those
\* granted to another node since.
Concern(j) == IF j.pc \in {"sweep", "drop", "dropDelete", "delete"}
                THEN {j.task} \cup {d[1] : d \in j.due} ELSE {}
Unseen(w) ==
    IF At(w, "drop") /\ job'[w].pc = "dropDelete"
      THEN {g \in since[w] : g[1] = job[w].task => g[2] = job[w].node}
      ELSE since[w]
Watch ==
    since' = [w \in Workers |->
                {g \in Tasks \X Nodes :
                    /\ g[1] \in Concern(job'[w]) /\ lease'[g[1]].node = g[2]
                    /\ g \in Unseen(w) \/ lease'[g[1]] # lease[g[1]]}]

Serve(w) ==
    /\ \/ \E t \in Tasks : DispatchCheck(w, t)
       \/ \E t \in Tasks, n \in Nodes : HeartbeatRead(w, t, n)
    /\ Begins(w)
    /\ Watch

Sweep(w) == SweepList(w) /\ Begins(w) /\ Watch

Step(w) ==
    /\ \/ DispatchSelect(w) \/ NoNode(w) \/ DispatchSave(w)
       \/ DispatchLoad(w) \/ DispatchRecord(w)
       \/ ExecuteOk(w) \/ ExecuteFail(w)
       \/ ReleaseRead(w) \/ ReleaseDelete(w) \/ DoneLoad(w) \/ DoneRecord(w)
       \/ HeartbeatSave(w)
       \/ SweepNext(w) \/ SweepDone(w) \/ DropRead(w) \/ DropDelete(w)
    /\ Watch
    /\ UNCHANGED overlapped

Next ==
    \/ \E w \in Workers \ Supervisors : Serve(w)
    \/ \E w \in Workers : Sweep(w) \/ Step(w)
    \/ Tick \/ Midnight \/ Crash

\* A coroutine on the loop gets its turn, and the supervisor polls for ever.
Fairness ==
    /\ \A w \in Workers : WF_vars(Step(w))
    /\ \A s \in Supervisors : WF_vars(Sweep(s))

Spec == Init /\ [][Next]_vars
FairSpec == Spec /\ Fairness

-----------------------------------------------------------------------------
(* What a single-owner lease promises.                                     *)

\* As long as no two operations have overlapped, at most one node at a time believes, with
\* a lease that still runs, that a task is its own (LeaseManager: "Exactly one node may hold
\* a lease on a task at a time"); a dispatch, a heartbeat and a sweep may follow each other
\* in any order, with the clock and crashes between their steps.
Exclusive ==
    ~overlapped =>
        \A t \in Tasks, n, m \in Nodes :
            granted[t][n] > now /\ granted[t][m] > now => n = m

\* As long as no two operations have overlapped, the count of running tasks stays within
\* the budget, midnight included (GlobalBudgetManager: "a hard limit is never silently
\* exceeded").
HardLimit == ~overlapped => usage <= Limit

\* Whatever overlaps, no lease is lost that was there to be seen.  A release that is about to
\* delete a row finds its own node's lease or one granted after it compared the node.  A sweep
\* finds one that has run out, one its node renewed after the sweep made its list, or another
\* node's granted after the sweep compared the node (release and expired of LeaseManager,
\* handle_expired_leases).
LosesOnlyUnseen ==
    \A w \in Workers :
        LET t == job[w].task IN
        At(w, "delete") \/ At(w, "dropDelete") =>
            \/ ~Held(t)
            \/ IF At(w, "delete") THEN Owns(w) ELSE Expired(t)
            \/ <<t, lease[t].node>> \in since[w]

\* A portable task's expired lease does not stay for ever: the supervisor removes it, or
\* a dispatch or a heartbeat renews it, whatever else runs beside the sweep.
ExpiredIsReclaimed == \A t \in Portable : Expired(t) ~> ~Expired(t)
=============================================================================
