------------------------------- MODULE Kanban -------------------------------
(***************************************************************************)
(* The board of parallel workers: kanban/store.py (the table kanban_cards  *)
(* and its statements), kanban/dispatcher.py (one loop in the Brain that   *)
(* reaps, reclaims and dispatches) and kanban/worker.py (one operating-    *)
(* system process per card, which submits the card's goal as a task over   *)
(* HTTP, polls it and reports to the card).                                *)
(*                                                                         *)
(* The loop, the HTTP handlers and the workers interleave at every         *)
(* statement; a statement and its commit are one step.  The Brain may go   *)
(* down at any point and come back; its workers outlive it.                *)
(***************************************************************************)
EXTENDS Integers, FiniteSets

CONSTANTS
    Cards,          \* numbered in the order of their created_at
    Pids,           \* bound: worker processes that can exist at a time
    NoPid,          \* worker_pid NULL or 0, both false in `if pid`
    MaxWorkers      \* max_concurrent_workers

ASSUME KanbanAssumption ==
    /\ Cards \subseteq Nat \ {0}
    /\ IsFiniteSet(Pids)
    /\ NoPid \notin Pids
    /\ MaxWorkers \in Nat \ {0}

VARIABLES
    card,       \* the table kanban_cards
    processes,  \* KanbanDispatcher._processes: the Popen kept for a card, or NoPid
    tick,       \* where the dispatcher's loop is and what it has read
    worker,     \* the worker processes
    earned      \* history: cards a task was completed for

vars == <<card, processes, tick, worker, earned>>

NoCard == 0
Statuses == {"none", "pending", "claimed", "in_progress", "completed", "failed"}
Active == {"claimed", "in_progress"}
Settled == {"completed", "failed"}
Points == {"down", "reap", "list", "judge", "select", "claim", "spawn", "refuse", "record", "mark"}

\* Where run_worker is: before its task is submitted, polling a task that runs ("poll") or
\* that has completed ("ran"), about to report, and after it.
Stages == {"gone", "submit", "poll", "ran", "complete", "fail", "exit"}

Row == [status : Statuses, pid : Pids \cup {NoPid}]

\* `rows` is what reclaim_stale's SELECT returned and its loop has not judged yet.
Tick == [at : Points, rows : SUBSET (Cards \X (Pids \cup {NoPid})),
         card : Cards \cup {NoCard}, pid : Pids \cup {NoPid}]

\* A worker is an orphan once the Brain that spawned it is down; it is known once its pid
\* has been written to its card.
Worker == [stage : Stages, card : Cards \cup {NoCard}, orphan : BOOLEAN, known : BOOLEAN]
Gone == [stage |-> "gone", card |-> NoCard, orphan |-> FALSE, known |-> FALSE]

TypeOK ==
    /\ card \in [Cards -> Row]
    /\ processes \in [Cards -> Pids \cup {NoPid}]
    /\ tick \in Tick
    /\ worker \in [Pids -> Worker]
    /\ \A p \in Pids : worker[p].stage # "gone" => worker[p].card \in Cards
    /\ tick.at \in {"claim", "spawn", "refuse", "record", "mark"} => tick.card \in Cards
    /\ tick.at \in {"record", "mark"} => tick.pid \in Pids
    /\ earned \subseteq Cards

Loop(at) == [at |-> at, rows |-> {}, card |-> NoCard, pid |-> NoPid]
Up == tick.at # "down"
Live(p) == worker[p].stage # "gone"

Init ==
    /\ card = [c \in Cards |-> [status |-> "none", pid |-> NoPid]]
    /\ processes = [c \in Cards |-> NoPid]
    /\ tick = Loop("reap")
    /\ worker = [p \in Pids |-> Gone]
    /\ earned = {}

------------------------------------------------------------------------------
(* The HTTP API's POST /cards and /cards/batch.                             *)

\* create, and each turn of create_batch: an INSERT of a pending card.
Create(c) ==
    /\ Up
    /\ card[c].status = "none"
    /\ \A b \in Cards : b < c => card[b].status # "none"
    /\ card' = [card EXCEPT ![c].status = "pending"]
    /\ UNCHANGED <<processes, tick, worker, earned>>

------------------------------------------------------------------------------
(* One turn of KanbanDispatcher._loop.                                      *)

\* The Popen kept for a card has not been polled since its process ended: its zombie, or
\* its handle, still answers for the pid.
Unreaped(p) == \E c \in Cards : processes[c] = p

\* Mutant: it asks only the processes this Brain keeps.
AliveIfKept(p) == p # NoPid /\ Unreaped(p)

\* os.kill(pid, 0), or OpenProcess where that fails.
Alive(p) == p # NoPid /\ (Live(p) \/ Unreaped(p))

\* _reap_finished: forget the processes that poll() says have ended.
Reap ==
    /\ tick.at = "reap"
    /\ processes' = [c \in Cards |->
                        IF processes[c] # NoPid /\ ~Live(processes[c]) THEN NoPid ELSE processes[c]]
    /\ tick' = [tick EXCEPT !.at = "list"]
    /\ UNCHANGED <<card, worker, earned>>

\* Mutants: without the cards in progress, and with the failed ones.
ReclaimClaimed == {c \in Cards : card[c].status = "claimed"}
ReclaimFailed == {c \in Cards : card[c].status \in Active \cup {"failed"}}

\* reclaim_stale's SELECT: the cards that are claimed or in progress.
Reclaimable == {c \in Cards : card[c].status \in Active}

List ==
    /\ tick.at = "list"
    /\ tick' = [tick EXCEPT !.at = "judge",
                            !.rows = {<<c, card[c].pid>> : c \in Reclaimable}]
    /\ UNCHANGED <<card, processes, worker, earned>>

\* A row of that list whose pid no process answers for: the card goes back to pending,
\* whatever the row says by now.
Release(row) == card' = [card EXCEPT ![row[1]] = [status |-> "pending", pid |-> NoPid]]

Judge ==
    /\ tick.at = "judge"
    /\ \E row \in tick.rows :
        /\ IF Alive(row[2]) THEN UNCHANGED card ELSE Release(row)
        /\ tick' = [tick EXCEPT !.rows = @ \ {row}]
    /\ UNCHANGED <<processes, worker, earned>>

JudgeDone ==
    /\ tick.at = "judge"
    /\ tick.rows = {}
    /\ tick' = [tick EXCEPT !.at = "select"]
    /\ UNCHANGED <<card, processes, worker, earned>>

\* The capacity test of _dispatch_one_if_capacity and claim_next's SELECT: the oldest
\* pending card.
Kept == Cardinality({c \in Cards : processes[c] # NoPid})
Pending == {c \in Cards : card[c].status = "pending"}
Oldest(c) == c \in Pending /\ \A b \in Pending : c <= b

Select ==
    /\ tick.at = "select"
    /\ Kept < MaxWorkers
    /\ \E c \in Cards :
        /\ Oldest(c)
        /\ tick' = [tick EXCEPT !.at = "claim", !.card = c]
    /\ UNCHANGED <<card, processes, worker, earned>>

\* At capacity, or nothing pending: the turn ends and the loop sleeps.
Rest ==
    /\ tick.at = "select"
    /\ Kept >= MaxWorkers \/ Pending = {}
    /\ tick' = Loop("reap")
    /\ UNCHANGED <<card, processes, worker, earned>>

\* claim_next's UPDATE, which takes the card only if it is still pending.
Claimable(c) == card[c].status = "pending"

Claim ==
    /\ tick.at = "claim"
    /\ IF Claimable(tick.card)
       THEN /\ card' = [card EXCEPT ![tick.card] = [status |-> "claimed", pid |-> NoPid]]
            /\ tick' = [tick EXCEPT !.at = "spawn"]
       ELSE /\ tick' = Loop("reap")
            /\ UNCHANGED card
    /\ UNCHANGED <<processes, worker, earned>>

\* A pid the system may give: no process has it, no kept Popen answers for it and no
\* active card still names it.
Unused(p) ==
    /\ ~Live(p)
    /\ ~Unreaped(p)
    /\ \A c \in Cards : card[c].status \in Active => card[c].pid # p

\* Popen, and the entry of _processes that follows it without an await.
Spawn ==
    /\ tick.at = "spawn"
    /\ \E p \in Pids :
        /\ Unused(p)
        /\ worker' = [worker EXCEPT ![p] = [Gone EXCEPT !.stage = "submit", !.card = tick.card]]
        /\ processes' = [processes EXCEPT ![tick.card] = p]
        /\ tick' = [tick EXCEPT !.at = "record", !.pid = p]
    /\ UNCHANGED <<card, earned>>

\* Popen raises: the card is failed.
SpawnRaises ==
    /\ tick.at = "spawn"
    /\ tick' = [tick EXCEPT !.at = "refuse"]
    /\ UNCHANGED <<card, processes, worker, earned>>

Refuse ==
    /\ tick.at = "refuse"
    /\ card' = [card EXCEPT ![tick.card].status = "failed"]
    /\ tick' = Loop("reap")
    /\ UNCHANGED <<processes, worker, earned>>

\* _record_worker_pid.
Record ==
    /\ tick.at = "record"
    /\ card' = [card EXCEPT ![tick.card].pid = tick.pid]
    /\ worker' = [worker EXCEPT ![tick.pid].known = Live(tick.pid)]
    /\ tick' = [tick EXCEPT !.at = "mark"]
    /\ UNCHANGED <<processes, earned>>

\* mark_in_progress writes the status whatever it is by now.
Mark ==
    /\ tick.at = "mark"
    /\ card' = [card EXCEPT ![tick.card].status = "in_progress"]
    /\ tick' = Loop("reap")
    /\ UNCHANGED <<processes, worker, earned>>

Turn ==
    \/ Reap \/ List \/ Judge \/ JudgeDone \/ Select \/ Rest \/ Claim
    \/ Spawn \/ SpawnRaises \/ Refuse \/ Record \/ Mark

------------------------------------------------------------------------------
(* run_worker, in a process of its own.  Its requests need a Brain that is  *)
(* up, whichever Brain that is.                                             *)

Moves(p, from, to) ==
    /\ worker[p].stage = from
    /\ worker' = [worker EXCEPT ![p].stage = to]

\* POST /api/tasks; a URLError makes the worker report a failure.
Submit(p) ==
    /\ Up
    /\ Moves(p, "submit", "poll")
    /\ UNCHANGED <<card, processes, tick, earned>>

SubmitFails(p) ==
    /\ Moves(p, "submit", "fail")
    /\ UNCHANGED <<card, processes, tick, earned>>

\* The task runtime completes the task.  What becomes of it once the worker polls no
\* longer does not reach the card.
TaskCompletes(p) ==
    /\ Up
    /\ Moves(p, "poll", "ran")
    /\ earned' = earned \cup {worker[p].card}
    /\ UNCHANGED <<card, processes, tick>>

\* Mutant: any answer is taken for a completion.
PollAny(p) ==
    /\ Up
    /\ Moves(p, "ran", "complete") \/ Moves(p, "poll", "complete")
    /\ UNCHANGED <<card, processes, tick, earned>>

\* A poll that finds the task completed.
PollCompleted(p) ==
    /\ Up
    /\ Moves(p, "ran", "complete")
    /\ UNCHANGED <<card, processes, tick, earned>>

\* A poll that finds the task failed or cancelled, or the deadline, which passes whatever
\* has become of the task.
GiveUp(p) ==
    /\ Moves(p, "poll", "fail") \/ Moves(p, "ran", "fail")
    /\ UNCHANGED <<card, processes, tick, earned>>

\* POST /cards/{id}/complete and /fail: store.complete and store.fail write the status
\* whatever it is by now.
Report(p, stage, status) ==
    /\ Up
    /\ Moves(p, stage, "exit")
    /\ card' = [card EXCEPT ![worker[p].card].status = status]
    /\ UNCHANGED <<processes, tick, earned>>

ReportCompleted(p) == Report(p, "complete", "completed")
ReportFailed(p) == Report(p, "fail", "failed")

\* The process ends: it has reported, a report found no Brain (nothing catches that
\* URLError), or it is killed on the way.
Exit(p) ==
    /\ Live(p)
    /\ worker' = [worker EXCEPT ![p] = Gone]
    /\ UNCHANGED <<card, processes, tick, earned>>

WorkerStep(p) ==
    \/ Submit(p) \/ SubmitFails(p)
    \/ TaskCompletes(p) \/ PollCompleted(p) \/ GiveUp(p)
    \/ ReportCompleted(p) \/ ReportFailed(p) \/ Exit(p)

------------------------------------------------------------------------------
(* The Brain goes down, at any step of the loop, and comes back.  stop(),   *)
(* which cancels the loop and leaves the workers running, has the same      *)
(* effect.                                                                  *)

Crash ==
    /\ Up
    /\ tick' = Loop("down")
    /\ processes' = [c \in Cards |-> NoPid]
    /\ worker' = [p \in Pids |-> IF Live(p) THEN [worker[p] EXCEPT !.orphan = TRUE] ELSE worker[p]]
    /\ UNCHANGED <<card, earned>>

Boot ==
    /\ ~Up
    /\ tick' = Loop("reap")
    /\ UNCHANGED <<card, processes, worker, earned>>

Next ==
    \/ \E c \in Cards : Create(c)
    \/ Turn
    \/ \E p \in Pids : WorkerStep(p)
    \/ Crash
    \/ Boot

Spec == Init /\ [][Next]_vars

\* The loop runs as long as the Brain is up: its tick catches what is raised and sleeps
\* at most poll_seconds.
Fairness == WF_vars(Turn)
FairSpec == Spec /\ Fairness

------------------------------------------------------------------------------
(* What the board promises.                                                 *)

\* Two processes work on one card only if a Brain went down between spawning one of them
\* and writing its pid: the claim and the liveness test keep every other pair apart
\* (store.claim_next: "can never claim the same card twice"; _pid_alive_windows: a live
\* worker "is never wrongly reclaimed").
OneWorker ==
    \A p, q \in Pids :
        /\ Live(p) /\ Live(q) /\ p # q
        /\ worker[p].card = worker[q].card
        => \E r \in {p, q} : worker[r].orphan /\ ~worker[r].known

\* A card is completed only if a task for it was (complete_card: "a worker is the one
\* authority that knows its task's real outcome").
CompletionIsEarned ==
    \A c \in Cards : card[c].status = "completed" => c \in earned

\* Once a card is settled, its processes are gone and the dispatcher holds nothing it read
\* of it, the card is at rest and stays there as it is: nothing runs it again, in this
\* Brain or after a restart (reclaim_stale takes only cards "stuck in
\* CLAIMED/IN_PROGRESS").
AtRest(c) ==
    /\ card[c].status \in Settled
    /\ tick.card # c
    /\ \A row \in tick.rows : row[1] # c
    /\ \A p \in Pids : Live(p) => worker[p].card # c

SettledRests == [][\A c \in Cards : AtRest(c) => AtRest(c)' /\ UNCHANGED card[c]]_vars

\* An active card no process answers for does not stay so while the Brain is up
\* (reclaim_stale: "go back to PENDING so a later dispatcher tick can retry them").
Stale(c) == card[c].status \in Active /\ ~Alive(card[c].pid)
StaleIsReclaimed == \A c \in Cards : Stale(c) /\ Up ~> ~Stale(c) \/ ~Up
==============================================================================
