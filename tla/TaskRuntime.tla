---------------------------- MODULE TaskRuntime ----------------------------
(***************************************************************************)
(* The life of a task in the VYOM Brain (app/runtime/task_runtime.py), the *)
(* requests that act on it, and what a restart of the Brain does with it.  *)
(*                                                                         *)
(* The Brain is one asyncio loop over one SQLite connection: code between  *)
(* two awaits is atomic, and every await on the store is a place where     *)
(* another coroutine may run.  A handler that reads a row, decides and     *)
(* writes it back therefore takes two steps here, and the write uses the   *)
(* copy it read, whatever has been stored since.                           *)
(*                                                                         *)
(* run[t]  is the coroutine of task t (at most one: `active` keeps it so), *)
(* req[r]  a coroutine that serves an API call, a remote command or a tool *)
(*         of the user interface.                                          *)
(* Saves of a row that follow each other with the same status and no read  *)
(* of the control state between them are one step.                         *)
(***************************************************************************)
EXTENDS Naturals, FiniteSets

CONSTANTS
    Tasks,          \* identities of tasks
    Requests,       \* request coroutines that may be in flight at a time
    NoTask,         \* not a task
    Ops,            \* the operations the requests perform
    Consequential,  \* the tasks classified L2 or L3
    Missions,       \* the tasks that the mission loop runs
    Reasoning,      \* the tasks answered by a model, with fallback models
    Leased,         \* the tasks a node holds a lease on
    MaxAttempts,    \* routed models of a reasoning task
    MaxCrashes      \* bound: how often the Brain goes down

AllOps == {"create", "pause", "resume", "cancel", "approve", "reject", "interrupt"}

ASSUME TaskAssumption ==
    /\ NoTask \notin Tasks
    /\ Consequential \subseteq Tasks
    /\ Missions \subseteq Tasks
    /\ Reasoning \subseteq Tasks
    /\ Reasoning \cap (Missions \cup Consequential) = {}
    /\ Leased \subseteq Tasks
    /\ Ops \subseteq AllOps

ASSUME BoundAssumption ==
    /\ MaxAttempts \in Nat \ {0}
    /\ MaxCrashes \in Nat

VARIABLES
    store,        \* the task rows; status "none": the task does not exist
    reserved,     \* the idempotency records task_exec:<task>, durable
    checkpoint,   \* what the mission loop's checkpoint of a task holds, durable
    run,          \* the coroutine of each task
    req,          \* the request coroutines
    announced,    \* the terminal event of each task in this life of the Brain
    phase,        \* "up", "down" or "booting"
    toRecover,    \* tasks the restart has yet to deal with
    crashes,
    effects,      \* history: how often the work of a task was started
    approved,     \* history: tasks an approval was accepted for
    rejected,     \* history: tasks whose approval was refused or had expired
    parked        \* history: tasks at rest at the last crash, until a request
                  \* of the user moves them

durable == <<store, reserved, checkpoint>>
history == <<effects, approved, rejected, parked>>
service == <<phase, toRecover, crashes>>
vars == <<durable, run, req, announced, service, history>>

-----------------------------------------------------------------------------
(* Data.                                                                   *)

Active   == {"queued", "understanding", "planning", "executing", "verifying"}
Terminal == {"completed", "failed", "cancelled"}
Status   == {"none", "paused", "needs_approval"} \cup Active \cup Terminal

Row == [status : Status, granted : BOOLEAN]

Points == {"idle", "start", "understand", "control", "prepare", "gate", "reserve",
           "duplicate", "plan", "attempt", "attemptControl", "execute",
           "stepControl", "step", "act", "resultControl", "progress", "verify",
           "verified", "complete", "announce", "fail", "announceFail", "abort",
           "abortSave"}

NoRow == [status |-> "none", granted |-> FALSE]

\* The coroutine works on its own copy of the row, the Task object.
Run  == [pc : Points, row : Row, tries : Nat]
Rest == [pc |-> "idle", row |-> NoRow, tries |-> 0]

\* A request that writes or starts has a task.
Request == {q \in [pc : {"idle", "write", "start", "snapshot", "sweep"}, op : AllOps,
                   task : Tasks \cup {NoTask}, row : Row, own : Tasks \cup {NoTask},
                   todo : SUBSET Tasks] : q.pc \in {"write", "start"} => q.task \in Tasks}
NoRequest == [pc |-> "idle", op |-> "create", task |-> NoTask, row |-> NoRow,
              own |-> NoTask, todo |-> {}]

Checkpoints == {"none", "plain", "evidence"}

\* What MissionLoop._checkpoint stores.  It hands its findings over as `evidence`,
\* a field TaskCheckpoint does not have: `evidence_references` and
\* `completed_tool_calls` stay empty.
MissionCheckpoint == "plain"

TypeOK ==
    /\ store \in [Tasks -> Row]
    /\ reserved \in SUBSET Tasks
    /\ checkpoint \in [Tasks -> Checkpoints]
    /\ run \in [Tasks -> Run]
    /\ req \in [Requests -> Request]
    /\ announced \in [Tasks -> Terminal \cup {"none"}]
    /\ phase \in {"up", "down", "booting"}
    /\ toRecover \in SUBSET Tasks
    /\ crashes \in 0 .. MaxCrashes
    /\ effects \in [Tasks -> Nat]
    /\ approved \in SUBSET Tasks
    /\ rejected \in SUBSET Tasks
    /\ parked \in SUBSET Tasks

Init ==
    /\ store = [t \in Tasks |-> NoRow]
    /\ reserved = {}
    /\ checkpoint = [t \in Tasks |-> "none"]
    /\ run = [t \in Tasks |-> Rest]
    /\ req = [r \in Requests |-> NoRequest]
    /\ announced = [t \in Tasks |-> "none"]
    /\ phase = "up"
    /\ toRecover = {}
    /\ crashes = 0
    /\ effects = [t \in Tasks |-> 0]
    /\ approved = {}
    /\ rejected = {}
    /\ parked = {}

\* task_store.save: the whole row is replaced by the caller's copy.
Save(t, row) == store' = [store EXCEPT ![t] = row]

With(row, s) == [row EXCEPT !.status = s]

Queued == With(NoRow, "queued")

\* TaskRuntime._emit for a terminal event: the first one of a task is published,
\* a later one is dropped.
Announced(t, kind) ==
    IF announced[t] = "none" THEN [announced EXCEPT ![t] = kind] ELSE announced

\* TaskRuntime._start: nothing happens while the task has a live coroutine.
Started(t) ==
    IF run[t].pc = "idle" THEN [run EXCEPT ![t] = [Rest EXCEPT !.pc = "start"]] ELSE run

-----------------------------------------------------------------------------
(* The coroutine of a task: TaskRuntime.run.                               *)

At(t, point)  == run[t].pc = point
GoTo(t, point) == run' = [run EXCEPT ![t].pc = point]
Hold(t, point, row) ==
    run' = [run EXCEPT ![t] = [pc |-> point, row |-> row, tries |-> run[t].tries]]
Return(t)     == run' = [run EXCEPT ![t] = Rest]

\* The coroutine sets the status of its copy and saves it.
RunSave(t, from, s, to) ==
    /\ At(t, from)
    /\ Save(t, With(run[t].row, s))
    /\ Hold(t, to, With(run[t].row, s))
    /\ UNCHANGED <<reserved, checkpoint, req, announced, service, history>>

\* ... and returns.
RunSaveReturn(t, from, s) ==
    /\ At(t, from)
    /\ Save(t, With(run[t].row, s))
    /\ Return(t)
    /\ UNCHANGED <<reserved, checkpoint, req, announced, service, history>>

\* run() reads the row; only a cancelled or completed task is left alone.
RunGet(t) ==
    /\ At(t, "start")
    /\ IF store[t].status \in {"cancelled", "completed"}
       THEN Return(t)
       ELSE run' = [run EXCEPT ![t] = [pc |-> "understand", row |-> store[t], tries |-> 0]]
    /\ UNCHANGED <<durable, req, announced, service, history>>

RunUnderstand(t) == RunSave(t, "understand", "understanding", "control")

\* Mutant: a resumed row, which says queued, does not end the polling.
CheckControlWaits(t, from, to) ==
    /\ At(t, from)
    /\ store[t].status \notin {"paused", "queued"}
    /\ GoTo(t, IF store[t].status = "cancelled" THEN "abort" ELSE to)
    /\ UNCHANGED <<durable, req, announced, service, history>>

\* _check_control: poll the stored row while it says paused, raise TaskCancelled
\* when it says cancelled, otherwise go on.
CheckControl(t, from, to) ==
    /\ At(t, from)
    /\ store[t].status # "paused"
    /\ GoTo(t, IF store[t].status = "cancelled" THEN "abort" ELSE to)
    /\ UNCHANGED <<durable, req, announced, service, history>>

RunControl(t) == CheckControl(t, "control", "prepare")

\* Mutant: missions are left to the approvals of their steps.
NeedsGrantUnlessMission(t) == t \in Consequential \ Missions /\ ~run[t].row.granted

NeedsGrant(t) == t \in Consequential /\ ~run[t].row.granted

\* The cognitive runtime's findings are saved; a failure there is logged and passed
\* over.  Then the row either waits for approval, is guarded, or is planned.
RunPrepare(t) ==
    /\ At(t, "prepare")
    /\ Save(t, run[t].row) \/ UNCHANGED store
    /\ GoTo(t, IF NeedsGrant(t) THEN "gate"
               ELSE IF t \in Consequential THEN "reserve" ELSE "plan")
    /\ UNCHANGED <<reserved, checkpoint, req, announced, service, history>>

\* The row asks for approval and the coroutine returns.  The connection serves its
\* callers in order, so nobody can act on the new row before the return.
RunAskApproval(t) == RunSaveReturn(t, "gate", "needs_approval")

\* Mutant: INSERT OR IGNORE, which also succeeds on an existing record.
RunReserveAgain(t) ==
    /\ At(t, "reserve")
    /\ reserved' = reserved \cup {t}
    /\ GoTo(t, "plan")
    /\ UNCHANGED <<store, checkpoint, req, announced, service, history>>

\* begin_consequential: the INSERT succeeds for the first caller only.
RunReserve(t) ==
    /\ At(t, "reserve")
    /\ reserved' = reserved \cup {t}
    /\ GoTo(t, IF t \in reserved THEN "duplicate" ELSE "plan")
    /\ UNCHANGED <<store, checkpoint, req, announced, service, history>>

\* Mutant: what was begun before is taken for done.
RunDuplicateDone(t) == RunSaveReturn(t, "duplicate", "completed")

\* The work was begun before, by another run: the row is paused for review.
RunDuplicate(t) == RunSaveReturn(t, "duplicate", "paused")

\* The request is routed: to a plan, to an answer given on the spot, or to no
\* engine, tool or model at all, which raises.
RunPlan(t) ==
    \/ /\ t \notin Missions
       /\ RunSave(t, "plan", "planning", IF t \in Reasoning THEN "attempt" ELSE "execute")
    \/ /\ t \in Missions
       /\ RunSave(t, "plan", "understanding", "execute")
    \/ /\ t \notin Consequential \cup Missions \cup Reasoning
       /\ RunSave(t, "plan", "understanding", "verify")
    \/ /\ At(t, "plan")
       /\ GoTo(t, "fail")
       /\ UNCHANGED <<durable, req, announced, service, history>>

\* The fallback loop takes the next routed model.
RunAttempt(t) ==
    /\ At(t, "attempt")
    /\ Save(t, run[t].row)
    /\ run' = [run EXCEPT ![t].pc = "attemptControl", ![t].tries = @ + 1]
    /\ UNCHANGED <<reserved, checkpoint, req, announced, service, history>>

RunAttemptControl(t) == CheckControl(t, "attemptControl", "execute")

RunExecute(t) ==
    RunSave(t, "execute", "executing", IF t \in Reasoning THEN "stepControl" ELSE "act")

RunStepControl(t) == CheckControl(t, "stepControl", "step")

RunStepDone(t) == RunSave(t, "step", "executing", "act")

\* Where an error of a model or of the verification leads: to the next routed model
\* of a reasoning task, otherwise out of run().
OnError(t) ==
    IF t \in Reasoning /\ run[t].tries < MaxAttempts THEN "attempt" ELSE "fail"

\* The work itself: an engine, the mission loop or a model.  It may raise at any
\* point of it; a mission leaves its checkpoint behind.
RunAct(t) ==
    /\ At(t, "act")
    /\ \E to \in {"resultControl", OnError(t)} : GoTo(t, to)
    /\ effects' = IF t \in Consequential
                  THEN [effects EXCEPT ![t] = @ + 1] ELSE effects
    /\ checkpoint' = IF t \in Missions
                     THEN [checkpoint EXCEPT ![t] = MissionCheckpoint] ELSE checkpoint
    /\ UNCHANGED <<store, reserved, req, announced, service, approved, rejected, parked>>

RunResultControl(t) ==
    CheckControl(t, "resultControl", IF t \in Reasoning THEN "verify" ELSE "progress")

\* The result is kept.  A mission that did not complete raises after that.
RunProgress(t) ==
    \/ RunSave(t, "progress", "executing", "verify")
    \/ t \in Missions /\ RunSave(t, "progress", "executing", "fail")

\* _finish_result up to the verdict of the two verifications.
RunVerify(t) == RunSave(t, "verify", "verifying", "verified")

RunVerdict(t) ==
    /\ At(t, "verified")
    /\ \E to \in {"complete", OnError(t)} : GoTo(t, to)
    /\ UNCHANGED <<durable, req, announced, service, history>>

RunComplete(t) == RunSave(t, "complete", "completed", "announce")

\* After the transcript, the plugins and the observation: TASK_COMPLETED.
RunAnnounce(t) ==
    /\ At(t, "announce")
    /\ announced' = Announced(t, "completed")
    /\ Return(t)
    /\ UNCHANGED <<durable, req, service, history>>

\* `except Exception`: the row is failed from the coroutine's copy, ...
RunFail(t) == RunSave(t, "fail", "failed", "announceFail")

\* ... and after the learning from it TASK_FAILED goes out.
RunAnnounceFail(t) ==
    /\ At(t, "announceFail")
    /\ announced' = Announced(t, "failed")
    /\ Return(t)
    /\ UNCHANGED <<durable, req, service, history>>

\* `except TaskCancelled`: the row is read again, ...
RunAbort(t) ==
    /\ At(t, "abort")
    /\ Hold(t, "abortSave", store[t])
    /\ UNCHANGED <<durable, req, announced, service, history>>

\* ... saved as cancelled and announced.
RunAbortSave(t) ==
    /\ At(t, "abortSave")
    /\ Save(t, With(run[t].row, "cancelled"))
    /\ announced' = Announced(t, "cancelled")
    /\ Return(t)
    /\ UNCHANGED <<reserved, checkpoint, req, service, history>>

RunStepOf(t) ==
    \/ RunGet(t)     \/ RunUnderstand(t) \/ RunControl(t)  \/ RunPrepare(t)
    \/ RunAskApproval(t) \/ RunReserve(t) \/ RunDuplicate(t) \/ RunPlan(t)
    \/ RunAttempt(t) \/ RunAttemptControl(t) \/ RunExecute(t) \/ RunStepControl(t)
    \/ RunStepDone(t) \/ RunAct(t)  \/ RunResultControl(t)  \/ RunProgress(t)
    \/ RunVerify(t)  \/ RunVerdict(t) \/ RunComplete(t)    \/ RunAnnounce(t)
    \/ RunFail(t)    \/ RunAnnounceFail(t) \/ RunAbort(t)  \/ RunAbortSave(t)

-----------------------------------------------------------------------------
(* Requests.                                                               *)

Free(r, op) == phase = "up" /\ req[r].pc = "idle" /\ op \in Ops

\* create_task: the row is saved; the coroutine is started one step later.
Create(r, t) ==
    /\ Free(r, "create")
    /\ store[t].status = "none"
    /\ Save(t, Queued)
    /\ req' = [req EXCEPT ![r] = [NoRequest EXCEPT !.pc = "start", !.task = t]]
    /\ UNCHANGED <<reserved, checkpoint, run, announced, service, history>>

\* The status a row must have for the handler of an operation to go on after its
\* read; otherwise it returns (or answers with an error) and changes nothing.
Admits(op) ==
    CASE op \in {"pause", "cancel"}   -> Status \ (Terminal \cup {"none"})
      [] op = "resume"                -> {"paused"}
      [] op \in {"approve", "reject"} -> {"needs_approval"}

\* pause, resume, cancel, decide_approval: the read.
Ask(r, op, t) ==
    /\ Free(r, op)
    /\ store[t].status \in Admits(op)
    /\ req' = [req EXCEPT ![r] = [NoRequest EXCEPT !.pc = "write", !.op = op, !.task = t,
                                                   !.row = store[t]]]
    /\ UNCHANGED <<durable, run, announced, service, history>>

\* The write of request r on its task, and where r goes from there.
Write(r, op, s, to) ==
    /\ req[r].pc = "write"
    /\ req[r].op = op
    /\ Save(req[r].task, With(req[r].row, s))
    /\ req' = [req EXCEPT ![r] = to]

Unpark(t) == parked' = parked \ {t}

Pause(r) ==
    /\ Write(r, "pause", "paused", NoRequest)
    /\ UNCHANGED <<reserved, checkpoint, run, announced, service, history>>

Resume(r) ==
    /\ Write(r, "resume", "queued", [req[r] EXCEPT !.pc = "start"])
    /\ Unpark(req[r].task)
    /\ UNCHANGED <<reserved, checkpoint, run, announced, service, effects, approved, rejected>>

\* decide_approval with approved = True, within the lifetime of the approval.
Approve(r) ==
    /\ req[r].pc = "write"
    /\ req[r].op = "approve"
    /\ Save(req[r].task, [status |-> "queued", granted |-> TRUE])
    /\ req' = [req EXCEPT ![r].pc = "start"]
    /\ approved' = approved \cup {req[r].task}
    /\ Unpark(req[r].task)
    /\ UNCHANGED <<reserved, checkpoint, run, announced, service, effects, rejected>>

\* decide_approval with approved = False, or with either answer once the approval
\* has expired.
Reject(r) ==
    /\ \E op \in {"approve", "reject"} :
          Write(r, op, "cancelled", NoRequest)
    /\ announced' = Announced(req[r].task, "cancelled")
    /\ rejected' = rejected \cup {req[r].task}
    /\ Unpark(req[r].task)
    /\ UNCHANGED <<reserved, checkpoint, run, service, effects, approved>>

\* Mutant: the row is cancelled, the coroutine is not.
CancelRowOnly(r) ==
    /\ \/ Write(r, "cancel", "cancelled", NoRequest)
       \/ Write(r, "interrupt", "cancelled", [req[r] EXCEPT !.pc = "sweep"])
    /\ announced' = Announced(req[r].task, "cancelled")
    /\ Unpark(req[r].task)
    /\ UNCHANGED <<reserved, checkpoint, run, service, effects, approved, rejected>>

\* cancel, after the tools of the task were told to stop: the coroutine is
\* cancelled and never runs again, the row is saved from the copy.
Cancel(r) ==
    /\ \/ Write(r, "cancel", "cancelled", NoRequest)
       \/ Write(r, "interrupt", "cancelled", [req[r] EXCEPT !.pc = "sweep"])
    /\ run' = [run EXCEPT ![req[r].task] = Rest]
    /\ announced' = Announced(req[r].task, "cancelled")
    /\ Unpark(req[r].task)
    /\ UNCHANGED <<reserved, checkpoint, service, effects, approved, rejected>>

\* The `_start` that ends create_task, resume and an approval.
Start(r) ==
    /\ req[r].pc = "start"
    /\ run' = Started(req[r].task)
    /\ req' = [req EXCEPT ![r] = NoRequest]
    /\ UNCHANGED <<durable, announced, service, history>>

\* _handle_interrupt: "stop" is a task of its own, never classified; ...
Interrupt(r, t) ==
    /\ Free(r, "interrupt")
    /\ store[t].status = "none"
    /\ t \notin Consequential
    /\ Save(t, Queued)
    /\ req' = [req EXCEPT ![r] = [NoRequest EXCEPT !.pc = "snapshot", !.op = "interrupt",
                                                   !.own = t]]
    /\ UNCHANGED <<reserved, checkpoint, run, announced, service, history>>

\* ... it lists the tasks that run, ...
InterruptList(r) ==
    /\ req[r].pc = "snapshot"
    /\ req' = [req EXCEPT ![r].pc = "sweep",
                          ![r].todo = {t \in Tasks : run[t].pc # "idle"} \ {req[r].own}]
    /\ UNCHANGED <<durable, run, announced, service, history>>

\* ... cancels them one after the other, ...
InterruptNext(r) ==
    /\ req[r].pc = "sweep"
    /\ \E t \in req[r].todo :
          req' = [req EXCEPT
                    ![r].pc = IF store[t].status \in Admits("cancel") THEN "write" ELSE "sweep",
                    ![r].task = t,
                    ![r].row = store[t],
                    ![r].todo = @ \ {t}]
    /\ UNCHANGED <<durable, run, announced, service, history>>

\* ... and completes itself.
InterruptDone(r) ==
    /\ req[r].pc = "sweep"
    /\ req[r].todo = {}
    /\ Save(req[r].own, With(NoRow, "completed"))
    /\ announced' = Announced(req[r].own, "completed")
    /\ req' = [req EXCEPT ![r] = NoRequest]
    /\ UNCHANGED <<reserved, checkpoint, run, service, history>>

RequestStep(r) ==
    \/ Pause(r) \/ Resume(r) \/ Approve(r) \/ Reject(r) \/ Cancel(r) \/ Start(r)
    \/ InterruptList(r) \/ InterruptNext(r) \/ InterruptDone(r)

-----------------------------------------------------------------------------
(* The Brain goes down, and comes back.                                    *)

\* A kill or a shutdown: what is in memory is gone, the database stays.
Crash ==
    /\ phase # "down"
    /\ crashes < MaxCrashes
    /\ crashes' = crashes + 1
    /\ phase' = "down"
    /\ toRecover' = {}
    /\ run' = [t \in Tasks |-> Rest]
    /\ req' = [r \in Requests |-> NoRequest]
    /\ announced' = [t \in Tasks |-> "none"]
    /\ parked' = {t \in Tasks : store[t].status \in {"paused", "needs_approval"} \cup Terminal}
    /\ UNCHANGED <<durable, effects, approved, rejected>>

\* Mutant: every task that has not ended is listed.
BootUnfinished ==
    /\ phase = "down"
    /\ phase' = "booting"
    /\ toRecover' = {t \in Tasks : store[t].status \notin Terminal \cup {"none"}}
    /\ UNCHANGED <<durable, run, req, announced, crashes, history>>

\* main.lifespan lists the tasks whose status is an active one.
Boot ==
    /\ phase = "down"
    /\ phase' = "booting"
    /\ toRecover' = {t \in Tasks : store[t].status \in Active}
    /\ UNCHANGED <<durable, run, req, announced, crashes, history>>

\* RecoveryService._decide.
Decide(t) ==
    IF t \in Consequential /\ checkpoint[t] = "evidence" THEN "needs_review"
    ELSE IF checkpoint[t] # "none" THEN "resume"
    ELSE IF t \in Leased THEN "retry"
    ELSE "pause"

\* resume_incomplete_tasks: a task recovery did not clear is parked as paused, the
\* others are queued and started.
Recover(t) ==
    /\ phase = "booting"
    /\ t \in toRecover
    /\ toRecover' = toRecover \ {t}
    /\ IF Decide(t) \in {"resume", "retry"}
       THEN Save(t, With(store[t], "queued")) /\ run' = Started(t)
       ELSE Save(t, With(store[t], "paused")) /\ UNCHANGED run
    /\ UNCHANGED <<reserved, checkpoint, req, announced, phase, crashes, history>>

Serve ==
    /\ phase = "booting"
    /\ toRecover = {}
    /\ phase' = "up"
    /\ UNCHANGED <<durable, run, req, announced, toRecover, crashes, history>>

-----------------------------------------------------------------------------
Next ==
    \/ \E t \in Tasks : RunStepOf(t) \/ Recover(t)
    \/ \E r \in Requests :
          \/ RequestStep(r)
          \/ \E t \in Tasks :
                \/ Create(r, t)
                \/ Interrupt(r, t)
                \/ \E op \in {"pause", "resume", "cancel", "approve", "reject"} : Ask(r, op, t)
    \/ Crash \/ Boot \/ Serve

Spec == Init /\ [][Next]_vars

\* The event loop runs every coroutine that can go on; nothing makes a user ask,
\* or the Brain go down or come back.
Fairness ==
    /\ \A t \in Tasks : WF_vars(RunStepOf(t)) /\ WF_vars(Recover(t))
    /\ \A r \in Requests : WF_vars(RequestStep(r))
    /\ WF_vars(Serve)

FairSpec == Spec /\ Fairness

-----------------------------------------------------------------------------
(* Properties.                                                             *)

\* The work of an L2/L3 task is started at most once, whatever is paused, resumed,
\* approved or interrupted in between, and however often the Brain goes down: the
\* durable idempotency record is the backstop of every way to run a task again.
ConsequentialAtMostOnce == \A t \in Consequential : effects[t] <= 1

\* No L2/L3 task starts its work unless an approval of it was accepted before; in
\* particular no stale copy of a row smuggles in a grant that nobody gave.
ConsequentialApproved == \A t \in Consequential : effects[t] > 0 => t \in approved

\* An L2/L3 task is neither stored nor announced as completed unless its work was
\* really started: a duplicate run, a resume or a restart never takes a short cut
\* to completion.
CompletionIsEarned ==
    \A t \in Consequential :
        store[t].status = "completed" \/ announced[t] = "completed" => effects[t] > 0

\* A task that was paused, waiting for approval or ended when the Brain went down
\* has no coroutine after the restart until a user resumes or approves it
\* (resume_incomplete_tasks restarts interrupted work, not work at rest).
ParkedStaysParked == \A t \in parked : run[t].pc = "idle"

\* A request that read the row of t before it was cancelled and has yet to write it, or
\* the interrupt that is t itself.
Overtaken(t) ==
    \E r \in Requests : req[r].own = t \/ (req[r].pc = "write" /\ req[r].task = t)

\* A task whose row says cancelled stays cancelled and starts no work, through requests
\* that overlap, an interrupt and restarts, but for a request that had read the row before
\* (cancel, run, resume_incomplete_tasks).  Of an approval and a rejection that overlap the
\* approval may win: tasks that were refused are left out.
CancelIsFinal ==
    [][\A t \in Tasks \ rejected :
          store[t].status = "cancelled" /\ ~Overtaken(t)
          => store'[t].status = "cancelled" /\ effects'[t] = effects[t]]_vars

\* Every coroutine comes to its end, or to a row that says paused: no control loop,
\* fallback or recovery leaves a task spinning.
RunsSettle == \A t \in Tasks : []<>(run[t].pc = "idle" \/ store[t].status = "paused")

\* "A task may enter a terminal state exactly once" (task_runtime.py): a row in a
\* terminal status keeps that status.
TerminalOnce ==
    [][\A t \in Tasks : store[t].status \in Terminal
          => store'[t].status = store[t].status]_vars
=============================================================================
