------------------------- MODULE TaskRuntimeProofs -------------------------
(***************************************************************************)
(* Proofs about TaskRuntime, for every set of tasks and requests and every *)
(* bound; and, in the second half, about ModelQuota, the model calls that  *)
(* tasks make, for every set of callers and models and every allowance.    *)
(* The two specifications share no variable: each theorem is about the     *)
(* behaviours of its own, Spec or QuotaSpec.                               *)
(***************************************************************************)
EXTENDS TaskRuntime, ModelQuota, FiniteSetTheorems, SequenceTheorems, WellFoundedInduction, TLAPS

\* Every status and point the actions name is one of the enumerated ones.
LEMMA Literals ==
    /\ Active \subseteq Status /\ Terminal \subseteq Status
    /\ {"none", "paused", "needs_approval", "queued", "understanding", "planning",
        "executing", "verifying", "completed", "failed", "cancelled"} \subseteq Status
    /\ "none" \notin Active /\ "none" \notin Terminal
    /\ Admits("pause") \subseteq Status
  BY DEF Status, Active, Terminal, Admits

\* A row whose status is set to a legal one is a row.
LEMMA WithType == \A row \in Row, s \in Status : With(row, s) \in Row
  BY DEF With, Row

\* The records at rest are typed.
LEMMA RestType == NoRow \in Row /\ Queued \in Row /\ Rest \in Run /\ NoRequest \in Request
  BY Literals DEF NoRow, Queued, With, Row, Rest, Run, Points, NoRequest, Request, AllOps

\* A terminal event keeps `announced` a function to terminal events.
LEMMA AnnouncedType ==
    ASSUME TypeOK, NEW t \in Tasks, NEW kind \in Terminal
    PROVE  Announced(t, kind) \in [Tasks -> Terminal \cup {"none"}]
  BY DEF TypeOK, Announced

\* A save by the coroutine keeps the types.
LEMMA RunSaveType ==
    ASSUME TypeOK, NEW t \in Tasks, NEW from, NEW s \in Status, NEW to \in Points,
           RunSave(t, from, s, to)
    PROVE  TypeOK'
  <1>1. run[t] \in Run /\ run[t].row \in Row
    BY DEF TypeOK, Run
  <1>2. With(run[t].row, s) \in Row
    BY <1>1, WithType
  <1>3. store' \in [Tasks -> Row]
    BY <1>2 DEF TypeOK, RunSave, Save
  <1>4. run' \in [Tasks -> Run]
    BY <1>1, <1>2 DEF TypeOK, RunSave, Hold, Run
  <1> QED
    BY <1>3, <1>4 DEF TypeOK, RunSave, history, service

LEMMA RunSaveReturnType ==
    ASSUME TypeOK, NEW t \in Tasks, NEW from, NEW s \in Status, RunSaveReturn(t, from, s)
    PROVE  TypeOK'
  <1>1. With(run[t].row, s) \in Row
    BY WithType DEF TypeOK, Run
  <1>2. store' \in [Tasks -> Row]
    BY <1>1 DEF TypeOK, RunSaveReturn, Save
  <1>3. run' \in [Tasks -> Run]
    BY RestType DEF TypeOK, RunSaveReturn, Return
  <1> QED
    BY <1>2, <1>3 DEF TypeOK, RunSaveReturn, history, service

\* Moving on keeps the coroutines typed.
LEMMA GoToType ==
    ASSUME TypeOK, NEW t \in Tasks, NEW to \in Points, GoTo(t, to)
    PROVE  run' \in [Tasks -> Run]
  <1>1. run[t] \in Run
    BY DEF TypeOK
  <1>2. [run[t] EXCEPT !.pc = to] \in Run
    BY <1>1 DEF Run
  <1> QED
    BY <1>2 DEF TypeOK, GoTo

LEMMA CheckControlType ==
    ASSUME TypeOK, NEW t \in Tasks, NEW from, NEW to \in Points, CheckControl(t, from, to)
    PROVE  TypeOK'
  <1>1. run' \in [Tasks -> Run]
    BY GoToType DEF CheckControl, Points
  <1> QED
    BY <1>1 DEF TypeOK, CheckControl, durable, history, service

\* The steps of a coroutine keep the types.
LEMMA RunType ==
    ASSUME TypeOK, NEW t \in Tasks, RunStepOf(t)
    PROVE  TypeOK'
  <1> USE Literals
  <1>1. CASE RunGet(t)
    <2>1. [pc |-> "understand", row |-> store[t], tries |-> 0] \in Run
      BY DEF TypeOK, Run, Points
    <2>2. run' \in [Tasks -> Run]
      BY <1>1, <2>1, RestType DEF TypeOK, RunGet, Return
    <2> QED
      BY <1>1, <2>2 DEF TypeOK, RunGet, durable, history, service
  <1>2. CASE \/ RunUnderstand(t) \/ RunExecute(t) \/ RunStepDone(t) \/ RunProgress(t)
             \/ RunVerify(t) \/ RunComplete(t) \/ RunFail(t)
    <2>1. /\ {"control", "stepControl", "act", "verify", "fail", "verified",
               "announce", "announceFail"} \subseteq Points
      BY DEF Points
    <2> QED
      BY <1>2, <2>1, RunSaveType
      DEF RunUnderstand, RunExecute, RunStepDone, RunProgress, RunVerify, RunComplete, RunFail
  <1>3. CASE RunControl(t) \/ RunAttemptControl(t) \/ RunStepControl(t) \/ RunResultControl(t)
    <2>1. {"prepare", "execute", "step", "verify", "progress"} \subseteq Points
      BY DEF Points
    <2> QED
      BY <1>3, <2>1, CheckControlType
      DEF RunControl, RunAttemptControl, RunStepControl, RunResultControl
  <1>4. CASE RunPrepare(t)
    <2>1. store' \in [Tasks -> Row]
      BY <1>4 DEF TypeOK, RunPrepare, Save, Run
    <2>2. run' \in [Tasks -> Run]
      BY <1>4, GoToType DEF RunPrepare, Points
    <2> QED
      BY <1>4, <2>1, <2>2 DEF TypeOK, RunPrepare, history, service
  <1>5. CASE RunAskApproval(t) \/ RunDuplicate(t)
    BY <1>5, RunSaveReturnType DEF RunAskApproval, RunDuplicate
  <1>6. CASE RunReserve(t)
    <2>1. run' \in [Tasks -> Run]
      BY <1>6, GoToType DEF RunReserve, Points
    <2> QED
      BY <1>6, <2>1 DEF TypeOK, RunReserve, history, service
  <1>7. CASE RunPlan(t)
    <2>1. {"attempt", "execute", "verify", "fail"} \subseteq Points
      BY DEF Points
    <2>2. CASE GoTo(t, "fail") /\ UNCHANGED <<durable, req, announced, service, history>>
      <3>1. run' \in [Tasks -> Run]
        BY <2>1, <2>2, GoToType
      <3> QED
        BY <2>2, <3>1 DEF TypeOK, durable, history, service
    <2> QED
      BY <1>7, <2>1, <2>2, RunSaveType DEF RunPlan
  <1>8. CASE RunAttempt(t)
    <2>1. run[t] \in Run
      BY DEF TypeOK
    <2>2. run' \in [Tasks -> Run]
      BY <1>8, <2>1 DEF TypeOK, RunAttempt, Run, Points
    <2>3. store' \in [Tasks -> Row]
      BY <1>8, <2>1 DEF TypeOK, RunAttempt, Save, Run
    <2> QED
      BY <1>8, <2>2, <2>3 DEF TypeOK, RunAttempt, history, service
  <1>9. CASE RunAct(t)
    <2>1. run' \in [Tasks -> Run]
      BY <1>9, GoToType DEF RunAct, OnError, Points
    <2>2. effects' \in [Tasks -> Nat] /\ checkpoint' \in [Tasks -> Checkpoints]
      BY <1>9 DEF TypeOK, RunAct, Checkpoints, MissionCheckpoint
    <2> QED
      BY <1>9, <2>1, <2>2 DEF TypeOK, RunAct, service
  <1>10. CASE RunVerdict(t)
    <2>1. run' \in [Tasks -> Run]
      BY <1>10, GoToType DEF RunVerdict, OnError, Points
    <2> QED
      BY <1>10, <2>1 DEF TypeOK, RunVerdict, durable, history, service
  <1>11. CASE RunAnnounce(t) \/ RunAnnounceFail(t)
    <2>1. announced' \in [Tasks -> Terminal \cup {"none"}]
      BY <1>11, AnnouncedType DEF RunAnnounce, RunAnnounceFail, Terminal
    <2>2. run' \in [Tasks -> Run]
      BY <1>11, RestType DEF TypeOK, RunAnnounce, RunAnnounceFail, Return
    <2> QED
      BY <1>11, <2>1, <2>2 DEF TypeOK, RunAnnounce, RunAnnounceFail, durable, history, service
  <1>12. CASE RunAbort(t)
    <2>1. run' \in [Tasks -> Run]
      BY <1>12 DEF TypeOK, RunAbort, Hold, Run, Points
    <2> QED
      BY <1>12, <2>1 DEF TypeOK, RunAbort, durable, history, service
  <1>13. CASE RunAbortSave(t)
    <2>1. With(run[t].row, "cancelled") \in Row
      BY WithType DEF TypeOK, Run
    <2>2. store' \in [Tasks -> Row] /\ run' \in [Tasks -> Run]
      BY <1>13, <2>1, RestType DEF TypeOK, RunAbortSave, Save, Return
    <2>3. announced' \in [Tasks -> Terminal \cup {"none"}]
      BY <1>13, AnnouncedType DEF RunAbortSave, Terminal
    <2> QED
      BY <1>13, <2>2, <2>3 DEF TypeOK, RunAbortSave, history, service
  <1> QED
    BY <1>1, <1>2, <1>3, <1>4, <1>5, <1>6, <1>7, <1>8, <1>9, <1>10, <1>11, <1>12, <1>13
    DEF RunStepOf

\* The steps of a request keep the types.
LEMMA RequestType ==
    ASSUME TypeOK, NEW r \in Requests, RequestStep(r)
    PROVE  TypeOK'
  <1> USE Literals
  <1> USE DEF AllOps
  <1>1. req[r] \in Request
    BY DEF TypeOK
  <1>2. \A s \in Status, to \in Request, op \in AllOps : Write(r, op, s, to)
           => store' \in [Tasks -> Row] /\ req' \in [Requests -> Request]
    <2> SUFFICES ASSUME NEW s \in Status, NEW to \in Request, NEW op \in AllOps,
                        Write(r, op, s, to)
                 PROVE  store' \in [Tasks -> Row] /\ req' \in [Requests -> Request]
      OBVIOUS
    <2>1. With(req[r].row, s) \in Row
      BY <1>1, WithType DEF Request
    <2> QED
      BY <2>1 DEF TypeOK, Write, Save
  <1>3. req[r].pc = "write" => /\ [req[r] EXCEPT !.pc = "start"] \in Request
                               /\ [req[r] EXCEPT !.pc = "sweep"] \in Request
    BY <1>1 DEF Request
  <1>4. Unpark(req[r].task) => parked' \in SUBSET Tasks
    BY DEF TypeOK, Unpark
  <1>5. Announced(req[r].task, "cancelled") \in [Tasks -> Terminal \cup {"none"}]
    BY DEF TypeOK, Announced, Terminal
  <1>6. CASE Pause(r)
    BY <1>2, <1>6, RestType DEF TypeOK, Pause, history, service
  <1>7. CASE Resume(r)
    BY <1>2, <1>3, <1>4, <1>7 DEF TypeOK, Resume, Write, service
  <1>8. CASE Approve(r)
    <2>1. [status |-> "queued", granted |-> TRUE] \in Row
      BY DEF Row
    <2>2. store' \in [Tasks -> Row] /\ req' \in [Requests -> Request]
      BY <1>3, <1>8, <2>1 DEF TypeOK, Approve, Save
    <2>3. approved' \in SUBSET Tasks
      BY <1>1, <1>8 DEF TypeOK, Approve, Request
    <2> QED
      BY <1>4, <1>8, <2>2, <2>3 DEF TypeOK, Approve, service
  <1>9. CASE Reject(r)
    <2>1. store' \in [Tasks -> Row] /\ req' \in [Requests -> Request]
      BY <1>2, <1>9, RestType DEF Reject, Terminal
    <2>2. rejected' \in SUBSET Tasks
      BY <1>1, <1>9 DEF TypeOK, Reject, Write, Request
    <2> QED
      BY <1>4, <1>5, <1>9, <2>1, <2>2 DEF TypeOK, Reject, service
  <1>10. CASE Cancel(r)
    <2>1. store' \in [Tasks -> Row] /\ req' \in [Requests -> Request]
      BY <1>2, <1>3, <1>10, RestType DEF Cancel, Write
    <2>2. run' \in [Tasks -> Run]
      BY <1>10, RestType DEF TypeOK, Cancel
    <2> QED
      BY <1>4, <1>5, <1>10, <2>1, <2>2 DEF TypeOK, Cancel, service
  <1>11. CASE Start(r)
    <2>1. [Rest EXCEPT !.pc = "start"] \in Run
      BY RestType DEF Run, Points
    <2>2. run' \in [Tasks -> Run]
      BY <1>11, <2>1 DEF TypeOK, Start, Started
    <2> QED
      BY <1>11, <2>2, RestType DEF TypeOK, Start, durable, history, service
  <1>12. CASE InterruptList(r)
    <2>1. req' \in [Requests -> Request]
      BY <1>1, <1>12 DEF TypeOK, InterruptList, Request
    <2> QED
      BY <1>12, <2>1 DEF TypeOK, InterruptList, durable, history, service
  <1>13. CASE InterruptNext(r)
    <2>1. PICK t \in req[r].todo :
             req' = [req EXCEPT
                       ![r].pc = IF store[t].status \in Admits("cancel")
                                 THEN "write" ELSE "sweep",
                       ![r].task = t,
                       ![r].row = store[t],
                       ![r].todo = @ \ {t}]
      BY <1>13 DEF InterruptNext
    <2>2. req[r].todo \in SUBSET Tasks
      BY <1>1 DEF Request
    <2>3. t \in Tasks /\ store[t] \in Row
      BY <2>2 DEF TypeOK
    <2>4. ASSUME NEW p \in {"write", "sweep"}
          PROVE  [req[r] EXCEPT !.pc = p, !.task = t, !.row = store[t], !.todo = @ \ {t}]
                 \in Request
      BY <1>1, <2>2, <2>3 DEF Request
    <2>5. req' \in [Requests -> Request]
      BY <2>1, <2>4 DEF TypeOK
    <2> QED
      BY <1>13, <2>5 DEF TypeOK, InterruptNext, durable, history, service
  <1>14. CASE InterruptDone(r)
    <2>1. With(NoRow, "completed") \in Row
      BY RestType, WithType
    <2>2. store' \in [Tasks -> Row] /\ req' \in [Requests -> Request]
      BY <1>14, <2>1, RestType DEF TypeOK, InterruptDone, Save
    <2>3. Announced(req[r].own, "completed") \in [Tasks -> Terminal \cup {"none"}]
      BY DEF TypeOK, Announced, Terminal
    <2> QED
      BY <1>14, <2>2, <2>3 DEF TypeOK, InterruptDone, history, service
  <1> QED
    BY <1>6, <1>7, <1>8, <1>9, <1>10, <1>11, <1>12, <1>13, <1>14 DEF RequestStep

\* So do the requests that come in.
LEMMA AskType ==
    ASSUME TypeOK, NEW r \in Requests, NEW t \in Tasks,
           \/ Create(r, t) \/ Interrupt(r, t)
           \/ \E op \in {"pause", "resume", "cancel", "approve", "reject"} : Ask(r, op, t)
    PROVE  TypeOK'
  <1>1. CASE Create(r, t) \/ Interrupt(r, t)
    <2>1. store' \in [Tasks -> Row]
      BY <1>1, RestType DEF TypeOK, Create, Interrupt, Save
    <2>2. /\ [NoRequest EXCEPT !.pc = "start", !.task = t] \in Request
          /\ [NoRequest EXCEPT !.pc = "snapshot", !.op = "interrupt", !.own = t] \in Request
      BY RestType DEF Request, AllOps
    <2>3. req' \in [Requests -> Request]
      BY <1>1, <2>2 DEF TypeOK, Create, Interrupt
    <2> QED
      BY <1>1, <2>1, <2>3 DEF TypeOK, Create, Interrupt, history, service
  <1>2. ASSUME NEW op \in {"pause", "resume", "cancel", "approve", "reject"}, Ask(r, op, t)
        PROVE  TypeOK'
    <2>1. [NoRequest EXCEPT !.pc = "write", !.op = op, !.task = t, !.row = store[t]] \in Request
      BY RestType DEF TypeOK, Request, AllOps
    <2>2. req' \in [Requests -> Request]
      BY <1>2, <2>1 DEF TypeOK, Ask
    <2> QED
      BY <1>2, <2>2 DEF TypeOK, Ask, durable, history, service
  <1> QED
    BY <1>1, <1>2

\* And so do crash and restart.
LEMMA ServiceType ==
    ASSUME TypeOK, Crash \/ Boot \/ Serve \/ \E t \in Tasks : Recover(t)
    PROVE  TypeOK'
  <1>1. CASE Crash
    <2>1. /\ run' \in [Tasks -> Run] /\ req' \in [Requests -> Request]
          /\ announced' \in [Tasks -> Terminal \cup {"none"}]
      BY <1>1, RestType DEF Crash
    <2>2. crashes' \in 0 .. MaxCrashes
      BY <1>1, BoundAssumption DEF TypeOK, Crash
    <2> QED
      BY <1>1, <2>1, <2>2 DEF TypeOK, Crash, durable
  <1>2. CASE Boot \/ Serve
    BY <1>2 DEF TypeOK, Boot, Serve, durable, history
  <1>3. ASSUME NEW t \in Tasks, Recover(t)
        PROVE  TypeOK'
    <2>1. With(store[t], "queued") \in Row /\ With(store[t], "paused") \in Row
      BY WithType, Literals DEF TypeOK
    <2>2. [Rest EXCEPT !.pc = "start"] \in Run
      BY RestType DEF Run, Points
    <2>3. store' \in [Tasks -> Row] /\ run' \in [Tasks -> Run]
      BY <1>3, <2>1, <2>2 DEF TypeOK, Recover, Save, Started
    <2> QED
      BY <1>3, <2>3 DEF TypeOK, Recover, history
  <1> QED
    BY <1>1, <1>2, <1>3

\* Every step keeps the types.
LEMMA TypeStep == TypeOK /\ [Next]_vars => TypeOK'
  <1> SUFFICES ASSUME TypeOK, [Next]_vars PROVE TypeOK'
    OBVIOUS
  <1>1. CASE UNCHANGED vars
    BY <1>1 DEF TypeOK, vars, durable, service, history
  <1>2. CASE Next
    BY <1>2, RunType, RequestType, AskType, ServiceType DEF Next
  <1> QED
    BY <1>1, <1>2

\* Type correctness of the task runtime.
THEOREM TypeCorrect == Spec => []TypeOK
  <1>1. Init => TypeOK
    BY RestType, BoundAssumption, Literals DEF Init, TypeOK, Checkpoints
  <1> QED
    BY <1>1, TypeStep, PTL DEF Spec

-----------------------------------------------------------------------------
(* The work of a consequential task starts at most once.  By itself that is *)
(* not inductive: what bounds the effects is that a coroutine between the   *)
(* idempotency guard and the work is the one that made the reservation, and *)
(* that work was never started without one.                                 *)

\* The points between the guard and the work.
Ahead == {"plan", "attempt", "attemptControl", "execute", "stepControl", "step", "act"}

Once == \A t \in Consequential :
    /\ effects[t] <= 1
    /\ effects[t] > 0 => t \in reserved
    /\ run[t].pc \in Ahead => t \in reserved /\ effects[t] = 0

\* A step that starts no work and brings no coroutine past the guard keeps it.
LEMMA OnceFrame ==
    ASSUME TypeOK, Once, UNCHANGED effects, reserved \subseteq reserved',
           \A t \in Tasks : run'[t].pc \in Ahead => run[t].pc \in Ahead
    PROVE  Once'
  BY TaskAssumption DEF Once

\* Where each step of a coroutine leads.
LEMMA OnceRun ==
    ASSUME TypeOK, Once, NEW t \in Tasks, RunStepOf(t)
    PROVE  Once'
  <1>1. /\ run \in [Tasks -> Run] /\ run[t] \in Run
        /\ t \in Consequential => t \notin Reasoning /\ t \notin Missions \cap Reasoning
    BY TaskAssumption DEF TypeOK
  <1>2. ASSUME NEW from \in Ahead, NEW s, NEW to \in Ahead, RunSave(t, from, s, to)
        PROVE  Once'
    <2>1. \A u \in Tasks : run'[u].pc \in Ahead => run[u].pc \in Ahead
      BY <1>1, <1>2 DEF RunSave, At, Hold
    <2> QED
      BY <1>2, <2>1, OnceFrame DEF RunSave, history
  <1>3. ASSUME NEW from, NEW s, NEW to, to \notin Ahead, RunSave(t, from, s, to)
        PROVE  Once'
    <2>1. \A u \in Tasks : run'[u].pc \in Ahead => run[u].pc \in Ahead
      BY <1>1, <1>3 DEF RunSave, Hold
    <2> QED
      BY <1>3, <2>1, OnceFrame DEF RunSave, history
  <1>4. ASSUME NEW from, NEW s, RunSaveReturn(t, from, s)
        PROVE  Once'
    <2>1. \A u \in Tasks : run'[u].pc \in Ahead => run[u].pc \in Ahead
      BY <1>1, <1>4 DEF RunSaveReturn, Return, Rest, Ahead
    <2> QED
      BY <1>4, <2>1, OnceFrame DEF RunSaveReturn, history
  <1>5. ASSUME NEW from, NEW to, from \in Ahead \/ to \notin Ahead, CheckControl(t, from, to)
        PROVE  Once'
    <2>1. \A u \in Tasks : run'[u].pc \in Ahead => run[u].pc \in Ahead
      BY <1>1, <1>5 DEF CheckControl, At, GoTo, Ahead
    <2> QED
      BY <1>5, <2>1, OnceFrame DEF CheckControl, durable, history
  <1>6. ASSUME UNCHANGED <<effects, reserved>>, NEW to, to \notin Ahead, GoTo(t, to)
        PROVE  Once'
    <2>1. \A u \in Tasks : run'[u].pc \in Ahead => run[u].pc \in Ahead
      BY <1>1, <1>6 DEF GoTo
    <2> QED
      BY <1>6, <2>1, OnceFrame
  <1>7. ASSUME UNCHANGED <<effects, reserved>>, Return(t)
        PROVE  Once'
    <2>1. \A u \in Tasks : run'[u].pc \in Ahead => run[u].pc \in Ahead
      BY <1>1, <1>7 DEF Return, Rest, Ahead
    <2> QED
      BY <1>7, <2>1, OnceFrame
  <1>8. CASE RunGet(t)
    <2>1. \A u \in Tasks : run'[u].pc \in Ahead => run[u].pc \in Ahead
      BY <1>1, <1>8 DEF RunGet, Return, Rest, Ahead
    <2> QED
      BY <1>8, <2>1, OnceFrame DEF RunGet, durable, history
  <1>9. CASE RunUnderstand(t) \/ RunProgress(t) \/ RunVerify(t) \/ RunComplete(t) \/ RunFail(t)
    BY <1>3, <1>9
    DEF RunUnderstand, RunProgress, RunVerify, RunComplete, RunFail, Ahead
  <1>10. CASE RunExecute(t) \/ RunStepDone(t)
    BY <1>2, <1>10 DEF RunExecute, RunStepDone, Ahead
  <1>11. CASE RunControl(t) \/ RunAttemptControl(t) \/ RunStepControl(t) \/ RunResultControl(t)
    BY <1>5, <1>11
    DEF RunControl, RunAttemptControl, RunStepControl, RunResultControl, Ahead
  <1>12. CASE RunPrepare(t)
    <2>1. CASE t \in Consequential
      BY <1>6, <1>12, <2>1 DEF RunPrepare, history, Ahead
    <2>2. CASE t \notin Consequential
      <3>1. \A u \in Consequential : run'[u] = run[u]
        BY <1>1, <1>12, <2>2, TaskAssumption DEF RunPrepare, GoTo
      <3> QED
        BY <1>12, <3>1 DEF RunPrepare, Once, history
    <2> QED
      BY <2>1, <2>2
  <1>13. CASE RunAskApproval(t) \/ RunDuplicate(t)
    BY <1>4, <1>13 DEF RunAskApproval, RunDuplicate
  <1>14. CASE RunReserve(t)
    <2>1. \A u \in Tasks : u # t => run'[u] = run[u]
      BY <1>1, <1>14 DEF RunReserve, GoTo
    <2>2. run'[t].pc = IF t \in reserved THEN "duplicate" ELSE "plan"
      BY <1>1, <1>14 DEF RunReserve, GoTo
    <2>3. t \notin reserved /\ t \in Consequential => effects[t] = 0
      BY DEF TypeOK, Once
    <2> QED
      BY <1>14, <2>1, <2>2, <2>3, TaskAssumption DEF RunReserve, Once, history, Ahead
  <1>15. CASE RunPlan(t)
    <2>1. CASE GoTo(t, "fail") /\ UNCHANGED <<durable, req, announced, service, history>>
      BY <1>6, <2>1 DEF durable, history, Ahead
    <2> QED
      BY <1>2, <1>3, <1>15, <2>1 DEF RunPlan, Ahead
  <1>16. CASE RunAttempt(t)
    <2>1. \A u \in Tasks : run'[u].pc \in Ahead => run[u].pc \in Ahead
      BY <1>1, <1>16 DEF RunAttempt, At, Ahead
    <2> QED
      BY <1>16, <2>1, OnceFrame DEF RunAttempt, history
  <1>17. CASE RunAct(t)
    <2>1. \A u \in Tasks : u # t => run'[u] = run[u]
      BY <1>1, <1>17 DEF RunAct, GoTo
    <2>2. t \in Consequential => run'[t].pc \notin Ahead
      BY <1>1, <1>17 DEF RunAct, GoTo, OnError, Ahead
    <2>3. t \in Consequential =>
            /\ t \in reserved /\ effects[t] = 0
            /\ effects' = [effects EXCEPT ![t] = effects[t] + 1]
      BY <1>17 DEF RunAct, At, Once, Ahead
    <2>4. t \notin Consequential => effects' = effects
      BY <1>17 DEF RunAct
    <2>5. effects \in [Tasks -> Nat] /\ reserved' = reserved
      BY <1>17 DEF TypeOK, RunAct
    <2> QED
      BY <2>1, <2>2, <2>3, <2>4, <2>5, TaskAssumption DEF Once
  <1>18. CASE RunVerdict(t)
    <2>1. \A u \in Tasks : u # t => run'[u] = run[u]
      BY <1>1, <1>18 DEF RunVerdict, GoTo
    <2>2. t \in Consequential => run'[t].pc \notin Ahead
      BY <1>1, <1>18 DEF RunVerdict, GoTo, OnError, Ahead
    <2> QED
      BY <1>18, <2>1, <2>2, TaskAssumption DEF RunVerdict, durable, history, Once
  <1>19. CASE RunAnnounce(t) \/ RunAnnounceFail(t) \/ RunAbortSave(t)
    BY <1>7, <1>19 DEF RunAnnounce, RunAnnounceFail, RunAbortSave, durable, history
  <1>20. CASE RunAbort(t)
    <2>1. \A u \in Tasks : run'[u].pc \in Ahead => run[u].pc \in Ahead
      BY <1>1, <1>20 DEF RunAbort, Hold, Ahead
    <2> QED
      BY <1>20, <2>1, OnceFrame DEF RunAbort, durable, history
  <1> QED
    BY <1>8, <1>9, <1>10, <1>11, <1>12, <1>13, <1>14, <1>15, <1>16, <1>17, <1>18, <1>19, <1>20
    DEF RunStepOf

\* Requests and restarts start no work and send coroutines to the start or to rest.
LEMMA OnceStep == TypeOK /\ Once /\ [Next]_vars => Once'
  <1> SUFFICES ASSUME TypeOK, Once, [Next]_vars PROVE Once'
    OBVIOUS
  <1> USE DEF history, durable, service
  <1>1. CASE UNCHANGED vars
    BY <1>1 DEF vars, Once
  <1>2. ASSUME UNCHANGED <<effects, reserved>>, UNCHANGED run PROVE Once'
    BY <1>2, OnceFrame
  <1>3. ASSUME UNCHANGED <<effects, reserved>>, NEW t, run' = Started(t) PROVE Once'
    <2>1. \A u \in Tasks : run'[u].pc \in Ahead => run[u].pc \in Ahead
      BY <1>3 DEF TypeOK, Started, Rest, Ahead
    <2> QED
      BY <1>3, <2>1, OnceFrame
  <1>4. ASSUME NEW t \in Tasks, Recover(t) PROVE Once'
    BY <1>2, <1>3, <1>4 DEF Recover
  <1>5. ASSUME NEW r \in Requests, RequestStep(r) PROVE Once'
    <2>1. CASE Cancel(r)
      <3>1. \A u \in Tasks : run'[u].pc \in Ahead => run[u].pc \in Ahead
        BY <2>1 DEF TypeOK, Cancel, Rest, Ahead
      <3> QED
        BY <2>1, <3>1, OnceFrame DEF Cancel
    <2>2. CASE Start(r)
      BY <1>3, <2>2 DEF Start
    <2>3. CASE \/ Pause(r) \/ Resume(r) \/ Approve(r) \/ Reject(r) \/ InterruptList(r)
               \/ InterruptNext(r) \/ InterruptDone(r)
      BY <1>2, <2>3
      DEF Pause, Resume, Approve, Reject, InterruptList, InterruptNext, InterruptDone
    <2> QED
      BY <1>5, <2>1, <2>2, <2>3 DEF RequestStep
  <1>6. ASSUME NEW r \in Requests, NEW t \in Tasks,
               \/ Create(r, t) \/ Interrupt(r, t)
               \/ \E op \in {"pause", "resume", "cancel", "approve", "reject"} : Ask(r, op, t)
        PROVE  Once'
    BY <1>2, <1>6 DEF Create, Interrupt, Ask
  <1>7. CASE Crash
    <2>1. \A u \in Tasks : run'[u].pc \notin Ahead
      BY <1>7 DEF Crash, Rest, Ahead
    <2> QED
      BY <1>7, <2>1, OnceFrame DEF Crash
  <1>8. CASE Boot \/ Serve
    BY <1>2, <1>8 DEF Boot, Serve
  <1> QED
    BY <1>1, <1>4, <1>5, <1>6, <1>7, <1>8, OnceRun DEF Next

\* For every set of tasks and requests and any number of crashes, the work of a
\* consequential task starts at most once.
THEOREM AtMostOnce == Spec => []ConsequentialAtMostOnce
  <1>1. Init => Once
    BY TaskAssumption DEF Init, Once, Rest, Ahead
  <1>2. Once => ConsequentialAtMostOnce
    BY DEF Once, ConsequentialAtMostOnce
  <1> QED
    BY <1>1, <1>2, OnceStep, TypeCorrect, PTL DEF Spec

-----------------------------------------------------------------------------
(* What a step of a coroutine leaves alone.                                *)

LEMMA RunFrame ==
    ASSUME TypeOK, NEW t \in Tasks, RunStepOf(t)
    PROVE  /\ run[t].pc # "idle"
           /\ UNCHANGED <<req, service, approved, rejected, parked>>
           /\ \A u \in Tasks \ {t} : run'[u] = run[u] /\ store'[u] = store[u]
           /\ store'[t] = store[t] \/ store'[t].granted = run[t].row.granted
           /\ run'[t].row.granted => store[t].granted \/ run[t].row.granted
  <1> USE DEF durable, history, service
  <1>1. /\ run \in [Tasks -> Run] /\ run[t] \in Run /\ store \in [Tasks -> Row]
        /\ run[t].row \in Row /\ store[t] \in Row
    BY DEF TypeOK, Run
  <1>2. \A s : /\ With(run[t].row, s).granted = run[t].row.granted
               /\ With(run[t].row, s) = [run[t].row EXCEPT !.status = s]
    BY <1>1 DEF With, Row
  <1>3. CASE \/ RunUnderstand(t) \/ RunExecute(t) \/ RunStepDone(t) \/ RunProgress(t)
             \/ RunVerify(t) \/ RunComplete(t) \/ RunFail(t)
    <2>1. ASSUME NEW from \in Points \ {"idle"}, NEW s, NEW to, RunSave(t, from, s, to)
          PROVE  /\ run[t].pc # "idle" /\ UNCHANGED <<req, service, approved, rejected, parked>>
                 /\ \A u \in Tasks \ {t} : run'[u] = run[u] /\ store'[u] = store[u]
                 /\ store'[t].granted = run[t].row.granted
                 /\ run'[t].row.granted => run[t].row.granted
      BY <1>1, <1>2, <2>1 DEF RunSave, At, Save, Hold
    <2> QED
      BY <1>3, <2>1
      DEF RunUnderstand, RunExecute, RunStepDone, RunProgress, RunVerify, RunComplete,
          RunFail, Points
  <1>4. CASE RunControl(t) \/ RunAttemptControl(t) \/ RunStepControl(t) \/ RunResultControl(t)
    BY <1>1, <1>4
    DEF RunControl, RunAttemptControl, RunStepControl, RunResultControl, CheckControl, At,
        GoTo, Run
  <1>5. CASE RunGet(t)
    BY <1>1, <1>5 DEF RunGet, At, Return, Rest, NoRow
  <1>6. CASE RunPrepare(t)
    BY <1>1, <1>6 DEF RunPrepare, At, GoTo, Save, Run
  <1>7. CASE RunAskApproval(t) \/ RunDuplicate(t)
    BY <1>1, <1>2, <1>7
    DEF RunAskApproval, RunDuplicate, RunSaveReturn, At, Save, Return, Rest, NoRow
  <1>8. CASE RunReserve(t) \/ RunAct(t) \/ RunVerdict(t)
    BY <1>1, <1>8 DEF RunReserve, RunAct, RunVerdict, At, GoTo, Run
  <1>9. CASE RunPlan(t)
    BY <1>1, <1>2, <1>9 DEF RunPlan, RunSave, At, Save, Hold, GoTo, Run
  <1>10. CASE RunAttempt(t)
    BY <1>1, <1>10 DEF RunAttempt, At, Save, Run
  <1>11. CASE RunAnnounce(t) \/ RunAnnounceFail(t) \/ RunAbortSave(t)
    BY <1>1, <1>2, <1>11
    DEF RunAnnounce, RunAnnounceFail, RunAbortSave, At, Save, Return, Rest, NoRow
  <1>12. CASE RunAbort(t)
    BY <1>1, <1>12 DEF RunAbort, At, Hold
  <1> QED
    BY <1>3, <1>4, <1>5, <1>6, <1>7, <1>8, <1>9, <1>10, <1>11, <1>12 DEF RunStepOf

-----------------------------------------------------------------------------
(* Work at rest stays at rest.                                             *)

AtRest == \A t \in parked :
    /\ run[t].pc = "idle"
    /\ store[t].status \in {"paused", "needs_approval"} \cup Terminal
    /\ t \notin toRecover
    /\ \A r \in Requests : req[r].pc = "start" => req[r].task # t

LEMMA AtRestStep == TypeOK /\ AtRest /\ [Next]_vars => AtRest'
  <1> SUFFICES ASSUME TypeOK, AtRest, [Next]_vars PROVE AtRest'
    OBVIOUS
  <1> USE DEF history, durable, service
  <1>1. CASE UNCHANGED vars
    BY <1>1 DEF vars, AtRest
  <1>2. ASSUME NEW t \in Tasks, RunStepOf(t) PROVE AtRest'
    BY <1>2, RunFrame DEF TypeOK, AtRest
  <1>3. ASSUME NEW t \in Tasks, Recover(t) PROVE AtRest'
    BY <1>3 DEF TypeOK, AtRest, Recover, Save, Started
  <1>4. ASSUME NEW r \in Requests, RequestStep(r) PROVE AtRest'
    <2>1. req[r] \in Request /\ req \in [Requests -> Request]
      BY DEF TypeOK
    <2>2. CASE Pause(r)
      BY <2>1, <2>2 DEF TypeOK, AtRest, Pause, Write, Save, With, Row, Request, NoRequest
    <2>3. CASE Resume(r)
      BY <2>1, <2>3 DEF TypeOK, AtRest, Resume, Write, Save, Unpark, Request
    <2>4. CASE Approve(r)
      BY <2>1, <2>4 DEF TypeOK, AtRest, Approve, Save, Unpark, Request
    <2>5. CASE Reject(r)
      BY <2>1, <2>5 DEF TypeOK, AtRest, Reject, Write, Save, Unpark, Request, NoRequest
    <2>6. CASE Cancel(r)
      <3>1. \A t \in parked' : /\ t \in parked /\ store'[t] = store[t] /\ run'[t] = run[t]
                               /\ toRecover' = toRecover
        BY <2>1, <2>6 DEF TypeOK, Cancel, Write, Save, Unpark, Request
      <3>2. \A q \in Requests : req'[q].pc = "start" => req'[q] = req[q]
        BY <2>1, <2>6 DEF Cancel, Write, Request, NoRequest
      <3> QED
        BY <3>1, <3>2 DEF AtRest
    <2>7. CASE Start(r)
      BY <2>1, <2>7 DEF TypeOK, AtRest, Start, Started, Request, NoRequest
    <2>8. CASE InterruptList(r) \/ InterruptNext(r)
      <3>1. \A q \in Requests : req'[q].pc = "start" => req'[q] = req[q]
        <4>1. CASE InterruptList(r)
          BY <2>1, <4>1 DEF InterruptList, Request
        <4>2. CASE InterruptNext(r)
          <5>1. PICK t \in req[r].todo :
                   req' = [req EXCEPT
                             ![r].pc = IF store[t].status \in Admits("cancel")
                                       THEN "write" ELSE "sweep",
                             ![r].task = t,
                             ![r].row = store[t],
                             ![r].todo = @ \ {t}]
            BY <4>2 DEF InterruptNext
          <5>2. req'[r].pc = IF store[t].status \in Admits("cancel") THEN "write" ELSE "sweep"
            BY <2>1, <5>1 DEF Request
          <5> QED
            BY <2>1, <5>1, <5>2
        <4> QED
          BY <2>8, <4>1, <4>2
      <3> QED
        <4>1. UNCHANGED <<run, store, toRecover, parked>>
          BY <2>8 DEF InterruptList, InterruptNext
        <4> QED
          BY <3>1, <4>1 DEF AtRest
    <2>9. CASE InterruptDone(r)
      BY <2>1, <2>9
      DEF TypeOK, AtRest, InterruptDone, Save, With, NoRow, Terminal, Request, NoRequest
    <2> QED
      BY <1>4, <2>2, <2>3, <2>4, <2>5, <2>6, <2>7, <2>8, <2>9 DEF RequestStep
  <1>5. ASSUME NEW r \in Requests, NEW t \in Tasks, Create(r, t) \/ Interrupt(r, t)
        PROVE  AtRest'
    <2>1. store[t].status = "none" /\ t \notin parked
      BY <1>5 DEF AtRest, Create, Interrupt, Terminal
    <2>2. \A u \in parked : store'[u] = store[u]
      BY <1>5, <2>1 DEF TypeOK, Create, Interrupt, Save
    <2>3. \A q \in Requests : req'[q].pc = "start" => req'[q] = req[q] \/ req'[q].task = t
      BY <1>5 DEF TypeOK, Create, Interrupt, NoRequest
    <2> QED
      BY <1>5, <2>1, <2>2, <2>3 DEF AtRest, Create, Interrupt
  <1>6. ASSUME NEW r \in Requests, NEW t \in Tasks,
               NEW op \in {"pause", "resume", "cancel", "approve", "reject"}, Ask(r, op, t)
        PROVE  AtRest'
    BY <1>6 DEF TypeOK, AtRest, Ask, NoRequest
  <1>7. CASE Crash
    BY <1>7 DEF AtRest, Crash, Rest, NoRequest
  <1>8. CASE Boot
    BY <1>8 DEF AtRest, Boot, Active, Terminal
  <1>9. CASE Serve
    BY <1>9 DEF AtRest, Serve
  <1> QED
    BY <1>1, <1>2, <1>3, <1>4, <1>5, <1>6, <1>7, <1>8, <1>9 DEF Next

\* Whatever was at rest when the Brain went down runs only after a user moved it.
THEOREM ParkedAtRest == Spec => []ParkedStaysParked
  <1>1. Init => AtRest
    BY DEF Init, AtRest
  <1>2. AtRest => ParkedStaysParked
    BY DEF AtRest, ParkedStaysParked
  <1> QED
    BY <1>1, <1>2, AtRestStep, TypeCorrect, PTL DEF Spec

-----------------------------------------------------------------------------
(* No work of a consequential task without an approval.  A grant lives in  *)
(* three kinds of copies of a row: the stored one, the one a coroutine     *)
(* works on, and those that requests read; none of them holds a grant that *)
(* was not given.                                                          *)

\* The points a consequential task reaches with a grant only.
Past == {"reserve", "duplicate"} \cup Ahead

GrantedRows ==
    /\ \A t \in Tasks : store[t].granted \/ run[t].row.granted => t \in approved
    /\ \A r \in Requests : req[r].row.granted => req[r].task \in approved

GrantedWork == \A t \in Consequential :
    /\ run[t].pc \in Past => run[t].row.granted
    /\ effects[t] > 0 => t \in approved

LEMMA GrantedRowsStep == TypeOK /\ GrantedRows /\ [Next]_vars => GrantedRows'
  <1> SUFFICES ASSUME TypeOK, GrantedRows, [Next]_vars PROVE GrantedRows'
    OBVIOUS
  <1> USE DEF history, durable, service
  <1>1. CASE UNCHANGED vars
    BY <1>1 DEF vars, GrantedRows
  <1>2. ASSUME NEW t \in Tasks, RunStepOf(t) PROVE GrantedRows'
    BY <1>2, RunFrame DEF TypeOK, GrantedRows
  <1>3. ASSUME NEW t \in Tasks, Recover(t) PROVE GrantedRows'
    <2>1. store[t] \in Row
      BY DEF TypeOK
    <2>2. \A s : With(store[t], s).granted = store[t].granted
      BY <2>1 DEF With, Row
    <2>3. \A u \in Tasks : store'[u].granted => store[u].granted
      BY <1>3, <2>2 DEF TypeOK, Recover, Save
    <2>4. \A u \in Tasks : run'[u].row.granted => run[u].row.granted
      BY <1>3 DEF TypeOK, Recover, Started, Rest, NoRow
    <2> QED
      BY <1>3, <2>3, <2>4 DEF GrantedRows, Recover
  <1>4. ASSUME NEW r \in Requests, RequestStep(r) PROVE GrantedRows'
    <2>1. req[r] \in Request /\ req \in [Requests -> Request] /\ store \in [Tasks -> Row]
          /\ run \in [Tasks -> Run] /\ req[r].row \in Row
      BY DEF TypeOK, Request
    <2>2. \A s : With(req[r].row, s).granted = req[r].row.granted
      BY <2>1 DEF With, Row
    <2>3. /\ ~NoRequest.row.granted /\ ~Rest.row.granted
          /\ \A p : [req[r] EXCEPT !.pc = p].row = req[r].row
          /\ \A p : [req[r] EXCEPT !.pc = p].task = req[r].task
      BY <2>1 DEF NoRequest, Rest, NoRow, Request
    <2>4. ASSUME NEW op, NEW s, NEW to, Write(r, op, s, to), ~to.row.granted \/
                 (to.row = req[r].row /\ to.task = req[r].task)
          PROVE  /\ \A t \in Tasks : store'[t].granted => t \in approved
                 /\ \A q \in Requests : req'[q].row.granted => req'[q].task \in approved
      BY <2>1, <2>2, <2>4 DEF GrantedRows, Write, Save
    <2>5. CASE Pause(r)
      BY <2>3, <2>4, <2>5 DEF Pause, GrantedRows
    <2>6. CASE Resume(r)
      BY <2>3, <2>4, <2>6 DEF Resume, GrantedRows
    <2>7. CASE Approve(r)
      <3>1. \A q \in Requests : req'[q].row = req[q].row /\ req'[q].task = req[q].task
        BY <2>1, <2>7 DEF Approve, Request
      <3> QED
        BY <2>1, <2>7, <3>1 DEF Approve, Save, GrantedRows
    <2>8. CASE Reject(r)
      BY <2>3, <2>4, <2>8 DEF Reject, GrantedRows
    <2>9. CASE Cancel(r)
      <3>1. /\ \A t \in Tasks : store'[t].granted => t \in approved
            /\ \A q \in Requests : req'[q].row.granted => req'[q].task \in approved
        BY <2>3, <2>4, <2>9 DEF Cancel
      <3>2. \A t \in Tasks : run'[t].row.granted => run[t].row.granted
        BY <2>1, <2>3, <2>9 DEF Cancel
      <3> QED
        BY <2>9, <3>1, <3>2 DEF Cancel, GrantedRows
    <2>10. CASE Start(r)
      <3>1. \A t \in Tasks : run'[t].row.granted => run[t].row.granted
        BY <2>1, <2>10 DEF Start, Started, Rest, NoRow
      <3> QED
        BY <2>1, <2>3, <2>10, <3>1 DEF Start, GrantedRows
    <2>11. CASE InterruptList(r)
      <3>1. \A q \in Requests : req'[q].row = req[q].row /\ req'[q].task = req[q].task
        BY <2>1, <2>11 DEF InterruptList, Request
      <3>2. UNCHANGED <<store, run, approved>>
        BY <2>11 DEF InterruptList
      <3> QED
        BY <3>1, <3>2 DEF GrantedRows
    <2>12. CASE InterruptNext(r)
      <3>1. PICK t \in req[r].todo :
               req' = [req EXCEPT
                         ![r].pc = IF store[t].status \in Admits("cancel")
                                   THEN "write" ELSE "sweep",
                         ![r].task = t,
                         ![r].row = store[t],
                         ![r].todo = @ \ {t}]
        BY <2>12 DEF InterruptNext
      <3>2. t \in Tasks /\ req'[r].row = store[t] /\ req'[r].task = t
        BY <2>1, <3>1 DEF Request
      <3>3. \A q \in Requests \ {r} : req'[q] = req[q]
        BY <2>1, <3>1
      <3> QED
        BY <2>12, <3>2, <3>3 DEF InterruptNext, GrantedRows
    <2>13. CASE InterruptDone(r)
      BY <2>1, <2>3, <2>13 DEF InterruptDone, Save, With, NoRow, GrantedRows
    <2> QED
      BY <1>4, <2>5, <2>6, <2>7, <2>8, <2>9, <2>10, <2>11, <2>12, <2>13 DEF RequestStep
  <1>5. ASSUME NEW r \in Requests, NEW t \in Tasks, Create(r, t) \/ Interrupt(r, t)
        PROVE  GrantedRows'
    <2>1. \A u \in Tasks : store'[u].granted => store[u].granted
      BY <1>5 DEF TypeOK, Create, Interrupt, Save, Queued, With, NoRow
    <2>2. /\ ~[NoRequest EXCEPT !.pc = "start", !.task = t].row.granted
          /\ ~[NoRequest EXCEPT !.pc = "snapshot", !.op = "interrupt", !.own = t].row.granted
      BY DEF NoRequest, NoRow
    <2>3. \A q \in Requests : req'[q].row.granted => req'[q] = req[q]
      BY <1>5, <2>2 DEF TypeOK, Create, Interrupt
    <2> QED
      BY <1>5, <2>1, <2>3 DEF GrantedRows, Create, Interrupt
  <1>6. ASSUME NEW r \in Requests, NEW t \in Tasks,
               NEW op \in {"pause", "resume", "cancel", "approve", "reject"}, Ask(r, op, t)
        PROVE  GrantedRows'
    <2>1. \A q \in Requests : \/ req'[q] = req[q]
                              \/ req'[q].row = store[t] /\ req'[q].task = t
      BY <1>6 DEF TypeOK, Ask, NoRequest
    <2> QED
      BY <1>6, <2>1 DEF GrantedRows, Ask
  <1>7. CASE Crash
    BY <1>7 DEF GrantedRows, Crash, Rest, NoRequest, NoRow
  <1>8. CASE Boot \/ Serve
    BY <1>8 DEF GrantedRows, Boot, Serve
  <1> QED
    BY <1>1, <1>2, <1>3, <1>4, <1>5, <1>6, <1>7, <1>8 DEF Next

\* A coroutine comes past the guard with a grant in its row, and keeps it there.
LEMMA GrantedWorkRun ==
    ASSUME TypeOK, GrantedRows, GrantedWork, NEW t \in Tasks, RunStepOf(t)
    PROVE  GrantedWork'
  <1> USE DEF history, durable, service
  <1>1. /\ run \in [Tasks -> Run] /\ run[t] \in Run /\ run[t].row \in Row
        /\ \A s : With(run[t].row, s).granted = run[t].row.granted
        /\ \A u \in Tasks \ {t} : run'[u] = run[u]
        /\ approved' = approved /\ Consequential \subseteq Tasks
    BY RunFrame, TaskAssumption DEF TypeOK, Run, With, Row
  <1>2. ASSUME UNCHANGED effects, run'[t].pc \in Past => run'[t].row.granted
        PROVE  GrantedWork'
    BY <1>1, <1>2 DEF GrantedWork
  <1>3. ASSUME UNCHANGED effects, run'[t].pc \notin Past
        PROVE  GrantedWork'
    BY <1>2, <1>3
  <1>4. ASSUME t \notin Consequential, UNCHANGED effects
        PROVE  GrantedWork'
    BY <1>1, <1>4 DEF GrantedWork
  <1>5. ASSUME NEW from \in Past, NEW s, NEW to, RunSave(t, from, s, to)
        PROVE  GrantedWork'
    <2>1. t \in Consequential => run[t].row.granted
      BY <1>5 DEF RunSave, At, GrantedWork
    <2>2. run'[t].row.granted = run[t].row.granted
      BY <1>1, <1>5 DEF RunSave, Hold
    <2> QED
      BY <1>2, <1>4, <1>5, <2>1, <2>2 DEF RunSave
  <1>6. ASSUME NEW from, NEW s, NEW to, to \notin Past, RunSave(t, from, s, to)
        PROVE  GrantedWork'
    BY <1>1, <1>3, <1>6 DEF RunSave, Hold
  <1>7. ASSUME NEW from, NEW to, from \in Past \/ to \notin Past, CheckControl(t, from, to)
        PROVE  GrantedWork'
    <2>1. run'[t].row = run[t].row /\ run'[t].pc \in {to, "abort"}
      BY <1>1, <1>7 DEF CheckControl, GoTo, Run
    <2>2. CASE from \in Past /\ t \in Consequential
      BY <1>2, <1>7, <2>1, <2>2 DEF CheckControl, At, GrantedWork
    <2>3. CASE to \notin Past
      BY <1>3, <1>7, <2>1, <2>3 DEF CheckControl, Past, Ahead
    <2> QED
      BY <1>4, <1>7, <2>2, <2>3 DEF CheckControl
  <1>8. CASE RunExecute(t) \/ RunStepDone(t)
    BY <1>5, <1>8 DEF RunExecute, RunStepDone, Past, Ahead
  <1>9. CASE RunUnderstand(t) \/ RunProgress(t) \/ RunVerify(t) \/ RunComplete(t) \/ RunFail(t)
    BY <1>6, <1>9
    DEF RunUnderstand, RunProgress, RunVerify, RunComplete, RunFail, Past, Ahead
  <1>10. CASE RunControl(t) \/ RunAttemptControl(t) \/ RunStepControl(t) \/ RunResultControl(t)
    BY <1>7, <1>10
    DEF RunControl, RunAttemptControl, RunStepControl, RunResultControl, Past, Ahead
  <1>11. CASE RunGet(t)
    <2>1. run'[t].pc \in {"idle", "understand"}
      BY <1>1, <1>11 DEF RunGet, Return, Rest
    <2> QED
      BY <1>3, <1>11, <2>1 DEF RunGet, Past, Ahead
  <1>12. CASE RunPrepare(t)
    <2>1. /\ run'[t].row = run[t].row
          /\ t \in Consequential /\ ~run[t].row.granted => run'[t].pc = "gate"
      BY <1>1, <1>12 DEF RunPrepare, GoTo, NeedsGrant, Run
    <2> QED
      BY <1>2, <1>4, <1>12, <2>1 DEF RunPrepare, Past, Ahead
  <1>13. CASE RunAskApproval(t) \/ RunDuplicate(t)
    <2>1. run'[t].pc = "idle" /\ UNCHANGED effects
      BY <1>1, <1>13 DEF RunAskApproval, RunDuplicate, RunSaveReturn, Return, Rest
    <2> QED
      BY <1>3, <2>1 DEF Past, Ahead
  <1>14. CASE RunReserve(t)
    <2>1. run'[t].row = run[t].row
      BY <1>1, <1>14 DEF RunReserve, GoTo, Run
    <2>2. t \in Consequential => run[t].row.granted
      BY <1>14 DEF RunReserve, At, GrantedWork, Past
    <2> QED
      BY <1>2, <1>4, <1>14, <2>1, <2>2 DEF RunReserve
  <1>15. CASE RunPlan(t)
    <2>1. CASE GoTo(t, "fail") /\ UNCHANGED <<durable, req, announced, service, history>>
      BY <1>1, <1>3, <2>1 DEF GoTo, Past, Ahead
    <2> QED
      BY <1>5, <1>15, <2>1 DEF RunPlan, Past, Ahead
  <1>16. CASE RunAttempt(t)
    <2>1. run'[t].row = run[t].row
      BY <1>1, <1>16 DEF RunAttempt, Run
    <2>2. t \in Consequential => run[t].row.granted
      BY <1>16 DEF RunAttempt, At, GrantedWork, Past, Ahead
    <2> QED
      BY <1>2, <1>4, <1>16, <2>1, <2>2 DEF RunAttempt
  <1>17. CASE RunAct(t)
    <2>1. run'[t].row = run[t].row
      BY <1>1, <1>17 DEF RunAct, GoTo, Run
    <2>2. t \in Consequential => run[t].row.granted
      BY <1>17 DEF RunAct, At, GrantedWork, Past, Ahead
    <2>3. t \in Consequential => t \in approved
      BY <2>2 DEF GrantedRows
    <2>4. \A u \in Tasks \ {t} : effects'[u] = effects[u]
      BY <1>17 DEF TypeOK, RunAct
    <2> QED
      BY <1>1, <2>1, <2>2, <2>3, <2>4 DEF GrantedWork
  <1>18. CASE RunVerdict(t)
    <2>1. t \in Consequential => run'[t].pc \in {"complete", "fail"}
      BY <1>1, <1>18, TaskAssumption DEF RunVerdict, GoTo, OnError
    <2> QED
      BY <1>3, <1>4, <1>18, <2>1 DEF RunVerdict, Past, Ahead
  <1>19. CASE RunAnnounce(t) \/ RunAnnounceFail(t) \/ RunAbortSave(t)
    <2>1. run'[t].pc = "idle" /\ UNCHANGED effects
      BY <1>1, <1>19 DEF RunAnnounce, RunAnnounceFail, RunAbortSave, Return, Rest
    <2> QED
      BY <1>3, <2>1 DEF Past, Ahead
  <1>20. CASE RunAbort(t)
    <2>1. run'[t].pc = "abortSave" /\ UNCHANGED effects
      BY <1>1, <1>20 DEF RunAbort, Hold
    <2> QED
      BY <1>3, <2>1 DEF Past, Ahead
  <1> QED
    BY <1>8, <1>9, <1>10, <1>11, <1>12, <1>13, <1>14, <1>15, <1>16, <1>17, <1>18, <1>19, <1>20
    DEF RunStepOf

LEMMA GrantedWorkStep == TypeOK /\ GrantedRows /\ GrantedWork /\ [Next]_vars => GrantedWork'
  <1> SUFFICES ASSUME TypeOK, GrantedRows, GrantedWork, [Next]_vars PROVE GrantedWork'
    OBVIOUS
  <1> USE TaskAssumption DEF history, durable, service
  <1>1. ASSUME UNCHANGED effects, approved \subseteq approved',
               \A t \in Tasks : run'[t] = run[t] \/ run'[t].pc \notin Past
        PROVE  GrantedWork'
    BY <1>1 DEF GrantedWork
  <1>2. Rest.pc \notin Past /\ [Rest EXCEPT !.pc = "start"].pc \notin Past
    BY DEF Rest, Past, Ahead
  <1>3. CASE UNCHANGED vars
    BY <1>3 DEF vars, GrantedWork
  <1>4. ASSUME NEW t \in Tasks, Recover(t) PROVE GrantedWork'
    BY <1>1, <1>2, <1>4 DEF TypeOK, Recover, Started
  <1>5. ASSUME NEW r \in Requests, RequestStep(r) PROVE GrantedWork'
    <2>1. CASE Cancel(r)
      BY <1>1, <1>2, <2>1 DEF TypeOK, Cancel
    <2>2. CASE Start(r)
      BY <1>1, <1>2, <2>2 DEF TypeOK, Start, Started
    <2>3. CASE \/ Pause(r) \/ Resume(r) \/ Approve(r) \/ Reject(r) \/ InterruptList(r)
               \/ InterruptNext(r) \/ InterruptDone(r)
      <3>1. UNCHANGED <<run, effects>> /\ approved \subseteq approved'
        BY <2>3
        DEF Pause, Resume, Approve, Reject, InterruptList, InterruptNext, InterruptDone
      <3> QED
        BY <1>1, <3>1
    <2> QED
      BY <1>5, <2>1, <2>2, <2>3 DEF RequestStep
  <1>6. ASSUME NEW r \in Requests, NEW t \in Tasks,
               \/ Create(r, t) \/ Interrupt(r, t)
               \/ \E op \in {"pause", "resume", "cancel", "approve", "reject"} : Ask(r, op, t)
        PROVE  GrantedWork'
    BY <1>1, <1>6 DEF Create, Interrupt, Ask
  <1>7. CASE Crash
    BY <1>1, <1>2, <1>7 DEF Crash
  <1>8. CASE Boot \/ Serve
    BY <1>1, <1>8 DEF Boot, Serve
  <1> QED
    BY <1>3, <1>4, <1>5, <1>6, <1>7, <1>8, GrantedWorkRun DEF Next

\* However requests overlap and rows go stale, the work of an L2/L3 task starts only
\* after an approval of that task was accepted.
THEOREM Approved == Spec => []ConsequentialApproved
  <1>1. Init => GrantedRows /\ GrantedWork
    BY TaskAssumption
    DEF Init, GrantedRows, GrantedWork, NoRow, Rest, NoRequest, Past, Ahead
  <1>2. GrantedWork => ConsequentialApproved
    BY DEF GrantedWork, ConsequentialApproved
  <1> QED
    BY <1>1, <1>2, GrantedRowsStep, GrantedWorkStep, TypeCorrect, PTL DEF Spec

-----------------------------------------------------------------------------
(* Completion is earned.                                                   *)

\* The points behind the work.
After == {"resultControl", "progress", "verify", "verified", "complete", "announce"}

Earned == \A t \in Consequential :
    \/ store[t].status = "completed" \/ run[t].row.status = "completed"
    \/ announced[t] = "completed" \/ run[t].pc \in After
    => effects[t] > 0

\* The task an interrupt completes at its end is its own.
OwnTask == \A r \in Requests : req[r].own \notin Consequential

LEMMA EarnedRun ==
    ASSUME TypeOK, Earned, NEW t \in Tasks, RunStepOf(t)
    PROVE  Earned'
  <1> USE DEF history, durable, service
  <1>1. /\ run \in [Tasks -> Run] /\ run[t] \in Run /\ run[t].row \in Row
        /\ store \in [Tasks -> Row] /\ effects \in [Tasks -> Nat]
        /\ announced \in [Tasks -> Terminal \cup {"none"}]
        /\ \A s : With(run[t].row, s).status = s
        /\ \A u \in Tasks \ {t} : run'[u] = run[u] /\ store'[u] = store[u]
        /\ Consequential \subseteq Tasks /\ (t \in Consequential => t \notin Reasoning)
    BY RunFrame, TaskAssumption DEF TypeOK, Run, With, Row
  <1>2. ASSUME UNCHANGED <<effects, announced>>,
               t \in Consequential /\ ( \/ store'[t].status = "completed"
                                        \/ run'[t].row.status = "completed"
                                        \/ run'[t].pc \in After )
               => effects[t] > 0
        PROVE  Earned'
    BY <1>1, <1>2 DEF Earned
  <1>3. ASSUME NEW from, NEW s, NEW to, RunSave(t, from, s, to),
               t \in Consequential /\ (s = "completed" \/ to \in After) => from \in After
        PROVE  Earned'
    <2>1. store'[t].status = s /\ run'[t].row.status = s /\ run'[t].pc = to
      BY <1>1, <1>3 DEF RunSave, Save, Hold
    <2>2. from \in After /\ t \in Consequential => effects[t] > 0
      BY <1>3 DEF RunSave, At, Earned
    <2> QED
      BY <1>2, <1>3, <2>1, <2>2 DEF RunSave
  <1>4. ASSUME NEW from, NEW to, CheckControl(t, from, to), to \in After => from \in After
        PROVE  Earned'
    <2>1. run'[t].row = run[t].row /\ run'[t].pc \in {to, "abort"}
      BY <1>1, <1>4 DEF CheckControl, GoTo, Run
    <2>2. t \in Consequential /\ from \in After => effects[t] > 0
      BY <1>4 DEF CheckControl, At, Earned
    <2> QED
      BY <1>2, <1>4, <2>1, <2>2 DEF CheckControl, After, Earned
  <1>5. CASE RunUnderstand(t) \/ RunExecute(t) \/ RunStepDone(t) \/ RunFail(t)
    BY <1>1, <1>3, <1>5 DEF RunUnderstand, RunExecute, RunStepDone, RunFail, After
  <1>6. CASE RunProgress(t) \/ RunVerify(t) \/ RunComplete(t)
    BY <1>3, <1>6 DEF RunProgress, RunVerify, RunComplete, After
  <1>7. CASE RunControl(t) \/ RunAttemptControl(t) \/ RunStepControl(t) \/ RunResultControl(t)
    BY <1>4, <1>7
    DEF RunControl, RunAttemptControl, RunStepControl, RunResultControl, After
  <1>8. CASE RunGet(t)
    <2>1. run'[t].pc \in {"idle", "understand"} /\ run'[t].row \in {store[t], NoRow}
      BY <1>1, <1>8 DEF RunGet, Return, Rest
    <2> QED
      BY <1>2, <1>8, <2>1 DEF RunGet, After, NoRow, Earned
  <1>9. CASE RunPrepare(t)
    <2>1. /\ run'[t].row = run[t].row /\ run'[t].pc \in {"gate", "reserve", "plan"}
          /\ store'[t] \in {store[t], run[t].row}
      BY <1>1, <1>9 DEF RunPrepare, GoTo, Save, Run
    <2> QED
      BY <1>2, <1>9, <2>1 DEF RunPrepare, After, Earned
  <1>10. CASE RunAskApproval(t) \/ RunDuplicate(t)
    <2>1. /\ run'[t] = Rest /\ store'[t].status \in {"needs_approval", "paused"}
          /\ UNCHANGED <<effects, announced>>
      BY <1>1, <1>10 DEF RunAskApproval, RunDuplicate, RunSaveReturn, Save, Return
    <2> QED
      BY <1>2, <2>1 DEF Rest, NoRow, After
  <1>11. CASE RunReserve(t)
    <2>1. run'[t].row = run[t].row /\ run'[t].pc \in {"duplicate", "plan"}
      BY <1>1, <1>11 DEF RunReserve, GoTo, Run
    <2> QED
      BY <1>2, <1>11, <2>1 DEF RunReserve, After, Earned
  <1>12. CASE RunPlan(t)
    <2>1. CASE GoTo(t, "fail") /\ UNCHANGED <<durable, req, announced, service, history>>
      <3>1. run'[t].row = run[t].row /\ run'[t].pc = "fail"
        BY <1>1, <2>1 DEF GoTo, Run
      <3> QED
        BY <1>2, <2>1, <3>1 DEF After, Earned
    <2> QED
      BY <1>3, <1>12, <2>1 DEF RunPlan, After
  <1>13. CASE RunAttempt(t)
    <2>1. /\ run'[t].row = run[t].row /\ run'[t].pc = "attemptControl"
          /\ store'[t] = run[t].row
      BY <1>1, <1>13 DEF RunAttempt, Save, Run
    <2> QED
      BY <1>2, <1>13, <2>1 DEF RunAttempt, After, Earned
  <1>14. CASE RunAct(t)
    <2>1. CASE t \in Consequential
      <3>1. effects'[t] > 0 /\ \A u \in Tasks \ {t} : effects'[u] = effects[u]
        BY <1>1, <1>14, <2>1 DEF RunAct
      <3> QED
        BY <1>1, <1>14, <3>1 DEF RunAct, Earned
    <2>2. CASE t \notin Consequential
      BY <1>2, <1>14, <2>2 DEF RunAct
    <2> QED
      BY <2>1, <2>2
  <1>15. CASE RunVerdict(t)
    <2>1. run'[t].row = run[t].row
      BY <1>1, <1>15 DEF RunVerdict, GoTo, Run
    <2>2. t \in Consequential => effects[t] > 0
      BY <1>15 DEF RunVerdict, At, Earned, After
    <2> QED
      BY <1>2, <1>15, <2>1, <2>2 DEF RunVerdict, Earned
  <1>16. CASE RunAnnounce(t) \/ RunAnnounceFail(t) \/ RunAbortSave(t)
    <2>1. /\ run'[t] = Rest /\ UNCHANGED effects
          /\ store'[t] = store[t] \/ store'[t].status = "cancelled"
      BY <1>1, <1>16 DEF RunAnnounce, RunAnnounceFail, RunAbortSave, Save, Return
    <2>2. /\ \A u \in Tasks \ {t} : announced'[u] = announced[u]
          /\ announced'[t] = "completed" => announced[t] = "completed" \/ At(t, "announce")
      BY <1>1, <1>16 DEF RunAnnounce, RunAnnounceFail, RunAbortSave, Announced
    <2> QED
      BY <1>1, <2>1, <2>2 DEF Earned, Rest, NoRow, At, After
  <1>17. CASE RunAbort(t)
    <2>1. run'[t].row = store[t] /\ run'[t].pc = "abortSave"
      BY <1>1, <1>17 DEF RunAbort, Hold
    <2> QED
      BY <1>2, <1>17, <2>1 DEF RunAbort, After, Earned
  <1> QED
    BY <1>5, <1>6, <1>7, <1>8, <1>9, <1>10, <1>11, <1>12, <1>13, <1>14, <1>15, <1>16, <1>17
    DEF RunStepOf

LEMMA OwnTaskStep == TypeOK /\ OwnTask /\ [Next]_vars => OwnTask'
  <1> SUFFICES ASSUME TypeOK, OwnTask, [Next]_vars PROVE OwnTask'
    OBVIOUS
  <1> USE TaskAssumption
  <1>1. CASE UNCHANGED vars
    BY <1>1 DEF vars, OwnTask
  <1>2. NoRequest.own \notin Consequential
    BY DEF NoRequest
  <1>3. ASSUME UNCHANGED req PROVE OwnTask'
    BY <1>3 DEF OwnTask
  <1>4. ASSUME NEW r \in Requests,
               \A q \in Requests : \/ req'[q].own = req[q].own
                                   \/ req'[q].own \notin Consequential
        PROVE  OwnTask'
    BY <1>4 DEF OwnTask
  <1>5. ASSUME NEW t \in Tasks, RunStepOf(t) \/ Recover(t) PROVE OwnTask'
    BY <1>3, <1>5, RunFrame DEF Recover
  <1>6. ASSUME NEW r \in Requests, RequestStep(r) PROVE OwnTask'
    <2>1. req[r] \in Request /\ req \in [Requests -> Request]
      BY DEF TypeOK
    <2>2. \A p : [req[r] EXCEPT !.pc = p].own = req[r].own
      BY <2>1 DEF Request
    <2>3. ASSUME NEW op, NEW s, NEW to, Write(r, op, s, to),
                 to.own = req[r].own \/ to.own \notin Consequential
          PROVE  OwnTask'
      BY <1>4, <2>1, <2>3 DEF Write
    <2>4. CASE Pause(r) \/ Resume(r) \/ Reject(r) \/ Cancel(r)
      BY <1>2, <2>2, <2>3, <2>4 DEF Pause, Resume, Reject, Cancel
    <2>5. CASE Approve(r)
      <3>1. \A q \in Requests : req'[q].own = req[q].own
        BY <2>1, <2>5 DEF Approve, Request
      <3> QED
        BY <1>4, <3>1
    <2>6. CASE Start(r) \/ InterruptDone(r)
      <3>1. req' = [req EXCEPT ![r] = NoRequest]
        BY <2>6 DEF Start, InterruptDone
      <3> QED
        BY <1>2, <1>4, <2>1, <3>1
    <2>7. CASE InterruptList(r)
      <3>1. \A q \in Requests : req'[q].own = req[q].own
        BY <2>1, <2>7 DEF InterruptList, Request
      <3> QED
        BY <1>4, <3>1
    <2>8. CASE InterruptNext(r)
      <3>1. PICK t \in req[r].todo :
               req' = [req EXCEPT
                         ![r].pc = IF store[t].status \in Admits("cancel")
                                   THEN "write" ELSE "sweep",
                         ![r].task = t,
                         ![r].row = store[t],
                         ![r].todo = @ \ {t}]
        BY <2>8 DEF InterruptNext
      <3>2. \A q \in Requests : req'[q].own = req[q].own
        BY <2>1, <3>1 DEF Request
      <3> QED
        BY <1>4, <3>2
    <2> QED
      BY <1>6, <2>4, <2>5, <2>6, <2>7, <2>8 DEF RequestStep
  <1>7. ASSUME NEW r \in Requests, NEW t \in Tasks,
               \/ Create(r, t) \/ Interrupt(r, t)
               \/ \E op \in {"pause", "resume", "cancel", "approve", "reject"} : Ask(r, op, t)
        PROVE  OwnTask'
    <2>1. req \in [Requests -> Request]
      BY DEF TypeOK
    <2>2. CASE Create(r, t)
      BY <1>4, <2>1, <2>2 DEF Create, NoRequest
    <2>3. CASE Interrupt(r, t)
      BY <1>4, <2>1, <2>3 DEF Interrupt, NoRequest
    <2>4. ASSUME NEW op, Ask(r, op, t)
          PROVE  OwnTask'
      BY <1>4, <2>1, <2>4 DEF Ask, NoRequest
    <2> QED
      BY <1>7, <2>2, <2>3, <2>4
  <1>8. CASE Crash
    BY <1>2, <1>8 DEF Crash, OwnTask
  <1>9. CASE Boot \/ Serve
    BY <1>3, <1>9 DEF Boot, Serve
  <1> QED
    BY <1>1, <1>5, <1>6, <1>7, <1>8, <1>9 DEF Next

LEMMA EarnedStep == TypeOK /\ OwnTask /\ Earned /\ [Next]_vars => Earned'
  <1> SUFFICES ASSUME TypeOK, OwnTask, Earned, [Next]_vars PROVE Earned'
    OBVIOUS
  <1> USE DEF history, durable, service
  <1>1. CASE UNCHANGED vars
    BY <1>1 DEF vars, Earned
  <1>2. Consequential \subseteq Tasks /\ Rest.pc \notin After
        /\ [Rest EXCEPT !.pc = "start"].pc \notin After
        /\ Rest.row.status # "completed" /\ [Rest EXCEPT !.pc = "start"].row.status # "completed"
    BY TaskAssumption DEF Rest, NoRow, After
  \* A step that completes no consequential row and moves coroutines to the start or
  \* to rest.
  <1>3. ASSUME UNCHANGED effects,
               \A t \in Consequential :
                 /\ store'[t].status = "completed" => store[t].status = "completed"
                 /\ announced'[t] = "completed" => announced[t] = "completed"
                 /\ run'[t] \in {run[t], Rest, [Rest EXCEPT !.pc = "start"]}
        PROVE  Earned'
    BY <1>2, <1>3 DEF Earned
  <1>4. ASSUME NEW t \in Tasks, Recover(t) PROVE Earned'
    <2>1. \A s : With(store[t], s).status = s
      BY DEF TypeOK, With, Row
    <2> QED
      BY <1>2, <1>3, <1>4, <2>1 DEF TypeOK, Recover, Save, Started
  <1>5. ASSUME NEW r \in Requests, RequestStep(r) PROVE Earned'
    <2>1. /\ req[r] \in Request /\ req[r].row \in Row /\ store \in [Tasks -> Row]
          /\ run \in [Tasks -> Run] /\ announced \in [Tasks -> Terminal \cup {"none"}]
          /\ \A s : With(req[r].row, s).status = s
      BY DEF TypeOK, Request, With, Row
    <2>2. ASSUME NEW op, NEW s \in {"paused", "queued", "cancelled"}, NEW to,
                 Write(r, op, s, to)
          PROVE  \A t \in Tasks : store'[t].status = "completed" => store[t].status = "completed"
      BY <2>1, <2>2 DEF Write, Save
    <2>3. ASSUME announced' = Announced(req[r].task, "cancelled")
          PROVE  \A t \in Tasks : announced'[t] = "completed" => announced[t] = "completed"
      BY <2>1, <2>3 DEF Announced
    <2>4. CASE Pause(r) \/ Resume(r)
      BY <1>2, <1>3, <2>2, <2>4 DEF Pause, Resume
    <2>5. CASE Approve(r)
      BY <1>2, <1>3, <2>1, <2>5 DEF Approve, Save
    <2>6. CASE Reject(r)
      BY <1>2, <1>3, <2>2, <2>3, <2>6 DEF Reject
    <2>7. CASE Cancel(r)
      <3>1. \A t \in Tasks : run'[t] \in {run[t], Rest}
        BY <2>1, <2>7 DEF Cancel
      <3> QED
        BY <1>2, <1>3, <2>2, <2>3, <2>7, <3>1 DEF Cancel
    <2>8. CASE Start(r)
      <3>1. \A t \in Tasks : run'[t] \in {run[t], [Rest EXCEPT !.pc = "start"]}
        BY <2>1, <2>8 DEF Start, Started
      <3> QED
        BY <1>2, <1>3, <2>8, <3>1 DEF Start
    <2>9. CASE InterruptList(r) \/ InterruptNext(r)
      <3>1. UNCHANGED <<store, run, announced, effects>>
        BY <2>9 DEF InterruptList, InterruptNext
      <3> QED
        BY <1>3, <3>1
    <2>10. CASE InterruptDone(r)
      <3>1. \A t \in Consequential : store'[t] = store[t] /\ announced'[t] = announced[t]
        BY <1>2, <2>1, <2>10 DEF OwnTask, InterruptDone, Save, Announced
      <3> QED
        BY <1>3, <2>10, <3>1 DEF InterruptDone
    <2> QED
      BY <1>5, <2>4, <2>5, <2>6, <2>7, <2>8, <2>9, <2>10 DEF RequestStep
  <1>6. ASSUME NEW r \in Requests, NEW t \in Tasks, Create(r, t) \/ Interrupt(r, t)
        PROVE  Earned'
    BY <1>2, <1>3, <1>6 DEF TypeOK, Create, Interrupt, Save, Queued, With, NoRow
  <1>7. ASSUME NEW r \in Requests, NEW t \in Tasks,
               NEW op \in {"pause", "resume", "cancel", "approve", "reject"}, Ask(r, op, t)
        PROVE  Earned'
    BY <1>3, <1>7 DEF Ask
  <1>8. CASE Crash
    BY <1>2, <1>3, <1>8 DEF Crash
  <1>9. CASE Boot \/ Serve
    BY <1>3, <1>9 DEF Boot, Serve
  <1> QED
    BY <1>1, <1>4, <1>5, <1>6, <1>7, <1>8, <1>9, EarnedRun DEF Next

\* Nothing but the work itself makes an L2/L3 task complete.
THEOREM Completion == Spec => []CompletionIsEarned
  <1>1. Init => Earned /\ OwnTask
    BY TaskAssumption DEF Init, Earned, OwnTask, NoRow, Rest, NoRequest, After
  <1>2. Earned => CompletionIsEarned
    BY DEF Earned, CompletionIsEarned
  <1> QED
    BY <1>1, <1>2, EarnedStep, OwnTaskStep, TypeCorrect, PTL DEF Spec

-----------------------------------------------------------------------------
(* A cancellation is final.  Whoever sets a row to cancelled also ends its  *)
(* coroutine; what has to be excluded is that a coroutine, a request or a   *)
(* restart still has an older row of it to save.                            *)

\* A task that is cancelled has no coroutine, or one that looks at the row first.
Ended == \A t \in Tasks \ rejected :
    store[t].status = "cancelled" => run[t].pc \in {"idle", "start"}

\* Only a coroutine on its way out has a cancelled row in its hands.
OwnCopy == \A t \in Tasks :
    run[t].pc \notin {"idle", "abort", "abortSave"} => run[t].row.status # "cancelled"

\* What the restart has yet to deal with is neither running nor cancelled; requests come
\* when it is done.
Restarting ==
    /\ phase = "down" => \A t \in Tasks : run[t].pc = "idle"
    /\ phase # "booting" => toRecover = {}
    /\ \A t \in toRecover : run[t].pc = "idle" /\ store[t].status \in Active
    /\ \A r \in Requests : req[r].pc # "idle" => phase = "up"

Cancelled == Ended /\ OwnCopy /\ Restarting

\* Where a step of a coroutine leaves its row.
LEMMA CancelledRun ==
    ASSUME TypeOK, Cancelled, NEW t \in Tasks, RunStepOf(t)
    PROVE  /\ t \notin rejected /\ store'[t].status = "cancelled" => run'[t].pc = "idle"
           /\ run'[t].pc \notin {"idle", "abort", "abortSave"} => run'[t].row.status # "cancelled"
           /\ \A u \in Tasks \ {t} : effects'[u] = effects[u]
           /\ run[t].pc = "start" => store' = store /\ effects' = effects
  <1> USE DEF durable, history, service
  <1>1. /\ run \in [Tasks -> Run] /\ run[t] \in Run /\ store \in [Tasks -> Row]
        /\ run[t].row \in Row /\ store[t] \in Row /\ effects \in [Tasks -> Nat]
    BY DEF TypeOK, Run
  <1>2. /\ t \notin rejected /\ store[t].status = "cancelled" => run[t].pc \in {"idle", "start"}
        /\ run[t].pc \notin {"idle", "abort", "abortSave"} => run[t].row.status # "cancelled"
    BY DEF Cancelled, Ended, OwnCopy
  <1>3. \A s : With(run[t].row, s).status = s
    BY <1>1 DEF With, Row
  <1>4. CASE \/ RunUnderstand(t) \/ RunExecute(t) \/ RunStepDone(t) \/ RunProgress(t)
             \/ RunVerify(t) \/ RunComplete(t) \/ RunFail(t)
    <2>1. ASSUME NEW from \in Points \ {"idle", "start"}, NEW s, s # "cancelled", NEW to,
                 RunSave(t, from, s, to)
          PROVE  /\ store'[t].status = s /\ run'[t].row.status = s
                 /\ effects' = effects /\ run[t].pc # "start"
      BY <1>1, <1>3, <2>1 DEF RunSave, At, Save, Hold
    <2> QED
      BY <1>4, <2>1
      DEF RunUnderstand, RunExecute, RunStepDone, RunProgress, RunVerify, RunComplete,
          RunFail, Points
  <1>5. CASE RunControl(t) \/ RunAttemptControl(t) \/ RunStepControl(t) \/ RunResultControl(t)
    <2>1. ASSUME NEW from \in Points \ {"idle", "start", "abort", "abortSave"}, NEW to,
                 CheckControl(t, from, to)
          PROVE  /\ store' = store /\ effects' = effects /\ run[t].pc = from
                 /\ run'[t].row = run[t].row
      BY <1>1, <2>1 DEF CheckControl, At, GoTo, Run
    <2>2. /\ store' = store /\ effects' = effects
          /\ run[t].pc \notin {"idle", "start", "abort", "abortSave"}
          /\ run'[t].row = run[t].row
      BY <1>5, <2>1
      DEF RunControl, RunAttemptControl, RunStepControl, RunResultControl, Points
    <2> QED BY <1>2, <2>2
  <1>6. CASE RunGet(t)
    BY <1>1, <1>2, <1>6 DEF RunGet, At, Return, Rest, NoRow
  <1>7. CASE RunPrepare(t)
    BY <1>1, <1>2, <1>7 DEF RunPrepare, At, GoTo, Save, Run
  <1>8. CASE RunAskApproval(t) \/ RunDuplicate(t)
    BY <1>1, <1>3, <1>8
    DEF RunAskApproval, RunDuplicate, RunSaveReturn, At, Save, Return, Rest, NoRow
  <1>9. CASE RunReserve(t) \/ RunAct(t) \/ RunVerdict(t)
    BY <1>1, <1>2, <1>9 DEF RunReserve, RunAct, RunVerdict, At, GoTo, Run
  <1>10. CASE RunPlan(t)
    BY <1>1, <1>2, <1>3, <1>10 DEF RunPlan, RunSave, At, Save, Hold, GoTo, Run
  <1>11. CASE RunAttempt(t)
    BY <1>1, <1>2, <1>11 DEF RunAttempt, At, Save, Run
  <1>12. CASE RunAnnounce(t) \/ RunAnnounceFail(t) \/ RunAbortSave(t)
    BY <1>1, <1>12
    DEF RunAnnounce, RunAnnounceFail, RunAbortSave, At, Save, Return, Rest
  <1>13. CASE RunAbort(t)
    BY <1>1, <1>2, <1>13 DEF RunAbort, At, Hold
  <1> QED
    BY <1>4, <1>5, <1>6, <1>7, <1>8, <1>9, <1>10, <1>11, <1>12, <1>13 DEF RunStepOf

LEMMA CancelledStep == TypeOK /\ Cancelled /\ [Next]_vars => Cancelled'
  <1> SUFFICES ASSUME TypeOK, Cancelled, [Next]_vars PROVE Cancelled'
    OBVIOUS
  <1> USE DEF durable, history, service
  <1>1. /\ run \in [Tasks -> Run] /\ store \in [Tasks -> Row] /\ req \in [Requests -> Request]
        /\ toRecover \subseteq Tasks
    BY DEF TypeOK
  <1>2. CASE UNCHANGED vars
    BY <1>2 DEF vars, Cancelled, Ended, OwnCopy, Restarting
  <1>3. ASSUME NEW t \in Tasks, RunStepOf(t) PROVE Cancelled'
    <2>1. /\ run[t].pc # "idle" /\ UNCHANGED <<req, service, rejected>>
          /\ \A u \in Tasks \ {t} : run'[u] = run[u] /\ store'[u] = store[u]
      BY <1>3, RunFrame
    <2>2. t \notin toRecover /\ phase # "down"
      BY <2>1 DEF Cancelled, Restarting
    <2>3. Ended' /\ OwnCopy'
      BY <1>3, <2>1, CancelledRun DEF Cancelled, Ended, OwnCopy
    <2>4. Restarting'
      BY <1>1, <2>1, <2>2 DEF Cancelled, Restarting
    <2> QED BY <2>3, <2>4 DEF Cancelled
  <1>4. ASSUME NEW t \in Tasks, Recover(t) PROVE Cancelled'
    <2>1. /\ \A u \in Tasks \ {t} : run'[u] = run[u] /\ store'[u] = store[u]
          /\ store'[t].status \in {"queued", "paused"}
          /\ run'[t] = run[t] \/ run'[t] = [Rest EXCEPT !.pc = "start"]
          /\ toRecover' = toRecover \ {t} /\ phase = "booting"
          /\ UNCHANGED <<req, phase, rejected>>
      BY <1>1, <1>4 DEF Recover, Save, With, Row, Started
    <2>2. run'[t].pc \notin {"idle", "abort", "abortSave"} => run'[t].row.status # "cancelled"
      BY <2>1 DEF Cancelled, OwnCopy, Rest, NoRow
    <2> QED BY <1>1, <2>1, <2>2 DEF Cancelled, Ended, OwnCopy, Restarting
  <1>5. ASSUME NEW r \in Requests, phase = "up", phase' = phase, toRecover' = toRecover,
               rejected \subseteq rejected',
               \A u \in Tasks : \/ run'[u] = run[u] /\ store'[u] = store[u]
                                \/ run'[u] = run[u] /\ store'[u].status # "cancelled"
                                \/ run'[u].pc = "idle"
                                \/ run'[u] = [Rest EXCEPT !.pc = "start"]
                                \/ run'[u] = run[u] /\ u \in rejected'
        PROVE  Cancelled'
    <2>1. toRecover = {}
      BY <1>5 DEF Cancelled, Restarting
    <2> QED BY <1>5, <2>1 DEF Cancelled, Ended, OwnCopy, Restarting, Rest, NoRow
  <1>6. ASSUME NEW r \in Requests, RequestStep(r) PROVE Cancelled'
    <2>1. req[r] \in Request
      BY <1>1
    <2>2. req[r].pc # "idle"
      BY <1>6 DEF RequestStep, Pause, Resume, Approve, Reject, Cancel, Write, Start,
                  InterruptList, InterruptNext, InterruptDone
    <2>3. phase = "up" /\ phase' = phase /\ toRecover' = toRecover
      BY <1>6, <2>2
      DEF Cancelled, Restarting, RequestStep, Pause, Resume, Approve, Reject, Cancel, Start,
          InterruptList, InterruptNext, InterruptDone
    <2>4. CASE Pause(r) \/ Resume(r) \/ Approve(r)
      BY <1>1, <1>5, <2>1, <2>3, <2>4
      DEF Pause, Resume, Approve, Write, Save, With, Row, Request
    <2>5. CASE Reject(r)
      BY <1>1, <1>5, <2>1, <2>3, <2>5 DEF Reject, Write, Save, Request
    <2>6. CASE Cancel(r)
      BY <1>1, <1>5, <2>1, <2>3, <2>6 DEF Cancel, Write, Save, Request, Rest
    <2>7. CASE Start(r)
      BY <1>1, <1>5, <2>3, <2>7 DEF Start, Started
    <2>8. CASE InterruptList(r) \/ InterruptNext(r)
      BY <1>5, <2>3, <2>8 DEF InterruptList, InterruptNext
    <2>9. CASE InterruptDone(r)
      BY <1>1, <1>5, <2>3, <2>9 DEF InterruptDone, Save, With, NoRow
    <2> QED
      BY <1>6, <2>4, <2>5, <2>6, <2>7, <2>8, <2>9 DEF RequestStep
  <1>7. ASSUME NEW r \in Requests, NEW t \in Tasks, Create(r, t) \/ Interrupt(r, t)
        PROVE  Cancelled'
    BY <1>1, <1>5, <1>7 DEF Create, Interrupt, Free, Save, Queued, With, NoRow
  <1>8. ASSUME NEW r \in Requests, NEW t \in Tasks,
               NEW op \in {"pause", "resume", "cancel", "approve", "reject"}, Ask(r, op, t)
        PROVE  Cancelled'
    BY <1>5, <1>8 DEF Ask, Free
  <1>9. CASE Crash
    BY <1>9 DEF Crash, Cancelled, Ended, OwnCopy, Restarting, Rest, NoRequest
  <1>10. CASE Boot
    BY <1>10 DEF Boot, Cancelled, Ended, OwnCopy, Restarting
  <1>11. CASE Serve
    BY <1>11 DEF Serve, Cancelled, Ended, OwnCopy, Restarting
  <1> QED
    BY <1>2, <1>3, <1>4, <1>6, <1>7, <1>8, <1>9, <1>10, <1>11 DEF Next

\* The step of CancelIsFinal.
StaysCancelled == \A t \in Tasks \ rejected :
    store[t].status = "cancelled" /\ ~Overtaken(t)
    => store'[t].status = "cancelled" /\ effects'[t] = effects[t]

LEMMA StaysCancelledStep == TypeOK /\ Cancelled /\ [Next]_vars => StaysCancelled
  <1> SUFFICES ASSUME TypeOK, Cancelled, [Next]_vars,
                      NEW t \in Tasks \ rejected, store[t].status = "cancelled", ~Overtaken(t)
               PROVE  store'[t].status = "cancelled" /\ effects'[t] = effects[t]
    BY DEF StaysCancelled
  <1> USE DEF durable, history, service
  <1>1. /\ store \in [Tasks -> Row] /\ req \in [Requests -> Request] /\ effects \in [Tasks -> Nat]
        /\ run[t].pc \in {"idle", "start"}
    BY DEF TypeOK, Cancelled, Ended
  <1>2. CASE UNCHANGED vars
    BY <1>2 DEF vars
  <1>3. ASSUME NEW u \in Tasks, RunStepOf(u)
        PROVE  store'[t].status = "cancelled" /\ effects'[t] = effects[t]
    <2>1. CASE u = t
      BY <1>1, <1>3, <2>1, CancelledRun, RunFrame
    <2>2. CASE u # t
      BY <1>3, <2>2, CancelledRun, RunFrame
    <2> QED BY <2>1, <2>2
  <1>4. ASSUME NEW u \in Tasks, Recover(u)
        PROVE  store'[t].status = "cancelled" /\ effects'[t] = effects[t]
    <2>1. u # t
      BY <1>4 DEF Recover, Cancelled, Restarting, Active
    <2> QED BY <1>1, <1>4, <2>1 DEF Recover, Save
  <1>5. ASSUME NEW r \in Requests, RequestStep(r)
        PROVE  store'[t].status = "cancelled" /\ effects'[t] = effects[t]
    <2>1. req[r].own # t /\ (req[r].pc = "write" => req[r].task # t)
      BY DEF Overtaken
    <2>2. effects' = effects
      BY <1>5 DEF RequestStep, Pause, Resume, Approve, Reject, Cancel, Start,
                  InterruptList, InterruptNext, InterruptDone
    <2>3. store'[t] = store[t]
      BY <1>1, <1>5, <2>1
      DEF RequestStep, Pause, Resume, Approve, Reject, Cancel, Start, Write, Save,
          InterruptList, InterruptNext, InterruptDone
    <2> QED BY <2>2, <2>3
  <1>6. ASSUME NEW r \in Requests, NEW u \in Tasks, Create(r, u) \/ Interrupt(r, u)
        PROVE  store'[t].status = "cancelled" /\ effects'[t] = effects[t]
    <2>1. u # t
      BY <1>6 DEF Create, Interrupt
    <2> QED BY <1>1, <1>6, <2>1 DEF Create, Interrupt, Save
  <1>7. ASSUME NEW r \in Requests, NEW u \in Tasks,
               NEW op \in {"pause", "resume", "cancel", "approve", "reject"}, Ask(r, op, u)
        PROVE  store'[t].status = "cancelled" /\ effects'[t] = effects[t]
    BY <1>7 DEF Ask
  <1>8. CASE Crash \/ Boot \/ Serve
    BY <1>8 DEF Crash, Boot, Serve
  <1> QED
    BY <1>2, <1>3, <1>4, <1>5, <1>6, <1>7, <1>8 DEF Next

\* A cancelled task stays cancelled and starts no work, for any number of requests and
\* crashes, but for a request that had read its row before (cancel, run,
\* resume_incomplete_tasks).
THEOREM CancelHolds == Spec => CancelIsFinal
  <1>1. Init => Cancelled
    BY DEF Init, Cancelled, Ended, OwnCopy, Restarting, NoRow, Rest, NoRequest
  <1> QED
    BY <1>1, CancelledStep, StaysCancelledStep, TypeCorrect, PTL DEF Spec, CancelIsFinal, StaysCancelled

(***************************************************************************)
(* Queues: what stays when one leaves, and what the minute keeps.          *)

Members(s) == {s[i] : i \in DOMAIN s}
Distinct(s) == \A i, j \in DOMAIN s : s[i] = s[j] => i = j

\* A function on 1..n is a sequence of length n.
LEMMA FunctionIsSeq ==
    ASSUME NEW S, NEW n \in Nat, NEW f \in [1..n -> S]
    PROVE  f \in Seq(S) /\ Len(f) = n /\ DOMAIN f = 1..n
  <1>1. f \in Seq(S)
    BY SeqDef
  <1>2. DOMAIN f = 1..n
    OBVIOUS
  <1> QED BY <1>1, <1>2

LEMMA LeavingAbsent == ASSUME NEW c, NEW q, c \notin Members(q) PROVE Leaving(c, q) = q
  BY DEF Leaving, Members

\* Where the entry stood, those behind it move up by one.
LEMMA LeavingPresent ==
    ASSUME NEW S, NEW q \in Seq(S), NEW c \in Members(q)
    PROVE  \E k \in DOMAIN q :
             /\ q[k] = c /\ k \in 1..Len(q) /\ Len(q) - 1 \in Nat
             /\ Leaving(c, q) = [j \in 1..(Len(q) - 1) |-> IF j < k THEN q[j] ELSE q[j + 1]]
             /\ Leaving(c, q) \in Seq(S)
             /\ Len(Leaving(c, q)) = Len(q) - 1
             /\ DOMAIN Leaving(c, q) = 1..(Len(q) - 1)
             /\ DOMAIN q = 1..Len(q)
  <1>1. \E i \in DOMAIN q : q[i] = c
    BY DEF Members
  <1>2. PICK k : k = CHOOSE i \in DOMAIN q : q[i] = c
    OBVIOUS
  <1>3. k \in DOMAIN q /\ q[k] = c
    BY <1>1, <1>2
  <1>4. DOMAIN q = 1..Len(q) /\ Len(q) \in Nat
    BY LenProperties
  <1>5. Len(q) - 1 \in Nat /\ k \in 1..Len(q)
    BY <1>3, <1>4
  <1>6. Leaving(c, q) = [j \in 1..(Len(q) - 1) |-> IF j < k THEN q[j] ELSE q[j + 1]]
    BY <1>1, <1>2 DEF Leaving
  <1>7. \A j \in 1..(Len(q) - 1) : q[j] \in S /\ q[j + 1] \in S
    BY <1>4
  <1>8. [j \in 1..(Len(q) - 1) |-> IF j < k THEN q[j] ELSE q[j + 1]] \in [1..(Len(q) - 1) -> S]
    BY <1>7
  <1> QED BY <1>3, <1>4, <1>5, <1>6, <1>8, FunctionIsSeq

LEMMA LeavingType == ASSUME NEW S, NEW q \in Seq(S), NEW c PROVE Leaving(c, q) \in Seq(S)
  BY LeavingPresent, LeavingAbsent

\* Whoever stays is no further back than before, and nobody comes in.
LEMMA LeavingStays ==
    ASSUME NEW S, NEW q \in Seq(S), NEW c, NEW i \in DOMAIN q, q[i] # c
    PROVE  \E j \in DOMAIN Leaving(c, q) : j <= i /\ Leaving(c, q)[j] = q[i]
  <1>1. DOMAIN q = 1..Len(q) /\ Len(q) \in Nat
    BY LenProperties
  <1>2. CASE c \in Members(q)
    <2>1. PICK k \in DOMAIN q :
             /\ q[k] = c /\ k \in 1..Len(q)
             /\ Leaving(c, q) = [j \in 1..(Len(q) - 1) |-> IF j < k THEN q[j] ELSE q[j + 1]]
             /\ DOMAIN Leaving(c, q) = 1..(Len(q) - 1)
      BY <1>2, LeavingPresent
    <2>2. CASE i < k
      <3>1. i \in 1..(Len(q) - 1)
        BY <1>1, <2>1, <2>2
      <3>2. Leaving(c, q)[i] = q[i]
        BY <2>1, <2>2, <3>1
      <3> QED BY <1>1, <2>1, <3>1, <3>2
    <2>3. CASE ~(i < k)
      <3>1. i - 1 \in 1..(Len(q) - 1) /\ ~(i - 1 < k) /\ i - 1 + 1 = i /\ i - 1 <= i
        BY <1>1, <2>1, <2>3
      <3>2. Leaving(c, q)[i - 1] = q[i - 1 + 1]
        BY <2>1, <3>1
      <3> QED BY <2>1, <3>1, <3>2
    <2> QED BY <2>2, <2>3
  <1>3. CASE c \notin Members(q)
    BY <1>1, <1>3, LeavingAbsent
  <1> QED BY <1>2, <1>3

\* Where those who stay came from.
LEMMA LeavingFrom ==
    ASSUME NEW S, NEW q \in Seq(S), NEW c, NEW j \in DOMAIN Leaving(c, q)
    PROVE  \E i \in DOMAIN q : /\ j <= i /\ Leaving(c, q)[j] = q[i]
                               /\ c \in Members(q) /\ Distinct(q) => q[i] # c
  <1>1. DOMAIN q = 1..Len(q) /\ Len(q) \in Nat
    BY LenProperties
  <1>2. CASE c \in Members(q)
    <2>1. PICK k \in DOMAIN q :
             /\ q[k] = c /\ k \in 1..Len(q)
             /\ Leaving(c, q) = [n \in 1..(Len(q) - 1) |-> IF n < k THEN q[n] ELSE q[n + 1]]
             /\ DOMAIN Leaving(c, q) = 1..(Len(q) - 1)
      BY <1>2, LeavingPresent
    <2>2. PICK i : i = IF j < k THEN j ELSE j + 1
      OBVIOUS
    <2>3. i \in DOMAIN q /\ i # k /\ j <= i
      BY <1>1, <2>1, <2>2
    <2>4. Leaving(c, q)[j] = q[i]
      BY <2>1, <2>2
    <2> QED BY <2>1, <2>3, <2>4 DEF Distinct
  <1>3. CASE c \notin Members(q)
    BY <1>1, <1>3, LeavingAbsent
  <1> QED BY <1>2, <1>3

LEMMA LeavingDistinct ==
    ASSUME NEW S, NEW q \in Seq(S), NEW c, Distinct(q)
    PROVE  Distinct(Leaving(c, q)) /\ Members(Leaving(c, q)) = Members(q) \ {c}
  <1>1. DOMAIN q = 1..Len(q) /\ Len(q) \in Nat
    BY LenProperties
  <1>2. CASE c \in Members(q)
    <2>1. PICK k \in DOMAIN q :
             /\ q[k] = c /\ k \in 1..Len(q)
             /\ Leaving(c, q) = [n \in 1..(Len(q) - 1) |-> IF n < k THEN q[n] ELSE q[n + 1]]
             /\ DOMAIN Leaving(c, q) = 1..(Len(q) - 1)
      BY <1>2, LeavingPresent
    <2>2. ASSUME NEW i \in 1..(Len(q) - 1), NEW j \in 1..(Len(q) - 1),
                 Leaving(c, q)[i] = Leaving(c, q)[j]
          PROVE  i = j
      <3>1. PICK a : a = IF i < k THEN i ELSE i + 1
        OBVIOUS
      <3>2. PICK b : b = IF j < k THEN j ELSE j + 1
        OBVIOUS
      <3>3. a \in DOMAIN q /\ b \in DOMAIN q
        BY <1>1, <2>1, <3>1, <3>2
      <3>4. q[a] = q[b]
        BY <2>1, <2>2, <3>1, <3>2
      <3>5. a = b
        BY <3>3, <3>4 DEF Distinct
      <3> QED BY <1>1, <2>1, <3>1, <3>2, <3>5
    <2>3. Distinct(Leaving(c, q))
      BY <2>1, <2>2 DEF Distinct
    <2>4. \A j \in DOMAIN Leaving(c, q) : \E i \in DOMAIN q : Leaving(c, q)[j] = q[i] /\ q[i] # c
      BY <1>2, LeavingFrom
    <2>5. \A i \in DOMAIN q : q[i] # c => \E j \in DOMAIN Leaving(c, q) : Leaving(c, q)[j] = q[i]
      BY LeavingStays
    <2> QED BY <2>3, <2>4, <2>5 DEF Members
  <1>3. CASE c \notin Members(q)
    BY <1>3, LeavingAbsent
  <1> QED BY <1>2, <1>3

\* The one at the head stays there until it leaves itself.
LEMMA LeavingHead ==
    ASSUME NEW S, NEW q \in Seq(S), NEW c, 1 \in DOMAIN q, q[1] # c
    PROVE  1 \in DOMAIN Leaving(c, q) /\ Leaving(c, q)[1] = q[1]
  <1>1. PICK j \in DOMAIN Leaving(c, q) : j <= 1 /\ Leaving(c, q)[j] = q[1]
    BY LeavingStays
  <1>2. DOMAIN Leaving(c, q) = 1..Len(Leaving(c, q)) /\ Len(Leaving(c, q)) \in Nat
    BY LeavingType, LenProperties
  <1>3. j = 1
    BY <1>1, <1>2
  <1> QED BY <1>1, <1>3

\* Who joins is the last, and all others keep their places.
LEMMA Joins ==
    ASSUME NEW S, NEW q \in Seq(S), NEW c \in S
    PROVE  \E r \in Seq(S) :
             /\ r = Append(q, c) /\ Members(r) = Members(q) \cup {c}
             /\ DOMAIN q \subseteq DOMAIN r /\ \A i \in DOMAIN q : r[i] = q[i]
             /\ Distinct(q) /\ c \notin Members(q) => Distinct(r)
  <1>1. PICK r : r = Append(q, c)
    OBVIOUS
  <1>2. /\ r \in Seq(S) /\ Len(r) = Len(q) + 1 /\ r[Len(q) + 1] = c
        /\ \A i \in 1..Len(q) : r[i] = q[i]
    BY <1>1, AppendProperties
  <1>3. DOMAIN q = 1..Len(q) /\ DOMAIN r = 1..(Len(q) + 1) /\ Len(q) \in Nat
    BY <1>2, LenProperties
  <1>4. Members(r) = Members(q) \cup {c}
    <2>1. \A i \in DOMAIN r : i \in DOMAIN q \/ i = Len(q) + 1
      BY <1>3
    <2>2. DOMAIN q \subseteq DOMAIN r /\ Len(q) + 1 \in DOMAIN r
      BY <1>3
    <2> QED BY <1>2, <1>3, <2>1, <2>2 DEF Members
  <1>5. ASSUME Distinct(q), c \notin Members(q) PROVE Distinct(r)
    <2> SUFFICES ASSUME NEW i \in DOMAIN r, NEW j \in DOMAIN r, r[i] = r[j] PROVE i = j
      BY DEF Distinct
    <2>1. (i \in DOMAIN q \/ i = Len(q) + 1) /\ (j \in DOMAIN q \/ j = Len(q) + 1)
      BY <1>3
    <2>2. \A n \in DOMAIN q : r[n] = q[n] /\ q[n] # c
      BY <1>2, <1>3, <1>5 DEF Members
    <2> QED BY <1>2, <1>5, <2>1, <2>2 DEF Distinct
  <1>6. DOMAIN q \subseteq DOMAIN r /\ \A i \in DOMAIN q : r[i] = q[i]
    BY <1>2, <1>3
  <1> QED BY <1>1, <1>2, <1>4, <1>5, <1>6, Zenon

Below == {p \in Nat \X Nat : p[1] < p[2]}

LEMMA LeastNumber == ASSUME NEW T \in SUBSET Nat, T # {} PROVE \E x \in T : \A y \in T : ~(y < x)
  <1>1. IsWellFoundedOn(Below, Nat)
    BY NatLessThanWellFounded DEF OpToRel, Below
  <1>2. PICK x \in T : \A y \in T : ~(<<y, x>> \in Below)
    BY <1>1, WFMin
  <1>3. \A m, n \in Nat : m < n => <<m, n>> \in Below
    BY DEF Below
  <1> QED BY <1>2, <1>3

\* The first n requests are a minute old, and the next is not.
Splits(n, s, t) ==
    /\ \A i \in 1..n : t - s[i] >= Minute
    /\ n < Len(s) => t - s[n + 1] < Minute

LEMMA LastMinuteExists ==
    ASSUME NEW s \in Seq(Nat), NEW t \in Nat
    PROVE  \E n \in 0..Len(s) : Splits(n, s, t)
  <1>1. Len(s) \in Nat /\ DOMAIN s = 1..Len(s) /\ Minute \in Nat
    BY LenProperties, QuotaAssumption
  <1>2. PICK T : T = {n \in 0..Len(s) : n < Len(s) => t - s[n + 1] < Minute}
    OBVIOUS
  <1>3. T \in SUBSET Nat /\ Len(s) \in T
    BY <1>1, <1>2
  <1>4. PICK n \in T : \A y \in T : ~(y < n)
    BY <1>3, LeastNumber
  <1>5. n \in 0..Len(s) /\ (n < Len(s) => t - s[n + 1] < Minute)
    BY <1>2, <1>4
  <1>6. ASSUME NEW i \in 1..n PROVE t - s[i] >= Minute
    <2>1. i - 1 \in 0..Len(s) /\ i - 1 < n /\ i - 1 + 1 = i /\ i \in 1..Len(s)
      BY <1>1, <1>5
    <2>2. i - 1 \notin T
      BY <1>4, <2>1
    <2>3. ~(t - s[i] < Minute)
      BY <1>2, <2>1, <2>2
    <2>4. s[i] \in Nat
      BY <2>1, ElementOfSeq
    <2> QED BY <1>1, <2>3, <2>4
  <1> QED BY <1>5, <1>6 DEF Splits

LEMMA LastMinuteIs ==
    ASSUME NEW s \in Seq(Nat), NEW t \in Nat
    PROVE  \E r \in Seq(Nat), n \in Nat :
             /\ r = LastMinute(s, t) /\ n <= Len(s) /\ Splits(n, s, t)
             /\ Len(s) \in Nat /\ Len(r) = Len(s) - n
             /\ DOMAIN r = 1..(Len(s) - n) /\ DOMAIN s = 1..Len(s)
             /\ \A i \in 1..(Len(s) - n) : r[i] = s[n + i]
  <1>1. PICK n : n = CHOOSE k \in 0..Len(s) : Splits(k, s, t)
    OBVIOUS
  <1>2. n \in 0..Len(s) /\ Splits(n, s, t)
    BY <1>1, LastMinuteExists
  <1>3. PICK l \in Nat : l = Len(s)
    BY LenProperties
  <1>4. PICK r : r = LastMinute(s, t)
    OBVIOUS
  <1>5. r = SubSeq(s, n + 1, l)
    BY <1>1, <1>3, <1>4 DEF LastMinute, Splits
  <1>6. n + 1 \in Int /\ l \in Int /\ n \in Nat /\ n <= l
    BY <1>2, <1>3
  <1>7. \A i \in (n + 1)..l : s[i] \in Nat
    BY <1>3, <1>6, ElementOfSeq
  <1>8. /\ r \in Seq(Nat)
        /\ Len(r) = IF n + 1 <= l THEN l - (n + 1) + 1 ELSE 0
        /\ \A i \in 1..(l - (n + 1) + 1) : r[i] = s[n + 1 + i - 1]
    BY <1>5, <1>6, <1>7, SubSeqProperties
  <1>9. l - (n + 1) + 1 = l - n /\ (n + 1 <= l \/ l - n = 0)
    BY <1>6
  <1>10. \A i \in Int : n + 1 + i - 1 = n + i
    BY <1>6
  <1>11. \A i \in 1..(l - n) : r[i] = s[n + 1 + i - 1] /\ i \in Int
    BY <1>8, <1>9
  <1>12. Len(r) = l - n
    BY <1>8, <1>9
  <1>13. \A i \in 1..(l - n) : r[i] = s[n + i]
    BY <1>10, <1>11
  <1>14. DOMAIN r = 1..Len(r) /\ DOMAIN s = 1..Len(s)
    BY <1>8, LenProperties
  <1>15. DOMAIN r = 1..(l - n)
    BY <1>12, <1>14
  <1>16. r \in Seq(Nat)
    BY <1>8
  <1>17. n <= Len(s)
    BY <1>3, <1>6
  <1>18. Len(r) = Len(s) - n /\ DOMAIN r = 1..(Len(s) - n) /\ DOMAIN s = 1..Len(s) /\ Len(s) \in Nat
         /\ \A i \in 1..(Len(s) - n) : r[i] = s[n + i]
    BY <1>3, <1>12, <1>13, <1>14, <1>15
  <1> QED BY <1>2, <1>6, <1>16, <1>17, <1>18, <1>4, Zenon

LEMMA LastMinuteType ==
    ASSUME NEW s \in Seq(Nat), NEW t \in Nat PROVE LastMinute(s, t) \in Seq(Nat)
  BY LastMinuteIs

------------------------------------------------------------------------------
(* What is typed.                                                           *)

LEMMA QuotaConstants ==
    /\ Slots \in Nat /\ PerMinute \in Nat /\ PerDay \in Nat /\ Minute \in Nat /\ DayLength \in Nat
    /\ Slots > 0 /\ PerMinute > 0 /\ PerDay > 0 /\ Minute > 0 /\ DayLength > 0
    /\ Short \in Nat /\ Long \in Nat /\ Short > 0 /\ Long > 0
    /\ MaxWait \in Nat /\ LastAsk \in Nat /\ MaxTime \in Nat /\ MaxRestarts \in Nat
    /\ IsFiniteSet(Callers) /\ IsFiniteSet(Models)
    /\ Slotted \subseteq Callers /\ Direct \subseteq Callers
    /\ Compatible \in [Callers -> SUBSET Models]
  <1>1. {Slots, PerMinute, PerDay, Minute, DayLength, Short, Long} \subseteq Nat \ {0}
    BY QuotaAssumption
  <1>2. {MaxFallbacks, MaxWait, LastAsk, MaxTime, MaxRestarts} \subseteq Nat
    BY QuotaAssumption
  <1>3. \A n \in Nat \ {0} : n \in Nat /\ n > 0
    OBVIOUS
  <1> QED BY <1>1, <1>2, <1>3, QuotaAssumption

LEMMA DayAdvances == \A t \in Nat : Day(t) \in Nat /\ Day(t + 1) \in Nat /\ Day(t) <= Day(t + 1)
  BY QuotaConstants DEF Day

LEMMA TextsApart == Texts \subseteq Callers /\ Slotted \subseteq Callers /\ Slotted \cap Texts = {}
                    /\ \A c \in Callers : c \in Slotted \/ c \in Texts
  BY QuotaConstants DEF Texts

LEMMA NowTyped == QuotaTypeOK => now \in Nat /\ now + 1 \in Nat /\ restarts \in Nat
  BY QuotaConstants DEF QuotaTypeOK

LEMMA CallerTyped == ASSUME QuotaTypeOK, NEW c \in Callers PROVE caller[c] \in Call
  BY DEF QuotaTypeOK

LEMMA QueuesTyped ==
    ASSUME QuotaTypeOK
    PROVE  lock \in Seq(Callers) /\ \A m \in Models : slots[m] \in Seq(Callers)
  BY DEF QuotaTypeOK

LEMMA CallFields ==
    ASSUME NEW k \in Call
    PROVE  /\ k.at \in CallPoints /\ k.model \in Models \cup {NoModel}
           /\ k.todo \in Seq(Models) /\ k.time \in Nat /\ k.kind \in CallKinds
  BY DEF Call

LEMMA IdleTyped == Idle \in Call
  <1>1. <<>> \in Seq(Models)
    BY EmptySeq
  <1> QED BY <1>1 DEF Idle, Call, CallPoints, CallKinds

LEMMA MeterTyped ==
    ASSUME QuotaTypeOK
    PROVE  NewDay \in Meter /\ Rolled \in Meter /\ Loaded \in Meter
  <1>1. NewDay \in Meter
    BY NowTyped, DayAdvances DEF NewDay, Meter
  <1> QED BY <1>1 DEF Rolled, Loaded, QuotaTypeOK

LEMMA MeterFields ==
    ASSUME NEW x \in Meter, NEW m \in Models
    PROVE  /\ x.date \in Nat /\ x.counts \in [Models -> Nat] /\ x.counts[m] \in Nat
           /\ x.clamped \in [Models -> Nat \cup {Unclamped}]
           /\ x.clamped[m] \in Nat \cup {Unclamped}
  BY DEF Meter

LEMMA ClampedTyped ==
    ASSUME NEW x \in Meter, NEW m \in Models PROVE Clamped(x, m) \in Meter
  BY DEF Clamped, Meter

\* One more request on the meter.
Counted(x, m) == [x EXCEPT !.counts[m] = @ + 1]

LEMMA CountedTyped ==
    ASSUME NEW x \in Meter, NEW m \in Models PROVE Counted(x, m) \in Meter
  BY DEF Counted, Meter

------------------------------------------------------------------------------
(* How a call moves. All steps of a caller change its own entry only, and    *)
(* the lock and the slots in one of six ways.                               *)

Waiting == {"slot", "prepare", "lock", "sleep"}
Busy == Waiting \cup {"sent", "finish"}

\* A caller that waits or was answered has a model, which it has taken off its list.
Proper(c, k) ==
    /\ Distinct(k.todo)
    /\ k.at \in Busy => k.model \in Models /\ k.model \notin Members(k.todo)
    /\ k.at = "idle" => k = Idle
    /\ k.at = "slot" => c \in Slotted
    /\ k.at \in {"prepare", "finish"} => c \in Texts
    /\ k.at \in {"slot", "prepare", "finish"} => k.kind = "walk"
Calls == \A c \in Callers : Proper(c, caller[c])

\* The models that a call the router let through may still ask, and the one that a walking
\* call has looked at the cooldown of.
Asks(k) ==
    IF k.kind = "fixed" THEN {}
    ELSE Members(k.todo) \cup {m \in Models : k.model = m /\ k.at \in Waiting}
Looked(k, m) == k.kind = "walk" /\ k.model = m /\ k.at \in {"prepare", "lock", "sleep"}

Apart(c, k) ==
    /\ k.at \in {"idle", "route", "next", "prepare", "finish"}
    /\ \/ caller[c].at \in {"idle", "route", "next", "prepare"}
       \/ caller[c].at = "sent" /\ c \in Texts /\ caller[c].kind = "walk"
    /\ lock' = lock /\ slots' = slots
TakesPlace(c, k) ==
    /\ k.at = "slot" /\ k.kind = "walk"
    /\ caller[c].at \in {"route", "next"} /\ c \in Slotted /\ k.model \in Models
    /\ lock' = lock /\ slots' = [slots EXCEPT ![k.model] = Append(@, c)]
TakesLock(c, k) ==
    /\ k.at = "lock"
    /\ \/ caller[c].at \in {"idle", "route"} /\ k.kind # "walk"
       \/ /\ k.model = caller[c].model /\ k.kind = caller[c].kind
          /\ caller[c].at = "prepare" \/ (caller[c].at = "slot" /\ HasSlot(c, k.model))
    /\ lock' = Append(lock, c) /\ slots' = slots
KeepsLock(c, k) ==
    /\ k.at = "sleep" /\ k.model = caller[c].model /\ k.kind = caller[c].kind
    /\ caller[c].at \in {"lock", "sleep"}
    /\ caller[c].at = "lock" => HasLock(c)
    /\ lock' = lock /\ slots' = slots
GetsThrough(c, k) ==
    /\ k.at = "sent" /\ k.model = caller[c].model /\ k.kind = caller[c].kind
    /\ caller[c].at \in {"lock", "sleep"}
    /\ caller[c].model \notin Asks(k)
    /\ lock' = Leaving(c, lock) /\ slots' = slots
GoesAway(c, k) ==
    /\ k.at \in {"idle", "next"} /\ caller[c].at \in Busy \cup {"route"}
    /\ lock' = Leaving(c, lock) /\ slots' = [m \in Models |-> Leaving(c, slots[m])]

\* What a call may still ask grows only while the router looks for candidates.
Moves(c, k) ==
    /\ caller' = [caller EXCEPT ![c] = k]
    /\ k \in Call /\ Proper(c, k)
    /\ Look(c) \/ Asks(k) \subseteq Asks(caller[c])
    /\ \A m \in Models : Looked(k, m) => Looked(caller[c], m) \/ ~Cooling(m)
    /\ \/ Apart(c, k) \/ TakesPlace(c, k) \/ TakesLock(c, k)
       \/ KeepsLock(c, k) \/ GetsThrough(c, k) \/ GoesAway(c, k)

LEMMA IdleProper == \A c : Proper(c, Idle) /\ Asks(Idle) = {} /\ \A m : ~Looked(Idle, m)
  <1>1. Members(<<>>) = {} /\ Distinct(<<>>)
    BY DEF Members, Distinct
  <1> QED BY <1>1 DEF Proper, Idle, Busy, Waiting, Asks, Looked

\* The record of a caller whose point is set.
LEMMA PointSet ==
    ASSUME NEW r \in Call, NEW at \in CallPoints
    PROVE  \E k \in Call : /\ k = [r EXCEPT !.at = at] /\ k.at = at /\ k.model = r.model
                           /\ k.todo = r.todo /\ k.time = r.time /\ k.kind = r.kind
  <1>1. [r EXCEPT !.at = at] \in Call
    BY Zenon DEF Call
  <1>2. /\ [r EXCEPT !.at = at].at = at /\ [r EXCEPT !.at = at].model = r.model
        /\ [r EXCEPT !.at = at].todo = r.todo /\ [r EXCEPT !.at = at].time = r.time
        /\ [r EXCEPT !.at = at].kind = r.kind
    BY Zenon DEF Call
  <1> QED BY <1>1, <1>2

LEMMA MovesToNext ==
    ASSUME QuotaTypeOK, Calls, NEW c \in Callers, caller[c].at \in Busy, Leave(c), Goes(c, "next")
    PROVE  \E k \in Call : Moves(c, k)
  <1>1. PICK r \in Call : r = caller[c]
    BY CallerTyped
  <1>2. "next" \in CallPoints
    BY DEF CallPoints
  <1>3. PICK k \in Call : /\ k = [r EXCEPT !.at = "next"]
                          /\ k.at = "next" /\ k.model = r.model /\ k.todo = r.todo
                          /\ k.kind = r.kind
    BY <1>2, PointSet
  <1>4. caller' = [caller EXCEPT ![c] = k]
    BY <1>1, <1>3 DEF Goes
  <1>5. Proper(c, k)
    BY <1>1, <1>3 DEF Calls, Proper, Busy, Waiting
  <1>6. Asks(k) \subseteq Asks(r) /\ \A m : ~Looked(k, m)
    BY <1>3 DEF Asks, Looked, Waiting
  <1>7. GoesAway(c, k)
    BY <1>3 DEF GoesAway, Leave
  <1> QED BY <1>1, <1>4, <1>5, <1>6, <1>7 DEF Moves

LEMMA MovesToIdle ==
    ASSUME QuotaTypeOK, NEW c \in Callers, caller' = [caller EXCEPT ![c] = Idle],
           \/ caller[c].at \in {"idle", "route", "next"} /\ lock' = lock /\ slots' = slots
           \/ caller[c].at \in Busy \cup {"route"} /\ Leave(c)
    PROVE  \E k \in Call : Moves(c, k)
  <1>1. Idle \in Call /\ Idle.at = "idle"
    BY IdleTyped DEF Idle
  <1>2. Apart(c, Idle) \/ GoesAway(c, Idle)
    BY <1>1 DEF Apart, GoesAway, Leave
  <1>3. Proper(c, Idle) /\ Asks(Idle) = {} /\ \A m : ~Looked(Idle, m)
    BY IdleProper
  <1>4. Asks(Idle) \subseteq Asks(caller[c])
    BY <1>3
  <1> QED BY <1>1, <1>2, <1>3, <1>4 DEF Moves

LEMMA RouteMoves ==
    ASSUME QuotaTypeOK, NEW c \in Callers, Route(c) PROVE \E k \in Call : Moves(c, k)
  <1>1. PICK kind \in {"walk", "first"} :
          caller' = [caller EXCEPT ![c] = [Idle EXCEPT !.at = "route", !.kind = kind]]
    BY DEF Route
  <1>2. PICK k : k = [Idle EXCEPT !.at = "route", !.kind = kind]
    OBVIOUS
  <1>3. "route" \in CallPoints /\ kind \in CallKinds /\ Idle \in Call
    BY IdleTyped DEF CallPoints, CallKinds
  <1>4. k \in Call /\ k.at = "route" /\ k.todo = Idle.todo /\ k.model = Idle.model
    BY <1>2, <1>3 DEF Call
  <1>5. Members(k.todo) = {} /\ Distinct(k.todo)
    BY <1>4 DEF Idle, Members, Distinct
  <1>6. Proper(c, k) /\ Asks(k) = {} /\ \A m : ~Looked(k, m)
    BY <1>4, <1>5 DEF Proper, Busy, Waiting, Asks, Looked
  <1>7. Apart(c, k)
    BY <1>4 DEF Apart, Route
  <1> QED BY <1>1, <1>2, <1>4, <1>6, <1>7 DEF Moves

\* The router's list stays without repetition: a model comes on it once.
LEMMA LookMoves ==
    ASSUME QuotaTypeOK, Calls, NEW c \in Callers, Look(c) PROVE \E k \in Call : Moves(c, k)
  <1>1. PICK r \in Call : r = caller[c]
    BY CallerTyped
  <1>2. r.at = "route" /\ lock' = lock /\ slots' = slots /\ r.todo \in Seq(Models)
    BY <1>1, CallFields DEF Look
  <1>3. Proper(c, r)
    BY <1>1 DEF Calls
  <1>4. CASE UNCHANGED caller
    <2>1. caller' = [caller EXCEPT ![c] = r]
      BY <1>1, <1>4 DEF QuotaTypeOK
    <2>2. Apart(c, r)
      BY <1>1, <1>2 DEF Apart
    <2> QED BY <1>1, <1>3, <2>1, <2>2 DEF Moves
  <1>5. ASSUME NEW m \in Models, ~\E i \in DOMAIN r.todo : r.todo[i] = m,
               caller' = [caller EXCEPT ![c].todo = Append(@, m)]
        PROVE  \E k \in Call : Moves(c, k)
    <2>1. PICK t \in Seq(Models) : t = r.todo
      BY <1>2
    <2>2. PICK q \in Seq(Models) :
            /\ q = Append(t, m) /\ Members(q) = Members(t) \cup {m}
            /\ DOMAIN t \subseteq DOMAIN q /\ \A i \in DOMAIN t : q[i] = t[i]
            /\ Distinct(t) /\ m \notin Members(t) => Distinct(q)
      BY Joins
    <2>3. Distinct(q)
      <3>1. Distinct(t) /\ m \notin Members(t)
        BY <1>3, <1>5, <2>1 DEF Proper, Members
      <3> QED BY <2>2, <3>1
    <2>4. PICK k : k = [r EXCEPT !.todo = q]
      OBVIOUS
    <2>5. k \in Call /\ k.at = "route" /\ k.todo = q
      BY <1>2, <2>2, <2>4 DEF Call
    <2>6. caller' = [caller EXCEPT ![c] = k]
      BY <1>1, <1>5, <2>1, <2>2, <2>4
    <2>7. Proper(c, k) /\ \A n : ~Looked(k, n)
      BY <2>3, <2>5 DEF Proper, Busy, Waiting, Looked
    <2>8. Apart(c, k)
      BY <1>1, <1>2, <2>5 DEF Apart
    <2> QED BY <2>5, <2>6, <2>7, <2>8 DEF Moves
  <1>6. Compatible[c] \subseteq Models
    BY QuotaConstants
  <1> QED BY <1>1, <1>4, <1>5, <1>6 DEF Look

LEMMA NextModelMoves ==
    ASSUME QuotaTypeOK, Calls, NEW c \in Callers, NextModel(c) PROVE \E k \in Call : Moves(c, k)
  <1>1. PICK r \in Call : r = caller[c]
    BY CallerTyped
  <1>2. PICK m, rest : m = Head(r.todo) /\ rest = Tail(r.todo)
    OBVIOUS
  <1>3. /\ r.at \in {"route", "next"} /\ r.todo # <<>> /\ r.todo \in Seq(Models)
        /\ r.kind = "walk"
    BY <1>1, CallFields DEF NextModel, Walks
  <1>4. /\ m \in Models /\ rest \in Seq(Models) /\ Len(rest) = Len(r.todo) - 1
        /\ \A i \in 1..Len(rest) : rest[i] = r.todo[i + 1]
    BY <1>2, <1>3, HeadTailProperties
  <1>5. /\ DOMAIN rest = 1..Len(rest) /\ DOMAIN r.todo = 1..Len(r.todo)
        /\ Len(r.todo) \in Nat /\ Len(r.todo) # 0 /\ m = r.todo[1]
    BY <1>2, <1>3, <1>4, LenProperties, EmptySeq
  <1>6. 1 \in DOMAIN r.todo /\ \A i \in DOMAIN rest : i + 1 \in DOMAIN r.todo /\ i + 1 # 1 /\ i \in Int
    BY <1>4, <1>5
  <1>7. Members(rest) \cup {m} \subseteq Members(r.todo)
    BY <1>4, <1>5, <1>6 DEF Members
  <1>8. Distinct(r.todo)
    BY <1>1 DEF Calls, Proper
  <1>9. Distinct(rest) /\ m \notin Members(rest)
    <2>1. ASSUME NEW i \in DOMAIN rest, NEW j \in DOMAIN rest, rest[i] = rest[j] PROVE i = j
      <3>1. r.todo[i + 1] = r.todo[j + 1]
        BY <1>4, <1>5, <2>1
      <3>2. i + 1 = j + 1
        BY <1>6, <1>8, <3>1 DEF Distinct
      <3> QED BY <1>6, <3>2
    <2>2. ASSUME NEW i \in DOMAIN rest PROVE rest[i] # m
      <3>1. rest[i] = r.todo[i + 1]
        BY <1>4, <1>5
      <3> QED BY <1>5, <1>6, <1>8, <3>1 DEF Distinct
    <2> QED BY <2>1, <2>2 DEF Distinct, Members
  <1>10. PICK k1 : k1 = [r EXCEPT !.model = m, !.todo = rest]
    OBVIOUS
  <1>11. k1 \in Call /\ k1.at = r.at /\ k1.model = m /\ k1.todo = rest /\ k1.kind = "walk"
    BY <1>3, <1>4, <1>10 DEF Call
  <1>12. ASSUME NEW at \in {"next", "slot", "prepare"}
         PROVE  \E k \in Call : /\ k = [k1 EXCEPT !.at = at] /\ k.kind = "walk"
                               /\ k.at = at /\ k.model = m /\ k.todo = rest
    <2>1. at \in CallPoints
      BY DEF CallPoints
    <2>2. PICK k \in Call : /\ k = [k1 EXCEPT !.at = at] /\ k.at = at /\ k.model = k1.model
                            /\ k.todo = k1.todo /\ k.time = k1.time /\ k.kind = k1.kind
      BY <1>11, <2>1, PointSet
    <2> QED BY <1>11, <2>2
  <1>13. CASE /\ Cooling(m) /\ caller' = [caller EXCEPT ![c] = [k1 EXCEPT !.at = "next"]]
              /\ slots' = slots
    <2>1. PICK k \in Call : /\ k = [k1 EXCEPT !.at = "next"] /\ k.kind = "walk"
                            /\ k.at = "next" /\ k.model = m /\ k.todo = rest
      BY <1>12
    <2>2. Proper(c, k)
      BY <1>9, <2>1 DEF Proper, Busy, Waiting
    <2>3. Asks(k) \subseteq Asks(r) /\ \A n : ~Looked(k, n)
      BY <1>3, <1>7, <2>1 DEF Asks, Looked, Waiting
    <2>4. Apart(c, k)
      BY <1>1, <1>3, <1>13, <2>1 DEF Apart, NextModel
    <2>5. caller' = [caller EXCEPT ![c] = k]
      BY <1>13, <2>1
    <2> QED BY <1>1, <2>2, <2>3, <2>4, <2>5 DEF Moves
  <1>14. CASE /\ ~Cooling(m) /\ c \in Slotted
              /\ caller' = [caller EXCEPT ![c] = [k1 EXCEPT !.at = "slot"]]
              /\ slots' = [slots EXCEPT ![m] = Append(@, c)]
    <2>1. PICK k \in Call : /\ k = [k1 EXCEPT !.at = "slot"] /\ k.kind = "walk"
                            /\ k.at = "slot" /\ k.model = m /\ k.todo = rest
      BY <1>12
    <2>2. Proper(c, k)
      BY <1>4, <1>9, <1>14, <2>1 DEF Proper, Busy, Waiting
    <2>3. Asks(k) \subseteq Asks(r) /\ \A n : ~Looked(k, n)
      BY <1>3, <1>4, <1>7, <2>1 DEF Asks, Looked
    <2>4. TakesPlace(c, k)
      BY <1>1, <1>3, <1>4, <1>14, <2>1 DEF TakesPlace, NextModel
    <2>5. caller' = [caller EXCEPT ![c] = k]
      BY <1>14, <2>1
    <2> QED BY <1>1, <2>2, <2>3, <2>4, <2>5 DEF Moves
  <1>15. CASE /\ ~Cooling(m) /\ c \in Texts
              /\ caller' = [caller EXCEPT ![c] = [k1 EXCEPT !.at = "prepare"]]
              /\ slots' = slots
    <2>1. PICK k \in Call : /\ k = [k1 EXCEPT !.at = "prepare"] /\ k.kind = "walk"
                            /\ k.at = "prepare" /\ k.model = m /\ k.todo = rest
      BY <1>12
    <2>2. Proper(c, k)
      BY <1>4, <1>9, <1>15, <2>1 DEF Proper, Busy, Waiting
    <2>3. Asks(k) \subseteq Asks(r)
      BY <1>3, <1>4, <1>7, <2>1 DEF Asks
    <2>4. \A n : Looked(k, n) => n = m
      BY <2>1 DEF Looked
    <2>5. Apart(c, k)
      BY <1>1, <1>3, <1>15, <2>1 DEF Apart, NextModel
    <2>6. caller' = [caller EXCEPT ![c] = k]
      BY <1>15, <2>1
    <2> QED BY <1>1, <1>15, <2>2, <2>3, <2>4, <2>5, <2>6 DEF Moves
  <1>16. [caller[c] EXCEPT !.model = Head(caller[c].todo), !.todo = Tail(@)] = k1
    BY <1>1, <1>2, <1>10
  <1> QED BY <1>1, <1>2, <1>13, <1>14, <1>15, <1>16 DEF NextModel

LEMMA DeadlineTyped == QuotaTypeOK => Deadline \in Nat
  BY NowTyped, QuotaConstants DEF Deadline

\* A call joins the queue for the lock, from its slot or its preparation, or as a direct one.
LEMMA JoinMoves ==
    ASSUME QuotaTypeOK, NEW c \in Callers, NEW r \in Call, JoinLock(c, r), slots' = slots,
           Distinct(r.todo), r.model \in Models, r.model \notin Members(r.todo),
           r.kind = "fixed" \/ Members(r.todo) \cup {r.model} \subseteq Asks(caller[c]),
           \/ caller[c].at \in {"idle", "route"} /\ r.kind # "walk"
           \/ /\ r = caller[c]
              /\ \/ caller[c].at = "prepare"
                 \/ /\ caller[c].at = "slot" /\ HasSlot(c, caller[c].model)
                    /\ ~Cooling(caller[c].model)
    PROVE  \E k \in Call : Moves(c, k)
  <1>1. "lock" \in CallPoints
    BY DEF CallPoints
  <1>2. PICK n : n \in Nat /\ n = Deadline
    BY DeadlineTyped
  <1>3. PICK k : k = [r EXCEPT !.at = "lock", !.time = n]
    OBVIOUS
  <1>4. k \in Call /\ k.at = "lock" /\ k.model = r.model /\ k.todo = r.todo /\ k.kind = r.kind
    BY <1>1, <1>2, <1>3 DEF Call
  <1>5. caller' = [caller EXCEPT ![c] = k]
    BY <1>2, <1>3 DEF JoinLock
  <1>6. Proper(c, k)
    BY <1>4 DEF Proper
  <1>7. Asks(k) \subseteq Asks(caller[c])
    BY <1>4 DEF Asks
  <1>8. \A m \in Models : Looked(k, m) => Looked(caller[c], m) \/ ~Cooling(m)
    BY <1>4 DEF Looked
  <1>9. TakesLock(c, k)
    BY <1>4 DEF TakesLock, JoinLock
  <1> QED BY <1>4, <1>5, <1>6, <1>7, <1>8, <1>9 DEF Moves

LEMMA JoinWalks ==
    ASSUME QuotaTypeOK, Calls, NEW c \in Callers, JoinLock(c, caller[c]), slots' = slots,
           \/ caller[c].at = "prepare"
           \/ /\ caller[c].at = "slot" /\ HasSlot(c, caller[c].model)
              /\ ~Cooling(caller[c].model)
    PROVE  \E k \in Call : Moves(c, k)
  <1>1. PICK r \in Call : r = caller[c]
    BY CallerTyped
  <1>2. /\ Distinct(r.todo) /\ r.model \in Models /\ r.model \notin Members(r.todo)
        /\ r.at \in Waiting /\ r.kind = "walk"
    BY <1>1 DEF Calls, Proper, Busy, Waiting
  <1>3. Members(r.todo) \cup {r.model} \subseteq Asks(r)
    BY <1>2 DEF Asks
  <1> QED BY <1>1, <1>2, <1>3, JoinMoves

LEMMA MovesToFinish ==
    ASSUME QuotaTypeOK, Calls, NEW c \in Callers, Goes(c, "finish"), lock' = lock, slots' = slots,
           \/ caller[c].at = "prepare"
           \/ caller[c].at = "sent" /\ c \in Texts /\ caller[c].kind = "walk"
    PROVE  \E k \in Call : Moves(c, k)
  <1>1. PICK r \in Call : r = caller[c]
    BY CallerTyped
  <1>2. "finish" \in CallPoints
    BY DEF CallPoints
  <1>3. PICK k \in Call : /\ k = [r EXCEPT !.at = "finish"] /\ k.kind = r.kind
                          /\ k.at = "finish" /\ k.model = r.model /\ k.todo = r.todo
    BY <1>2, PointSet
  <1>4. caller' = [caller EXCEPT ![c] = k]
    BY <1>1, <1>3 DEF Goes
  <1>5. Proper(c, k)
    BY <1>1, <1>3 DEF Calls, Proper, Busy, Waiting
  <1>6. Asks(k) \subseteq Asks(r) /\ \A m : ~Looked(k, m)
    BY <1>3 DEF Asks, Looked, Waiting
  <1>7. Apart(c, k)
    BY <1>1, <1>3 DEF Apart
  <1> QED BY <1>1, <1>4, <1>5, <1>6, <1>7 DEF Moves

LEMMA InSlotMoves ==
    ASSUME QuotaTypeOK, Calls, NEW c \in Callers, InSlot(c) PROVE \E k \in Call : Moves(c, k)
  <1>1. caller[c].at = "slot" /\ HasSlot(c, caller[c].model) /\ caller[c].at \in Busy
    BY DEF InSlot, Busy, Waiting
  <1>2. CASE Refused(caller[c].model)
    <2>1. Leave(c) /\ Goes(c, "next")
      BY <1>2 DEF InSlot
    <2> QED BY <1>1, <2>1, MovesToNext
  <1>3. CASE ~Refused(caller[c].model)
    <2>1. JoinLock(c, caller[c]) /\ slots' = slots /\ ~Cooling(caller[c].model)
      BY <1>3 DEF InSlot, Refused
    <2> QED BY <1>1, <2>1, JoinWalks
  <1> QED BY <1>2, <1>3

LEMMA PreparedMoves ==
    ASSUME QuotaTypeOK, Calls, NEW c \in Callers, Prepared(c) PROVE \E k \in Call : Moves(c, k)
  <1>1. caller[c].at = "prepare" /\ slots' = slots
    BY DEF Prepared
  <1>2. CASE JoinLock(c, caller[c])
    BY <1>1, <1>2, JoinWalks
  <1>3. CASE Goes(c, "finish") /\ UNCHANGED lock
    BY <1>1, <1>3, MovesToFinish
  <1> QED BY <1>2, <1>3 DEF Prepared

LEMMA AsksFirstMoves ==
    ASSUME QuotaTypeOK, Calls, NEW c \in Callers, AsksFirst(c) PROVE \E k \in Call : Moves(c, k)
  <1>1. PICK r \in Call : r = caller[c]
    BY CallerTyped
  <1>2. /\ r.at = "route" /\ r.kind # "walk" /\ slots' = slots
        /\ r.todo # <<>> /\ r.todo \in Seq(Models)
    BY <1>1, CallFields DEF AsksFirst, Walks
  <1>3. PICK m \in Models : m = Head(r.todo) /\ 1 \in DOMAIN r.todo /\ m = r.todo[1]
    <2>1. Head(r.todo) \in Models /\ Head(r.todo) = r.todo[1] /\ 1 \in DOMAIN r.todo
      BY <1>2, HeadTailProperties, LenProperties, EmptySeq
    <2> QED BY <2>1
  <1>4. CASE JoinLock(c, [caller[c] EXCEPT !.model = Head(caller[c].todo), !.todo = <<>>])
    <2>1. PICK empty \in Seq(Models) : empty = <<>>
      BY EmptySeq
    <2>2. PICK k : k = [r EXCEPT !.model = m, !.todo = empty]
      OBVIOUS
    <2>3. k \in Call /\ k.model = m /\ k.todo = empty /\ k.kind = r.kind
      BY <1>3, <2>1, <2>2 DEF Call
    <2>4. JoinLock(c, k)
      BY <1>1, <1>3, <1>4, <2>1, <2>2
    <2>5. Members(empty) = {} /\ Distinct(empty)
      BY <2>1 DEF Members, Distinct
    <2>6. m \in Members(r.todo)
      BY <1>3 DEF Members
    <2>7. k.kind = "fixed" \/ Members(k.todo) \cup {k.model} \subseteq Asks(caller[c])
      BY <1>1, <2>3, <2>5, <2>6 DEF Asks
    <2> QED BY <1>1, <1>2, <2>3, <2>4, <2>5, <2>7, JoinMoves
  <1>5. CASE caller' = [caller EXCEPT ![c] = Idle] /\ UNCHANGED lock
    BY <1>1, <1>2, <1>5, MovesToIdle
  <1> QED BY <1>4, <1>5 DEF AsksFirst

LEMMA SynthesizeMoves ==
    ASSUME QuotaTypeOK, NEW c \in Callers, Synthesize(c) PROVE \E k \in Call : Moves(c, k)
  <1>1. PICK m \in Models : JoinLock(c, [Idle EXCEPT !.model = m, !.kind = "fixed"])
    <2>1. Compatible[c] \subseteq Models
      BY QuotaConstants
    <2> QED BY <2>1 DEF Synthesize
  <1>2. PICK k : k = [Idle EXCEPT !.model = m, !.kind = "fixed"]
    OBVIOUS
  <1>3. Idle \in Call /\ "fixed" \in CallKinds
    BY IdleTyped DEF CallKinds
  <1>4. k \in Call /\ k.model = m /\ k.kind = "fixed" /\ k.todo = Idle.todo
    BY <1>2, <1>3 DEF Call
  <1>5. Members(k.todo) = {} /\ Distinct(k.todo)
    BY <1>4 DEF Idle, Members, Distinct
  <1>6. caller[c].at = "idle" /\ slots' = slots
    BY DEF Synthesize
  <1> QED BY <1>1, <1>2, <1>4, <1>5, <1>6, JoinMoves

LEMMA SendMoves ==
    ASSUME QuotaTypeOK, Calls, NEW c \in Callers, caller[c].at \in {"lock", "sleep"},
           NEW x, Send(c, caller[c].model, x)
    PROVE  \E k \in Call : Moves(c, k) /\ GetsThrough(c, k)
  <1>1. PICK r \in Call : r = caller[c]
    BY CallerTyped
  <1>2. "sent" \in CallPoints
    BY DEF CallPoints
  <1>3. PICK n : n \in Nat /\ n = 0
    OBVIOUS
  <1>4. PICK k : k = [r EXCEPT !.at = "sent", !.time = n]
    OBVIOUS
  <1>5. k \in Call /\ k.at = "sent" /\ k.model = r.model /\ k.todo = r.todo /\ k.kind = r.kind
    BY <1>2, <1>3, <1>4 DEF Call
  <1>6. caller' = [caller EXCEPT ![c] = k]
    BY <1>1, <1>3, <1>4 DEF Send
  <1>7. Proper(c, k) /\ r.model \notin Members(r.todo)
    BY <1>1, <1>5 DEF Calls, Proper, Busy, Waiting
  <1>8. Asks(k) \subseteq Members(r.todo) /\ Asks(k) \subseteq Asks(r)
    BY <1>5 DEF Asks, Waiting
  <1>9. \A m \in Models : ~Looked(k, m)
    BY <1>5 DEF Looked
  <1>10. GetsThrough(c, k)
    BY <1>1, <1>5, <1>7, <1>8 DEF GetsThrough, Send
  <1> QED BY <1>1, <1>5, <1>6, <1>7, <1>8, <1>9, <1>10 DEF Moves

LEMMA SleepsMoves ==
    ASSUME QuotaTypeOK, Calls, NEW c \in Callers, caller[c].at \in {"lock", "sleep"},
           caller[c].at = "lock" => HasLock(c), NEW x, Sleeps(c, caller[c].model, x, caller[c].time)
    PROVE  \E k \in Call : Moves(c, k)
  <1>1. PICK r \in Call : r = caller[c]
    BY CallerTyped
  <1>2. "sleep" \in CallPoints /\ r.time \in Nat
    BY CallFields DEF CallPoints
  <1>3. PICK k : k = [r EXCEPT !.at = "sleep", !.time = r.time]
    OBVIOUS
  <1>4. k \in Call /\ k.at = "sleep" /\ k.model = r.model /\ k.todo = r.todo /\ k.kind = r.kind
    BY <1>2, <1>3 DEF Call
  <1>5. caller' = [caller EXCEPT ![c] = k]
    BY <1>1, <1>3 DEF Sleeps
  <1>6. Proper(c, k)
    BY <1>1, <1>4 DEF Calls, Proper, Busy, Waiting
  <1>7. Asks(k) \subseteq Asks(r)
    BY <1>1, <1>4 DEF Asks, Waiting
  <1>8. \A m \in Models : Looked(k, m) => Looked(r, m)
    BY <1>1, <1>4 DEF Looked
  <1>9. KeepsLock(c, k)
    BY <1>1, <1>4 DEF KeepsLock, Sleeps
  <1> QED BY <1>1, <1>4, <1>5, <1>6, <1>7, <1>8, <1>9 DEF Moves

\* After a refusal a walk goes on and a direct call ends.
LEMMA RefusalMoves ==
    ASSUME QuotaTypeOK, Calls, NEW c \in Callers, caller[c].at \in Busy, Leave(c),
           NEW m, NEW span, Refusal(c, m, span)
    PROVE  \E k \in Call : Moves(c, k)
  <1>1. CASE Walks(c)
    <2>1. Goes(c, "next")
      BY <1>1 DEF Refusal
    <2> QED BY <2>1, MovesToNext
  <1>2. CASE ~Walks(c)
    <2>1. caller' = [caller EXCEPT ![c] = Idle]
      BY <1>2 DEF Refusal
    <2> QED BY <2>1, MovesToIdle
  <1> QED BY <1>1, <1>2

LEMMA AttemptMoves ==
    ASSUME QuotaTypeOK, Calls, NEW c \in Callers, caller[c].at \in {"lock", "sleep"},
           caller[c].at = "lock" => HasLock(c), NEW x, Attempt(c, x)
    PROVE  \E k \in Call : Moves(c, k)
  <1>1. \/ Send(c, caller[c].model, x)
        \/ TimesOut(c, caller[c].model, x)
        \/ Sleeps(c, caller[c].model, x, caller[c].time)
    BY DEF Attempt
  <1>2. CASE Send(c, caller[c].model, x)
    BY <1>2, SendMoves
  <1>3. CASE TimesOut(c, caller[c].model, x)
    <2>1. Leave(c) /\ Refusal(c, caller[c].model, Short) /\ caller[c].at \in Busy
      BY <1>3 DEF TimesOut, Busy, Waiting
    <2> QED BY <2>1, RefusalMoves
  <1>4. CASE Sleeps(c, caller[c].model, x, caller[c].time)
    BY <1>4, SleepsMoves
  <1> QED BY <1>1, <1>2, <1>3, <1>4

LEMMA AnsweredMoves ==
    ASSUME QuotaTypeOK, Calls, NEW c \in Callers, Answered(c) PROVE \E k \in Call : Moves(c, k)
  <1>1. caller[c].at = "sent" /\ caller[c].at \in Busy
    BY DEF Answered, Busy
  <1>2. CASE Succeeds(c) \/ (Leave(c) /\ caller' = [caller EXCEPT ![c] = Idle])
    <2>1. Leave(c) /\ caller' = [caller EXCEPT ![c] = Idle]
      BY <1>2 DEF Succeeds
    <2> QED BY <1>1, <2>1, MovesToIdle
  <1>3. CASE Walks(c) /\ c \in Texts /\ Goes(c, "finish") /\ UNCHANGED <<slots, lock>>
    BY <1>1, <1>3, MovesToFinish DEF Walks
  <1> QED BY <1>2, <1>3 DEF Answered

LEMMA FailsMoves ==
    ASSUME QuotaTypeOK, Calls, NEW c \in Callers, Fails(c) PROVE \E k \in Call : Moves(c, k)
  <1>1. caller[c].at \in Busy /\ Leave(c)
    BY DEF Fails, Busy
  <1>2. CASE caller' = [caller EXCEPT ![c] = Idle]
    BY <1>1, <1>2, MovesToIdle
  <1>3. CASE Goes(c, "next")
    BY <1>1, <1>3, MovesToNext
  <1> QED BY <1>2, <1>3 DEF Fails

\* Whatever a caller does, it moves in one of these ways.
LEMMA StepMoves ==
    ASSUME QuotaTypeOK, Calls, NEW c \in Callers,
           Route(c) \/ Synthesize(c) \/ Step(c) \/ CallCancelled(c)
    PROVE  \E k \in Call : Moves(c, k)
  <1>1. CASE Route(c)
    BY <1>1, RouteMoves
  <1>2. CASE Synthesize(c)
    BY <1>2, SynthesizeMoves
  <1>3. CASE Look(c)
    BY <1>3, LookMoves
  <1>4. CASE GivesUp(c)
    BY <1>4, MovesToIdle DEF GivesUp
  <1>5. CASE NextModel(c)
    BY <1>5, NextModelMoves
  <1>6. CASE InSlot(c)
    BY <1>6, InSlotMoves
  <1>7. CASE Prepared(c)
    BY <1>7, PreparedMoves
  <1>8. CASE AsksFirst(c)
    BY <1>8, AsksFirstMoves
  <1>9. CASE Acquire(c)
    BY <1>9, AttemptMoves DEF Acquire
  <1>10. CASE Wakes(c)
    BY <1>10, AttemptMoves DEF Wakes
  <1>11. CASE Limited(c)
    <2>1. /\ caller[c].at \in Busy /\ Leave(c)
          /\ \E span \in {Short, Long} : Refusal(c, caller[c].model, span)
      BY <1>11 DEF Limited, Busy
    <2> QED BY <2>1, RefusalMoves
  <1>12. CASE Answered(c)
    BY <1>12, AnsweredMoves
  <1>13. CASE Finished(c)
    <2>1. caller[c].at \in Busy /\ Leave(c) /\ caller' = [caller EXCEPT ![c] = Idle]
      BY <1>13 DEF Finished, Succeeds, Busy
    <2> QED BY <2>1, MovesToIdle
  <1>14. CASE Fails(c)
    BY <1>14, FailsMoves
  <1>15. CASE CallCancelled(c)
    <2>1. /\ caller[c].at \in Busy \cup {"route"} /\ Leave(c)
          /\ caller' = [caller EXCEPT ![c] = Idle]
      BY <1>15 DEF CallCancelled, Busy, Waiting
    <2> QED BY <2>1, MovesToIdle
  <1> QED BY <1>1, <1>2, <1>3, <1>4, <1>5, <1>6, <1>7, <1>8, <1>9, <1>10, <1>11, <1>12,
             <1>13, <1>14, <1>15 DEF Step

\* The part of the state that does not wait in a queue.
BooksTyped ==
    /\ now \in 0..MaxTime /\ restarts \in 0..MaxRestarts
    /\ meter \in Meter /\ file \in Meter
    /\ window \in [Models -> Seq(Nat)] /\ recent \in [Models -> Seq(Nat)]
    /\ until \in [Models -> Nat]
    /\ today \in [Models -> Nat] /\ unrouted \in [Models -> Nat] /\ after \in [Models -> Nat]
    /\ taught \subseteq Models

LEMMA QueuesMove ==
    ASSUME QuotaTypeOK, Calls, NEW c \in Callers, NEW k \in Call, Moves(c, k)
    PROVE  /\ caller' \in [Callers -> Call] /\ Calls'
           /\ lock' \in Seq(Callers) /\ slots' \in [Models -> Seq(Callers)]
  <1>1. caller' = [caller EXCEPT ![c] = k] /\ Proper(c, k)
    BY DEF Moves
  <1>2. caller' \in [Callers -> Call]
    BY <1>1 DEF QuotaTypeOK
  <1>3. Calls'
    <2> SUFFICES ASSUME NEW d \in Callers PROVE Proper(d, caller[d])'
      BY DEF Calls
    <2>1. caller'[d] = IF d = c THEN k ELSE caller[d]
      BY <1>1 DEF QuotaTypeOK
    <2>2. Proper(d, caller'[d])
      BY <1>1, <2>1 DEF Calls
    <2> QED BY <2>2 DEF Proper
  <1>4. \A d : Append(lock, c) \in Seq(Callers) /\ Leaving(d, lock) \in Seq(Callers)
    BY QueuesTyped, AppendProperties, LeavingType
  <1>5. lock' \in Seq(Callers)
    BY <1>4, QueuesTyped
    DEF Moves, Apart, TakesPlace, TakesLock, KeepsLock, GetsThrough, GoesAway
  <1>6. \A d, m \in Models : Append(slots[m], c) \in Seq(Callers)
    BY QueuesTyped, AppendProperties
  <1>7. \A m \in Models : Leaving(c, slots[m]) \in Seq(Callers)
    BY QueuesTyped, LeavingType
  <1>8. [m \in Models |-> Leaving(c, slots[m])] \in [Models -> Seq(Callers)]
    BY <1>7
  <1>9. \A m \in Models : [slots EXCEPT ![m] = Append(@, c)] \in [Models -> Seq(Callers)]
    BY <1>6 DEF QuotaTypeOK
  <1>10. slots \in [Models -> Seq(Callers)]
    BY DEF QuotaTypeOK
  <1>11. slots' \in [Models -> Seq(Callers)]
    BY <1>8, <1>9, <1>10
    DEF Moves, Apart, TakesPlace, TakesLock, KeepsLock, GetsThrough, GoesAway
  <1> QED BY <1>2, <1>3, <1>5, <1>11

LEMMA CooldownTyped ==
    ASSUME QuotaTypeOK, NEW m \in Models, NEW span \in Nat, CoolDown(m, span)
    PROVE  until' \in [Models -> Nat] /\ after' \in [Models -> Nat]
  <1>1. until \in [Models -> Nat] /\ after \in [Models -> Nat]
    BY DEF QuotaTypeOK
  <1>2. until[m] \in Nat /\ now + span \in Nat
    BY <1>1, NowTyped
  <1>3. Longer(m, span) \in Nat
    BY <1>2 DEF Longer
  <1> QED BY <1>1, <1>3 DEF CoolDown

LEMMA RefusalTyped ==
    ASSUME QuotaTypeOK, NEW c, NEW m \in Models, NEW span \in Nat, Refusal(c, m, span)
    PROVE  until' \in [Models -> Nat] /\ after' \in [Models -> Nat]
  <1>1. CASE Walks(c)
    BY <1>1, CooldownTyped DEF Refusal
  <1>2. CASE ~Walks(c)
    BY <1>2 DEF Refusal, QuotaTypeOK
  <1> QED BY <1>1, <1>2

LEMMA RememberedTyped ==
    ASSUME QuotaTypeOK, NEW m \in Models
    PROVE  Remembered(m) \in Seq(Nat) /\ [window EXCEPT ![m] = Remembered(m)] \in [Models -> Seq(Nat)]
  <1>1. window \in [Models -> Seq(Nat)] /\ window[m] \in Seq(Nat)
    BY DEF QuotaTypeOK
  <1>2. Remembered(m) \in Seq(Nat)
    BY <1>1, NowTyped, LastMinuteType DEF Remembered
  <1> QED BY <1>1, <1>2

LEMMA AttemptBooks ==
    ASSUME QuotaTypeOK, NEW c \in Callers, caller[c].model \in Models, NEW x \in Meter,
           Attempt(c, x), UNCHANGED <<now, restarts, taught>>
    PROVE  BooksTyped'
  <1>1. PICK m \in Models : m = caller[c].model
    OBVIOUS
  <1>2. Remembered(m) \in Seq(Nat) /\ [window EXCEPT ![m] = Remembered(m)] \in [Models -> Seq(Nat)]
    BY RememberedTyped
  <1>3. CASE Send(c, m, x)
    <2>1. meter' = Counted(x, m) /\ file' = Counted(x, m)
      BY <1>3 DEF Send, Counted
    <2>2. meter' \in Meter /\ file' \in Meter
      BY <2>1, CountedTyped
    <2>3. Append(Remembered(m), now) \in Seq(Nat)
      BY <1>2, NowTyped, AppendProperties
    <2>4. window' \in [Models -> Seq(Nat)]
      BY <1>3, <2>3 DEF Send, QuotaTypeOK
    <2>5. recent[m] \in Seq(Nat)
      BY DEF QuotaTypeOK
    <2>6. Append(recent[m], now) \in Seq(Nat)
      BY <2>5, NowTyped, AppendProperties
    <2>7. recent' \in [Models -> Seq(Nat)]
      BY <1>3, <2>6 DEF Send, QuotaTypeOK
    <2>8. today[m] + 1 \in Nat /\ after[m] + 1 \in Nat
      <3>1. today[m] \in Nat /\ after[m] \in Nat
        BY DEF QuotaTypeOK
      <3> QED BY <3>1
    <2>9. today' \in [Models -> Nat]
      BY <1>3, <2>8 DEF Send, QuotaTypeOK
    <2>10. after' \in [Models -> Nat]
      BY <1>3, <2>8 DEF Send, QuotaTypeOK
    <2>11. until' \in [Models -> Nat]
      BY <1>3 DEF Send, QuotaTypeOK
    <2>12. unrouted[m] + 1 \in Nat
      <3>1. unrouted[m] \in Nat
        BY DEF QuotaTypeOK
      <3> QED BY <3>1
    <2>13. unrouted' \in [Models -> Nat]
      BY <1>3, <2>12 DEF Send, QuotaTypeOK
    <2> QED BY <2>2, <2>4, <2>7, <2>9, <2>10, <2>11, <2>13 DEF BooksTyped, QuotaTypeOK
  <1>4. CASE TimesOut(c, m, x)
    <2>1. until' \in [Models -> Nat] /\ after' \in [Models -> Nat]
      BY <1>4, RefusalTyped, QuotaConstants DEF TimesOut
    <2> QED BY <1>2, <1>4, <2>1 DEF TimesOut, BooksTyped, QuotaTypeOK
  <1>5. CASE Sleeps(c, m, x, caller[c].time)
    BY <1>2, <1>5 DEF Sleeps, BooksTyped, QuotaTypeOK
  <1> QED BY <1>1, <1>3, <1>4, <1>5 DEF Attempt

LEMMA SucceedsBooks ==
    ASSUME QuotaTypeOK, NEW c \in Callers, caller[c].model \in Models, Succeeds(c)
    PROVE  until' \in [Models -> Nat] /\ after' \in [Models -> Nat]
  BY DEF Succeeds, QuotaTypeOK

LEMMA LimitedBooks ==
    ASSUME QuotaTypeOK, NEW c \in Callers, caller[c].model \in Models, Limited(c)
    PROVE  BooksTyped'
  <1>1. PICK m \in Models : m = caller[c].model
    OBVIOUS
  <1>2. until' \in [Models -> Nat] /\ after' \in [Models -> Nat]
    BY <1>1, RefusalTyped, QuotaConstants DEF Limited
  <1>3. Clamped(Rolled, m) \in Meter
    BY MeterTyped, ClampedTyped
  <1>4. meter' \in Meter /\ file' \in Meter /\ taught' \subseteq Models
    BY <1>1, <1>3 DEF Limited, Teaches, QuotaTypeOK
  <1> QED BY <1>2, <1>4 DEF Limited, BooksTyped, QuotaTypeOK

LEMMA StepBooks ==
    ASSUME QuotaTypeOK, Calls, NEW c \in Callers,
           Route(c) \/ Synthesize(c) \/ Step(c) \/ CallCancelled(c)
    PROVE  BooksTyped'
  <1>1. BooksTyped
    BY DEF QuotaTypeOK, BooksTyped
  <1>2. caller[c].at \in Busy => caller[c].model \in Models
    BY DEF Calls, Proper
  <1>3. CASE Look(c)
    BY <1>1, <1>3, MeterTyped DEF Look, past, BooksTyped
  <1>4. CASE \/ Route(c) \/ Synthesize(c) \/ GivesUp(c) \/ NextModel(c) \/ InSlot(c)
             \/ Prepared(c) \/ AsksFirst(c) \/ Fails(c) \/ CallCancelled(c)
    BY <1>1, <1>4 DEF Route, Synthesize, GivesUp, NextModel, InSlot, Prepared, AsksFirst, Fails,
                      CallCancelled, past, BooksTyped
  <1>5. CASE Acquire(c)
    BY <1>2, <1>5, MeterTyped, AttemptBooks DEF Acquire, Busy, Waiting
  <1>6. CASE Wakes(c)
    <2>1. meter \in Meter
      BY DEF QuotaTypeOK
    <2> QED BY <1>2, <1>6, <2>1, AttemptBooks DEF Wakes, Busy, Waiting
  <1>7. CASE Limited(c)
    BY <1>2, <1>7, LimitedBooks DEF Limited, Busy
  <1>8. CASE Answered(c) \/ Finished(c)
    <2>1. Succeeds(c) \/ UNCHANGED <<until, after>>
      BY <1>8 DEF Answered, Finished
    <2>2. caller[c].model \in Models
      BY <1>2, <1>8 DEF Answered, Finished, Busy
    <2>3. until' \in [Models -> Nat] /\ after' \in [Models -> Nat]
      BY <1>1, <2>1, <2>2, SucceedsBooks DEF BooksTyped
    <2> QED BY <1>1, <1>8, <2>3 DEF Answered, Finished, BooksTyped
  <1> QED BY <1>3, <1>4, <1>5, <1>6, <1>7, <1>8 DEF Step

LEMMA TickTypes == ASSUME QuotaTypeOK, Calls, Tick PROVE QuotaTypeOK' /\ Calls'
  <1>1. \A m \in Models : LastMinute(recent[m], now + 1) \in Seq(Nat)
    BY NowTyped, LastMinuteType DEF QuotaTypeOK
  <1>2. recent' \in [Models -> Seq(Nat)]
    BY <1>1 DEF Tick
  <1>3. now' \in 0..MaxTime
    BY NowTyped, QuotaConstants DEF Tick, QuotaTypeOK
  <1>4. today' \in [Models -> Nat] /\ unrouted' \in [Models -> Nat] /\ taught' \subseteq Models
    BY DEF Tick, QuotaTypeOK
  <1>5. UNCHANGED <<meter, window, lock, slots, until, caller, file, restarts, after>>
    BY DEF Tick, memory
  <1>6. Calls'
    BY <1>5 DEF Calls, Proper
  <1>7. QuotaTypeOK'
    BY <1>2, <1>3, <1>4, <1>5 DEF QuotaTypeOK
  <1> QED BY <1>6, <1>7

LEMMA RestartTypes == ASSUME QuotaTypeOK, Restart PROVE QuotaTypeOK' /\ Calls'
  <1>1. \A S : <<>> \in Seq(S)
    BY EmptySeq
  <1>2. meter' \in Meter
    BY MeterTyped DEF Restart
  <1>3. caller' = [c \in Callers |-> Idle]
    BY DEF Restart
  <1>4. Calls'
    BY <1>3, IdleProper DEF Calls, Proper
  <1>5. restarts' \in 0..MaxRestarts
    BY QuotaConstants DEF Restart, QuotaTypeOK
  <1>6. lock' \in Seq(Callers) /\ slots' \in [Models -> Seq(Callers)] /\ window' \in [Models -> Seq(Nat)]
    BY <1>1 DEF Restart
  <1>7. caller' \in [Callers -> Call]
    BY <1>3, IdleTyped
  <1>8. until' \in [Models -> Nat] /\ after' \in [Models -> Nat]
    BY DEF Restart
  <1> QED BY <1>2, <1>4, <1>5, <1>6, <1>7, <1>8 DEF Restart, QuotaTypeOK

LEMMA QuotaTypesInit == QuotaInit => QuotaTypeOK /\ Calls
  <1> SUFFICES ASSUME QuotaInit PROVE QuotaTypeOK /\ Calls
    OBVIOUS
  <1>1. \A S : <<>> \in Seq(S)
    BY EmptySeq
  <1>2. now \in 0..MaxTime /\ now \in Nat /\ Day(now) \in Nat /\ restarts \in 0..MaxRestarts
    BY QuotaConstants, DayAdvances DEF QuotaInit
  <1>3. meter \in Meter /\ file \in Meter
    BY <1>2 DEF QuotaInit, NewDay, Meter
  <1>4. Calls
    BY IdleProper DEF QuotaInit, Calls
  <1>5. caller \in [Callers -> Call]
    BY IdleTyped DEF QuotaInit
  <1> QED BY <1>1, <1>2, <1>3, <1>4, <1>5 DEF QuotaInit, QuotaTypeOK

LEMMA QuotaTypesStep == QuotaTypeOK /\ Calls /\ [QuotaNext]_quotaVars => QuotaTypeOK' /\ Calls'
  <1> SUFFICES ASSUME QuotaTypeOK, Calls, [QuotaNext]_quotaVars PROVE QuotaTypeOK' /\ Calls'
    OBVIOUS
  <1>1. ASSUME NEW c \in Callers, Route(c) \/ Synthesize(c) \/ Step(c) \/ CallCancelled(c)
        PROVE  QuotaTypeOK' /\ Calls'
    <2>1. PICK k \in Call : Moves(c, k)
      BY <1>1, StepMoves
    <2>2. BooksTyped'
      BY <1>1, StepBooks
    <2> QED BY <2>1, <2>2, QueuesMove DEF QuotaTypeOK, BooksTyped
  <1>2. CASE UNCHANGED quotaVars
    BY <1>2 DEF quotaVars, memory, past, QuotaTypeOK, Calls, Proper
  <1> QED BY <1>1, <1>2, TickTypes, RestartTypes DEF QuotaNext

\* Every state of the callers, the meter, the queues and the histories is one the code can
\* hold: the type invariant of ModelQuota.
THEOREM QuotaTypes == QuotaSpec => []QuotaTypeOK
  <1>1. QuotaTypeOK /\ Calls => QuotaTypeOK
    OBVIOUS
  <1> QED BY <1>1, QuotaTypesInit, QuotaTypesStep, PTL DEF QuotaSpec

------------------------------------------------------------------------------
(* The lock and the slots.                                                  *)

\* In the lock's queue are those who wait for it or sleep with it in their hands; the sleeper
\* is at its head.
Locked ==
    /\ Distinct(lock)
    /\ \A c \in Callers : c \in Members(lock) <=> caller[c].at \in {"lock", "sleep"}
    /\ \A c \in Callers : caller[c].at = "sleep" => 1 \in DOMAIN lock /\ lock[1] = c

\* In a model's queue are those who wait for a slot and, in front, those who have one.
Holds(c, q) == \E i \in DOMAIN q : i <= Slots /\ q[i] = c
Slotting ==
    \A m \in Models :
        /\ Distinct(slots[m])
        /\ \A c \in Members(slots[m]) :
             /\ c \in Slotted /\ caller[c].kind = "walk" /\ caller[c].model = m
             /\ caller[c].at \in {"slot", "lock", "sleep", "sent"}
        /\ \A c \in Slotted :
             caller[c].kind = "walk" /\ caller[c].model = m /\ caller[c].at \in {"lock", "sleep", "sent"}
             => Holds(c, slots[m])

LEMMA OneMoves ==
    ASSUME QuotaTypeOK, NEW c \in Callers, NEW k \in Call, Moves(c, k)
    PROVE  caller'[c] = k /\ \A d \in Callers : d # c => caller'[d] = caller[d]
  BY DEF Moves, QuotaTypeOK

LEMMA LockedStep ==
    ASSUME QuotaTypeOK, Locked, NEW c \in Callers, NEW k \in Call, Moves(c, k)
    PROVE  Locked'
  <1>1. caller'[c] = k /\ \A d \in Callers : d # c => caller'[d] = caller[d]
    BY OneMoves
  <1>2. /\ Distinct(lock) /\ lock \in Seq(Callers)
        /\ \A d \in Callers : d \in Members(lock) <=> caller[d].at \in {"lock", "sleep"}
        /\ \A d \in Callers : caller[d].at = "sleep" => 1 \in DOMAIN lock /\ lock[1] = d
    BY QueuesTyped DEF Locked
  <1> SUFFICES /\ Distinct(lock')
               /\ \A d \in Callers : d \in Members(lock') <=> caller'[d].at \in {"lock", "sleep"}
               /\ \A d \in Callers : caller'[d].at = "sleep" => 1 \in DOMAIN lock' /\ lock'[1] = d
    BY DEF Locked, Distinct, Members
  <1>3. CASE Apart(c, k) \/ TakesPlace(c, k)
    <2>1. /\ lock' = lock /\ k.at \notin {"lock", "sleep"} /\ caller[c].at \notin {"lock", "sleep"}
      BY <1>3 DEF Apart, TakesPlace
    <2> QED BY <1>1, <1>2, <2>1
  <1>4. CASE TakesLock(c, k)
    <2>1. lock' = Append(lock, c) /\ k.at = "lock" /\ caller[c].at \notin {"lock", "sleep"}
      BY <1>4 DEF TakesLock
    <2>2. PICK q \in Seq(Callers) : q = lock
      BY <1>2
    <2>3. PICK r \in Seq(Callers) :
            /\ r = Append(q, c) /\ Members(r) = Members(q) \cup {c}
            /\ DOMAIN q \subseteq DOMAIN r /\ \A i \in DOMAIN q : r[i] = q[i]
            /\ Distinct(q) /\ c \notin Members(q) => Distinct(r)
      BY Joins
    <2> QED BY <1>1, <1>2, <2>1, <2>2, <2>3
  <1>5. CASE KeepsLock(c, k)
    <2>1. lock' = lock /\ k.at = "sleep" /\ caller[c].at \in {"lock", "sleep"}
      BY <1>5 DEF KeepsLock
    <2>2. 1 \in DOMAIN lock /\ lock[1] = c
      <3>1. CASE caller[c].at = "sleep"
        BY <1>2, <3>1
      <3>2. CASE caller[c].at = "lock"
        <4>1. lock # <<>> /\ Head(lock) = c
          BY <1>5, <3>2 DEF KeepsLock, HasLock
        <4>2. DOMAIN lock = 1..Len(lock) /\ Len(lock) \in Nat /\ Len(lock) # 0
          BY <1>2, <4>1, LenProperties, EmptySeq
        <4> QED BY <1>2, <4>1, <4>2
      <3> QED BY <2>1, <3>1, <3>2
    <2>3. \A d \in Callers : caller[d].at = "sleep" => d = c
      BY <1>2, <2>2
    <2> QED BY <1>1, <1>2, <2>1, <2>2, <2>3
  <1>6. CASE GetsThrough(c, k) \/ GoesAway(c, k)
    <2>1. lock' = Leaving(c, lock) /\ k.at \notin {"lock", "sleep"}
      BY <1>6 DEF GetsThrough, GoesAway
    <2>2. Distinct(Leaving(c, lock)) /\ Members(Leaving(c, lock)) = Members(lock) \ {c}
      BY <1>2, LeavingDistinct
    <2>3. ASSUME NEW d \in Callers, d # c, caller[d].at = "sleep"
          PROVE  1 \in DOMAIN Leaving(c, lock) /\ Leaving(c, lock)[1] = d
      <3>1. 1 \in DOMAIN lock /\ lock[1] = d
        BY <1>2, <2>3
      <3> QED BY <1>2, <2>3, <3>1, LeavingHead
    <2> QED BY <1>1, <1>2, <2>1, <2>2, <2>3
  <1> QED BY <1>3, <1>4, <1>5, <1>6 DEF Moves

LEMMA HoldsSlot ==
    ASSUME QuotaTypeOK, NEW m \in Models, NEW c, HasSlot(c, m) PROVE Holds(c, slots[m])
  <1>1. DOMAIN slots[m] = 1..Len(slots[m])
    BY QueuesTyped, LenProperties
  <1> QED BY <1>1 DEF HasSlot, Holds

\* A model's queue as the steps of others see it.
SlotQueue(m, q, at) ==
    /\ Distinct(q)
    /\ \A c \in Members(q) :
         /\ c \in Slotted /\ at[c].kind = "walk" /\ at[c].model = m
         /\ at[c].at \in {"slot", "lock", "sleep", "sent"}
    /\ \A c \in Slotted :
         at[c].kind = "walk" /\ at[c].model = m /\ at[c].at \in {"lock", "sleep", "sent"}
         => Holds(c, q)

LEMMA SlotQueueStep ==
    ASSUME QuotaTypeOK, Calls, Slotting, NEW c \in Callers, NEW k \in Call, Moves(c, k),
           NEW m \in Models
    PROVE  SlotQueue(m, slots'[m], caller')
  <1>1. caller'[c] = k /\ \A d \in Callers : d # c => caller'[d] = caller[d]
    BY OneMoves
  <1>2. PICK q \in Seq(Callers) : q = slots[m]
    BY QueuesTyped
  <1>3. Distinct(q)
    BY <1>2 DEF Slotting
  <1>4. \A d \in Members(q) :
          /\ d \in Slotted /\ caller[d].kind = "walk" /\ caller[d].model = m
          /\ caller[d].at \in {"slot", "lock", "sleep", "sent"}
    BY <1>2 DEF Slotting
  <1>5. \A d \in Slotted :
          caller[d].kind = "walk" /\ caller[d].model = m /\ caller[d].at \in {"lock", "sleep", "sent"}
          => Holds(d, q)
    BY <1>2 DEF Slotting
  <1>6. Slotted \subseteq Callers /\ Slotted \cap Texts = {}
    BY TextsApart
  <1>7. m \in DOMAIN slots
    BY DEF QuotaTypeOK
  <1>8. CASE Apart(c, k)
    <2>1. /\ slots'[m] = q /\ k.at \notin {"slot", "lock", "sleep", "sent"}
          /\ c \in Slotted => caller[c].at \notin {"slot", "lock", "sleep", "sent"}
      BY <1>2, <1>6, <1>8 DEF Apart
    <2>2. c \notin Members(q)
      BY <1>4, <2>1
    <2> QED BY <1>1, <1>3, <1>4, <1>5, <1>6, <2>1, <2>2 DEF SlotQueue
  <1>9. CASE TakesPlace(c, k)
    <2>1. k.at = "slot" /\ k.kind = "walk" /\ caller[c].at \in {"route", "next"} /\ c \in Slotted
      BY <1>9 DEF TakesPlace
    <2>2. c \notin Members(q)
      BY <1>4, <2>1
    <2>3. CASE k.model = m
      <3>1. PICK r \in Seq(Callers) :
              /\ r = Append(q, c) /\ Members(r) = Members(q) \cup {c}
              /\ DOMAIN q \subseteq DOMAIN r /\ \A i \in DOMAIN q : r[i] = q[i]
              /\ Distinct(q) /\ c \notin Members(q) => Distinct(r)
        BY Joins
      <3>2. slots'[m] = r
        BY <1>2, <1>7, <1>9, <2>3, <3>1 DEF TakesPlace
      <3>3. Distinct(r)
        BY <1>3, <2>2, <3>1
      <3>4. \A d : Holds(d, q) => Holds(d, r)
        BY <3>1 DEF Holds
      <3> QED BY <1>1, <1>4, <1>5, <1>6, <2>1, <2>3, <3>1, <3>2, <3>3, <3>4 DEF SlotQueue
    <2>4. CASE k.model # m
      <3>1. slots'[m] = q
        BY <1>2, <1>7, <1>9, <2>4 DEF TakesPlace
      <3> QED BY <1>1, <1>3, <1>4, <1>5, <1>6, <2>1, <2>2, <3>1 DEF SlotQueue
    <2> QED BY <2>3, <2>4
  <1>10. CASE TakesLock(c, k)
    <2>1. slots'[m] = q /\ k.at = "lock"
      BY <1>2, <1>10 DEF TakesLock
    <2>2. CASE caller[c].at \in {"idle", "route"} /\ k.kind # "walk"
      <3>1. c \notin Members(q)
        BY <1>4, <2>2
      <3> QED BY <1>1, <1>3, <1>4, <1>5, <1>6, <2>1, <2>2, <3>1 DEF SlotQueue
    <2>3. CASE /\ k.model = caller[c].model /\ k.kind = caller[c].kind
               /\ caller[c].at = "prepare" \/ (caller[c].at = "slot" /\ HasSlot(c, k.model))
      <3>1. c \in Slotted /\ k.model = m => Holds(c, q)
        <4>1. caller[c].at = "prepare" => c \in Texts
          BY DEF Calls, Proper
        <4> QED BY <1>2, <1>6, <2>3, <4>1, HoldsSlot
      <3> QED BY <1>1, <1>3, <1>4, <1>5, <1>6, <2>1, <2>3, <3>1 DEF SlotQueue
    <2> QED BY <1>10, <2>2, <2>3 DEF TakesLock
  <1>11. CASE KeepsLock(c, k) \/ GetsThrough(c, k)
    <2>1. /\ slots'[m] = q /\ k.at \in {"sleep", "sent"} /\ k.model = caller[c].model
          /\ k.kind = caller[c].kind /\ caller[c].at \in {"lock", "sleep"}
      BY <1>2, <1>11 DEF KeepsLock, GetsThrough
    <2>2. c \in Slotted /\ k.kind = "walk" /\ k.model = m => Holds(c, q)
      BY <1>5, <2>1
    <2> QED BY <1>1, <1>3, <1>4, <1>5, <1>6, <2>1, <2>2 DEF SlotQueue
  <1>12. CASE GoesAway(c, k)
    <2>1. slots'[m] = Leaving(c, q) /\ k.at \in {"idle", "next"}
      BY <1>2, <1>12 DEF GoesAway
    <2>2. Distinct(Leaving(c, q)) /\ Members(Leaving(c, q)) = Members(q) \ {c}
      BY <1>3, LeavingDistinct
    <2>3. ASSUME NEW d, d # c, Holds(d, q) PROVE Holds(d, Leaving(c, q))
      <3>1. PICK i \in DOMAIN q : i <= Slots /\ q[i] = d
        BY <2>3 DEF Holds
      <3>2. PICK j \in DOMAIN Leaving(c, q) : j <= i /\ Leaving(c, q)[j] = d
        BY <2>3, <3>1, LeavingStays
      <3>3. DOMAIN q = 1..Len(q) /\ DOMAIN Leaving(c, q) = 1..Len(Leaving(c, q))
        BY LeavingType, LenProperties
      <3>4. j <= Slots
        BY <3>1, <3>2, <3>3, QuotaConstants
      <3> QED BY <3>2, <3>4 DEF Holds
    <2> QED BY <1>1, <1>4, <1>5, <1>6, <2>1, <2>2, <2>3 DEF SlotQueue
  <1> QED BY <1>8, <1>9, <1>10, <1>11, <1>12 DEF Moves

LEMMA SlottingStep ==
    ASSUME QuotaTypeOK, Calls, Slotting, NEW c \in Callers, NEW k \in Call, Moves(c, k)
    PROVE  Slotting'
  BY SlotQueueStep DEF Slotting, SlotQueue, Distinct, Members, Holds

\* What holds of callers, lock and slots together.
InOrder == QuotaTypeOK /\ Calls /\ Locked /\ Slotting

LEMMA InOrderInit == QuotaInit => InOrder
  <1> SUFFICES ASSUME QuotaInit PROVE InOrder
    OBVIOUS
  <1>1. lock = <<>> /\ \A c \in Callers : caller[c].at = "idle"
    BY DEF QuotaInit, Idle
  <1>2. \A m \in Models : slots[m] = <<>>
    BY DEF QuotaInit
  <1>3. Locked /\ Slotting
    BY <1>1, <1>2, TextsApart DEF Locked, Slotting, Distinct, Members
  <1> QED BY <1>3, QuotaTypesInit DEF InOrder

LEMMA InOrderMoves ==
    ASSUME InOrder, NEW c \in Callers, Route(c) \/ Synthesize(c) \/ Step(c) \/ CallCancelled(c)
    PROVE  /\ QuotaTypeOK' /\ Calls' /\ Locked' /\ Slotting'
           /\ \E k \in Call : Moves(c, k)
  <1>1. PICK k \in Call : Moves(c, k)
    BY StepMoves DEF InOrder
  <1>2. QuotaTypeOK' /\ Calls'
    BY QuotaTypesStep DEF InOrder, QuotaNext
  <1> QED BY <1>1, <1>2, LockedStep, SlottingStep DEF InOrder

LEMMA InOrderStep == InOrder /\ [QuotaNext]_quotaVars => InOrder'
  <1> SUFFICES ASSUME InOrder, [QuotaNext]_quotaVars PROVE InOrder'
    OBVIOUS
  <1>1. QuotaTypeOK' /\ Calls'
    BY QuotaTypesStep DEF InOrder
  <1>2. ASSUME NEW c \in Callers, Route(c) \/ Synthesize(c) \/ Step(c) \/ CallCancelled(c)
        PROVE  InOrder'
    BY <1>2, InOrderMoves DEF InOrder
  <1>3. CASE Tick \/ UNCHANGED quotaVars
    <2>1. UNCHANGED <<caller, lock, slots>>
      BY <1>3 DEF Tick, quotaVars, memory
    <2>2. Locked' /\ Slotting'
      BY <2>1 DEF InOrder, Locked, Slotting, Distinct, Members, Holds
    <2> QED BY <1>1, <2>2 DEF InOrder
  <1>4. CASE Restart
    <2>1. lock' = <<>> /\ \A c \in Callers : caller'[c].at = "idle"
      BY <1>4 DEF Restart, Idle
    <2>2. \A m \in Models : slots'[m] = <<>>
      BY <1>4 DEF Restart
    <2>3. Locked' /\ Slotting'
      BY <2>1, <2>2, TextsApart DEF Locked, Slotting, Distinct, Members
    <2> QED BY <1>1, <2>3 DEF InOrder
  <1> QED BY <1>2, <1>3, <1>4 DEF QuotaNext

LEMMA InOrderShows == InOrder => NothingLeaks
  <1> SUFFICES ASSUME InOrder PROVE NothingLeaks
    OBVIOUS
  <1>1. DOMAIN lock = 1..Len(lock) /\ Len(lock) \in Nat /\ \A i \in 1..Len(lock) : lock[i] \in Callers
    BY QueuesTyped, LenProperties, ElementOfSeq DEF InOrder
  <1>2. \A i \in DOMAIN lock : lock[i] \in Callers /\ caller[lock[i]].at \in {"lock", "sleep"}
    BY <1>1 DEF InOrder, Locked, Members
  <1>3. lock # <<>> => Head(lock) = lock[1] /\ 1 \in DOMAIN lock
    <2>1. lock # <<>> => Len(lock) # 0
      BY QueuesTyped, EmptySeq DEF InOrder
    <2> QED BY <1>1, <2>1
  <1>4. \A i, j \in DOMAIN lock : i # j => lock[i] # lock[j]
    BY DEF InOrder, Locked, Distinct
  <1>5. ASSUME NEW i \in DOMAIN lock, i > 1 PROVE caller[lock[i]].at = "lock"
    <2> SUFFICES ASSUME caller[lock[i]].at = "sleep" PROVE FALSE
      BY <1>2
    <2>1. 1 \in DOMAIN lock /\ lock[1] = lock[i]
      BY <1>2 DEF InOrder, Locked
    <2>2. i = 1
      BY <2>1 DEF InOrder, Locked, Distinct
    <2> QED BY <1>5, <2>2
  <1>6. ASSUME NEW m \in Models, NEW i \in DOMAIN slots[m], NEW c, c = slots[m][i]
        PROVE  /\ caller[c].model = m
               /\ caller[c].at \in IF i <= Slots THEN {"slot", "lock", "sleep", "sent"} ELSE {"slot"}
    <2>1. /\ c \in Slotted /\ caller[c].kind = "walk" /\ caller[c].model = m
          /\ caller[c].at \in {"slot", "lock", "sleep", "sent"}
      BY <1>6 DEF InOrder, Slotting, Members
    <2>2. caller[c].at # "slot" => i <= Slots
      <3> SUFFICES ASSUME caller[c].at # "slot" PROVE i <= Slots
        OBVIOUS
      <3>1. Holds(c, slots[m])
        BY <2>1 DEF InOrder, Slotting
      <3>2. PICK j \in DOMAIN slots[m] : j <= Slots /\ slots[m][j] = c
        BY <3>1 DEF Holds
      <3>3. i = j
        BY <1>6, <3>2 DEF InOrder, Slotting, Distinct
      <3> QED BY <3>2, <3>3
    <2> QED BY <2>1, <2>2
  <1> QED BY <1>2, <1>3, <1>4, <1>5, <1>6 DEF NothingLeaks

\* Nobody keeps the lock or a slot, or a place before others, who is not there himself
\* (slot, acquire): whoever leaves by whatever way leaves both queues, those behind move up,
\* and only the one in front sleeps with the lock.
THEOREM NothingIsLeaked == QuotaSpec => []NothingLeaks
  BY InOrderInit, InOrderStep, InOrderShows, PTL DEF QuotaSpec

------------------------------------------------------------------------------
(* The meter. Fits says what a meter x and its file f have to do with the    *)
(* day, with the requests of the day and with what was taught.              *)

Gap(x, day, asked, m) == asked[m] - (IF x.date = day THEN x.counts[m] ELSE 0)
Fits(x, f, day, asked, told) ==
    /\ x.date <= day /\ f.date <= x.date
    /\ f.date = x.date => f = x
    /\ f.date # x.date => \A m \in Models : x.counts[m] = 0 /\ x.clamped[m] = Unclamped
    /\ \A m \in Models : x.clamped[m] # Unclamped => x.counts[m] >= x.clamped[m]
    /\ \A m \in Models : Gap(x, day, asked, m) <= 1
    /\ \A m, n \in Models : Gap(x, day, asked, m) > 0 /\ Gap(x, day, asked, n) > 0 => m = n
    /\ \A m \in told : x.date = day /\ Exhausted(x, m)

LEMMA MissedIsGap == \A m \in Models : Missed(m) = Gap(meter, Day(now), today, m)
  BY DEF Missed, Gap

LEMMA NewDayFields ==
    /\ NewDay.date = Day(now)
    /\ \A m \in Models : NewDay.counts[m] = 0 /\ NewDay.clamped[m] = Unclamped
  BY DEF NewDay

\* The meter of a new day takes the place of an older one.
LEMMA RenewedFits ==
    ASSUME NEW x \in Meter, NEW f \in Meter, NEW day \in Nat, day = Day(now),
           NEW asked \in [Models -> Nat], NEW told, Fits(x, f, day, asked, told), x.date # day
    PROVE  Fits(NewDay, f, day, asked, told)
  <1>1. NewDay.date = day /\ \A m \in Models : NewDay.counts[m] = 0 /\ NewDay.clamped[m] = Unclamped
    BY NewDayFields
  <1>2. x.date \in Nat /\ f.date \in Nat
    BY DEF Meter
  <1>3. f.date < day /\ told = {}
    BY <1>2 DEF Fits
  <1>4. \A m \in Models : asked[m] \in Nat /\ Gap(NewDay, day, asked, m) = asked[m] - 0
                          /\ Gap(x, day, asked, m) = asked[m] - 0
    BY <1>1 DEF Gap
  <1>5. /\ \A m \in Models : Gap(NewDay, day, asked, m) <= 1
        /\ \A m, n \in Models : Gap(NewDay, day, asked, m) > 0 /\ Gap(NewDay, day, asked, n) > 0 => m = n
    BY <1>4 DEF Fits
  <1>6. NewDay.date <= day /\ f.date <= NewDay.date /\ f.date # NewDay.date
    BY <1>1, <1>2, <1>3
  <1> QED BY <1>1, <1>3, <1>5, <1>6 DEF Fits

LEMMA RolledFits ==
    ASSUME QuotaTypeOK, Fits(meter, file, Day(now), today, taught)
    PROVE  Rolled.date = Day(now) /\ Fits(Rolled, file, Day(now), today, taught)
  <1>1. meter \in Meter /\ file \in Meter /\ Day(now) \in Nat /\ today \in [Models -> Nat]
    BY NowTyped, DayAdvances DEF QuotaTypeOK
  <1>2. CASE meter.date = Day(now)
    BY <1>2 DEF Rolled
  <1>3. CASE meter.date # Day(now)
    BY <1>1, <1>3, RenewedFits, NewDayFields DEF Rolled
  <1> QED BY <1>2, <1>3

LEMMA CountedFields ==
    ASSUME NEW x \in Meter, NEW m \in Models
    PROVE  /\ Counted(x, m).date = x.date /\ Counted(x, m).clamped = x.clamped
           /\ \A n \in Models : Counted(x, m).counts[n] = IF n = m THEN x.counts[n] + 1 ELSE x.counts[n]
  BY DEF Counted, Meter

\* A request is counted and written.
LEMMA SentFits ==
    ASSUME NEW x \in Meter, NEW f, NEW day \in Nat,
           NEW asked \in [Models -> Nat], NEW told \in SUBSET Models, Fits(x, f, day, asked, told),
           NEW m \in Models, x.date = day \/ \A n \in Models : asked[n] = 0,
           NEW y, y = Counted(x, m)
    PROVE  Fits(y, y, day, [asked EXCEPT ![m] = @ + 1], told)
  <1>1. y \in Meter /\ y.date = x.date /\ y.clamped = x.clamped
    BY CountedTyped, CountedFields
  <1>2. \A n \in Models : /\ y.counts[n] = IF n = m THEN x.counts[n] + 1 ELSE x.counts[n]
                          /\ x.counts[n] \in Nat
                          /\ x.clamped[n] \in Nat \cup {Unclamped}
    BY CountedFields, MeterFields
  <1>3. PICK more : more = [asked EXCEPT ![m] = @ + 1]
    OBVIOUS
  <1>4. \A n \in Models : asked[n] \in Nat /\ more[n] = IF n = m THEN asked[n] + 1 ELSE asked[n]
    BY <1>3
  <1>5. CASE x.date = day
    <2>1. \A n \in Models : Gap(y, day, more, n) = Gap(x, day, asked, n)
      BY <1>1, <1>2, <1>4, <1>5 DEF Gap
    <2>2. \A n \in Models : y.clamped[n] # Unclamped => y.counts[n] >= y.clamped[n]
      BY <1>1, <1>2 DEF Fits, Unclamped
    <2>3. ASSUME NEW n \in told PROVE Exhausted(y, n)
      <3>1. Exhausted(x, n) /\ n \in Models
        BY DEF Fits
      <3>2. DailyLimit(y, n) = DailyLimit(x, n) /\ DailyLimit(x, n) \in Int
        BY <1>1, <1>2, <3>1, QuotaConstants DEF DailyLimit, Unclamped
      <3> QED BY <1>2, <3>1, <3>2 DEF Exhausted
    <2> QED BY <1>1, <1>3, <1>5, <2>1, <2>2, <2>3 DEF Fits
  <1>6. CASE x.date # day
    <2>1. told = {} /\ \A n \in Models : asked[n] = 0
      BY <1>6 DEF Fits
    <2>2. \A n \in Models : Gap(y, day, more, n) = IF n = m THEN 1 ELSE 0
      BY <1>1, <1>4, <1>6, <2>1 DEF Gap
    <2>3. \A n \in Models : y.clamped[n] # Unclamped => y.counts[n] >= y.clamped[n]
      BY <1>1, <1>2 DEF Fits, Unclamped
    <2>4. y.date <= day /\ y.date <= y.date /\ y.date \in Nat
      BY <1>1 DEF Fits, Meter
    <2>5. /\ \A n \in Models : Gap(y, day, more, n) <= 1
          /\ \A n, l \in Models : Gap(y, day, more, n) > 0 /\ Gap(y, day, more, l) > 0 => n = l
      BY <2>2
    <2>6. Fits(y, y, day, more, told)
      BY <2>1, <2>3, <2>4, <2>5 DEF Fits
    <2> QED BY <1>3, <2>6
  <1> QED BY <1>5, <1>6

\* A daily 429 is written where it says something new.
LEMMA TaughtFits ==
    ASSUME NEW x \in Meter, NEW f \in Meter, NEW day \in Nat, x.date = day,
           NEW asked \in [Models -> Nat], NEW told \in SUBSET Models, Fits(x, f, day, asked, told),
           NEW m \in Models, NEW y, y = Clamped(x, m),
           NEW more, more = IF x.counts[m] > 0 THEN told \cup {m} ELSE told
    PROVE  Fits(y, IF Clamps(x, m) THEN y ELSE f, day, asked, more)
  <1>1. \A n \in Models : x.counts[n] \in Nat /\ x.clamped[n] \in Nat \cup {Unclamped}
    BY MeterFields
  <1>2. CASE ~Clamps(x, m)
    <2>1. y = x
      BY <1>2 DEF Clamped
    <2>2. x.counts[m] > 0 => Exhausted(x, m)
      BY <1>1, <1>2 DEF Clamps, Exhausted, DailyLimit, Unclamped
    <2>3. \A n \in more : Exhausted(x, n)
      BY <2>2 DEF Fits
    <2> QED BY <1>2, <2>1, <2>3 DEF Fits
  <1>3. CASE Clamps(x, m)
    <2>1. y = [x EXCEPT !.clamped[m] = x.counts[m]]
      BY <1>3 DEF Clamped
    <2>2. /\ y.date = x.date /\ y.counts = x.counts
          /\ \A n \in Models : y.clamped[n] = IF n = m THEN x.counts[n] ELSE x.clamped[n]
      BY <2>1 DEF Meter
    <2>3. \A n \in Models : Gap(y, day, asked, n) = Gap(x, day, asked, n)
      BY <2>2 DEF Gap
    <2>4. \A n \in Models : y.clamped[n] # Unclamped => y.counts[n] >= y.clamped[n]
      BY <1>1, <2>2 DEF Fits
    <2>5. ASSUME NEW n \in more PROVE Exhausted(y, n)
      <3>1. CASE n = m
        BY <1>1, <2>2, <3>1 DEF Exhausted, DailyLimit, Unclamped
      <3>2. CASE n # m
        <4>1. n \in told /\ n \in Models
          BY <3>2
        <4>2. Exhausted(x, n)
          BY <4>1 DEF Fits
        <4> QED BY <2>2, <3>2, <4>1, <4>2 DEF Exhausted, DailyLimit
      <3> QED BY <3>1, <3>2
    <2>6. y.date \in Nat
      BY <2>2
    <2> QED BY <1>3, <2>2, <2>3, <2>4, <2>5, <2>6 DEF Fits
  <1> QED BY <1>2, <1>3

\* A restart finds what was written, or a new day.
LEMMA LoadedFits ==
    ASSUME QuotaTypeOK, Fits(meter, file, Day(now), today, taught)
    PROVE  Loaded.date = Day(now) /\ Fits(Loaded, file, Day(now), today, taught)
  <1>1. meter \in Meter /\ file \in Meter /\ Day(now) \in Nat /\ today \in [Models -> Nat]
    BY NowTyped, DayAdvances DEF QuotaTypeOK
  <1>2. meter.date \in Nat /\ file.date \in Nat
    BY <1>1 DEF Meter
  <1>3. CASE file.date = Day(now)
    <2>1. file = meter
      BY <1>1, <1>2, <1>3 DEF Fits
    <2> QED BY <1>3, <2>1 DEF Loaded
  <1>4. CASE file.date # Day(now) /\ meter.date # Day(now)
    BY <1>1, <1>4, RenewedFits, NewDayFields DEF Loaded
  <1>5. CASE file.date # Day(now) /\ meter.date = Day(now)
    <2>1. Loaded = NewDay /\ NewDay.date = Day(now)
      BY <1>5, NewDayFields DEF Loaded
    <2>2. \A m \in Models : /\ meter.counts[m] = 0 /\ meter.clamped[m] = Unclamped
                            /\ NewDay.counts[m] = 0 /\ NewDay.clamped[m] = Unclamped
      BY <1>5, NewDayFields DEF Fits
    <2>3. \A m \in Models : Gap(NewDay, Day(now), today, m) = Gap(meter, Day(now), today, m)
      BY <1>5, <2>1, <2>2 DEF Gap
    <2>4. \A m \in taught : m \in Models /\ Exhausted(meter, m)
      BY DEF Fits, QuotaTypeOK
    <2>5. \A m \in taught : Exhausted(NewDay, m)
      BY <2>2, <2>4 DEF Exhausted, DailyLimit
    <2> QED BY <1>1, <1>2, <1>5, <2>1, <2>2, <2>3, <2>5 DEF Fits
  <1> QED BY <1>3, <1>4, <1>5

\* What the budgeter has in memory and in its file; over midnight only a sleeper keeps the
\* old day, and then nothing was asked on the new one.
AllZero(asked) == \A m \in Models : asked[m] = 0
Asleep == \E c \in Callers : caller[c].at = "sleep"
Metered ==
    /\ Fits(meter, file, Day(now), today, taught)
    /\ meter.date # Day(now) /\ Asleep => AllZero(today)

LEMMA SendMeters ==
    ASSUME InOrder, NEW c \in Callers, NEW m \in Models, m = caller[c].model,
           caller[c].at \in {"lock", "sleep"}, NEW x \in Meter,
           Fits(x, file, Day(now), today, taught),
           x.date = Day(now) \/ (AllZero(today) /\ caller[c].at = "sleep"),
           Send(c, m, x), UNCHANGED <<now, taught>>
    PROVE  Metered'
  <1>1. Day(now) \in Nat /\ today \in [Models -> Nat] /\ taught \in SUBSET Models
    BY NowTyped, DayAdvances DEF InOrder, QuotaTypeOK
  <1>2. PICK y : y = Counted(x, m)
    OBVIOUS
  <1>3. meter' = y /\ file' = y /\ today' = [today EXCEPT ![m] = @ + 1]
    BY <1>2 DEF Send, Counted
  <1>4. Day(now') = Day(now) /\ taught' = taught
    OBVIOUS
  <1>5. Fits(y, y, Day(now), [today EXCEPT ![m] = @ + 1], taught)
    <2>1. x.date = Day(now) \/ \A n \in Models : today[n] = 0
      BY DEF AllZero
    <2> QED BY <1>1, <1>2, <2>1, SentFits
  <1>6. y.date = x.date
    BY <1>2, CountedFields
  <1>7. ASSUME x.date # Day(now), NEW d \in Callers, caller'[d].at = "sleep" PROVE FALSE
    <2>1. PICK k \in Call : Moves(c, k) /\ GetsThrough(c, k)
      BY SendMoves DEF InOrder
    <2>2. caller'[c].at = "sent" /\ (d # c => caller'[d] = caller[d])
      BY <2>1, OneMoves DEF InOrder, GetsThrough
    <2>3. d # c /\ caller[d].at = "sleep" /\ caller[c].at = "sleep"
      BY <1>7, <2>2
    <2> QED BY <2>3 DEF InOrder, Locked
  <1> QED BY <1>3, <1>4, <1>5, <1>6, <1>7 DEF Metered, Asleep

LEMMA AttemptMeters ==
    ASSUME InOrder, NEW c \in Callers, caller[c].model \in Models,
           caller[c].at \in {"lock", "sleep"}, NEW x \in Meter,
           Fits(x, file, Day(now), today, taught),
           x.date = Day(now) \/ (AllZero(today) /\ caller[c].at = "sleep"),
           Attempt(c, x), UNCHANGED <<now, taught>>
    PROVE  Metered'
  <1>1. PICK m \in Models : m = caller[c].model
    OBVIOUS
  <1>2. CASE Send(c, m, x)
    BY <1>1, <1>2, SendMeters
  <1>3. CASE TimesOut(c, m, x) \/ Sleeps(c, m, x, caller[c].time)
    <2>1. meter' = x /\ file' = file /\ today' = today
      BY <1>3 DEF TimesOut, Sleeps
    <2>2. Day(now') = Day(now) /\ taught' = taught
      OBVIOUS
    <2> QED BY <2>1, <2>2 DEF Metered, AllZero
  <1> QED BY <1>1, <1>2, <1>3 DEF Attempt

\* Nobody falls asleep but with the lock in his hands.
LEMMA AsleepStays ==
    ASSUME QuotaTypeOK, NEW c \in Callers, NEW k \in Call, Moves(c, k), Asleep'
    PROVE  Asleep \/ KeepsLock(c, k)
  <1>1. PICK d \in Callers : caller'[d].at = "sleep"
    BY DEF Asleep
  <1>2. caller'[c] = k /\ (d # c => caller'[d] = caller[d])
    BY OneMoves
  <1>3. k.at = "sleep" => KeepsLock(c, k)
    BY DEF Moves, Apart, TakesPlace, TakesLock, GetsThrough, GoesAway
  <1> QED BY <1>1, <1>2, <1>3 DEF Asleep

LEMMA KeptMeters ==
    ASSUME Metered, UNCHANGED <<now, meter, file, today, taught>>, Asleep' => Asleep
    PROVE  Metered'
  <1>1. Day(now') = Day(now)
    OBVIOUS
  <1> QED BY <1>1 DEF Metered, AllZero

LEMMA MeteredMoves ==
    ASSUME InOrder, Metered, NEW c \in Callers,
           Route(c) \/ Synthesize(c) \/ Step(c) \/ CallCancelled(c)
    PROVE  Metered'
  <1>1. Rolled \in Meter /\ Rolled.date = Day(now) /\ Fits(Rolled, file, Day(now), today, taught)
    BY MeterTyped, RolledFits DEF InOrder, Metered
  <1>2. caller[c].at \in Busy => caller[c].model \in Models
    BY DEF InOrder, Calls, Proper
  <1>3. CASE Look(c)
    <2>1. meter' = Rolled /\ file' = file /\ today' = today /\ Day(now') = Day(now) /\ taught' = taught
      BY <1>3 DEF Look, past
    <2> QED BY <1>1, <2>1 DEF Metered
  <1>4. CASE \/ Route(c) \/ Synthesize(c) \/ GivesUp(c) \/ NextModel(c) \/ InSlot(c)
             \/ Prepared(c) \/ AsksFirst(c) \/ Fails(c) \/ CallCancelled(c) \/ Answered(c)
             \/ Finished(c)
    <2>1. UNCHANGED <<now, meter, file, today, taught>>
      BY <1>4 DEF Route, Synthesize, GivesUp, NextModel, InSlot, Prepared, AsksFirst, Fails,
                  CallCancelled, Answered, Finished, past
    <2>2. PICK k \in Call : Moves(c, k)
      BY StepMoves DEF InOrder
    <2>3. KeepsLock(c, k) => caller[c].at \in {"lock", "sleep"} /\ caller'[c].at = "sleep"
      BY <2>2, OneMoves DEF InOrder, KeepsLock
    <2>4. caller[c].at = "sleep" => Asleep
      BY DEF Asleep
    <2>5. caller[c].at = "lock" => CallCancelled(c)
      BY <1>4 DEF Route, Synthesize, GivesUp, NextModel, InSlot, Prepared, AsksFirst, Fails,
                  Answered, Finished
    <2>6. CallCancelled(c) => caller'[c].at # "sleep"
      BY DEF CallCancelled, Idle, InOrder, QuotaTypeOK
    <2>7. Asleep' => Asleep
      BY <2>2, <2>3, <2>4, <2>5, <2>6, AsleepStays DEF InOrder
    <2> QED BY <2>1, <2>7, KeptMeters
  <1>5. CASE Acquire(c)
    BY <1>1, <1>2, <1>5, AttemptMeters DEF Acquire, Busy, Waiting
  <1>6. CASE Wakes(c)
    <2>1. meter \in Meter /\ Fits(meter, file, Day(now), today, taught)
      BY DEF InOrder, QuotaTypeOK, Metered
    <2>2. caller[c].at = "sleep" /\ caller[c].model \in Models
      BY <1>2, <1>6 DEF Wakes, Busy, Waiting
    <2>3. meter.date = Day(now) \/ AllZero(today)
      BY <2>2 DEF Metered, Asleep
    <2> QED BY <1>6, <2>1, <2>2, <2>3, AttemptMeters DEF Wakes
  <1>7. CASE Limited(c)
    <2>1. PICK m \in Models : m = caller[c].model
      BY <1>2, <1>7 DEF Limited, Busy
    <2>2. caller[c].at = "sent" /\ now' = now /\ today' = today
      BY <1>7 DEF Limited
    <2>3. CASE UNCHANGED <<meter, file, taught>>
      <3>1. PICK k \in Call : Moves(c, k)
        BY <1>7, StepMoves DEF InOrder, Step
      <3>2. ~KeepsLock(c, k)
        BY <2>2 DEF KeepsLock
      <3>3. Asleep' => Asleep
        BY <3>1, <3>2, AsleepStays DEF InOrder
      <3> QED BY <2>2, <2>3, <3>3, KeptMeters
    <2>4. CASE Teaches(m)
      <3>1. PICK y : y = Clamped(Rolled, m)
        OBVIOUS
      <3>2. /\ meter' = y /\ file' = (IF Clamps(Rolled, m) THEN y ELSE file)
            /\ taught' = (IF Rolled.counts[m] > 0 THEN taught \cup {m} ELSE taught)
        BY <2>4, <3>1 DEF Teaches
      <3>3. Day(now) \in Nat /\ file \in Meter /\ today \in [Models -> Nat] /\ taught \in SUBSET Models
        BY NowTyped, DayAdvances DEF InOrder, QuotaTypeOK
      <3>4. Fits(y, file', Day(now), today, taught')
        BY <1>1, <3>1, <3>2, <3>3, TaughtFits
      <3>5. y.date = Rolled.date
        BY <1>1, <3>1 DEF Clamped, Meter
      <3>6. Day(now') = Day(now)
        BY <2>2
      <3> QED BY <1>1, <2>2, <3>2, <3>4, <3>5, <3>6 DEF Metered
    <2> QED BY <1>7, <2>1, <2>3, <2>4 DEF Limited
  <1> QED BY <1>3, <1>4, <1>5, <1>6, <1>7 DEF Step

LEMMA MeteredTick == ASSUME InOrder, Metered, Tick PROVE Metered'
  <1>1. UNCHANGED <<meter, file, caller>>
    BY DEF Tick, memory
  <1>2. /\ Day(now) \in Nat /\ Day(now + 1) \in Nat /\ Day(now) <= Day(now + 1) /\ now' = now + 1
        /\ Day(now') = Day(now + 1)
    BY NowTyped, DayAdvances DEF InOrder, Tick
  <1>3. meter.date \in Nat /\ file.date \in Nat
    BY DEF InOrder, QuotaTypeOK, Meter
  <1>4. CASE Day(now + 1) = Day(now)
    <2>1. today' = today /\ taught' = taught
      BY <1>4 DEF Tick
    <2> QED BY <1>1, <1>2, <1>4, <2>1 DEF Metered, Asleep, AllZero
  <1>5. CASE Day(now + 1) # Day(now)
    <2>1. today' = [m \in Models |-> 0] /\ taught' = {}
      BY <1>5 DEF Tick
    <2>2. meter.date # Day(now') /\ meter.date <= Day(now')
      BY <1>2, <1>3, <1>5 DEF Metered, Fits
    <2>3. \A m \in Models : Gap(meter, Day(now'), today', m) = 0
      BY <2>1, <2>2 DEF Gap
    <2>4. Fits(meter, file, Day(now'), today', taught')
      BY <2>1, <2>2, <2>3 DEF Metered, Fits
    <2>5. AllZero(today')
      BY <2>1 DEF AllZero
    <2> QED BY <1>1, <2>4, <2>5 DEF Metered, AllZero
  <1> QED BY <1>4, <1>5

LEMMA MeteredInit == QuotaInit => Metered
  <1> SUFFICES ASSUME QuotaInit PROVE Metered
    OBVIOUS
  <1>1. meter = NewDay /\ file = NewDay /\ meter.date = Day(now) /\ Day(now) \in Nat
    BY NewDayFields, QuotaConstants, DayAdvances DEF QuotaInit
  <1>2. \A m \in Models : meter.counts[m] = 0 /\ meter.clamped[m] = Unclamped /\ today[m] = 0
    BY <1>1, NewDayFields DEF QuotaInit
  <1>3. \A m \in Models : Gap(meter, Day(now), today, m) = 0
    BY <1>1, <1>2 DEF Gap
  <1>4. taught = {}
    BY DEF QuotaInit
  <1> QED BY <1>1, <1>2, <1>3, <1>4 DEF Metered, Fits

LEMMA MeteredStep == InOrder /\ Metered /\ [QuotaNext]_quotaVars => Metered'
  <1> SUFFICES ASSUME InOrder, Metered, [QuotaNext]_quotaVars PROVE Metered'
    OBVIOUS
  <1>1. CASE Restart
    <2>1. /\ meter' = Loaded /\ file' = file /\ today' = today /\ taught' = taught /\ now' = now
      BY <1>1 DEF Restart
    <2>2. Loaded.date = Day(now) /\ Fits(Loaded, file, Day(now), today, taught)
      BY LoadedFits DEF InOrder, Metered
    <2>3. Day(now') = Day(now)
      BY <2>1
    <2> QED BY <2>1, <2>2, <2>3 DEF Metered
  <1>2. CASE UNCHANGED quotaVars
    <2>1. UNCHANGED <<now, meter, file, today, taught>> /\ (Asleep' => Asleep)
      BY <1>2 DEF quotaVars, memory, past, Asleep
    <2> QED BY <2>1, KeptMeters
  <1> QED BY <1>1, <1>2, MeteredMoves, MeteredTick DEF QuotaNext

LEMMA MeteredShows == InOrder /\ Metered => MeterIsTrue
  <1> SUFFICES ASSUME InOrder, Metered PROVE MeterIsTrue
    OBVIOUS
  <1>1. \A m \in Models : Missed(m) <= 1
    BY MissedIsGap DEF Metered, Fits
  <1>2. \A m, n \in Models : Missed(m) > 0 /\ Missed(n) > 0 => m = n
    BY MissedIsGap DEF Metered, Fits
  <1>3. Cardinality({m \in Models : Missed(m) > 0}) <= 1
    <2>1. PICK S : S = {m \in Models : Missed(m) > 0}
      OBVIOUS
    <2>2. CASE S = {}
      BY <2>1, <2>2, FS_EmptySet
    <2>3. CASE S # {}
      <3>1. PICK m : m \in S
        BY <2>3
      <3>2. S = {m}
        BY <1>2, <2>1, <3>1
      <3>3. Cardinality({m}) = 1
        BY FS_Singleton, Zenon
      <3> QED BY <2>1, <3>2, <3>3
    <2> QED BY <2>2, <2>3
  <1>4. \A m \in taught : meter.date = Day(now) /\ Exhausted(meter, m)
    BY DEF Metered, Fits
  <1> QED BY <1>1, <1>3, <1>4 DEF MeterIsTrue

\* The counter of the day misses at most one request of all models, and what a 429 taught
\* holds for the rest of the day (acquire, clamp_daily, _load, _roll_date_if_needed): file and
\* memory agree whenever they are of one day, and over midnight only a sleeper keeps the old
\* meter, who is the next to write it.
THEOREM MeterTrue == QuotaSpec => []MeterIsTrue
  <1>1. InOrder /\ Metered /\ [QuotaNext]_quotaVars => (InOrder /\ Metered)'
    BY InOrderStep, MeteredStep
  <1>2. QuotaInit => InOrder /\ Metered
    BY InOrderInit, MeteredInit
  <1> QED BY <1>1, <1>2, MeteredShows, PTL DEF QuotaSpec

------------------------------------------------------------------------------
(* The cooldowns.                                                           *)

LookedAt(m) == {c \in Callers : Looked(caller[c], m)}
HeldBy(m) == {c \in Slotted : Holds(c, slots[m])}
CooledFor(m) == Cooling(m) => after[m] + Cardinality(LookedAt(m)) < Slots + Cardinality(Texts)
Cooled == \A m \in Models : CooledFor(m)

\* As many have a slot as there are slots.
LEMMA HeldBounded ==
    ASSUME QuotaTypeOK, NEW m \in Models
    PROVE  IsFiniteSet(HeldBy(m)) /\ Cardinality(HeldBy(m)) <= Slots
  <1>1. PICK q : q = slots[m]
    OBVIOUS
  <1>2. PICK D : D = {i \in DOMAIN q : i <= Slots}
    OBVIOUS
  <1>3. PICK T : T = {q[i] : i \in D}
    OBVIOUS
  <1>4. DOMAIN q = 1..Len(q) /\ Len(q) \in Nat /\ Slots \in Nat
    BY <1>1, QueuesTyped, LenProperties, QuotaConstants
  <1>5. IsFiniteSet(1..Slots) /\ Cardinality(1..Slots) = Slots
    <2>1. 1 \in Int /\ Slots \in Int
      BY <1>4
    <2>2. IsFiniteSet(1..Slots) /\ Cardinality(1..Slots) = IF 1 > Slots THEN 0 ELSE Slots - 1 + 1
      BY <2>1, FS_Interval, Zenon
    <2> QED BY <1>4, <2>2
  <1>6. D \in SUBSET (1..Slots)
    BY <1>2, <1>4
  <1>7. IsFiniteSet(D) /\ Cardinality(D) <= Cardinality(1..Slots)
    BY <1>5, <1>6, FS_Subset
  <1>8. PICK f : f = [i \in D |-> q[i]]
    OBVIOUS
  <1>9. f \in Surjection(D, T)
    BY <1>3, <1>8 DEF Surjection
  <1>10. IsFiniteSet(T) /\ Cardinality(T) <= Cardinality(D)
    BY <1>7, <1>9, FS_Surjection
  <1>11. HeldBy(m) \in SUBSET T
    BY <1>1, <1>2, <1>3 DEF HeldBy, Holds
  <1>12. IsFiniteSet(HeldBy(m)) /\ Cardinality(HeldBy(m)) <= Cardinality(T)
    BY <1>10, <1>11, FS_Subset
  <1>13. Cardinality(HeldBy(m)) \in Nat /\ Cardinality(T) \in Nat /\ Cardinality(D) \in Nat
    BY <1>7, <1>10, <1>12, FS_CardinalityType
  <1> QED BY <1>4, <1>5, <1>7, <1>10, <1>12, <1>13

LEMMA CallersFinite ==
    /\ \A S \in SUBSET Callers : IsFiniteSet(S) /\ Cardinality(S) \in Nat
    /\ \A S, T \in SUBSET Callers : S \subseteq T => Cardinality(S) <= Cardinality(T)
  <1>1. ASSUME NEW S \in SUBSET Callers PROVE IsFiniteSet(S) /\ Cardinality(S) \in Nat
    <2>1. IsFiniteSet(S)
      BY QuotaConstants, FS_Subset
    <2> QED BY <2>1, FS_CardinalityType
  <1>2. ASSUME NEW S \in SUBSET Callers, NEW T \in SUBSET Callers, S \subseteq T
        PROVE  Cardinality(S) <= Cardinality(T)
    <2>1. IsFiniteSet(T) /\ S \in SUBSET T
      BY <1>1, <1>2
    <2> QED BY <2>1, FS_Subset
  <1> QED BY <1>1, <1>2

LEMMA WithoutOne ==
    ASSUME NEW S \in SUBSET Callers, NEW c \in S
    PROVE  Cardinality(S \ {c}) + 1 = Cardinality(S)
  <1>1. IsFiniteSet(S) /\ Cardinality(S) \in Nat
    BY CallersFinite
  <1>2. Cardinality(S \ {c}) = IF c \in S THEN Cardinality(S) - 1 ELSE Cardinality(S)
    BY <1>1, FS_RemoveElement
  <1> QED BY <1>1, <1>2

\* Who is past the last look has a slot or answers in text, and one of them is the one that
\* is refused.
LEMMA PastTheLook ==
    ASSUME InOrder, NEW c \in Callers, NEW m \in Models, m = caller[c].model,
           caller[c].at \in {"lock", "sleep", "sent"}, caller[c].kind = "walk"
    PROVE  Cardinality(LookedAt(m) \ {c}) < Slots + Cardinality(Texts)
  <1>1. PICK H, X, A : H = HeldBy(m) /\ X = Texts /\ A = LookedAt(m) \cup {c}
    OBVIOUS
  <1>2. H \in SUBSET Callers /\ X \in SUBSET Callers /\ A \in SUBSET Callers
    BY <1>1, TextsApart DEF HeldBy, LookedAt
  <1>3. ASSUME NEW d \in A PROVE d \in H \cup X
    <2>1. d \in Callers /\ (d \in Slotted \/ d \in Texts)
      BY <1>2, TextsApart
    <2>2. /\ caller[d].model = m /\ caller[d].at \in {"prepare", "lock", "sleep", "sent"}
          /\ caller[d].kind = "walk"
      BY <1>1 DEF LookedAt, Looked
    <2>3. caller[d].at = "prepare" => d \in Texts
      BY <2>1 DEF InOrder, Calls, Proper
    <2>4. d \in Slotted /\ caller[d].at # "prepare" => Holds(d, slots[m])
      BY <2>2 DEF InOrder, Slotting
    <2> QED BY <1>1, <2>1, <2>3, <2>4 DEF HeldBy
  <1>4. IsFiniteSet(H) /\ IsFiniteSet(X) /\ Cardinality(H) \in Nat /\ Cardinality(X) \in Nat
        /\ Cardinality(H \cup X) \in Nat /\ Cardinality(A) \in Nat /\ Cardinality(A) <= Cardinality(H \cup X)
    <2>1. H \cup X \in SUBSET Callers /\ A \subseteq H \cup X
      BY <1>2, <1>3
    <2> QED BY <1>2, <2>1, CallersFinite
  <1>5. Cardinality(H \cap X) \in Nat
    <2>1. H \cap X \in SUBSET Callers
      BY <1>2
    <2> QED BY <2>1, CallersFinite
  <1>6. Cardinality(H \cup X) = Cardinality(H) + Cardinality(X) - Cardinality(H \cap X)
    BY <1>4, FS_Union
  <1>7. Cardinality(H) <= Slots /\ Slots \in Nat
    BY <1>1, HeldBounded, QuotaConstants DEF InOrder
  <1>8. c \in A
    BY <1>1
  <1>9. Cardinality(A \ {c}) + 1 = Cardinality(A)
    BY <1>2, <1>8, WithoutOne
  <1>10. A \ {c} = LookedAt(m) \ {c}
    BY <1>1
  <1>11. Cardinality(A \ {c}) \in Nat
    <2>1. A \ {c} \in SUBSET Callers
      BY <1>2
    <2> QED BY <2>1, CallersFinite
  <1>12. Cardinality(A \ {c}) < Slots + Cardinality(X)
    BY <1>4, <1>5, <1>6, <1>7, <1>9, <1>11
  <1> QED BY <1>1, <1>10, <1>12

LEMMA LookedMoves ==
    ASSUME QuotaTypeOK, NEW c \in Callers, NEW k \in Call, Moves(c, k), NEW m \in Models
    PROVE  /\ LookedAt(m)' \in SUBSET Callers /\ LookedAt(m) \in SUBSET Callers
           /\ Cooling(m) => LookedAt(m)' \subseteq LookedAt(m)
           /\ ~Looked(k, m) => LookedAt(m)' \subseteq LookedAt(m) \ {c}
  <1>1. caller'[c] = k /\ \A d \in Callers : d # c => caller'[d] = caller[d]
    BY OneMoves
  <1>2. LookedAt(m)' = {d \in Callers : Looked(caller'[d], m)}
    BY DEF LookedAt, Looked
  <1>3. Looked(k, m) => Looked(caller[c], m) \/ ~Cooling(m)
    BY DEF Moves
  <1>4. LookedAt(m) = {d \in Callers : Looked(caller[d], m)}
    BY DEF LookedAt
  <1> HIDE DEF Looked
  <1> QED BY <1>1, <1>2, <1>3, <1>4

\* While nobody else is past the look and nothing is sent, the bound stays.
LEMMA CooledKept ==
    ASSUME QuotaTypeOK, NEW m \in Models, CooledFor(m), Cooling(m)' => Cooling(m),
           after'[m] = after[m], Cooling(m) => LookedAt(m)' \subseteq LookedAt(m),
           LookedAt(m)' \in SUBSET Callers
    PROVE  CooledFor(m)'
  <1> SUFFICES ASSUME Cooling(m)'
               PROVE  after'[m] + Cardinality(LookedAt(m)') < Slots + Cardinality(Texts)
    BY DEF CooledFor, Texts
  <1>1. after[m] + Cardinality(LookedAt(m)) < Slots + Cardinality(Texts)
    BY DEF CooledFor
  <1>2. PICK A, B : A = LookedAt(m) /\ B = LookedAt(m)'
    OBVIOUS
  <1>3. A \in SUBSET Callers /\ B \in SUBSET Callers /\ B \subseteq A
    BY <1>2 DEF LookedAt
  <1>4. Cardinality(A) \in Nat /\ Cardinality(B) \in Nat /\ Cardinality(B) <= Cardinality(A)
    BY <1>3, CallersFinite
  <1>5. after[m] \in Nat /\ Slots \in Nat /\ Cardinality(Texts) \in Nat
    BY QuotaConstants, CallersFinite, TextsApart DEF QuotaTypeOK
  <1> QED BY <1>1, <1>2, <1>4, <1>5

\* Nothing but the callers changes.
LEMMA CooledRest ==
    ASSUME InOrder, Cooled, NEW c \in Callers, NEW k \in Call, Moves(c, k),
           UNCHANGED <<now, until, after>>
    PROVE  Cooled'
  <1> SUFFICES ASSUME NEW m \in Models PROVE CooledFor(m)'
    BY DEF Cooled
  <1>1. /\ LookedAt(m)' \in SUBSET Callers
        /\ Cooling(m) => LookedAt(m)' \subseteq LookedAt(m)
    BY LookedMoves DEF InOrder
  <1>2. (Cooling(m)' => Cooling(m)) /\ after'[m] = after[m] /\ CooledFor(m)
    BY DEF Cooling, Cooled
  <1> QED BY <1>1, <1>2, CooledKept DEF InOrder

\* A request is sent: one more after the cooldown began, and one less that is past the look.
LEMMA CooledSend ==
    ASSUME InOrder, Cooled, NEW c \in Callers, NEW m \in Models, m = caller[c].model,
           caller[c].at \in {"lock", "sleep"}, NEW x, Send(c, m, x), UNCHANGED now
    PROVE  Cooled'
  <1>1. PICK k \in Call : Moves(c, k) /\ GetsThrough(c, k)
    BY SendMoves DEF InOrder
  <1>2. ~Looked(k, m)
    BY <1>1 DEF GetsThrough, Looked
  <1>3. /\ until' = until
        /\ after' = [after EXCEPT ![m] = IF ~Cooling(m) THEN 0 ELSE IF Walks(c) THEN @ + 1 ELSE @]
    BY DEF Send
  <1> SUFFICES ASSUME NEW n \in Models PROVE CooledFor(n)'
    BY DEF Cooled
  <1>4. /\ LookedAt(n)' \in SUBSET Callers /\ LookedAt(n) \in SUBSET Callers
        /\ Cooling(n) => LookedAt(n)' \subseteq LookedAt(n)
        /\ ~Looked(k, n) => LookedAt(n)' \subseteq LookedAt(n) \ {c}
    BY <1>1, LookedMoves DEF InOrder
  <1>5. (Cooling(n)' <=> Cooling(n)) /\ CooledFor(n) /\ after \in [Models -> Nat] /\ after[n] \in Nat
    BY <1>3 DEF Cooling, Cooled, InOrder, QuotaTypeOK
  <1>6. CASE n # m
    <2>1. after'[n] = after[n]
      BY <1>3, <1>5, <1>6
    <2> QED BY <1>4, <1>5, <2>1, CooledKept DEF InOrder
  <1>7. CASE n = m /\ ~Walks(c)
    <2>1. Cooling(n) => after'[n] = after[n]
      BY <1>3, <1>5, <1>7
    <2>2. CASE Cooling(n)
      BY <1>4, <1>5, <2>1, <2>2, CooledKept DEF InOrder
    <2>3. CASE ~Cooling(n)
      BY <1>5, <2>3 DEF CooledFor
    <2> QED BY <2>2, <2>3
  <1>8. CASE n = m /\ Walks(c)
    <2> SUFFICES ASSUME Cooling(n)
                 PROVE  after'[n] + Cardinality(LookedAt(n)') < Slots + Cardinality(Texts)
      BY <1>5 DEF CooledFor, Texts
    <2>1. after'[n] = after[n] + 1
      BY <1>3, <1>5, <1>8
    <2>2. PICK A, B : A = LookedAt(n) /\ B = LookedAt(n)'
      OBVIOUS
    <2>3. A \in SUBSET Callers /\ B \in SUBSET Callers /\ B \subseteq A \ {c} /\ c \in A
      BY <1>2, <1>4, <1>8, <2>2 DEF LookedAt, Looked, Walks
    <2>4. Cardinality(A \ {c}) + 1 = Cardinality(A)
      BY <2>3, WithoutOne
    <2>5. /\ Cardinality(B) <= Cardinality(A \ {c}) /\ Cardinality(A) \in Nat
          /\ Cardinality(B) \in Nat /\ Cardinality(A \ {c}) \in Nat
      <3>1. A \ {c} \in SUBSET Callers
        BY <2>3
      <3> QED BY <2>3, <3>1, CallersFinite
    <2>6. after[n] + Cardinality(A) < Slots + Cardinality(Texts)
      BY <1>5, <2>2 DEF CooledFor
    <2>7. Slots \in Nat /\ Cardinality(Texts) \in Nat
      BY QuotaConstants, CallersFinite, TextsApart
    <2> QED BY <1>5, <2>1, <2>2, <2>4, <2>5, <2>6, <2>7
  <1> QED BY <1>6, <1>7, <1>8

\* A cooldown begins or grows longer, and the one it was told is past the look no more.
LEMMA CooledDown ==
    ASSUME InOrder, Cooled, NEW c \in Callers, NEW m \in Models, m = caller[c].model,
           caller[c].at \in {"lock", "sleep", "sent"}, caller[c].kind = "walk",
           NEW span, CoolDown(m, span), Leave(c), Goes(c, "next"), UNCHANGED now
    PROVE  Cooled'
  <1>1. PICK k \in Call : Moves(c, k)
    BY MovesToNext DEF InOrder, Busy, Waiting
  <1>2. caller'[c] = k /\ caller'[c].at = "next"
    <2>1. caller'[c] = k
      BY <1>1, OneMoves DEF InOrder
    <2>2. caller[c] \in Call /\ caller'[c] = [caller[c] EXCEPT !.at = "next"]
      BY CallerTyped DEF Goes, InOrder, QuotaTypeOK
    <2>3. [caller[c] EXCEPT !.at = "next"].at = "next"
      BY <2>2 DEF Call
    <2> QED BY <2>1, <2>2, <2>3
  <1>3. \A n : ~Looked(k, n)
    BY <1>2 DEF Looked
  <1>4. /\ until' = [until EXCEPT ![m] = Longer(m, span)]
        /\ after' = [after EXCEPT ![m] = IF Cooling(m) THEN @ ELSE 0]
    BY DEF CoolDown
  <1> SUFFICES ASSUME NEW n \in Models PROVE CooledFor(n)'
    BY DEF Cooled
  <1>5. /\ LookedAt(n)' \in SUBSET Callers /\ LookedAt(n) \in SUBSET Callers
        /\ LookedAt(n)' \subseteq LookedAt(n) \ {c}
    BY <1>1, <1>3, LookedMoves DEF InOrder
  <1>6. /\ CooledFor(n) /\ after \in [Models -> Nat] /\ after[n] \in Nat
        /\ until \in [Models -> Nat]
    BY DEF Cooled, InOrder, QuotaTypeOK
  <1>7. CASE n # m
    <2>1. after'[n] = after[n] /\ (Cooling(n)' => Cooling(n))
      BY <1>4, <1>6, <1>7 DEF Cooling
    <2> QED BY <1>5, <1>6, <2>1, CooledKept DEF InOrder
  <1>8. CASE n = m /\ Cooling(m)
    <2>1. after'[n] = after[n]
      BY <1>4, <1>6, <1>8
    <2> QED BY <1>5, <1>6, <1>8, <2>1, CooledKept DEF InOrder
  <1>9. CASE n = m /\ ~Cooling(m)
    <2>1. after'[n] = 0
      BY <1>4, <1>6, <1>9
    <2>2. PICK A, B : A = LookedAt(n) \ {c} /\ B = LookedAt(n)'
      OBVIOUS
    <2>3. Cardinality(A) < Slots + Cardinality(Texts)
      BY <1>9, <2>2, PastTheLook
    <2>4. A \in SUBSET Callers /\ B \in SUBSET Callers /\ B \subseteq A
      BY <1>5, <2>2
    <2>5. Cardinality(B) <= Cardinality(A) /\ Cardinality(A) \in Nat /\ Cardinality(B) \in Nat
      BY <2>4, CallersFinite
    <2>6. Slots \in Nat /\ Cardinality(Texts) \in Nat
      BY QuotaConstants, CallersFinite, TextsApart
    <2>7. after'[n] + Cardinality(B) < Slots + Cardinality(Texts)
      BY <2>1, <2>3, <2>5, <2>6
    <2> QED BY <2>2, <2>7 DEF CooledFor, Texts
  <1> QED BY <1>7, <1>8, <1>9

\* A direct call is told of a cooldown in vain.
LEMMA CooledRefusal ==
    ASSUME InOrder, Cooled, NEW c \in Callers, NEW m \in Models, m = caller[c].model,
           caller[c].at \in {"lock", "sleep", "sent"}, NEW k \in Call, Moves(c, k),
           NEW span, Refusal(c, m, span), Leave(c), UNCHANGED now
    PROVE  Cooled'
  <1>1. CASE Walks(c)
    BY <1>1, CooledDown DEF Refusal, Walks
  <1>2. CASE ~Walks(c)
    BY <1>2, CooledRest DEF Refusal
  <1> QED BY <1>1, <1>2

\* A success ends the cooldown.
LEMMA CooledSucceeds ==
    ASSUME InOrder, Cooled, NEW c \in Callers, caller[c].model \in Models,
           NEW k \in Call, Moves(c, k), Succeeds(c), UNCHANGED now
    PROVE  Cooled'
  <1>1. PICK m \in Models : m = caller[c].model
    OBVIOUS
  <1>2. until' = [until EXCEPT ![m] = 0] /\ after' = [after EXCEPT ![m] = 0]
    BY <1>1 DEF Succeeds
  <1> SUFFICES ASSUME NEW n \in Models PROVE CooledFor(n)'
    BY DEF Cooled
  <1>3. /\ CooledFor(n) /\ after \in [Models -> Nat] /\ until \in [Models -> Nat] /\ now \in Nat
    BY NowTyped DEF Cooled, InOrder, QuotaTypeOK
  <1>4. CASE n = m
    <2>1. until'[n] = 0
      BY <1>2, <1>3, <1>4
    <2>2. ~(0 > now)
      BY <1>3
    <2>3. ~Cooling(n)'
      BY <2>1, <2>2 DEF Cooling
    <2> QED BY <2>3 DEF CooledFor
  <1>5. CASE n # m
    <2>1. after'[n] = after[n] /\ (Cooling(n)' => Cooling(n))
      BY <1>2, <1>3, <1>5 DEF Cooling
    <2>2. /\ LookedAt(n)' \in SUBSET Callers
          /\ Cooling(n) => LookedAt(n)' \subseteq LookedAt(n)
      BY LookedMoves DEF InOrder
    <2> QED BY <1>3, <2>1, <2>2, CooledKept DEF InOrder
  <1> QED BY <1>4, <1>5

LEMMA CooledAttempt ==
    ASSUME InOrder, Cooled, NEW c \in Callers, caller[c].model \in Models,
           caller[c].at \in {"lock", "sleep"}, NEW k \in Call, Moves(c, k),
           NEW x, Attempt(c, x), UNCHANGED now
    PROVE  Cooled'
  <1>1. PICK m \in Models : m = caller[c].model
    OBVIOUS
  <1>2. CASE Send(c, m, x)
    BY <1>1, <1>2, CooledSend
  <1>3. CASE TimesOut(c, m, x)
    BY <1>1, <1>3, CooledRefusal DEF TimesOut
  <1>4. CASE Sleeps(c, m, x, caller[c].time)
    BY <1>4, CooledRest DEF Sleeps
  <1> QED BY <1>1, <1>2, <1>3, <1>4 DEF Attempt

LEMMA CooledMoves ==
    ASSUME InOrder, Cooled, NEW c \in Callers,
           Route(c) \/ Synthesize(c) \/ Step(c) \/ CallCancelled(c)
    PROVE  Cooled'
  <1>1. PICK k \in Call : Moves(c, k)
    BY StepMoves DEF InOrder
  <1>2. caller[c].at \in Busy => caller[c].model \in Models
    BY DEF InOrder, Calls, Proper
  <1>3. CASE \/ Route(c) \/ Synthesize(c) \/ Look(c) \/ GivesUp(c) \/ NextModel(c) \/ InSlot(c)
             \/ Prepared(c) \/ AsksFirst(c) \/ Fails(c) \/ CallCancelled(c)
    <2>1. UNCHANGED <<now, until, after>>
      BY <1>3 DEF Route, Synthesize, Look, GivesUp, NextModel, InSlot, Prepared, AsksFirst, Fails,
                  CallCancelled, past
    <2> QED BY <1>1, <2>1, CooledRest
  <1>4. CASE Acquire(c)
    BY <1>1, <1>2, <1>4, CooledAttempt DEF Acquire, Busy, Waiting
  <1>5. CASE Wakes(c)
    BY <1>1, <1>2, <1>5, CooledAttempt DEF Wakes, Busy, Waiting
  <1>6. CASE Limited(c)
    <2>1. PICK m \in Models : m = caller[c].model
      BY <1>2, <1>6 DEF Limited, Busy
    <2>2. /\ caller[c].at = "sent" /\ Leave(c) /\ now' = now
          /\ Refusal(c, m, Short) \/ Refusal(c, m, Long)
      BY <1>6, <2>1 DEF Limited
    <2> QED BY <1>1, <2>1, <2>2, CooledRefusal
  <1>7. CASE Answered(c) \/ Finished(c)
    <2>1. now' = now /\ caller[c].model \in Models
      BY <1>2, <1>7 DEF Answered, Finished, Busy
    <2>2. Succeeds(c) \/ UNCHANGED <<until, after>>
      BY <1>7 DEF Answered, Finished
    <2> QED BY <1>1, <2>1, <2>2, CooledSucceeds, CooledRest
  <1> QED BY <1>3, <1>4, <1>5, <1>6, <1>7 DEF Step

LEMMA CooledStep == InOrder /\ Cooled /\ [QuotaNext]_quotaVars => Cooled'
  <1> SUFFICES ASSUME InOrder, Cooled, [QuotaNext]_quotaVars PROVE Cooled'
    OBVIOUS
  <1>1. CASE Restart
    <2>1. \A m \in Models : until'[m] = 0 /\ now' = now /\ now \in Nat
      BY <1>1, NowTyped DEF Restart, InOrder
    <2>2. \A m \in Models : ~Cooling(m)'
      BY <2>1 DEF Cooling
    <2> QED BY <2>2 DEF Cooled, CooledFor
  <1>2. CASE Tick \/ UNCHANGED quotaVars
    <2> SUFFICES ASSUME NEW m \in Models PROVE CooledFor(m)'
      BY DEF Cooled
    <2>1. UNCHANGED <<caller, until, after>> /\ (now' = now \/ now' = now + 1)
      BY <1>2 DEF Tick, quotaVars, memory, past
    <2>2. LookedAt(m)' = LookedAt(m) /\ LookedAt(m) \in SUBSET Callers
      BY <2>1 DEF LookedAt, Looked
    <2>3. Cooling(m)' => Cooling(m)
      <3>1. until[m] \in Nat /\ now \in Nat
        BY NowTyped DEF InOrder, QuotaTypeOK
      <3> QED BY <2>1, <3>1 DEF Cooling
    <2> QED BY <2>1, <2>2, <2>3, CooledKept DEF InOrder, Cooled
  <1> QED BY <1>1, <1>2, CooledMoves DEF QuotaNext

LEMMA CooledInit == QuotaInit => Cooled
  <1>1. QuotaInit => \A m \in Models : ~Cooling(m)
    BY DEF QuotaInit, Cooling
  <1> QED BY <1>1 DEF Cooled, CooledFor

LEMMA CooledShows == InOrder /\ Cooled => CooldownHolds
  <1> SUFFICES ASSUME InOrder, Cooled, NEW m \in Models, Cooling(m)
               PROVE  after[m] < Slots + Cardinality(Texts)
    BY DEF CooldownHolds
  <1>1. after[m] + Cardinality(LookedAt(m)) < Slots + Cardinality(Texts)
    BY DEF Cooled, CooledFor
  <1>2. LookedAt(m) \in SUBSET Callers
    BY DEF LookedAt
  <1>3. /\ after[m] \in Nat /\ Slots \in Nat /\ Cardinality(Texts) \in Nat
        /\ Cardinality(LookedAt(m)) \in Nat
    BY <1>2, QuotaConstants, CallersFinite, TextsApart DEF InOrder, QuotaTypeOK
  <1> QED BY <1>1, <1>3

\* While a model's cooldown lasts, the callers that walk send it no request but those that
\* were past their last look at it, less the one that was refused (slot, _decide): what was
\* sent since and who may still send are together fewer than the slots and the text callers.
\* The direct calls of triage, mission plan and research neither look nor report, and are not
\* among them.
THEOREM Cooldowns == QuotaSpec => []CooldownHolds
  <1>1. InOrder /\ Cooled /\ [QuotaNext]_quotaVars => (InOrder /\ Cooled)'
    BY InOrderStep, CooledStep
  <1>2. QuotaInit => InOrder /\ Cooled
    BY InOrderInit, CooledInit
  <1> QED BY <1>1, <1>2, CooledShows, PTL DEF QuotaSpec

------------------------------------------------------------------------------
(* The pace. Of the requests of the last minute, r, all but those of earlier  *)
(* lives of the process, at most free, are at the end of the window w.      *)

Fresh(r, t) == \A i \in DOMAIN r : r[i] <= t /\ t - r[i] < Minute
InTime(r) == \A i, j \in DOMAIN r : i < j => r[i] <= r[j]
Known(r, w, free) ==
    \A j \in 0..(Len(r) - free - 1) : j < Len(w) /\ w[Len(w) - j] = r[Len(r) - j]
Pace(r, w, t, free) ==
    Fresh(r, t) /\ InTime(r) /\ Known(r, w, free) /\ Len(r) <= free + PerMinute

\* What the window forgets of itself is none of the requests of the last minute.
LEMMA WindowRemembers ==
    ASSUME NEW r \in Seq(Nat), NEW w \in Seq(Nat), NEW t \in Nat, NEW free \in Nat,
           Fresh(r, t), Known(r, w, free)
    PROVE  \E v \in Seq(Nat) : v = LastMinute(w, t) /\ Known(r, v, free) /\ Len(r) - free <= Len(v)
  <1>1. PICK v \in Seq(Nat), n \in Nat :
          /\ v = LastMinute(w, t) /\ n <= Len(w) /\ Splits(n, w, t)
          /\ Len(w) \in Nat /\ Len(v) = Len(w) - n
          /\ DOMAIN v = 1..(Len(w) - n) /\ DOMAIN w = 1..Len(w)
          /\ \A i \in 1..(Len(w) - n) : v[i] = w[n + i]
    BY LastMinuteIs
  <1>2. PICK a, b \in Nat : a = Len(r) /\ b = Len(w)
    BY LenProperties
  <1>3. n \in Nat /\ n <= b /\ Len(v) = b - n /\ b - n \in Nat /\ Minute \in Nat
    BY <1>1, <1>2, QuotaConstants
  <1>4. DOMAIN r = 1..a
    BY <1>2, LenProperties
  <1>5. ASSUME NEW j \in 0..(a - free - 1) PROVE j < b - n /\ v[b - n - j] = r[a - j]
    <2>1. j < b /\ w[b - j] = r[a - j]
      BY <1>2 DEF Known
    <2>2. j \in Nat /\ a - j \in 1..a /\ b - j \in 1..b
      <3>1. j \in Nat /\ j < b /\ j <= a - free - 1 /\ a \in Nat /\ b \in Nat
        BY <1>2, <2>1
      <3> QED BY <3>1
    <2>3. r[a - j] \in Nat /\ t - r[a - j] < Minute
      BY <1>2, <1>4, <2>2, ElementOfSeq DEF Fresh
    <2>4. ~(b - j <= n)
      <3> SUFFICES ASSUME b - j <= n PROVE FALSE
        OBVIOUS
      <3>1. b - j \in 1..n
        BY <1>3, <2>2
      <3>2. t - w[b - j] >= Minute
        BY <1>1, <3>1 DEF Splits
      <3>3. t - r[a - j] >= Minute
        BY <2>1, <3>2
      <3> QED BY <1>3, <2>3, <3>3
    <2>5. j < b - n /\ b - n - j \in 1..(b - n) /\ n + (b - n - j) = b - j
      <3>1. n \in Nat /\ b \in Nat /\ j \in Nat
        BY <1>2, <1>3, <2>2
      <3>2. n < b - j
        BY <2>4, <3>1
      <3>3. j < b - n
        BY <3>1, <3>2
      <3>4. b - n - j \in Int /\ 1 <= b - n - j /\ b - n - j <= b - n
        BY <3>1, <3>2
      <3>5. n + (b - n - j) = b - j
        BY <3>1
      <3> QED BY <3>3, <3>4, <3>5
    <2>6. v[b - n - j] = w[n + (b - n - j)]
      BY <1>1, <1>2, <2>5
    <2> QED BY <2>1, <2>5, <2>6
  <1>6. Known(r, v, free)
    BY <1>2, <1>3, <1>5 DEF Known
  <1>7. a - free <= b - n
    <2>1. CASE a - free <= 0
      BY <1>3, <2>1
    <2>2. CASE ~(a - free <= 0)
      <3>1. a - free - 1 \in 0..(a - free - 1)
        BY <1>2, <2>2
      <3>2. a - free - 1 < b - n
        BY <1>5, <3>1
      <3> QED BY <1>2, <1>3, <3>2
    <2> QED BY <2>1, <2>2
  <1>8. Len(r) - free <= Len(v)
    BY <1>2, <1>3, <1>7
  <1> QED BY <1>1, <1>6, <1>8

LEMMA AppendIs ==
    ASSUME NEW s \in Seq(Nat), NEW e \in Nat
    PROVE  \E q \in Seq(Nat) :
             /\ q = Append(s, e) /\ Len(s) \in Nat /\ Len(q) = Len(s) + 1 /\ q[Len(s) + 1] = e
             /\ DOMAIN s = 1..Len(s) /\ DOMAIN q = 1..(Len(s) + 1)
             /\ \A i \in 1..Len(s) : q[i] = s[i] /\ s[i] \in Nat
  <1>1. PICK q : q = Append(s, e)
    OBVIOUS
  <1>2. q \in Seq(Nat) /\ Len(q) = Len(s) + 1 /\ q[Len(s) + 1] = e /\ \A i \in 1..Len(s) : q[i] = s[i]
    BY <1>1, AppendProperties
  <1>3. Len(s) \in Nat /\ DOMAIN s = 1..Len(s) /\ DOMAIN q = 1..Len(q)
    BY <1>2, LenProperties
  <1>4. \A i \in 1..Len(s) : s[i] \in Nat
    BY ElementOfSeq
  <1>5. DOMAIN q = 1..(Len(s) + 1)
    BY <1>2, <1>3
  <1> QED BY <1>1, <1>2, <1>3, <1>4, <1>5, Zenon

\* A request that finds room in the window keeps the pace.
LEMMA PaceAsked ==
    ASSUME NEW r \in Seq(Nat), NEW w \in Seq(Nat), NEW t \in Nat, NEW free \in Nat,
           Pace(r, w, t, free), Len(LastMinute(w, t)) < PerMinute
    PROVE  Pace(Append(r, t), Append(LastMinute(w, t), t), t, free)
  <1>1. PICK v \in Seq(Nat) : v = LastMinute(w, t) /\ Known(r, v, free) /\ Len(r) - free <= Len(v)
    BY WindowRemembers DEF Pace
  <1>2. v \in Seq(Nat) /\ Known(r, v, free) /\ Len(r) - free <= Len(v)
    BY <1>1
  <1>3. PICK p \in Seq(Nat) :
          /\ p = Append(r, t) /\ Len(r) \in Nat /\ Len(p) = Len(r) + 1 /\ p[Len(r) + 1] = t
          /\ DOMAIN r = 1..Len(r) /\ DOMAIN p = 1..(Len(r) + 1)
          /\ \A i \in 1..Len(r) : p[i] = r[i] /\ r[i] \in Nat
    BY AppendIs
  <1>4. PICK q \in Seq(Nat) :
          /\ q = Append(v, t) /\ Len(v) \in Nat /\ Len(q) = Len(v) + 1 /\ q[Len(v) + 1] = t
          /\ DOMAIN v = 1..Len(v) /\ DOMAIN q = 1..(Len(v) + 1)
          /\ \A i \in 1..Len(v) : q[i] = v[i] /\ v[i] \in Nat
    BY <1>2, AppendIs
  <1>5. PICK a, b \in Nat : a = Len(r) /\ b = Len(v)
    BY <1>3, <1>4
  <1>6. /\ Len(p) = a + 1 /\ p[a + 1] = t /\ DOMAIN r = 1..a /\ DOMAIN p = 1..(a + 1)
        /\ \A i \in 1..a : p[i] = r[i] /\ r[i] \in Nat
    BY <1>3, <1>5
  <1>7. Len(q) = b + 1 /\ q[b + 1] = t /\ \A i \in 1..b : q[i] = v[i]
    BY <1>4, <1>5
  <1>8. Minute \in Nat /\ Minute > 0 /\ PerMinute \in Nat /\ b < PerMinute /\ a - free <= b
    BY <1>1, <1>2, <1>5, QuotaConstants
  <1>9. \A i \in 1..(a + 1) : i = a + 1 \/ i \in 1..a
    BY <1>5
  <1>10. Fresh(p, t)
    <2>1. \A i \in 1..a : r[i] <= t /\ t - r[i] < Minute
      BY <1>6 DEF Pace, Fresh
    <2>2. t <= t /\ t - t < Minute
      BY <1>8
    <2> QED BY <1>6, <1>9, <2>1, <2>2 DEF Fresh
  <1>11. InTime(p)
    <2>1. \A i \in 1..a : p[i] <= t
      BY <1>6 DEF Pace, Fresh
    <2>2. \A i, j \in 1..a : i < j => p[i] <= p[j]
      BY <1>6 DEF Pace, InTime
    <2>3. ASSUME NEW i \in 1..(a + 1), NEW j \in 1..(a + 1), i < j PROVE p[i] <= p[j]
      <3>1. i \in 1..a /\ (j = a + 1 \/ j \in 1..a)
        <4>1. a \in Nat /\ i < j
          BY <1>5, <2>3
        <4> QED BY <4>1
      <3> QED BY <1>6, <2>1, <2>2, <2>3, <3>1
    <2> QED BY <1>6, <2>3 DEF InTime
  <1>12. Known(p, q, free)
    <2> SUFFICES ASSUME NEW j \in 0..(a + 1 - free - 1)
                 PROVE  j < b + 1 /\ q[b + 1 - j] = p[a + 1 - j]
      BY <1>6, <1>7 DEF Known
    <2>1. CASE j = 0
      <3>1. b + 1 - j = b + 1 /\ a + 1 - j = a + 1 /\ j < b + 1
        BY <1>5, <2>1
      <3> QED BY <1>6, <1>7, <3>1
    <2>2. CASE j # 0
      <3>1. j - 1 \in 0..(a - free - 1)
        BY <1>5, <2>2
      <3>2. PICK i \in 0..(a - free - 1) : i = j - 1
        BY <3>1
      <3>3. i < b /\ v[b - i] = r[a - i]
        BY <1>2, <1>5 DEF Known
      <3>4. /\ b - i \in 1..b /\ a - i \in 1..a /\ b + 1 - j = b - i /\ a + 1 - j = a - i
            /\ j < b + 1
        <4>1. a \in Nat /\ b \in Nat /\ i < b /\ i = j - 1 /\ i \in 0..(a - free - 1)
          BY <1>5, <3>2, <3>3
        <4> QED BY <4>1
      <3> QED BY <1>6, <1>7, <3>3, <3>4
    <2> QED BY <2>1, <2>2
  <1>13. Len(p) <= free + PerMinute
    BY <1>5, <1>6, <1>8
  <1>14. Pace(p, q, t, free)
    BY <1>10, <1>11, <1>12, <1>13 DEF Pace
  <1> QED BY <1>1, <1>3, <1>4, <1>14

LEMMA PaceRemembered ==
    ASSUME NEW r \in Seq(Nat), NEW w \in Seq(Nat), NEW t \in Nat, NEW free \in Nat,
           Pace(r, w, t, free)
    PROVE  Pace(r, LastMinute(w, t), t, free)
  <1>1. PICK v \in Seq(Nat) : v = LastMinute(w, t) /\ Known(r, v, free)
    BY WindowRemembers DEF Pace
  <1> QED BY <1>1 DEF Pace

\* Time goes on.
LEMMA PaceLater ==
    ASSUME NEW r \in Seq(Nat), NEW w \in Seq(Nat), NEW t \in Nat, NEW free \in Nat,
           Pace(r, w, t, free)
    PROVE  Pace(LastMinute(r, t + 1), w, t + 1, free)
  <1>1. PICK u \in Nat : u = t + 1
    OBVIOUS
  <1>2. PICK v \in Seq(Nat), n \in Nat :
          /\ v = LastMinute(r, u) /\ n <= Len(r) /\ Splits(n, r, u)
          /\ Len(r) \in Nat /\ Len(v) = Len(r) - n
          /\ DOMAIN v = 1..(Len(r) - n) /\ DOMAIN r = 1..Len(r)
          /\ \A i \in 1..(Len(r) - n) : v[i] = r[n + i]
    BY LastMinuteIs
  <1>3. PICK a \in Nat : a = Len(r)
    BY <1>2
  <1>4. n \in Nat /\ n <= a /\ Len(v) = a - n /\ DOMAIN v = 1..(a - n) /\ DOMAIN r = 1..a
    BY <1>2, <1>3
  <1>5. \A i \in 1..(a - n) : v[i] = r[n + i] /\ n + i \in 1..a
    <2>1. \A i \in 1..(a - n) : n + i \in 1..a
      BY <1>3, <1>4
    <2> QED BY <1>2, <1>3, <2>1
  <1>6. \A i \in 1..a : r[i] \in Nat /\ r[i] <= t
    BY <1>3, <1>4, ElementOfSeq DEF Pace, Fresh
  <1>7. Minute \in Nat /\ PerMinute \in Nat
    BY QuotaConstants
  <1>8. ASSUME NEW i \in 1..(a - n) PROVE v[i] <= u /\ u - v[i] < Minute
    <2>1. n + 1 \in 1..a /\ n < a /\ n + i \in 1..a /\ (i = 1 \/ n + 1 < n + i)
      <3>1. i \in Nat /\ 1 <= i /\ i <= a - n /\ n \in Nat /\ a \in Nat
        BY <1>3, <1>4
      <3>2. n + i <= a /\ n + 1 <= n + i /\ n + 1 <= a
        BY <3>1
      <3>3. i = 1 \/ n + 1 < n + i
        BY <3>1
      <3> QED BY <3>1, <3>2, <3>3
    <2>2. u - r[n + 1] < Minute
      BY <1>2, <1>3, <2>1 DEF Splits
    <2>3. r[n + 1] <= r[n + i]
      <3>1. CASE i = 1
        BY <1>6, <2>1, <3>1
      <3>2. CASE n + 1 < n + i
        BY <1>4, <2>1, <3>2 DEF Pace, InTime
      <3> QED BY <2>1, <3>1, <3>2
    <2>4. r[n + 1] \in Nat /\ r[n + i] \in Nat /\ r[n + i] <= t
      BY <1>6, <2>1
    <2>5. r[n + i] <= u /\ u - r[n + i] < Minute
      <3>1. \A x, y \in Nat : x <= y /\ y <= t /\ u - x < Minute => y <= u /\ u - y < Minute
        BY <1>1, <1>7
      <3> QED BY <2>2, <2>3, <2>4, <3>1
    <2> QED BY <1>5, <2>5
  <1>9. Fresh(v, u)
    BY <1>4, <1>8 DEF Fresh
  <1>10. InTime(v)
    <2> SUFFICES ASSUME NEW i \in 1..(a - n), NEW j \in 1..(a - n), i < j PROVE v[i] <= v[j]
      BY <1>4 DEF InTime
    <2>1. n + i \in 1..a /\ n + j \in 1..a /\ n + i < n + j
      BY <1>4, <1>5
    <2>2. r[n + i] <= r[n + j]
      BY <1>4, <2>1 DEF Pace, InTime
    <2> QED BY <1>5, <2>2
  <1>11. Known(v, w, free)
    <2> SUFFICES ASSUME NEW j \in 0..(a - n - free - 1)
                 PROVE  j < Len(w) /\ w[Len(w) - j] = v[a - n - j]
      BY <1>4 DEF Known
    <2>1. j \in 0..(a - free - 1) /\ a - n - j \in 1..(a - n) /\ n + (a - n - j) = a - j
      <3>1. a \in Nat /\ n \in Nat /\ n <= a /\ j \in Nat /\ j <= a - n - free - 1
        BY <1>3, <1>4
      <3>2. a - n - j \in Int /\ 1 <= a - n - j /\ a - n - j <= a - n /\ j <= a - free - 1
        BY <3>1
      <3>3. n + (a - n - j) = a - j
        BY <3>1
      <3> QED BY <3>1, <3>2, <3>3
    <2>2. j < Len(w) /\ w[Len(w) - j] = r[a - j]
      BY <1>3, <2>1 DEF Pace, Known
    <2>3. v[a - n - j] = r[n + (a - n - j)]
      BY <1>5, <2>1
    <2> QED BY <2>1, <2>2, <2>3
  <1>12. Len(v) <= free + PerMinute
    BY <1>3, <1>4, <1>7 DEF Pace
  <1>13. Pace(v, w, u, free)
    BY <1>9, <1>10, <1>11, <1>12 DEF Pace
  <1> QED BY <1>1, <1>2, <1>13

\* A restart forgets the window.
LEMMA PaceForgotten ==
    ASSUME NEW r \in Seq(Nat), NEW w, NEW t \in Nat, NEW free \in Nat, Pace(r, w, t, free)
    PROVE  Pace(r, <<>>, t, free + PerMinute)
  <1>1. PICK a \in Nat : a = Len(r)
    BY LenProperties
  <1>2. a <= free + PerMinute /\ PerMinute \in Nat
    BY <1>1, QuotaConstants DEF Pace
  <1>3. \A j \in 0..(a - (free + PerMinute) - 1) : FALSE
    BY <1>1, <1>2
  <1>4. Known(r, <<>>, free + PerMinute)
    BY <1>1, <1>3 DEF Known
  <1>5. a <= free + PerMinute + PerMinute
    BY <1>1, <1>2
  <1> QED BY <1>1, <1>4, <1>5 DEF Pace

------------------------------------------------------------------------------
(* The allowances of the minute and of the day.                             *)

Forgotten == PerMinute * restarts
PacedFor(m) == Pace(recent[m], window[m], now, Forgotten)
Paced == \A m \in Models : PacedFor(m)

AskersOf(m) == {c \in Callers : m \in Asks(caller[c])}
AllowedFor(m) ==
    today[m] + Cardinality(AskersOf(m)) <= PerDay + Cardinality(Callers) + unrouted[m]
Allowed == \A m \in Models : AllowedFor(m)

LEMMA FreeIs ==
    ASSUME NEW n \in Nat
    PROVE  /\ PerMinute * n \in Nat /\ PerMinute * (1 + n) = PerMinute * n + PerMinute
           /\ PerMinute * (n + 1) = PerMinute * n + PerMinute
  BY QuotaConstants

LEMMA BooksFields ==
    ASSUME QuotaTypeOK, NEW m \in Models
    PROVE  /\ recent \in [Models -> Seq(Nat)] /\ window \in [Models -> Seq(Nat)]
           /\ today \in [Models -> Nat] /\ today[m] \in Nat
           /\ recent[m] \in Seq(Nat) /\ window[m] \in Seq(Nat) /\ now \in Nat /\ Forgotten \in Nat
  <1>1. restarts \in Nat /\ now \in Nat
    BY NowTyped
  <1>2. Forgotten \in Nat
    BY <1>1, FreeIs DEF Forgotten
  <1> QED BY <1>1, <1>2 DEF QuotaTypeOK

LEMMA PacedAttempt ==
    ASSUME QuotaTypeOK, Paced, NEW c \in Callers, caller[c].model \in Models,
           NEW x, Attempt(c, x), UNCHANGED <<now, restarts>>
    PROVE  Paced'
  <1>1. PICK m \in Models : m = caller[c].model
    OBVIOUS
  <1> SUFFICES ASSUME NEW n \in Models PROVE Pace(recent'[n], window'[n], now, Forgotten)
    BY DEF Paced, PacedFor, Forgotten
  <1>2. /\ recent \in [Models -> Seq(Nat)] /\ window \in [Models -> Seq(Nat)]
        /\ recent[n] \in Seq(Nat) /\ window[n] \in Seq(Nat) /\ now \in Nat /\ Forgotten \in Nat
    BY BooksFields
  <1>3. Pace(recent[n], window[n], now, Forgotten)
    BY DEF Paced, PacedFor
  <1>4. CASE n # m
    <2>1. recent'[n] = recent[n] /\ window'[n] = window[n]
      BY <1>1, <1>2, <1>4 DEF Attempt, Send, TimesOut, Sleeps
    <2> QED BY <1>3, <2>1
  <1>5. CASE n = m /\ Room(m) /\ Send(c, m, x)
    <2>1. /\ recent'[n] = Append(recent[n], now)
          /\ window'[n] = Append(LastMinute(window[n], now), now)
          /\ Len(LastMinute(window[n], now)) < PerMinute
      BY <1>2, <1>5 DEF Send, Remembered, Room
    <2>2. Pace(Append(recent[n], now), Append(LastMinute(window[n], now), now), now, Forgotten)
      BY <1>2, <1>3, <2>1, PaceAsked
    <2> QED BY <2>1, <2>2
  <1>6. CASE n = m /\ (TimesOut(c, m, x) \/ Sleeps(c, m, x, caller[c].time))
    <2>1. recent'[n] = recent[n] /\ window'[n] = LastMinute(window[n], now)
      BY <1>2, <1>6 DEF TimesOut, Sleeps, Remembered
    <2>2. Pace(recent[n], LastMinute(window[n], now), now, Forgotten)
      BY <1>2, <1>3, PaceRemembered
    <2> QED BY <2>1, <2>2
  <1> QED BY <1>1, <1>4, <1>5, <1>6 DEF Attempt

LEMMA PacedStep == InOrder /\ Paced /\ [QuotaNext]_quotaVars => Paced'
  <1> SUFFICES ASSUME InOrder, Paced, [QuotaNext]_quotaVars PROVE Paced'
    OBVIOUS
  <1>1. ASSUME UNCHANGED <<now, restarts, recent, window>> PROVE Paced'
    BY <1>1 DEF Paced, PacedFor, Forgotten
  <1>2. ASSUME NEW c \in Callers, Route(c) \/ Synthesize(c) \/ Step(c) \/ CallCancelled(c)
        PROVE  Paced'
    <2>1. caller[c].at \in Busy => caller[c].model \in Models
      BY DEF InOrder, Calls, Proper
    <2>2. CASE Acquire(c) \/ Wakes(c)
      <3>1. caller[c].model \in Models /\ UNCHANGED <<now, restarts>>
        BY <2>1, <2>2 DEF Acquire, Wakes, Busy, Waiting
      <3>2. \E x : Attempt(c, x)
        BY <2>2 DEF Acquire, Wakes
      <3> QED BY <3>1, <3>2, PacedAttempt DEF InOrder
    <2>3. CASE ~(Acquire(c) \/ Wakes(c))
      <3>1. UNCHANGED <<now, restarts, recent, window>>
        BY <1>2, <2>3 DEF Step, Route, Synthesize, Look, GivesUp, NextModel, InSlot, Prepared,
                          AsksFirst, Limited, Answered, Finished, Fails, CallCancelled, past
      <3> QED BY <1>1, <3>1
    <2> QED BY <2>2, <2>3
  <1>3. CASE Tick
    <2> SUFFICES ASSUME NEW n \in Models PROVE Pace(recent'[n], window[n], now + 1, Forgotten)
      BY <1>3 DEF Paced, PacedFor, Forgotten, Tick, memory
    <2>1. recent[n] \in Seq(Nat) /\ window[n] \in Seq(Nat) /\ now \in Nat /\ Forgotten \in Nat
      BY BooksFields DEF InOrder
    <2>2. Pace(recent[n], window[n], now, Forgotten)
      BY DEF Paced, PacedFor
    <2>3. recent'[n] = LastMinute(recent[n], now + 1)
      BY <1>3 DEF Tick
    <2>4. Pace(LastMinute(recent[n], now + 1), window[n], now + 1, Forgotten)
      BY <2>1, <2>2, PaceLater
    <2> QED BY <2>3, <2>4
  <1>4. CASE Restart
    <2> SUFFICES ASSUME NEW n \in Models PROVE Pace(recent[n], <<>>, now, PerMinute * (restarts + 1))
      BY <1>4 DEF Paced, PacedFor, Forgotten, Restart
    <2>1. recent[n] \in Seq(Nat) /\ window[n] \in Seq(Nat) /\ now \in Nat /\ Forgotten \in Nat
      BY BooksFields DEF InOrder
    <2>2. Pace(recent[n], window[n], now, Forgotten)
      BY DEF Paced, PacedFor
    <2>3. Pace(recent[n], <<>>, now, Forgotten + PerMinute)
      BY <2>1, <2>2, PaceForgotten
    <2>4. PerMinute * (restarts + 1) = Forgotten + PerMinute
      BY NowTyped, FreeIs DEF InOrder, Forgotten
    <2> QED BY <2>3, <2>4
  <1>5. CASE UNCHANGED quotaVars
    BY <1>1, <1>5 DEF quotaVars, memory, past
  <1> QED BY <1>2, <1>3, <1>4, <1>5 DEF QuotaNext

LEMMA PacedInit == QuotaInit => Paced
  <1> SUFFICES ASSUME QuotaInit, NEW m \in Models PROVE PacedFor(m)
    BY DEF Paced
  <1>1. recent[m] = <<>> /\ restarts = 0
    BY DEF QuotaInit
  <1>2. Forgotten \in Nat /\ PerMinute \in Nat
    BY <1>1, FreeIs, QuotaConstants DEF Forgotten
  <1>3. Len(<<>>) = 0 /\ DOMAIN <<>> = {}
    BY EmptySeq
  <1>4. \A j \in 0..(0 - Forgotten - 1) : FALSE
    BY <1>2
  <1>5. Known(<<>>, window[m], Forgotten)
    BY <1>3, <1>4 DEF Known
  <1>6. Fresh(<<>>, now) /\ InTime(<<>>)
    BY <1>3 DEF Fresh, InTime
  <1> QED BY <1>1, <1>2, <1>3, <1>5, <1>6 DEF PacedFor, Pace

\* Fewer who may ask, and no more that was asked of those that the router let through.
LEMMA AllowedKept ==
    ASSUME QuotaTypeOK, QuotaTypeOK', NEW m \in Models, AllowedFor(m), today'[m] = today[m],
           unrouted'[m] = unrouted[m], AskersOf(m)' \subseteq AskersOf(m)
    PROVE  AllowedFor(m)'
  <1>1. PICK A, B : A = AskersOf(m) /\ B = AskersOf(m)'
    OBVIOUS
  <1>2. A \in SUBSET Callers /\ B \in SUBSET Callers /\ B \subseteq A
    BY <1>1 DEF AskersOf
  <1>3. Cardinality(A) \in Nat /\ Cardinality(B) \in Nat /\ Cardinality(B) <= Cardinality(A)
    BY <1>2, CallersFinite
  <1>4. today[m] \in Nat /\ unrouted[m] \in Nat /\ PerDay \in Nat /\ Cardinality(Callers) \in Nat
    BY QuotaConstants, CallersFinite DEF QuotaTypeOK
  <1>5. today[m] + Cardinality(A) <= PerDay + Cardinality(Callers) + unrouted[m]
    BY <1>1 DEF AllowedFor
  <1>6. today[m] + Cardinality(B) <= PerDay + Cardinality(Callers) + unrouted[m]
    BY <1>3, <1>4, <1>5
  <1> QED BY <1>1, <1>6 DEF AllowedFor

\* Whoever may ask is one of the callers.
LEMMA AllowedAnew ==
    ASSUME NEW m \in Models, NEW n \in Nat, NEW asked \in Nat, asked <= PerDay,
           NEW A \in SUBSET Callers
    PROVE  asked + Cardinality(A) <= PerDay + Cardinality(Callers) + n
  <1>1. /\ Cardinality(A) <= Cardinality(Callers) /\ Cardinality(A) \in Nat
        /\ Cardinality(Callers) \in Nat /\ PerDay \in Nat
    BY CallersFinite, QuotaConstants
  <1> QED BY <1>1

LEMMA AskersMove ==
    ASSUME QuotaTypeOK, NEW c \in Callers, NEW k \in Call, Moves(c, k), NEW m \in Models
    PROVE  /\ ~Look(c) => AskersOf(m)' \subseteq AskersOf(m)
           /\ m \notin Asks(k) => AskersOf(m)' \subseteq AskersOf(m) \ {c}
           /\ m \in Asks(caller[c]) => AskersOf(m)' \subseteq AskersOf(m)
  <1>1. caller'[c] = k /\ \A d \in Callers : d # c => caller'[d] = caller[d]
    BY OneMoves
  <1>2. AskersOf(m)' = {d \in Callers : m \in Asks(caller'[d])}
    BY DEF AskersOf, Asks, Members
  <1>3. ~Look(c) => Asks(k) \subseteq Asks(caller[c])
    BY DEF Moves
  <1>4. AskersOf(m) = {d \in Callers : m \in Asks(caller[d])}
    BY DEF AskersOf
  <1> HIDE DEF Asks, Look
  <1> QED BY <1>1, <1>2, <1>3, <1>4

\* The router lets a model through only where its allowance is not used up.
LEMMA LookAsks ==
    ASSUME QuotaTypeOK, NEW c \in Callers, Look(c), NEW m \in Models, m \in Asks(caller'[c])
    PROVE  m \in Asks(caller[c]) \/ ~Exhausted(Rolled, m)
  <1>1. PICK r \in Call : r = caller[c]
    BY CallerTyped
  <1>2. r.at = "route" /\ r.todo \in Seq(Models)
    BY <1>1, CallFields DEF Look
  <1>3. CASE UNCHANGED caller
    BY <1>3
  <1>4. ASSUME NEW n \in Models, ~Exhausted(Rolled, n),
               caller' = [caller EXCEPT ![c].todo = Append(@, n)]
        PROVE  m \in Asks(caller[c]) \/ ~Exhausted(Rolled, m)
    <2>1. PICK t \in Seq(Models) : t = r.todo
      BY <1>2
    <2>2. PICK q \in Seq(Models) :
            /\ q = Append(t, n) /\ Members(q) = Members(t) \cup {n}
            /\ DOMAIN t \subseteq DOMAIN q /\ \A i \in DOMAIN t : q[i] = t[i]
            /\ Distinct(t) /\ n \notin Members(t) => Distinct(q)
      BY Joins
    <2>3. PICK k : k = [r EXCEPT !.todo = q]
      OBVIOUS
    <2>4. k.at = "route" /\ k.todo = q /\ k.kind = r.kind
      BY <1>2, <2>3 DEF Call
    <2>5. caller'[c] = k
      BY <1>1, <1>4, <2>1, <2>2, <2>3 DEF QuotaTypeOK
    <2>6. m \in Members(q) /\ r.kind # "fixed"
      BY <2>4, <2>5 DEF Asks, Waiting
    <2>7. m \in Members(t) => m \in Asks(r)
      BY <2>1, <2>6 DEF Asks
    <2> QED BY <1>1, <1>4, <2>2, <2>6, <2>7
  <1>5. Compatible[c] \subseteq Models
    BY QuotaConstants
  <1> QED BY <1>3, <1>4, <1>5 DEF Look

\* A model is let through while what was asked of it is within its allowance.
LEMMA AllowedLook ==
    ASSUME InOrder, InOrder', Metered, Allowed, NEW c \in Callers, Look(c) PROVE Allowed'
  <1>1. PICK k \in Call : Moves(c, k)
    BY StepMoves DEF InOrder, Step
  <1>2. caller'[c] = k /\ today' = today /\ unrouted' = unrouted
    BY <1>1, OneMoves DEF InOrder, Look, past
  <1> SUFFICES ASSUME NEW m \in Models PROVE AllowedFor(m)'
    BY DEF Allowed
  <1>3. AskersOf(m)' \in SUBSET Callers /\ today[m] \in Nat /\ unrouted[m] \in Nat
    BY DEF AskersOf, InOrder, QuotaTypeOK
  <1>4. CASE m \notin Asks(k) \/ m \in Asks(caller[c])
    <2>1. AskersOf(m)' \subseteq AskersOf(m)
      BY <1>1, <1>4, AskersMove DEF InOrder
    <2> QED BY <1>2, <2>1, AllowedKept DEF InOrder, Allowed
  <1>5. CASE m \in Asks(k) /\ m \notin Asks(caller[c])
    <2>1. Rolled.date = Day(now) /\ Fits(Rolled, file, Day(now), today, taught) /\ Rolled \in Meter
      BY MeterTyped, RolledFits DEF InOrder, Metered
    <2>2. Rolled.counts[m] \in Nat /\ Rolled.clamped[m] \in Nat \cup {Unclamped}
      BY <2>1, MeterFields
    <2>3. ~Exhausted(Rolled, m)
      BY <1>2, <1>5, LookAsks DEF InOrder
    <2>4. Rolled.clamped[m] # Unclamped => Rolled.counts[m] >= Rolled.clamped[m]
      BY <2>1 DEF Fits
    <2>5. ~(Rolled.counts[m] >= PerDay)
      BY <2>3, <2>4 DEF Exhausted, DailyLimit
    <2>6. today[m] - Rolled.counts[m] <= 1
      BY <2>1 DEF Fits, Gap
    <2>7. today[m] <= PerDay
      BY <1>3, <2>2, <2>5, <2>6, QuotaConstants
    <2>8. today[m] + Cardinality(AskersOf(m)') <= PerDay + Cardinality(Callers) + unrouted[m]
      BY <1>3, <2>7, AllowedAnew
    <2> QED BY <1>2, <2>8 DEF AllowedFor
  <1> QED BY <1>4, <1>5

LEMMA AllowedSend ==
    ASSUME InOrder, InOrder', Allowed, NEW c \in Callers, NEW m \in Models, m = caller[c].model,
           caller[c].at \in {"lock", "sleep"}, NEW x, Send(c, m, x)
    PROVE  Allowed'
  <1>1. PICK k \in Call : Moves(c, k) /\ GetsThrough(c, k)
    BY SendMoves DEF InOrder
  <1>2. m \notin Asks(k) /\ ~Look(c)
    BY <1>1 DEF GetsThrough, Look
  <1>3. /\ today' = [today EXCEPT ![m] = @ + 1] /\ today \in [Models -> Nat]
        /\ unrouted' = (IF Routed(c) THEN unrouted ELSE [unrouted EXCEPT ![m] = @ + 1])
        /\ unrouted \in [Models -> Nat]
    BY DEF Send, InOrder, QuotaTypeOK
  <1> SUFFICES ASSUME NEW n \in Models PROVE AllowedFor(n)'
    BY DEF Allowed
  <1>4. /\ AskersOf(n)' \subseteq AskersOf(n)
        /\ n \notin Asks(k) => AskersOf(n)' \subseteq AskersOf(n) \ {c}
    BY <1>1, <1>2, AskersMove DEF InOrder
  <1>5. CASE n # m
    <2>1. today'[n] = today[n] /\ unrouted'[n] = unrouted[n]
      BY <1>3, <1>5
    <2> QED BY <1>4, <2>1, AllowedKept DEF InOrder, Allowed
  <1>6. CASE n = m
    <2>1. PICK A, B : A = AskersOf(n) /\ B = AskersOf(n)'
      OBVIOUS
    <2>2. A \in SUBSET Callers /\ B \in SUBSET Callers /\ B \subseteq A \ {c}
      BY <1>2, <1>4, <1>6, <2>1 DEF AskersOf
    <2>3. Cardinality(A) \in Nat /\ Cardinality(B) \in Nat /\ Cardinality(B) <= Cardinality(A)
      BY <2>2, CallersFinite
    <2>4. today'[n] = today[n] + 1 /\ today[n] \in Nat /\ unrouted[n] \in Nat
      BY <1>3, <1>6
    <2>5. today[n] + Cardinality(A) <= PerDay + Cardinality(Callers) + unrouted[n]
      BY <2>1 DEF Allowed, AllowedFor
    <2>6. PerDay \in Nat /\ Cardinality(Callers) \in Nat
      BY QuotaConstants, CallersFinite
    <2>7. CASE Routed(c)
      <3>1. c \in A /\ unrouted'[n] = unrouted[n]
        BY <1>3, <1>6, <2>1, <2>7 DEF AskersOf, Asks, Waiting, Routed
      <3>2. Cardinality(A \ {c}) + 1 = Cardinality(A)
        BY <2>2, <3>1, WithoutOne
      <3>3. Cardinality(B) <= Cardinality(A \ {c}) /\ Cardinality(A \ {c}) \in Nat
        <4>1. A \ {c} \in SUBSET Callers
          BY <2>2
        <4> QED BY <2>2, <4>1, CallersFinite
      <3>4. today'[n] + Cardinality(B) <= PerDay + Cardinality(Callers) + unrouted'[n]
        BY <2>3, <2>4, <2>5, <2>6, <3>1, <3>2, <3>3
      <3> QED BY <2>1, <3>4 DEF AllowedFor
    <2>8. CASE ~Routed(c)
      <3>1. unrouted'[n] = unrouted[n] + 1
        BY <1>3, <1>6, <2>8
      <3>2. today'[n] + Cardinality(B) <= PerDay + Cardinality(Callers) + unrouted'[n]
        BY <2>3, <2>4, <2>5, <2>6, <3>1
      <3> QED BY <2>1, <3>2 DEF AllowedFor
    <2> QED BY <2>7, <2>8
  <1> QED BY <1>5, <1>6

LEMMA AllowedMoves ==
    ASSUME InOrder, InOrder', Metered, Allowed, NEW c \in Callers,
           Route(c) \/ Synthesize(c) \/ Step(c) \/ CallCancelled(c)
    PROVE  Allowed'
  <1>1. PICK k \in Call : Moves(c, k)
    BY StepMoves DEF InOrder
  <1>2. caller[c].at \in Busy => caller[c].model \in Models
    BY DEF InOrder, Calls, Proper
  <1>3. ASSUME today' = today, unrouted' = unrouted, ~Look(c) PROVE Allowed'
    <2> SUFFICES ASSUME NEW m \in Models PROVE AllowedFor(m)'
      BY DEF Allowed
    <2>1. AskersOf(m)' \subseteq AskersOf(m)
      BY <1>1, <1>3, AskersMove DEF InOrder
    <2> QED BY <1>3, <2>1, AllowedKept DEF InOrder, Allowed
  <1>4. CASE Look(c)
    BY <1>4, AllowedLook
  <1>5. CASE Acquire(c) \/ Wakes(c)
    <2>1. PICK m \in Models : m = caller[c].model
      BY <1>2, <1>5 DEF Acquire, Wakes, Busy, Waiting
    <2>2. caller[c].at \in {"lock", "sleep"} /\ \E x : Attempt(c, x)
      BY <1>5 DEF Acquire, Wakes
    <2>3. PICK x : Attempt(c, x)
      BY <2>2
    <2>4. CASE Send(c, m, x)
      BY <2>1, <2>2, <2>4, AllowedSend
    <2>5. CASE TimesOut(c, m, x) \/ Sleeps(c, m, x, caller[c].time)
      <3>1. ~Look(c)
        BY <2>2 DEF Look
      <3> QED BY <1>3, <2>5, <3>1 DEF TimesOut, Sleeps
    <2> QED BY <2>1, <2>3, <2>4, <2>5 DEF Attempt
  <1>6. CASE /\ ~Look(c)
             /\ \/ Route(c) \/ Synthesize(c) \/ GivesUp(c) \/ NextModel(c) \/ InSlot(c)
                \/ Prepared(c) \/ AsksFirst(c) \/ Limited(c) \/ Answered(c) \/ Finished(c)
                \/ Fails(c) \/ CallCancelled(c)
    <2>1. today' = today /\ unrouted' = unrouted
      BY <1>6 DEF Route, Synthesize, GivesUp, NextModel, InSlot, Prepared, AsksFirst, Limited,
                  Answered, Finished, Fails, CallCancelled, past
    <2> QED BY <1>3, <1>6, <2>1
  <1> QED BY <1>4, <1>5, <1>6 DEF Step

LEMMA AllowedStep == InOrder /\ Metered /\ Allowed /\ [QuotaNext]_quotaVars => Allowed'
  <1> SUFFICES ASSUME InOrder, Metered, Allowed, [QuotaNext]_quotaVars PROVE Allowed'
    OBVIOUS
  <1>1. InOrder'
    BY InOrderStep
  <1>2. CASE Tick \/ Restart \/ UNCHANGED quotaVars
    <2> SUFFICES ASSUME NEW m \in Models PROVE AllowedFor(m)'
      BY DEF Allowed
    <2>1. today[m] \in Nat
      BY DEF InOrder, QuotaTypeOK
    <2>2. (today' = today /\ unrouted' = unrouted) \/ (today'[m] = 0 /\ unrouted'[m] = 0)
      BY <1>2 DEF Tick, Restart, quotaVars, past
    <2>3. caller' = caller \/ caller' = [c \in Callers |-> Idle]
      BY <1>2 DEF Tick, Restart, quotaVars, memory
    <2>4. AskersOf(m)' = {d \in Callers : m \in Asks(caller'[d])}
      BY DEF AskersOf, Asks, Members
    <2>5. AskersOf(m)' \subseteq AskersOf(m) /\ AskersOf(m)' \in SUBSET Callers
      BY <2>3, <2>4, IdleProper DEF AskersOf
    <2>6. CASE today' = today /\ unrouted' = unrouted
      BY <1>1, <2>5, <2>6, AllowedKept DEF InOrder, Allowed
    <2>7. CASE today'[m] = 0 /\ unrouted'[m] = 0
      BY <2>5, <2>7, AllowedAnew, QuotaConstants DEF AllowedFor
    <2> QED BY <2>2, <2>6, <2>7
  <1> QED BY <1>1, <1>2, AllowedMoves DEF QuotaNext

LEMMA AllowedInit == QuotaInit => Allowed
  <1> SUFFICES ASSUME QuotaInit, NEW m \in Models PROVE AllowedFor(m)
    BY DEF Allowed
  <1>1. today[m] = 0 /\ unrouted[m] = 0
    BY DEF QuotaInit
  <1>2. AskersOf(m) \in SUBSET Callers
    BY DEF AskersOf
  <1> QED BY <1>1, <1>2, AllowedAnew, QuotaConstants DEF AllowedFor

LEMMA AllowanceShows == InOrder /\ Paced /\ Allowed => WithinAllowance
  <1> SUFFICES ASSUME InOrder, Paced, Allowed, NEW m \in Models
               PROVE  /\ Len(recent[m]) <= PerMinute * (1 + restarts)
                      /\ today[m] + Cardinality({c \in Callers : MayAsk(c, m)})
                           <= PerDay + Cardinality(Callers) + unrouted[m]
    BY DEF WithinAllowance
  <1>1. Len(recent[m]) <= Forgotten + PerMinute
    BY DEF Paced, PacedFor, Pace
  <1>2. PerMinute * (1 + restarts) = Forgotten + PerMinute
    BY NowTyped, FreeIs DEF InOrder, Forgotten
  <1>3. {c \in Callers : MayAsk(c, m)} = AskersOf(m)
    BY DEF AskersOf, Asks, MayAsk, Members, Waiting, Routed
  <1>4. today[m] + Cardinality(AskersOf(m)) <= PerDay + Cardinality(Callers) + unrouted[m]
    BY DEF Allowed, AllowedFor
  <1> QED BY <1>1, <1>2, <1>3, <1>4

\* No model is asked more often in a minute than the pace, but for a restart; and what calls
\* that the router let through ask of it in a day is no more than its allowance and one
\* request of each caller (acquire, exhausted): the window holds what was asked in this life,
\* and the router lets a model through only while its count is below its limit and misses one
\* request at most, however many look at once. Only the requests that the synthesizer sends
\* past the router add to that.
THEOREM Allowances == QuotaSpec => []WithinAllowance
  <1>1. /\ InOrder /\ Metered /\ Paced /\ Allowed /\ [QuotaNext]_quotaVars
        => (InOrder /\ Metered /\ Paced /\ Allowed)'
    BY InOrderStep, MeteredStep, PacedStep, AllowedStep
  <1>2. QuotaInit => InOrder /\ Metered /\ Paced /\ Allowed
    BY InOrderInit, MeteredInit, PacedInit, AllowedInit
  <1> QED BY <1>1, <1>2, AllowanceShows, PTL DEF QuotaSpec
=============================================================================
