-------------------------- MODULE MissionLoopProofs --------------------------
(***************************************************************************)
(* What TLAPS proves of MissionLoop, for any plans, any calls and any      *)
(* limits: its counters stay within the limits, its verdicts are honest,   *)
(* its checkpoint leaves no gap and a cancellation stops it.               *)
(*                                                                         *)
(* The mission is one large record; Zenon says what an EXCEPT makes of     *)
(* its fields, and SMT does the arithmetic on them.                        *)
(***************************************************************************)
EXTENDS MissionLoop, SequenceTheorems, FiniteSetTheorems, TLAPS

\* The limits, where they are not looked at.
Within(x) ==
    /\ x.tool <= MaxToolCalls - 1 + PerResponse
    /\ Len(x.completed) <= MaxSteps - 1 + PerResponse
    /\ Len(x.todo) <= PerResponse

\* Which points belong to which way of running; only a mission that runs has its status.
Shape(x) ==
    /\ x.at \in {"ask", "calls"} => x.mode = "adaptive"
    /\ x.at \in {"attempt", "verify"} => x.mode = "plan"
    /\ x.mode = "plan" /\ x.at \in {"attempt", "begin", "exec", "verify"} => x.step < PlanLength[x.plan]
    /\ x.mode = "plan" /\ x.at # "ended" => x.plan \in Plans
    /\ x.mode = "adaptive" => x.step = 0
    /\ x.at # "ended" <=> x.status = "running"

\* What is left of the limits between two looks: one step of the plan, or the calls of a
\* response.
Room(x) ==
    /\ x.mode = "plan" /\ x.at \in {"attempt", "begin", "exec", "verify"} =>
        Len(x.completed) < MaxSteps
    /\ x.mode = "plan" /\ x.at \in {"begin", "exec"} => x.tool < MaxToolCalls
    /\ x.at = "ask" => x.tool < MaxToolCalls /\ Len(x.completed) < MaxSteps
    /\ x.at = "calls" =>
        /\ x.tool + Len(x.todo) <= MaxToolCalls - 1 + PerResponse
        /\ Len(x.completed) + Len(x.todo) <= MaxSteps - 1 + PerResponse
    /\ x.mode = "adaptive" /\ x.at \in {"begin", "exec"} =>
        /\ x.tool + Len(x.todo) <= MaxToolCalls - 1 + PerResponse
        /\ Len(x.completed) + Len(x.todo) + 1 <= MaxSteps - 1 + PerResponse

Fit(x) == x \in Mission /\ Within(x) /\ Shape(x) /\ Room(x)

Rows ==
    /\ checkpoint \subseteq Checkpoint
    /\ Cardinality(checkpoint) <= 1
    /\ tried \subseteq Plans \X Nat
    /\ left \subseteq Plans \X Nat

\* The invariant that is inductive for the types and the limits.
Bounded == Fit(m) /\ Rows

\* Evidence is a result that succeeded.
Honest == m.grounded => Verified

\* The steps before the one the mission is at.
Reached == UpTo(m.plan, m.step) \subseteq tried \cup left

\* A call that begins after the cancellation was announced before it.
Stops ==
    /\ m.overrun \in {0, 1}
    /\ m.overrun = 1 => m.cancel /\ m.at # "begin"

------------------------------------------------------------------------------
(* Types and limits.                                                        *)

LEMMA Limits ==
    /\ Plans # {} /\ NoPlan \notin Plans /\ PlanLength \in [Plans -> Nat \ {0}]
    /\ PerResponse \in Nat \ {0} /\ MaxSteps \in Nat \ {0}
    /\ MaxModelCalls \in Nat \ {0} /\ MaxToolCalls \in Nat \ {0} /\ MaxRepeats \in Nat \ {0}
    /\ MaxRuns \in Nat \ {0} /\ MaxRetries \in Nat /\ MaxWaits \in Nat
  BY MissionAssumption

\* The places in the plans are numbers; before the end of a plan there is a next one.
LEMMA PlacesTyped ==
    /\ Places \subseteq Nat /\ 0 \in Places
    /\ \A plan \in Plans, step \in Places :
            step < PlanLength[plan] => step + 1 \in Places /\ step + 1 \in Nat \ {0}
  <1>1. Places \subseteq Nat
    BY Limits DEF Places
  <1>2. 0 \in Places
    <2>1. PICK plan \in Plans : TRUE
      BY Limits
    <2>2. 0 \in 0..PlanLength[plan]
      BY <2>1, Limits
    <2> QED BY <2>1, <2>2 DEF Places
  <1>3. ASSUME NEW plan \in Plans, NEW step \in Places, step < PlanLength[plan]
        PROVE  step + 1 \in Places /\ step + 1 \in Nat \ {0}
    <2>1. step \in Nat /\ PlanLength[plan] \in Nat
      BY <1>1, Limits
    <2>2. step + 1 \in 0..PlanLength[plan]
      BY <1>3, <2>1
    <2> QED BY <2>1, <2>2 DEF Places
  <1> QED BY <1>1, <1>2, <1>3

\* The fields of a mission.
LEMMA Fields ==
    ASSUME NEW x \in Mission
    PROVE  /\ x.mode \in Modes /\ x.at \in Points /\ x.status \in Outcomes
           /\ x.run \in 0..MaxRuns /\ x.plan \in Plans \cup {NoPlan} /\ x.step \in Places /\ x.step \in Nat
           /\ x.late \in BOOLEAN /\ x.cancel \in BOOLEAN /\ x.required \in BOOLEAN
           /\ x.tool \in Nat /\ x.overrun \in Nat /\ x.model \in 0..MaxModelCalls
           /\ x.attempt \in 0..(MaxRetries + 1) /\ x.waits \in 0..MaxWaits
           /\ x.completed \in Seq(BOOLEAN) /\ Len(x.completed) \in Nat
           /\ x.todo \in Seq(Calls) /\ Len(x.todo) \in Nat
           /\ x.seen \in [Calls -> 0..(MaxRepeats + 1)]
  <1>1. x.completed \in Seq(BOOLEAN) /\ x.todo \in Seq(Calls)
    BY DEF Mission
  <1>2. Len(x.completed) \in Nat /\ Len(x.todo) \in Nat
    BY <1>1, LenProperties
  <1>3. x.step \in Places
    BY DEF Mission
  <1>4. x.step \in Nat
    BY <1>3, PlacesTyped
  <1> QED BY <1>1, <1>2, <1>3, <1>4 DEF Mission

LEMMA FreshFit == Fit(Fresh)
  <1>1. /\ <<>> \in Seq(BOOLEAN) /\ <<>> \in Seq(Calls)
        /\ Len(<<>>) = 0
    BY EmptySeq
  <1>2. Fresh \in Mission
    BY <1>1, Limits, PlacesTyped DEF Fresh, Mission, Modes, Points, Outcomes
  <1>3. Within(Fresh) /\ Shape(Fresh) /\ Room(Fresh)
    BY <1>1, Limits DEF Fresh, Within, Shape, Room
  <1> QED BY <1>2, <1>3 DEF Fit

\* At most one row, of the checkpoint's type.
LEMMA SavedTyped ==
    ASSUME Bounded, NEW status \in Outcomes, NEW step \in Places
    PROVE  Saved(status, step) \subseteq Checkpoint /\ Cardinality(Saved(status, step)) <= 1
  <1> DEFINE row == [status |-> status, plan |-> m.plan, step |-> step]
  <1>1. row \in Checkpoint
    BY Fields DEF Checkpoint, Bounded, Fit
  <1> HIDE DEF row
  <1>2. Cardinality({row}) = 1
    BY FS_Singleton
  <1>3. {row} \subseteq Checkpoint /\ Cardinality({row}) <= 1
    BY <1>1, <1>2
  <1> QED BY <1>3 DEF Saved, row

LEMMA SaveAsTyped ==
    ASSUME Bounded, NEW status \in Outcomes, SaveAs(status), UNCHANGED <<tried, left>>
    PROVE  Rows'
  <1>1. m.step \in Places
    BY Fields DEF Bounded, Fit
  <1>2. checkpoint' \subseteq Checkpoint /\ Cardinality(checkpoint') <= 1
    BY <1>1, SavedTyped DEF SaveAs
  <1> QED BY <1>2 DEF Rows, Bounded

LEMMA RowsStay == ASSUME Bounded, UNCHANGED <<checkpoint, tried, left>> PROVE Rows'
  BY DEF Bounded, Rows

LEMMA Initially == Init => Bounded
  <1> SUFFICES ASSUME Init PROVE Bounded
    OBVIOUS
  <1>1. Cardinality({}) <= 1
    BY FS_EmptySet
  <1> QED BY <1>1, FreshFit DEF Init, Bounded, Rows

LEMMA FreshFields ==
    /\ Fresh \in Mission
    /\ Fresh.mode = "plan" /\ Fresh.step = 0 /\ Fresh.tool = 0 /\ Fresh.overrun = 0
    /\ Fresh.completed = <<>> /\ Fresh.todo = <<>> /\ ~Fresh.grounded
  <1>1. Fresh \in Mission
    BY FreshFit DEF Fit
  <1> QED BY <1>1, Zenon DEF Fresh

\* A run that begins, at whatever step of whatever plan.
Begun(x) ==
    /\ x \in Mission
    /\ x.at = "head" /\ x.status = "running"
    /\ x.mode = "plan" => x.plan \in Plans
    /\ x.mode = "adaptive" => x.step = 0
    /\ x.tool = 0 /\ x.completed = <<>> /\ x.todo = <<>>
    /\ ~x.grounded /\ x.overrun = 0

LEMMA BegunFit == ASSUME NEW x, Begun(x) PROVE Fit(x)
  <1>1. Len(<<>>) = 0
    BY EmptySeq
  <1> QED BY <1>1, Limits DEF Begun, Fit, Within, Shape, Room

LEMMA BeginsBegun ==
    ASSUME Bounded, NEW mode \in Modes, NEW plan \in Plans \cup {NoPlan}, NEW step \in Places,
           NEW fresh \in BOOLEAN, Begins(mode, plan, step, fresh),
           mode = "plan" => plan \in Plans, mode = "adaptive" => step = 0
    PROVE  /\ Begun(m') /\ m'.plan = plan /\ m'.step = step
           /\ UNCHANGED <<checkpoint, tried>>
  <1>1. m.run + 1 \in 0..MaxRuns
    <2>1. m.run < MaxRuns
      BY Zenon DEF Begins
    <2>2. m.run \in 0..MaxRuns
      BY Fields DEF Bounded, Fit
    <2> QED BY <2>1, <2>2, Limits
  <1>2. "head" \in Points /\ "running" \in Outcomes
    BY DEF Points, Outcomes
  <1>3. m' = [Fresh EXCEPT !.mode = mode, !.plan = plan, !.step = step, !.fresh = fresh,
                           !.at = "head", !.status = "running", !.run = m.run + 1]
    BY Zenon DEF Begins
  <1>4. m' \in Mission
    BY <1>1, <1>2, <1>3, FreshFields, ZenonT(60) DEF Mission
  <1>5. /\ m'.mode = mode /\ m'.plan = plan /\ m'.step = step
        /\ m'.at = "head" /\ m'.status = "running"
        /\ m'.tool = Fresh.tool /\ m'.completed = Fresh.completed /\ m'.todo = Fresh.todo
        /\ m'.grounded = Fresh.grounded /\ m'.overrun = Fresh.overrun
    BY <1>3, FreshFields, ZenonT(60) DEF Mission
  <1>6. UNCHANGED <<checkpoint, tried>>
    BY Zenon DEF Begins
  <1> QED BY <1>4, <1>5, <1>6, FreshFields, Zenon DEF Begun

\* A run that begins keeps the types.
LEMMA BeginsBounded ==
    ASSUME Bounded, Begun(m'), UNCHANGED <<checkpoint, tried>>, left' \subseteq Plans \X Nat
    PROVE  Bounded'
  <1>1. Rows'
    BY DEF Bounded, Rows
  <1> QED BY <1>1, BegunFit DEF Bounded

------------------------------------------------------------------------------
(* The invariant, and the moves that disturb little of it.                  *)

Inv == Bounded /\ Honest /\ Reached /\ CoversSteps /\ Stops /\ Grounded

\* What x has in common with the mission as it is, wherever it moves to.
Keeps(x) ==
    /\ x \in Mission
    /\ x.mode = m.mode /\ x.plan = m.plan /\ x.step = m.step /\ x.fresh = m.fresh
    /\ x.completed = m.completed /\ x.grounded = m.grounded
    /\ x.overrun = m.overrun

\* The point and the calls.
Moves(x, at) ==
    /\ Keeps(x)
    /\ x.cancel = m.cancel /\ x.status = m.status
    /\ x.at = at

LEMMA KeepsHonest == ASSUME Honest, Keeps(m') PROVE Honest'
  BY Zenon DEF Honest, Keeps, Verified

LEMMA KeepsReached ==
    ASSUME Reached, CoversSteps, Keeps(m'), UNCHANGED <<tried, left>>,
           checkpoint' = checkpoint \/ \E status \in Outcomes : SaveAs(status)
    PROVE  Reached' /\ CoversSteps'
  <1>1. tried' = tried /\ left' = left
    OBVIOUS
  <1>2. m'.plan = m.plan /\ m'.step = m.step
    BY DEF Keeps
  <1>3. Reached'
    BY <1>1, <1>2, Zenon DEF Reached
  <1>4. CASE checkpoint' = checkpoint
    BY <1>1, <1>3, <1>4, Zenon DEF CoversSteps
  <1>5. CASE \E status \in Outcomes : SaveAs(status)
    <2>1. PICK status \in Outcomes : checkpoint' = {[status |-> status, plan |-> m.plan, step |-> m.step]}
      BY <1>5, Zenon DEF SaveAs, Saved
    <2>2. \A c \in checkpoint' : c.plan = m.plan /\ c.step = m.step
      BY <2>1
    <2> QED BY <1>1, <1>3, <2>2 DEF CoversSteps, Reached
  <1> QED BY <1>3, <1>4, <1>5

\* A mission that goes on somewhere else.
LEMMA MoveInv ==
    ASSUME Inv, Running, NEW at \in Points \ {"ended"}, Moves(m', at), Fit(m'), Rows',
           at = "begin" => ~m.cancel, UNCHANGED <<tried, left>>,
           checkpoint' = checkpoint \/ \E status \in Outcomes : SaveAs(status)
    PROVE  Inv'
  <1>1. Bounded' /\ Honest' /\ Reached' /\ CoversSteps'
    BY KeepsHonest, KeepsReached DEF Inv, Bounded, Moves
  <1>2. Stops'
    BY DEF Inv, Stops, Moves, Keeps
  <1>3. Grounded'
    BY DEF Inv, Bounded, Fit, Shape, Moves, Running, Grounded
  <1> QED BY <1>1, <1>2, <1>3 DEF Inv

\* A mission that ends, with a verdict it can stand for.
LEMMA EndInv ==
    ASSUME Inv, NEW status \in Outcomes \ {"running"}, End(status),
           UNCHANGED <<tried, left>>, checkpoint' = checkpoint \/ SaveAs(status),
           status = "completed" /\ m.mode = "adaptive" =>
               (m.fresh => m.grounded) /\ (Verified \/ ~m.required)
    PROVE  Inv'
  <1>1. "ended" \in Points /\ m \in Mission
    BY DEF Points, Fit, Inv, Bounded
  <1>2. Keeps(m')
    BY <1>1, ZenonT(60) DEF End, Mission, Keeps
  <1>3. /\ m'.at = "ended" /\ m'.status = status /\ m'.cancel = m.cancel
        /\ m'.required = m.required /\ m'.tool = m.tool /\ m'.todo = m.todo
    BY <1>1, ZenonT(60) DEF End, Mission
  <1>4. Fit(m')
    BY <1>2, <1>3 DEF Inv, Bounded, Fit, Within, Shape, Room, Keeps
  <1>5. Rows'
    BY RowsStay, SaveAsTyped DEF Inv
  <1>6. Honest' /\ Reached' /\ CoversSteps'
    BY <1>2, KeepsHonest, KeepsReached DEF Inv
  <1>7. Stops'
    BY <1>2, <1>3 DEF Inv, Stops, Keeps
  <1>8. Grounded'
    <2>1. Verified' <=> Verified
      BY <1>2, Zenon DEF Verified, Keeps
    <2>2. m.grounded => Verified
      BY DEF Inv, Honest
    <2> QED BY <1>2, <1>3, <2>1, <2>2 DEF Grounded, Keeps
  <1> QED BY <1>4, <1>5, <1>6, <1>7, <1>8 DEF Inv, Bounded

LEMMA EndSavedInv ==
    ASSUME Inv, NEW status \in Outcomes \ {"running", "completed"}, EndSaved(status)
    PROVE  Inv'
  BY EndInv DEF EndSaved

\* What follows from the invariant and not being at a limit.
LEMMA Below ==
    ASSUME Inv, ~AtLimit
    PROVE  m.tool < MaxToolCalls /\ m.model < MaxModelCalls /\ Len(m.completed) < MaxSteps
  BY Limits, Fields DEF AtLimit, Inv, Bounded, Fit

------------------------------------------------------------------------------
(* The steps.                                                               *)

LEMMA UpToNothing == ASSUME NEW plan PROVE UpTo(plan, 0) = {}
  BY DEF UpTo

LEMMA InitInv == Init => Inv
  <1> SUFFICES ASSUME Init PROVE Inv
    OBVIOUS
  <1>1. m = Fresh /\ checkpoint = {} /\ Bounded
    BY Initially DEF Init
  <1>2. Honest /\ Stops /\ Grounded
    BY <1>1, FreshFields DEF Honest, Stops, Grounded
  <1>3. Reached /\ CoversSteps
    BY <1>1, FreshFields, UpToNothing DEF Reached, CoversSteps
  <1> QED BY <1>1, <1>2, <1>3 DEF Inv

LEMMA BegunInv ==
    ASSUME Inv, Begun(m'), UNCHANGED <<checkpoint, tried>>, left \subseteq left',
           left' \subseteq Plans \X Nat, UpTo(m'.plan, m'.step) \subseteq tried \cup left'
    PROVE  Inv'
  <1>1. Bounded'
    BY BeginsBounded DEF Inv
  <1>2. Honest' /\ Stops' /\ Grounded'
    BY DEF Begun, Honest, Stops, Grounded
  <1>3. Reached' /\ CoversSteps'
    BY DEF Inv, Reached, CoversSteps
  <1> QED BY <1>1, <1>2, <1>3 DEF Inv

LEMMA Modes1 == "plan" \in Modes /\ "adaptive" \in Modes /\ "plan" # "adaptive"
  BY DEF Modes

LEMMA RunInv == ASSUME Inv, Run PROVE Inv'
  <1>1. PICK plan \in Plans : Begins("plan", plan, 0, FALSE)
    BY DEF Run
  <1>2. Begun(m') /\ m'.plan = plan /\ m'.step = 0 /\ UNCHANGED <<checkpoint, tried>>
    BY <1>1, BeginsBegun, Modes1, PlacesTyped DEF Inv
  <1>3. UNCHANGED left /\ left \subseteq Plans \X Nat
    BY DEF Run, Inv, Bounded, Rows
  <1> QED BY <1>2, <1>3, UpToNothing, BegunInv

LEMMA RunAdaptiveInv == ASSUME Inv, RunAdaptive PROVE Inv'
  <1>1. PICK fresh \in BOOLEAN : Begins("adaptive", NoPlan, 0, fresh)
    BY DEF RunAdaptive
  <1>2. Begun(m') /\ m'.plan = NoPlan /\ m'.step = 0 /\ UNCHANGED <<checkpoint, tried>>
    BY <1>1, BeginsBegun, Modes1, PlacesTyped DEF Inv
  <1>3. UNCHANGED left /\ left \subseteq Plans \X Nat
    BY DEF RunAdaptive, Inv, Bounded, Rows
  <1> QED BY <1>2, <1>3, UpToNothing, BegunInv

\* What a resume passes over is of another plan than the checkpoint's.
LEMMA ResumeInv == ASSUME Inv, Resume PROVE Inv'
  <1>1. PICK c \in checkpoint, plan \in Plans :
            /\ Begins("plan", plan, c.step, FALSE)
            /\ left' = IF plan = c.plan THEN left ELSE left \cup UpTo(plan, c.step)
    BY Zenon DEF Resume, ResumeAt
  <1>2. c.step \in Places
    BY DEF Inv, Bounded, Rows, Checkpoint
  <1>3. Begun(m') /\ m'.plan = plan /\ m'.step = c.step /\ UNCHANGED <<checkpoint, tried>>
    BY <1>1, <1>2, BeginsBegun, Modes1 DEF Inv
  <1>4. UpTo(plan, c.step) \subseteq Plans \X Nat
    <2>1. c.step \in Nat
      BY <1>2, PlacesTyped
    <2> QED BY <2>1 DEF UpTo
  <1>5. left \subseteq left' /\ left' \subseteq Plans \X Nat
    BY <1>1, <1>4 DEF Inv, Bounded, Rows
  <1>6. UpTo(plan, c.step) \subseteq tried \cup left'
    BY <1>1 DEF Inv, CoversSteps
  <1> QED BY <1>3, <1>5, <1>6, BegunInv

LEMMA CancelInv == ASSUME Inv, Cancel PROVE Inv'
  <1>1. m \in Mission
    BY DEF Inv, Bounded, Fit
  <1>2. /\ Keeps(m') /\ m'.cancel = TRUE /\ m'.status = m.status /\ m'.at = m.at
        /\ m'.tool = m.tool /\ m'.todo = m.todo
    BY <1>1, ZenonT(60) DEF Cancel, Mission, Keeps
  <1>3. Fit(m') /\ Rows'
    BY <1>2, RowsStay DEF Inv, Bounded, Fit, Within, Shape, Room, Keeps, Cancel
  <1>4. Honest' /\ Reached' /\ CoversSteps'
    BY <1>2, KeepsHonest, KeepsReached DEF Inv, Cancel
  <1>5. Stops'
    BY <1>2 DEF Inv, Stops, Keeps, Cancel
  <1>6. Grounded'
    BY <1>2 DEF Inv, Bounded, Fit, Shape, Grounded, Cancel, Running
  <1> QED BY <1>3, <1>4, <1>5, <1>6 DEF Inv, Bounded

LEMMA TimePassesInv == ASSUME Inv, TimePasses PROVE Inv'
  <1>1. m \in Mission
    BY DEF Inv, Bounded, Fit
  <1>2. Moves(m', m.at) /\ m'.tool = m.tool /\ m'.todo = m.todo
    BY <1>1, ZenonT(60) DEF TimePasses, Mission, Moves, Keeps
  <1>3. Fit(m') /\ Rows'
    BY <1>2, RowsStay DEF Inv, Bounded, Fit, Within, Shape, Room, Moves, Keeps, TimePasses
  <1>4. Honest' /\ Reached' /\ CoversSteps'
    BY <1>2, KeepsHonest, KeepsReached DEF Inv, TimePasses, Moves
  <1>5. Stops' /\ Grounded'
    BY <1>2 DEF Inv, Bounded, Fit, Shape, Stops, Moves, Keeps, Grounded, TimePasses, Running
  <1> QED BY <1>3, <1>4, <1>5 DEF Inv, Bounded

LEMMA CrashInv == ASSUME Inv, Crash PROVE Inv'
  <1>1. "lost" \in Outcomes \ {"running"} /\ "lost" # "completed"
    BY DEF Outcomes
  <1> QED BY <1>1, EndInv DEF Crash

\* Only steps between a run's head and its end.
LEMMA Points1 ==
    /\ {"head", "ask", "calls", "attempt", "begin", "exec", "verify"} \subseteq Points \ {"ended"}
    /\ "running" \in Outcomes
    /\ {"needs_approval", "failed", "cancelled", "raised"} \subseteq Outcomes \ {"running", "completed"}
    /\ "completed" \in Outcomes \ {"running"}
  BY DEF Points, Outcomes

LEMMA EndVerifiedInv ==
    ASSUME Inv, m.mode = "plan", EndSaved(IF Verified THEN "completed" ELSE "failed")
    PROVE  Inv'
  <1>1. CASE Verified
    BY <1>1, EndInv, Points1 DEF EndSaved
  <1>2. CASE ~Verified
    BY <1>2, EndSavedInv, Points1
  <1> QED BY <1>1, <1>2

LEMMA PlanHeadInv == ASSUME Inv, PlanHead PROVE Inv'
  <1>1. m.mode = "plan" /\ m.at = "head" /\ m \in Mission
    BY DEF PlanHead, Inv, Bounded, Fit
  <1>2. CASE m.step >= PlanLength[m.plan]
    BY <1>1, <1>2, EndVerifiedInv DEF PlanHead
  <1>3. CASE \E status \in {"needs_approval", "failed", "cancelled"} : EndSaved(status)
    BY <1>3, EndSavedInv, Points1
  <1>4. CASE /\ ~(m.step >= PlanLength[m.plan]) /\ ~AtLimit
             /\ m' = [m EXCEPT !.at = "attempt", !.attempt = 1]
             /\ UNCHANGED <<checkpoint, tried, left>>
    <2>1. 1 \in 0..(MaxRetries + 1) /\ m.step < PlanLength[m.plan] /\ Len(m.completed) < MaxSteps
      <3>1. ~(m.step >= PlanLength[m.plan]) /\ Len(m.completed) < MaxSteps
        BY <1>4, Below
      <3>2. m.plan \in Plans
        BY <1>1 DEF Inv, Bounded, Fit, Shape
      <3>3. m.step \in Nat /\ PlanLength[m.plan] \in Nat
        BY <1>1, <3>2, Fields, Limits
      <3> QED BY <3>1, <3>3, Limits
    <2>2. Moves(m', "attempt") /\ m'.tool = m.tool /\ m'.todo = m.todo
      BY <1>1, <1>4, <2>1, Points1, ZenonT(60) DEF Mission, Moves, Keeps
    <2>3. Fit(m') /\ Rows' /\ Running
      BY <1>1, <1>4, <2>1, <2>2, RowsStay
         DEF Inv, Bounded, Fit, Within, Shape, Room, Moves, Keeps, Running
    <2> QED BY <1>4, <2>2, <2>3, MoveInv, Points1
  <1> QED BY <1>2, <1>3, <1>4, Zenon DEF PlanHead

\* The result of a step is noted, of which x has counted the call.
LEMMA OnwardInv ==
    ASSUME Inv, m.mode = "plan", m.plan \in Plans /\ m.step < PlanLength[m.plan], m.status = "running",
           NEW x, Keeps(x), x.cancel = m.cancel, x.status = m.status, x.todo = m.todo,
           x.tool <= MaxToolCalls - 1 + PerResponse, Len(m.completed) < MaxSteps,
           NEW verified \in BOOLEAN, m' = Onward(x, verified), Rows',
           tried \subseteq tried', left \subseteq left', ThisStep \subseteq tried' \cup left',
           \A c \in checkpoint' :
                c \in checkpoint \/ (c.plan = m.plan /\ c.step \in {m.step, m.step + 1})
    PROVE  Inv'
  <1> DEFINE done == Append(x.completed, verified)
             at == IF x.late THEN "ended" ELSE "head"
             status == IF x.late THEN "raised" ELSE x.status
  <1>1. x \in Mission /\ x.plan = m.plan /\ x.step = m.step /\ x.mode = "plan" /\ x.completed = m.completed
    BY DEF Keeps
  <1>2. /\ m.step \in Places /\ m.completed \in Seq(BOOLEAN)
        /\ Len(m.completed) \in Nat
    BY Fields DEF Inv, Bounded, Fit
  <1>3. /\ done \in Seq(BOOLEAN) /\ Len(done) = Len(m.completed) + 1
        /\ \A i \in 1..Len(m.completed) : done[i] = m.completed[i]
    BY <1>1, <1>2, AppendProperties
  <1>4. x.step + 1 \in Places /\ 0 \in 0..(MaxRetries + 1)
    <2>1. x.step + 1 \in Places
      BY <1>1, <1>2, PlacesTyped
    <2> QED BY <2>1, Limits
  <1>5. at \in Points /\ status \in Outcomes
    BY <1>1, Fields, Points1 DEF Points, Outcomes
  <1> HIDE DEF done, at, status
  <1>6. m' = [x EXCEPT !.completed = done, !.step = x.step + 1, !.attempt = 0, !.at = at,
                       !.status = status]
    BY Zenon DEF Onward, done, at, status
  <1>7. m' \in Mission
    BY <1>1, <1>3, <1>4, <1>5, <1>6, ZenonT(60) DEF Mission
  <1>8. /\ m'.mode = x.mode /\ m'.completed = done /\ m'.plan = x.plan /\ m'.step = x.step + 1 /\ m'.at = at
        /\ m'.status = status /\ m'.tool = x.tool /\ m'.todo = x.todo
        /\ m'.cancel = x.cancel /\ m'.overrun = x.overrun /\ m'.grounded = x.grounded
    BY <1>1, <1>6, ZenonT(60) DEF Mission
  <1>9. at \in {"head", "ended"}
    BY DEF at
  <1>10. Fit(m')
    <2>1. at = "ended" <=> status # "running"
      BY DEF at, status, Keeps
    <2>2. Within(m')
      BY <1>2, <1>3, <1>8, Limits DEF Inv, Bounded, Fit, Within
    <2>3. Shape(m') /\ Room(m')
      BY <1>1, <1>8, <1>9, <2>1 DEF Shape, Room
    <2> QED BY <1>7, <2>2, <2>3 DEF Fit
  <1>11. Honest'
    <2> SUFFICES ASSUME m'.grounded PROVE Verified'
      BY DEF Honest
    <2>1. Verified
      BY <1>8 DEF Inv, Honest, Keeps
    <2>2. PICK i \in DOMAIN m.completed : m.completed[i]
      BY <2>1 DEF Verified
    <2>3. DOMAIN m.completed = 1..Len(m.completed) /\ DOMAIN done = 1..Len(done)
      BY <1>2, <1>3, LenProperties
    <2>4. i \in 1..Len(done) /\ done[i]
      BY <1>2, <1>3, <2>2, <2>3
    <2> QED BY <1>8, <2>3, <2>4, Zenon DEF Verified
  <1>12. UpTo(m.plan, m.step + 1) \subseteq tried' \cup left'
    <2>1. m.step \in Nat
      BY <1>2, PlacesTyped
    <2>2. UpTo(m.plan, m.step + 1) \subseteq UpTo(m.plan, m.step) \cup ThisStep
      BY <2>1 DEF UpTo, ThisStep
    <2> QED BY <2>2 DEF Inv, Reached
  <1>13. Reached'
    BY <1>1, <1>8, <1>12 DEF Reached
  <1>14. CoversSteps'
    <2> SUFFICES ASSUME NEW c \in checkpoint'
                 PROVE  UpTo(c.plan, c.step) \subseteq tried' \cup left'
      BY DEF CoversSteps
    <2>1. CASE c \in checkpoint
      BY <2>1 DEF Inv, CoversSteps
    <2>2. CASE c.plan = m.plan /\ c.step = m.step
      BY <2>2 DEF Inv, Reached
    <2>3. CASE c.plan = m.plan /\ c.step = m.step + 1
      BY <1>12, <2>3
    <2> QED BY <2>1, <2>2, <2>3
  <1>15. Stops'
    BY <1>8, <1>9 DEF Inv, Stops, Keeps
  <1>16. Grounded'
    BY <1>1, <1>8 DEF Grounded
  <1> QED BY <1>10, <1>11, <1>13, <1>14, <1>15, <1>16 DEF Inv, Bounded

\* A step of the plan that a cancellation interrupts.
LEMMA SkippedInv ==
    ASSUME Inv, m.mode = "plan", m.at \in {"attempt", "exec"}, Skipped
    PROVE  Inv'
  <1>1. /\ m.plan \in Plans /\ m.step < PlanLength[m.plan] /\ m.status = "running" /\ Len(m.completed) < MaxSteps
        /\ m \in Mission /\ m.tool <= MaxToolCalls - 1 + PerResponse
    BY DEF Inv, Bounded, Fit, Shape, Room, Within
  <1>2. Keeps(m)
    BY <1>1 DEF Keeps
  <1>3. ThisStep \subseteq Plans \X Nat
    BY <1>1, Fields, PlacesTyped DEF ThisStep
  <1>4. Rows'
    BY <1>3 DEF Skipped, Inv, Bounded, Rows
  <1> QED BY <1>1, <1>2, <1>4, OnwardInv DEF Skipped

LEMMA AttemptInv == ASSUME Inv, Attempt PROVE Inv'
  <1>1. m.mode = "plan" /\ m.at = "attempt" /\ m \in Mission
    BY DEF Attempt, Inv, Bounded, Fit, Shape
  <1>2. CASE m.cancel
    BY <1>1, <1>2, SkippedInv DEF Attempt
  <1>3. CASE ~m.cancel /\ AtLimit
    <2>1. Raises
      BY <1>3 DEF Attempt
    <2> QED BY <2>1, EndInv, Points1 DEF Raises
  <1>4. CASE ~m.cancel /\ ~AtLimit
    <2>1. m' = [m EXCEPT !.at = "begin"] /\ UNCHANGED <<checkpoint, tried, left>>
      BY <1>4 DEF Attempt
    <2>2. Moves(m', "begin") /\ m'.tool = m.tool /\ m'.todo = m.todo
      BY <1>1, <2>1, Points1, ZenonT(60) DEF Mission, Moves, Keeps
    <2>3. Fit(m') /\ Rows' /\ Running
      BY <1>1, <1>4, <2>1, <2>2, Below, RowsStay
         DEF Inv, Bounded, Fit, Within, Shape, Room, Moves, Keeps, Running
    <2> QED BY <1>4, <2>1, <2>2, <2>3, MoveInv, Points1
  <1> QED BY <1>2, <1>3, <1>4

\* The answer to an attempt is counted.
LEMMA Counted ==
    ASSUME Inv, m.mode = "plan", m.at = "exec"
    PROVE  LET x == [m EXCEPT !.tool = @ + 1]
           IN  /\ Keeps(x) /\ x.cancel = m.cancel /\ x.status = m.status /\ x.todo = m.todo
               /\ x.tool = m.tool + 1 /\ x.tool <= MaxToolCalls - 1 + PerResponse
  <1> DEFINE x == [m EXCEPT !.tool = m.tool + 1]
  <1>1. m \in Mission /\ m.tool < MaxToolCalls
    BY DEF Inv, Bounded, Fit, Room
  <1>2. m.tool \in Nat /\ m.tool + 1 \in Nat
    BY <1>1, Fields
  <1>3. /\ Keeps(x) /\ x.cancel = m.cancel /\ x.status = m.status /\ x.todo = m.todo
        /\ x.tool = m.tool + 1
    BY <1>1, <1>2, ZenonT(60) DEF Keeps, Mission
  <1> HIDE DEF x
  <1>4. x.tool <= MaxToolCalls - 1 + PerResponse
    BY <1>1, <1>2, <1>3, Limits
  <1> QED BY <1>3, <1>4, Zenon DEF x

LEMMA StepFailsInv == ASSUME Inv, m.mode = "plan", m.at = "exec", StepFails PROVE Inv'
  <1>1. /\ m.plan \in Plans /\ m.step < PlanLength[m.plan] /\ m.status = "running" /\ Len(m.completed) < MaxSteps
        /\ m \in Mission
    BY DEF Inv, Bounded, Fit, Shape, Room
  <1> DEFINE x == [m EXCEPT !.tool = @ + 1]
  <1>2. /\ Keeps(x) /\ x.cancel = m.cancel /\ x.status = m.status /\ x.todo = m.todo
        /\ x.tool <= MaxToolCalls - 1 + PerResponse
    BY Counted
  <1>3. m' = Onward(x, FALSE)
    BY DEF StepFails
  <1> HIDE DEF x
  <1>4. ThisStep \subseteq Plans \X Nat /\ m.step \in Places
    BY <1>1, Fields, PlacesTyped DEF ThisStep
  <1>5. tried' = tried \cup ThisStep /\ left' = left /\ checkpoint' = Saved("running", m.step)
    BY DEF StepFails, SaveAs
  <1>6. Rows'
    BY <1>4, <1>5, SavedTyped, Points1 DEF Inv, Bounded, Rows
  <1>7. \A c \in checkpoint' : c.plan = m.plan /\ c.step = m.step
    BY <1>5 DEF Saved
  <1> QED BY <1>1, <1>2, <1>3, <1>5, <1>6, <1>7, OnwardInv

LEMMA StepAnswersInv == ASSUME Inv, StepAnswers PROVE Inv'
  <1>1. m.mode = "plan" /\ m.at = "exec" /\ m \in Mission
    BY DEF StepAnswers, Inv, Bounded, Fit
  <1>2. m.tool \in Nat /\ m.tool + 1 \in Nat /\ m.attempt \in 0..(MaxRetries + 1)
    BY <1>1, Fields
  <1>3. Running /\ Rows
    BY <1>1 DEF Running, Inv, Bounded
  <1>4. m.tool + 1 <= MaxToolCalls - 1 + PerResponse
    BY <1>1, <1>2, Limits DEF Inv, Bounded, Fit, Room
  <1>5. CASE m.cancel
    BY <1>1, <1>5, SkippedInv DEF StepAnswers
  <1>6. CASE /\ m' = [m EXCEPT !.tool = @ + 1, !.at = "verify"]
             /\ UNCHANGED <<checkpoint, tried, left>>
    <2>1. Moves(m', "verify") /\ m'.tool = m.tool + 1 /\ m'.todo = m.todo
      BY <1>1, <1>2, <1>6, Points1, ZenonT(60) DEF Mission, Moves, Keeps
    <2>2. Fit(m') /\ Rows'
      BY <1>1, <1>4, <1>6, <2>1, RowsStay DEF Inv, Bounded, Fit, Within, Shape, Room, Moves, Keeps
    <2> QED BY <1>3, <1>6, <2>1, <2>2, MoveInv, Points1
  <1>7. CASE /\ m.attempt <= MaxRetries
             /\ m' = [m EXCEPT !.tool = @ + 1, !.at = "attempt", !.attempt = @ + 1]
             /\ UNCHANGED <<checkpoint, tried, left>>
    <2>1. m.attempt + 1 \in 0..(MaxRetries + 1)
      BY <1>2, <1>7, Limits
    <2>2. Moves(m', "attempt") /\ m'.tool = m.tool + 1 /\ m'.todo = m.todo
      BY <1>1, <1>2, <1>7, <2>1, Points1, ZenonT(60) DEF Mission, Moves, Keeps
    <2>3. Fit(m') /\ Rows'
      BY <1>1, <1>4, <1>7, <2>2, RowsStay DEF Inv, Bounded, Fit, Within, Shape, Room, Moves, Keeps
    <2> QED BY <1>3, <1>7, <2>2, <2>3, MoveInv, Points1
  <1>8. CASE StepFails
    BY <1>1, <1>8, StepFailsInv
  <1> QED BY <1>5, <1>6, <1>7, <1>8, Zenon DEF StepAnswers

LEMMA StepVerifiedInv == ASSUME Inv, StepVerified PROVE Inv'
  <1>1. /\ m.at = "verify" /\ m.mode = "plan" /\ m.plan \in Plans /\ m.step < PlanLength[m.plan] /\ m.status = "running"
        /\ Len(m.completed) < MaxSteps /\ m \in Mission
        /\ m.tool <= MaxToolCalls - 1 + PerResponse
    BY DEF StepVerified, Inv, Bounded, Fit, Shape, Room, Within
  <1>2. Keeps(m)
    BY <1>1 DEF Keeps
  <1>3. ThisStep \subseteq Plans \X Nat /\ m.step + 1 \in Places
    BY <1>1, Fields, PlacesTyped DEF ThisStep
  <1>4. PICK verified \in BOOLEAN :
            /\ m' = Onward(m, verified)
            /\ checkpoint' = IF verified THEN Saved("running", m.step + 1) ELSE checkpoint
    BY Zenon DEF StepVerified
  <1>5. tried' = tried \cup ThisStep /\ left' = left
    BY DEF StepVerified
  <1>6. Rows'
    BY <1>3, <1>4, <1>5, SavedTyped, Points1 DEF Inv, Bounded, Rows
  <1>7. \A c \in checkpoint' :
            c \in checkpoint \/ (c.plan = m.plan /\ c.step = m.step + 1)
    BY <1>4 DEF Saved
  <1> QED BY <1>1, <1>2, <1>4, <1>5, <1>6, <1>7, OnwardInv

\* The verdict of run_adaptive, where there is evidence if there has to be.
LEMMA FinishInv ==
    ASSUME Inv, m.fresh => m.grounded, Finish
    PROVE  Inv'
  <1>1. CASE Verified \/ ~m.required
    BY <1>1, EndInv, Points1 DEF Finish, EndSaved
  <1>2. CASE ~(Verified \/ ~m.required)
    <2>1. EndSaved("failed")
      BY <1>2, Zenon DEF Finish
    <2> QED BY <2>1, EndSavedInv, Points1
  <1> QED BY <1>1, <1>2

LEMMA AdaptiveHeadInv == ASSUME Inv, AdaptiveHead PROVE Inv'
  <1>1. m.mode = "adaptive" /\ m.at = "head" /\ m \in Mission /\ Running
    BY DEF AdaptiveHead, Inv, Bounded, Fit, Running
  <1>2. CASE \E status \in {"failed", "cancelled"} : EndSaved(status)
    BY <1>2, EndSavedInv, Points1
  <1>3. CASE ~NeedsReasoning /\ Finish
    <2>1. m.grounded
      BY <1>3 DEF NeedsReasoning
    <2> QED BY <1>3, <2>1, FinishInv
  <1>4. CASE /\ ~AtLimit
             /\ m' = [m EXCEPT !.warned = @ \/ m.repeated, !.repeated = FALSE,
                               !.model = @ + 1, !.waits = 0, !.at = "ask"]
             /\ UNCHANGED <<checkpoint, tried, left>>
    <2>1. m.model + 1 \in 0..MaxModelCalls /\ 0 \in 0..MaxWaits
      <3>1. m.model < MaxModelCalls
        BY <1>4, Below
      <3>2. m.model \in 0..MaxModelCalls
        BY <1>1, Fields
      <3> QED BY <3>1, <3>2, Limits
    <2>2. (m.warned \/ m.repeated) \in BOOLEAN
      OBVIOUS
    <2>3. Moves(m', "ask") /\ m'.tool = m.tool /\ m'.todo = m.todo
      BY <1>1, <1>4, <2>1, <2>2, Points1, ZenonT(60) DEF Mission, Moves, Keeps
    <2>4. Fit(m') /\ Rows'
      BY <1>1, <1>4, <2>3, Below, RowsStay DEF Inv, Bounded, Fit, Within, Shape, Room, Moves, Keeps
    <2> QED BY <1>1, <1>4, <2>3, <2>4, MoveInv, Points1
  <1> QED BY <1>2, <1>3, <1>4, Zenon DEF AdaptiveHead

LEMMA RateLimitedInv == ASSUME Inv, RateLimited PROVE Inv'
  <1>1. m.at = "ask" /\ m \in Mission /\ Running
    BY DEF RateLimited, Inv, Bounded, Fit, Running
  <1>2. CASE EndSaved("failed")
    BY <1>2, EndSavedInv, Points1
  <1>3. CASE /\ m.waits < MaxWaits
             /\ m' = [m EXCEPT !.waits = WaitCounted(@)]
             /\ UNCHANGED <<checkpoint, tried, left>>
    <2>1. WaitCounted(m.waits) \in 0..MaxWaits
      <3>1. m.waits < MaxWaits
        BY <1>3
      <3>2. m.waits \in 0..MaxWaits
        BY <1>1, Fields
      <3> QED BY <3>1, <3>2, Limits DEF WaitCounted
    <2>2. Moves(m', "ask") /\ m'.tool = m.tool /\ m'.todo = m.todo
      BY <1>1, <1>3, <2>1, Points1, ZenonT(60) DEF Mission, Moves, Keeps
    <2>3. Fit(m') /\ Rows'
      BY <1>1, <1>3, <2>2, RowsStay DEF Inv, Bounded, Fit, Within, Shape, Room, Moves, Keeps
    <2> QED BY <1>1, <1>3, <2>2, <2>3, MoveInv, Points1
  <1> QED BY <1>2, <1>3, Zenon DEF RateLimited

\* Asking again, whatever is noted of the reason.
LEMMA AgainInv ==
    ASSUME Inv, m.mode = "adaptive", m.at = "ask", Moves(m', "head"), m'.tool = m.tool,
           m'.todo = m.todo, UNCHANGED <<checkpoint, tried, left>>
    PROVE  Inv'
  <1>1. Fit(m') /\ Rows' /\ Running
    BY RowsStay DEF Inv, Bounded, Fit, Within, Shape, Room, Moves, Keeps, Running
  <1> QED BY <1>1, MoveInv, Points1

LEMMA ChallengeInv ==
    ASSUME Inv, m.mode = "adaptive", m.at = "ask",
           NEW what \in {"grounding", "inability"}, Challenge(what)
    PROVE  Inv'
  <1>1. m \in Mission /\ m.challenged \cup {what} \in SUBSET {"grounding", "inability"}
    BY DEF Inv, Bounded, Fit, Mission
  <1> DEFINE noted == m.challenged \cup {what}
  <1> HIDE DEF noted
  <1>2. noted \in SUBSET {"grounding", "inability"}
    BY <1>1 DEF noted
  <1>3. /\ m' = [[m EXCEPT !.challenged = noted] EXCEPT !.at = "head"]
        /\ UNCHANGED <<checkpoint, tried, left>>
    BY Zenon DEF Challenge, Again, noted
  <1>4. [m EXCEPT !.challenged = noted] \in Mission
    BY <1>1, <1>2, ZenonT(60) DEF Mission
  <1>5. Moves(m', "head") /\ m'.tool = m.tool /\ m'.todo = m.todo
    BY <1>1, <1>3, <1>4, Points1, ZenonT(60) DEF Mission, Moves, Keeps
  <1> QED BY <1>3, <1>5, AgainInv

LEMMA ProseInv == ASSUME Inv, Prose PROVE Inv'
  <1>1. m.at = "ask" /\ m.mode = "adaptive" /\ m \in Mission
    BY DEF Prose, Inv, Bounded, Fit, Shape
  <1>2. CASE Challenge("grounding") \/ Challenge("inability")
    BY <1>1, <1>2, ChallengeInv
  <1>3. CASE EndSaved("failed")
    BY <1>3, EndSavedInv, Points1
  <1>4. CASE End("failed") /\ UNCHANGED <<checkpoint, tried, left>>
    BY <1>4, EndInv, Points1
  <1>5. CASE Again([m EXCEPT !.required = FALSE])
    <2>1. /\ m' = [[m EXCEPT !.required = FALSE] EXCEPT !.at = "head"]
          /\ UNCHANGED <<checkpoint, tried, left>>
      BY <1>5, Zenon DEF Again
    <2>2. [m EXCEPT !.required = FALSE] \in Mission
      BY <1>1, ZenonT(60) DEF Mission
    <2>3. Moves(m', "head") /\ m'.tool = m.tool /\ m'.todo = m.todo
      BY <1>1, <2>1, <2>2, Points1, ZenonT(60) DEF Mission, Moves, Keeps
    <2> QED BY <1>1, <2>1, <2>3, AgainInv
  <1>6. CASE ~(m.fresh /\ ~m.grounded) /\ Finish
    BY <1>6, FinishInv
  <1> QED BY <1>2, <1>3, <1>4, <1>5, <1>6, Zenon DEF Prose

\* A response is a sequence of at most so many calls.
LEMMA ResponseTyped ==
    ASSUME NEW r \in Responses
    PROVE  r \in Seq(Calls) /\ Len(r) \in Nat /\ Len(r) <= PerResponse
  <1>1. PICK n \in 1..PerResponse : r \in [1..n -> Calls]
    BY DEF Responses
  <1>2. n \in Nat
    BY Limits
  <1>3. r \in Seq(Calls) /\ Len(r) = n
    BY <1>1, <1>2
  <1> QED BY <1>2, <1>3, Limits

LEMMA ToolCallsInv == ASSUME Inv, ToolCalls PROVE Inv'
  <1>1. m.at = "ask" /\ m.mode = "adaptive" /\ m \in Mission /\ Running
    BY DEF ToolCalls, Inv, Bounded, Fit, Shape, Running
  <1>2. PICK r \in Responses : m' = [m EXCEPT !.todo = r, !.at = "calls"]
    BY Zenon DEF ToolCalls
  <1>3. r \in Seq(Calls) /\ Len(r) \in Nat /\ Len(r) <= PerResponse
    BY ResponseTyped
  <1>4. Moves(m', "calls") /\ m'.tool = m.tool /\ m'.todo = r
    BY <1>1, <1>2, <1>3, Points1, ZenonT(60) DEF Mission, Moves, Keeps
  <1>5. m.tool < MaxToolCalls /\ Len(m.completed) < MaxSteps
    BY <1>1 DEF Inv, Bounded, Fit, Room
  <1>6. m.tool \in Nat /\ Len(m.completed) \in Nat
    BY <1>1, Fields
  <1>7. UNCHANGED <<checkpoint, tried, left>>
    BY DEF ToolCalls
  <1>8. Rows' /\ m'.completed = m.completed
    BY <1>4, <1>7, RowsStay DEF Inv, Moves, Keeps
  <1>9. Fit(m')
    <2>1. Within(m')
      BY <1>3, <1>4, <1>8 DEF Inv, Bounded, Fit, Within
    <2>2. Shape(m')
      BY <1>1, <1>4 DEF Inv, Bounded, Fit, Shape, Moves, Keeps
    <2>3. /\ m.tool + Len(r) <= MaxToolCalls - 1 + PerResponse
          /\ Len(m.completed) + Len(r) <= MaxSteps - 1 + PerResponse
      BY <1>3, <1>5, <1>6, Limits
    <2>4. m'.at = "calls" /\ m'.mode = "adaptive"
      BY <1>1, <1>4 DEF Moves, Keeps
    <2>5. Room(m')
      BY <1>4, <1>8, <2>3, <2>4 DEF Room
    <2> QED BY <1>4, <2>1, <2>2, <2>5 DEF Fit, Moves, Keeps
  <1> QED BY <1>1, <1>4, <1>7, <1>8, <1>9, MoveInv, Points1

\* The response is done with.
LEMMA CallsDoneInv ==
    ASSUME Inv, m.mode = "adaptive", m.at = "calls", NEW x \in Mission, Moves(x, "calls"),
           x.tool = m.tool, CallsDone(x)
    PROVE  Inv'
  <1>1. <<>> \in Seq(Calls) /\ Len(<<>>) = 0
    BY EmptySeq
  <1>2. m' = [x EXCEPT !.todo = <<>>, !.at = "head"] /\ SaveAs("running")
        /\ UNCHANGED <<tried, left>>
    BY DEF CallsDone
  <1>3. /\ m' \in Mission /\ m'.mode = x.mode /\ m'.plan = x.plan /\ m'.step = x.step /\ m'.fresh = x.fresh
        /\ m'.completed = x.completed /\ m'.grounded = x.grounded
        /\ m'.overrun = x.overrun /\ m'.cancel = x.cancel /\ m'.status = x.status
        /\ m'.tool = x.tool /\ m'.at = "head" /\ m'.todo = <<>>
    BY <1>1, <1>2, Points1, ZenonT(60) DEF Mission
  <1>4. Moves(m', "head")
    BY <1>3, Zenon DEF Moves, Keeps
  <1>5. Fit(m')
    BY <1>1, <1>3, <1>4, Limits DEF Inv, Bounded, Fit, Within, Shape, Room, Moves, Keeps
  <1>6. Rows' /\ Running
    BY <1>2, SaveAsTyped, Points1 DEF Inv, Running
  <1> QED BY <1>2, <1>4, <1>5, <1>6, MoveInv, Points1

\* The sums of Room when a call is taken from the response.
LEMMA Bounds ==
    /\ MaxToolCalls - 1 + PerResponse \in Int /\ MaxSteps - 1 + PerResponse \in Int
    /\ PerResponse \in Int
  BY Limits

\* A call that leaves the queue and joins what is under way.
LEMMA OneMoved ==
    ASSUME NEW under \in Nat, NEW queued \in Nat, NEW rest \in Nat, NEW most \in Int,
           rest = queued - 1, under + queued <= most
    PROVE  under + 1 + rest <= most /\ under + rest + 1 <= most
  OBVIOUS

LEMMA NextCallInv == ASSUME Inv, NextCall PROVE Inv'
  <1>1. m.at = "calls" /\ m.mode = "adaptive" /\ m \in Mission /\ Running
    BY DEF NextCall, Inv, Bounded, Fit, Shape, Running
  <1>2. CASE CallsDone(m)
    <2>1. Moves(m, "calls")
      BY <1>1 DEF Moves, Keeps
    <2> QED BY <1>1, <1>2, <2>1, CallsDoneInv
  <1>3. CASE m.todo # <<>> /\ ~m.cancel
    <2> DEFINE call == Head(m.todo)
               noted == [m EXCEPT !.seen[call] = IF @ > MaxRepeats THEN @ ELSE @ + 1]
               rest == Tail(m.todo)
    <2>1. /\ m.todo \in Seq(Calls) /\ Len(m.todo) \in Nat /\ m.tool \in Nat
          /\ m.seen \in [Calls -> 0..(MaxRepeats + 1)] /\ Len(m.completed) \in Nat
      BY <1>1, Fields
    <2>2. call \in Calls /\ rest \in Seq(Calls) /\ Len(rest) = Len(m.todo) - 1
      BY <1>3, <2>1, HeadTailProperties
    <2>3. IF m.seen[call] > MaxRepeats
          THEN m.seen[call] \in 0..(MaxRepeats + 1)
          ELSE m.seen[call] + 1 \in 0..(MaxRepeats + 1)
      <3>1. PICK n \in 0..(MaxRepeats + 1) : n = m.seen[call]
        BY <2>1, <2>2
      <3>2. n > MaxRepeats \/ n + 1 \in 0..(MaxRepeats + 1)
        BY <3>1, Limits
      <3> QED BY <3>1, <3>2
    <2>4. noted \in Mission
      BY <1>1, <2>2, <2>3, ZenonT(60) DEF Mission
    <2>5. Moves(noted, "calls") /\ noted.tool = m.tool /\ noted.todo = m.todo
      BY <1>1, <2>4, ZenonT(60) DEF Moves, Keeps, Mission
    <2>6. \/ CallsDone([noted EXCEPT !.repeated = TRUE])
          \/ /\ m' = [noted EXCEPT !.tool = @ + 1, !.todo = Tail(@), !.at = "begin"]
             /\ UNCHANGED <<checkpoint, tried, left>>
      BY <1>3, Zenon DEF NextCall, Breaks
    <2> HIDE DEF noted, call, rest
    <2>7. CASE CallsDone([noted EXCEPT !.repeated = TRUE])
      <3> DEFINE x == [noted EXCEPT !.repeated = TRUE]
      <3>1. /\ x \in Mission /\ x.mode = noted.mode /\ x.plan = noted.plan /\ x.step = noted.step
            /\ x.fresh = noted.fresh /\ x.completed = noted.completed
            /\ x.grounded = noted.grounded /\ x.overrun = noted.overrun
            /\ x.cancel = noted.cancel /\ x.status = noted.status /\ x.at = noted.at
            /\ x.tool = noted.tool
        BY <2>4, ZenonT(60) DEF Mission
      <3>2. CallsDone(x)
        BY <2>7
      <3> HIDE DEF x
      <3>3. Moves(x, "calls") /\ x.tool = m.tool
        BY <2>5, <3>1, Zenon DEF Moves, Keeps
      <3> QED BY <1>1, <3>1, <3>2, <3>3, CallsDoneInv
    <2>8. CASE /\ m' = [noted EXCEPT !.tool = @ + 1, !.todo = Tail(@), !.at = "begin"]
               /\ UNCHANGED <<checkpoint, tried, left>>
      <3>1. noted.tool + 1 \in Nat /\ Tail(noted.todo) = rest
        BY <2>1, <2>5 DEF rest
      <3>2. /\ m' \in Mission /\ m'.mode = noted.mode /\ m'.plan = noted.plan /\ m'.step = noted.step
            /\ m'.fresh = noted.fresh /\ m'.completed = noted.completed
            /\ m'.grounded = noted.grounded /\ m'.overrun = noted.overrun
            /\ m'.cancel = noted.cancel /\ m'.status = noted.status /\ m'.at = "begin"
            /\ m'.tool = noted.tool + 1 /\ m'.todo = rest
        BY <2>2, <2>4, <2>8, <3>1, Points1, ZenonT(60) DEF Mission
      <3>3. Moves(m', "begin") /\ m'.tool = m.tool + 1
        BY <2>5, <3>2, Zenon DEF Moves, Keeps
      <3>4. Fit(m')
        <4>1. /\ m'.at = "begin" /\ m'.mode = "adaptive" /\ m'.plan = m.plan /\ m'.step = m.step
              /\ m'.status = m.status /\ m'.completed = m.completed /\ m'.todo = rest
          BY <1>1, <3>2, <3>3 DEF Moves, Keeps
        <4>2. /\ Len(m.completed) + Len(m.todo) <= MaxSteps - 1 + PerResponse
              /\ m.tool + Len(m.todo) <= MaxToolCalls - 1 + PerResponse
              /\ Len(m.completed) <= MaxSteps - 1 + PerResponse /\ Len(m.todo) <= PerResponse
          BY <1>1 DEF Inv, Bounded, Fit, Within, Room
        <4>3. /\ m.tool + 1 + Len(rest) <= MaxToolCalls - 1 + PerResponse
              /\ Len(m.completed) + Len(rest) + 1 <= MaxSteps - 1 + PerResponse
              /\ m.tool + 1 <= MaxToolCalls - 1 + PerResponse /\ Len(rest) <= PerResponse
          <5>1. Len(rest) \in Nat
            BY <2>2, LenProperties
          <5>2. Len(rest) = Len(m.todo) - 1
            BY <2>2
          <5>3. m.tool \in Nat /\ Len(m.completed) \in Nat /\ Len(m.todo) \in Nat
            BY <2>1
          <5>4. m.tool + 1 + Len(rest) <= MaxToolCalls - 1 + PerResponse
            BY <4>2, <5>1, <5>2, <5>3, Bounds, OneMoved
          <5>5. Len(m.completed) + Len(rest) + 1 <= MaxSteps - 1 + PerResponse
            BY <4>2, <5>1, <5>2, <5>3, Bounds, OneMoved
          <5>6. m.tool + 1 <= MaxToolCalls - 1 + PerResponse
            BY <5>1, <5>3, <5>4, Limits
          <5>7. Len(rest) <= PerResponse
            BY <4>2, <5>1, <5>2, <5>3, Limits
          <5> QED BY <5>4, <5>5, <5>6, <5>7
        <4>4. Within(m') /\ Room(m')
          BY <3>3, <4>1, <4>2, <4>3 DEF Within, Room
        <4>5. Shape(m')
          BY <1>1, <4>1 DEF Inv, Bounded, Fit, Shape
        <4> QED BY <3>2, <4>4, <4>5 DEF Fit
      <3>5. Rows'
        BY <2>8, RowsStay DEF Inv
      <3> QED BY <1>1, <1>3, <2>8, <3>3, <3>4, <3>5, MoveInv, Points1
    <2> QED BY <2>6, <2>7, <2>8
  <1>4. CallsDone(m) \/ (m.todo # <<>> /\ ~m.cancel)
    BY Zenon DEF NextCall, Breaks
  <1> QED BY <1>2, <1>3, <1>4

LEMMA CallAnswersInv == ASSUME Inv, CallAnswers PROVE Inv'
  <1>1. m.at = "exec" /\ m.mode = "adaptive" /\ m \in Mission /\ Running
    BY DEF CallAnswers, Inv, Bounded, Fit, Running
  <1>2. PICK ok \in BOOLEAN, substantive \in BOOLEAN :
            m' = [m EXCEPT !.completed = Append(@, ok), !.grounded = @ \/ (ok /\ substantive),
                           !.at = "calls"]
    BY Zenon DEF CallAnswers
  <1> DEFINE done == Append(m.completed, ok)
             grounded == m.grounded \/ (ok /\ substantive)
  <1>3. m.completed \in Seq(BOOLEAN) /\ Len(m.completed) \in Nat /\ m.tool \in Nat
    BY <1>1, Fields
  <1>4. /\ done \in Seq(BOOLEAN) /\ Len(done) = Len(m.completed) + 1
        /\ \A i \in 1..Len(m.completed) : done[i] = m.completed[i]
        /\ done[Len(m.completed) + 1] = ok
    BY <1>3, AppendProperties
  <1>5. grounded \in BOOLEAN
    OBVIOUS
  <1>6. grounded => m.grounded \/ ok
    OBVIOUS
  <1>7. m' = [m EXCEPT !.completed = done, !.grounded = grounded, !.at = "calls"]
    BY <1>2, Zenon
  <1> HIDE DEF done, grounded
  <1>8. /\ m' \in Mission /\ m'.mode = m.mode /\ m'.plan = m.plan /\ m'.step = m.step /\ m'.completed = done
        /\ m'.grounded = grounded /\ m'.overrun = m.overrun /\ m'.cancel = m.cancel
        /\ m'.status = m.status /\ m'.at = "calls" /\ m'.tool = m.tool /\ m'.todo = m.todo
    BY <1>1, <1>4, <1>5, <1>7, Points1, ZenonT(60) DEF Mission
  <1>9. UNCHANGED <<checkpoint, tried, left>> /\ Rows'
    BY RowsStay DEF CallAnswers, Inv
  <1>10. Fit(m')
    <2>1. /\ m.tool + Len(m.todo) <= MaxToolCalls - 1 + PerResponse
          /\ Len(m.completed) + Len(m.todo) + 1 <= MaxSteps - 1 + PerResponse
      BY <1>1 DEF Inv, Bounded, Fit, Room
    <2>2. Len(m.todo) \in Nat
      BY <1>1, Fields
    <2>3. Len(done) <= MaxSteps - 1 + PerResponse /\ Len(done) + Len(m.todo) <= MaxSteps - 1 + PerResponse
      <3> DEFINE d == Len(done)
                 c == Len(m.completed)
                 t == Len(m.todo)
                 most == MaxSteps - 1 + PerResponse
      <3>1. d = c + 1 /\ c \in Nat /\ t \in Nat /\ most \in Int /\ c + t + 1 <= most
        BY <1>3, <1>4, <2>1, <2>2, Bounds
      <3> HIDE DEF d, c, t, most
      <3>2. d <= most /\ d + t <= most
        BY <3>1
      <3> QED BY <3>2 DEF d, t, most
    <2>4. Within(m') /\ Room(m')
      BY <1>1, <1>8, <2>1, <2>3 DEF Inv, Bounded, Fit, Within, Room
    <2>5. Shape(m')
      BY <1>1, <1>8 DEF Inv, Bounded, Fit, Shape
    <2> QED BY <1>8, <2>4, <2>5 DEF Fit
  <1>11. Honest'
    <2>1. DOMAIN m.completed = 1..Len(m.completed) /\ DOMAIN done = 1..Len(done)
      BY <1>3, <1>4, LenProperties
    <2>2. CASE ok
      <3>1. Len(m.completed) + 1 \in DOMAIN done /\ done[Len(m.completed) + 1]
        BY <1>3, <1>4, <2>1, <2>2
      <3> QED BY <1>8, <3>1, Zenon DEF Honest, Verified
    <2>3. CASE m.grounded
      <3>1. PICK i \in DOMAIN m.completed : m.completed[i]
        BY <2>3 DEF Inv, Honest, Verified
      <3>2. i \in DOMAIN done /\ done[i]
        BY <1>3, <1>4, <2>1, <3>1
      <3> QED BY <1>8, <3>2, Zenon DEF Honest, Verified
    <2>4. CASE ~grounded
      BY <1>8, <2>4 DEF Honest
    <2> QED BY <1>6, <2>2, <2>3, <2>4
  <1>12. Reached' /\ CoversSteps' /\ Stops'
    BY <1>8, <1>9 DEF Inv, Reached, CoversSteps, Stops
  <1>13. Grounded'
    BY <1>1, <1>8 DEF Inv, Bounded, Fit, Shape, Grounded
  <1> QED BY <1>9, <1>10, <1>11, <1>12, <1>13 DEF Inv, Bounded

LEMMA BeginInv == ASSUME Inv, Begin PROVE Inv'
  <1>1. m.at = "begin" /\ m \in Mission /\ Running
    BY DEF Begin, Inv, Bounded, Fit, Running
  <1> DEFINE overrun == IF m.cancel THEN m.overrun + 1 ELSE m.overrun
  <1>2. overrun \in Nat /\ overrun \in {0, 1} /\ (overrun = 1 => m.cancel)
    BY <1>1 DEF Inv, Stops
  <1>3. m' = [m EXCEPT !.at = "exec", !.overrun = overrun]
    BY Zenon DEF Begin
  <1> HIDE DEF overrun
  <1>4. /\ m' \in Mission /\ m'.mode = m.mode /\ m'.plan = m.plan /\ m'.step = m.step
        /\ m'.completed = m.completed /\ m'.grounded = m.grounded
        /\ m'.overrun = overrun /\ m'.cancel = m.cancel /\ m'.status = m.status
        /\ m'.at = "exec" /\ m'.tool = m.tool /\ m'.todo = m.todo
    BY <1>1, <1>2, <1>3, Points1, ZenonT(60) DEF Mission
  <1>5. UNCHANGED <<checkpoint, tried, left>> /\ Rows'
    BY RowsStay DEF Begin, Inv
  <1>6. Fit(m')
    BY <1>1, <1>4 DEF Inv, Bounded, Fit, Within, Shape, Room
  <1>7. Honest'
    BY <1>4, Zenon DEF Inv, Honest, Verified
  <1>8. Reached' /\ CoversSteps' /\ Stops'
    BY <1>2, <1>4, <1>5 DEF Inv, Reached, CoversSteps, Stops
  <1>9. Grounded'
    BY <1>1, <1>4 DEF Inv, Bounded, Fit, Shape, Grounded
  <1> QED BY <1>5, <1>6, <1>7, <1>8, <1>9 DEF Inv, Bounded

------------------------------------------------------------------------------
(* The theorems.                                                            *)

\* Every step keeps the invariant.
LEMMA NextInv == Inv /\ [Next]_vars => Inv'
  <1> SUFFICES ASSUME Inv, [Next]_vars PROVE Inv'
    OBVIOUS
  <1>1. CASE Run \/ RunAdaptive \/ Resume
    BY <1>1, RunInv, RunAdaptiveInv, ResumeInv
  <1>2. CASE Step
    BY <1>2, PlanHeadInv, AttemptInv, StepAnswersInv, StepVerifiedInv, AdaptiveHeadInv,
       RateLimitedInv, ProseInv, ToolCallsInv, NextCallInv, CallAnswersInv, BeginInv, Zenon DEF Step
  <1>3. CASE Cancel \/ TimePasses \/ Crash
    BY <1>3, CancelInv, TimePassesInv, CrashInv
  <1>4. CASE UNCHANGED vars
    BY <1>4, Zenon DEF vars, Inv, Bounded, Rows, Honest, Reached, CoversSteps, Stops, Grounded,
       Verified
  <1> QED BY <1>1, <1>2, <1>3, <1>4, Zenon DEF Next

LEMMA Invariance == Spec => []Inv
  BY InitInv, NextInv, PTL DEF Spec

\* The counters of a mission stay within its limits by one response of the planner, whatever
\* limits it is given (_check_limits, run_adaptive).
THEOREM LimitsHold == Spec => []TypeOK
  <1>1. Inv => TypeOK
    BY DEF Inv, Bounded, Fit, Within, Rows, TypeOK
  <1> QED BY <1>1, Invariance, PTL

\* A goal about the world is completed only from evidence, and any other from a result of a
\* tool or after a nudge, whatever the planner answers (run_adaptive).
THEOREM AnswersAreGrounded == Spec => []Grounded
  <1>1. Inv => Grounded
    BY DEF Inv
  <1> QED BY <1>1, Invariance, PTL

\* The checkpoint leaves no gap in the plan it counts in, for plans of any length, made anew or
\* not, and any number of runs, crashes and resumptions; what it knowingly passes over is named
\* (run, resume).
THEOREM NoGap == Spec => []CoversSteps
  <1>1. Inv => CoversSteps
    BY DEF Inv
  <1> QED BY <1>1, Invariance, PTL

\* After a cancellation at most the call that was announced begins, whenever it comes (cancel).
THEOREM OneMoreCall == Spec => []CancelStops
  <1>1. Inv => CancelStops
    BY DEF Inv, Stops, CancelStops
  <1> QED BY <1>1, Invariance, PTL
==============================================================================
