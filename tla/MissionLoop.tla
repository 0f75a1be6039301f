----------------------------- MODULE MissionLoop -----------------------------
(***************************************************************************)
(* One mission of runtime/mission_loop.py: run (a plan known up front),    *)
(* run_adaptive (the planner decides each next call from what was          *)
(* observed), their limits, the checkpoint, cancel and resume.             *)
(*                                                                         *)
(* The planner, the executor and the verifier answer what they like.  A    *)
(* cancellation may come at any await, and the process may go down at any; *)
(* the checkpoint survives.                                                *)
(***************************************************************************)
EXTENDS Integers, FiniteSets, Sequences

CONSTANTS
    Calls,          \* the tool calls, with their arguments
    Plans,          \* the plans a caller may pass or _plan may make
    NoPlan,         \* the empty plan of a mission that adapts
    PlanLength,     \* [Plans -> Nat]: the steps of each
    PerResponse,    \* bound: tool calls in one response of the planner
    MaxSteps, MaxRetries, MaxModelCalls, MaxToolCalls,   \* MissionLimits
    MaxRepeats,     \* how often one call is made at most
    MaxWaits,       \* how often a burst limit is waited for
    MaxRuns         \* bound: runs, the resumed ones included

ASSUME MissionAssumption ==
    /\ IsFiniteSet(Calls)
    /\ Plans # {} /\ NoPlan \notin Plans
    /\ PlanLength \in [Plans -> Nat \ {0}]
    /\ {PerResponse, MaxSteps, MaxModelCalls, MaxToolCalls, MaxRepeats, MaxRuns}
         \subseteq Nat \ {0}
    /\ {MaxRetries, MaxWaits} \subseteq Nat

VARIABLES
    m,          \* the mission that runs, or ran last: all that is in memory
    checkpoint, \* its row in task_checkpoints, if any
    tried,      \* history: the steps, of whichever plan, that were carried out to a result
    left        \* history: the steps that were passed over knowingly: a cancellation interrupted
                \* them, or a resume entered a plan made anew behind them

vars == <<m, checkpoint, tried, left>>

Modes == {"plan", "adaptive"}
Points == {"head", "ask", "calls", "attempt", "begin", "exec", "verify", "ended"}
Outcomes == {"running", "needs_approval", "completed", "failed", "cancelled", "raised", "lost"}
Places == UNION {0..PlanLength[p] : p \in Plans}
Checkpoint == [status : Outcomes, plan : Plans \cup {NoPlan}, step : Places]

Mission == [mode : Modes, at : Points, status : Outcomes, run : 0..MaxRuns,
            late : BOOLEAN, cancel : BOOLEAN, overrun : Nat,
            completed : Seq(BOOLEAN), model : 0..MaxModelCalls, tool : Nat,
            plan : Plans \cup {NoPlan}, step : Places, attempt : 0..(MaxRetries + 1),
            required : BOOLEAN, fresh : BOOLEAN, grounded : BOOLEAN,
            challenged : SUBSET {"grounding", "inability"},
            seen : [Calls -> 0..(MaxRepeats + 1)], repeated : BOOLEAN, warned : BOOLEAN,
            waits : 0..MaxWaits, todo : Seq(Calls)]

Fresh == [mode |-> "plan", at |-> "ended", status |-> "lost", run |-> 0,
          late |-> FALSE, cancel |-> FALSE, overrun |-> 0,
          completed |-> <<>>, model |-> 0, tool |-> 0, plan |-> NoPlan, step |-> 0, attempt |-> 0,
          required |-> TRUE, fresh |-> FALSE, grounded |-> FALSE, challenged |-> {},
          seen |-> [c \in Calls |-> 0], repeated |-> FALSE, warned |-> FALSE, waits |-> 0,
          todo |-> <<>>]

\* The counters stay within the limits, although they are looked at only now and then and a
\* response of the planner is carried out whole (_check_limits).
TypeOK ==
    /\ m \in Mission
    /\ m.tool <= MaxToolCalls - 1 + PerResponse
    /\ Len(m.completed) <= MaxSteps - 1 + PerResponse
    /\ Len(m.todo) <= PerResponse
    /\ checkpoint \subseteq Checkpoint
    /\ Cardinality(checkpoint) <= 1
    /\ tried \subseteq Plans \X Nat
    /\ left \subseteq Plans \X Nat

Init ==
    /\ m = Fresh
    /\ checkpoint = {}
    /\ tried = {}
    /\ left = {}

Running == m.at # "ended"
Verified == \E i \in DOMAIN m.completed : m.completed[i]

\* The first steps of a plan, and the step a mission is at.
UpTo(plan, step) == {plan} \X (1..step)
ThisStep == {<<m.plan, m.step + 1>>}

\* _checkpoint: the row carries the status, the plan and the step that comes next.
Saved(status, step) == {[status |-> status, plan |-> m.plan, step |-> step]}
SaveAs(status) == checkpoint' = Saved(status, m.step)

End(status) == m' = [m EXCEPT !.at = "ended", !.status = status]
EndSaved(status) == End(status) /\ SaveAs(status) /\ UNCHANGED <<tried, left>>

\* An exception nothing here catches: the caller gets it, no checkpoint is written.
Raises == End("raised") /\ UNCHANGED <<checkpoint, tried, left>>

\* Mutant: only the time is limited.
AtLimitOfTime == m.late

\* _check_limits.
AtLimit == \/ m.tool >= MaxToolCalls
           \/ m.model >= MaxModelCalls
           \/ Len(m.completed) >= MaxSteps
           \/ m.late

------------------------------------------------------------------------------
(* A run begins; cancellations and the clock.                               *)

\* A run begins; it remembers nothing of the runs before.
Begins(mode, plan, step, fresh) ==
    /\ ~Running
    /\ m.run < MaxRuns
    /\ m' = [Fresh EXCEPT !.mode = mode, !.plan = plan, !.step = step, !.fresh = fresh,
                          !.at = "head", !.status = "running", !.run = m.run + 1]
    /\ UNCHANGED <<checkpoint, tried>>

\* run, from the start: the plan is the caller's, or _plan makes one.
Run == \E plan \in Plans : Begins("plan", plan, 0, FALSE) /\ UNCHANGED left

RunAdaptive == \E fresh \in BOOLEAN : Begins("adaptive", NoPlan, 0, fresh) /\ UNCHANGED left

\* Mutant: the step that was interrupted counts as done.
ResumeAfter(c) == IF c.step + 1 \in Places THEN c.step + 1 ELSE c.step

\* resume goes on at the checkpoint's step.
ResumeAt(c) == c.step

\* resume passes no plan on to run, although the row holds one: _plan makes one anew, which need
\* not be the one the step counts in and may even be shorter.
Resume ==
    \E c \in checkpoint, plan \in Plans :
        /\ Begins("plan", plan, ResumeAt(c), FALSE)
        /\ left' = IF plan = c.plan THEN left ELSE left \cup UpTo(plan, ResumeAt(c))

\* cancel finds the event of a mission that runs.
Cancel ==
    /\ Running
    /\ ~m.cancel
    /\ m' = [m EXCEPT !.cancel = TRUE]
    /\ UNCHANGED <<checkpoint, tried, left>>

\* max_runtime_seconds have passed.
TimePasses ==
    /\ Running
    /\ ~m.late
    /\ m' = [m EXCEPT !.late = TRUE]
    /\ UNCHANGED <<checkpoint, tried, left>>

\* The process goes down, or a statement raises: what was in memory is gone.
Crash ==
    /\ Running
    /\ End("lost")
    /\ UNCHANGED <<checkpoint, tried, left>>

------------------------------------------------------------------------------
(* run: a plan known up front.                                              *)

\* Consequential steps pause the mission: which they are, the caller says of each run.
PlanHead ==
    /\ m.mode = "plan" /\ m.at = "head"
    /\ IF m.step >= PlanLength[m.plan] THEN EndSaved(IF Verified THEN "completed" ELSE "failed")
       ELSE IF AtLimit THEN EndSaved("failed")
       ELSE IF m.cancel THEN EndSaved("cancelled")
       ELSE \/ EndSaved("needs_approval")
            \/ /\ m' = [m EXCEPT !.at = "attempt", !.attempt = 1]
               /\ UNCHANGED <<checkpoint, tried, left>>

\* run notes the result of a step and goes on to the next; _check_runtime may raise.
Onward(x, verified) ==
    [x EXCEPT !.completed = Append(@, verified), !.step = @ + 1, !.attempt = 0,
              !.at = IF x.late THEN "ended" ELSE "head",
              !.status = IF x.late THEN "raised" ELSE @]

\* A step that a cancellation interrupts is passed over, without a checkpoint of its own.
Skipped ==
    /\ m' = Onward(m, FALSE)
    /\ left' = left \cup ThisStep
    /\ UNCHANGED <<checkpoint, tried>>

\* _execute_step, the head of an attempt; the await of the announcement comes before the call.
Attempt ==
    /\ m.at = "attempt"
    /\ IF m.cancel THEN Skipped
       ELSE IF AtLimit THEN Raises
       ELSE m' = [m EXCEPT !.at = "begin"] /\ UNCHANGED <<checkpoint, tried, left>>

\* The executor fails for the last time: the checkpoint comes before the counter moves on.
StepFails ==
    /\ m.attempt > MaxRetries
    /\ m' = Onward([m EXCEPT !.tool = @ + 1], FALSE)
    /\ tried' = tried \cup ThisStep
    /\ SaveAs("running")
    /\ UNCHANGED left

\* The executor answers; a cancellation that is there by then comes first.
StepAnswers ==
    /\ m.mode = "plan" /\ m.at = "exec"
    /\ IF m.cancel THEN Skipped
       ELSE \/ /\ m' = [m EXCEPT !.tool = @ + 1, !.at = "verify"]
               /\ UNCHANGED <<checkpoint, tried, left>>
            \/ /\ m.attempt <= MaxRetries
               /\ m' = [m EXCEPT !.tool = @ + 1, !.at = "attempt", !.attempt = @ + 1]
               /\ UNCHANGED <<checkpoint, tried, left>>
            \/ StepFails

\* The verifier answers; only a step it accepts is checkpointed.
StepVerified ==
    /\ m.at = "verify"
    /\ \E verified \in BOOLEAN :
        /\ m' = Onward(m, verified)
        /\ checkpoint' = IF verified THEN Saved("running", m.step + 1) ELSE checkpoint
    /\ tried' = tried \cup ThisStep
    /\ UNCHANGED left

------------------------------------------------------------------------------
(* run_adaptive: the next call from what was observed.                      *)

LastOne == m.completed[Len(m.completed)]

\* Mutant: any result that succeeded is enough.
NeedsReasonOfFailure == m.completed # <<>> => ~LastOne

\* _needs_reasoning, and at first there is nothing to go by.
NeedsReasoning == m.completed # <<>> => ~LastOne \/ ~m.grounded

\* The end of run_adaptive: the verdict, and the checkpoint.
Finish == EndSaved(IF Verified \/ ~m.required THEN "completed" ELSE "failed")

AdaptiveHead ==
    /\ m.mode = "adaptive" /\ m.at = "head"
    /\ IF AtLimit THEN EndSaved("failed")
       ELSE IF m.cancel THEN EndSaved("cancelled")
       ELSE IF m.repeated /\ m.warned THEN EndSaved("failed")
       ELSE IF ~NeedsReasoning THEN Finish
       ELSE /\ m' = [m EXCEPT !.warned = @ \/ m.repeated, !.repeated = FALSE,
                              !.model = @ + 1, !.waits = 0, !.at = "ask"]
            /\ UNCHANGED <<checkpoint, tried, left>>

\* Mutant: the waits take turns for ever.
WaitInTurn(waits) == (waits + 1) % MaxWaits

\* The provider is rate limited: a burst is waited for, a daily quota ends the mission.
WaitCounted(waits) == waits + 1

RateLimited ==
    /\ m.at = "ask"
    /\ \/ EndSaved("failed")
       \/ /\ m.waits < MaxWaits
          /\ m' = [m EXCEPT !.waits = WaitCounted(@)]
          /\ UNCHANGED <<checkpoint, tried, left>>

\* A challenge to the planner, or a nudge: the loop asks again.
Again(x) == m' = [x EXCEPT !.at = "head"] /\ UNCHANGED <<checkpoint, tried, left>>
Challenge(what) == Again([m EXCEPT !.challenged = @ \cup {what}])

\* The planner answers in prose.  Evidence is asked for first, once; then a tool, once; the
\* planner's second refusal ends the mission without a checkpoint.
Prose ==
    /\ m.at = "ask"
    /\ IF m.fresh /\ ~m.grounded
       THEN IF "grounding" \notin m.challenged THEN Challenge("grounding") ELSE EndSaved("failed")
       ELSE IF m.required /\ m.completed = <<>>
       THEN \/ /\ "inability" \notin m.challenged
               /\ Challenge("inability")
            \/ /\ "inability" \in m.challenged
               /\ End("failed")
               /\ UNCHANGED <<checkpoint, tried, left>>
            \/ Again([m EXCEPT !.required = FALSE])
       ELSE Finish

Responses == UNION {[1..n -> Calls] : n \in 1..PerResponse}

ToolCalls ==
    /\ m.at = "ask"
    /\ \E r \in Responses : m' = [m EXCEPT !.todo = r, !.at = "calls"]
    /\ UNCHANGED <<checkpoint, tried, left>>

\* Mutant: only the head of the loop looks at the cancellation.
NeverBreaks(x) == FALSE

\* The loop over the response's calls stops for a cancellation.
Breaks(x) == x.cancel

\* After the calls, or when they are broken off, comes a checkpoint; a mission that adapts has
\* no plan, its step stays 0.
CallsDone(x) ==
    /\ m' = [x EXCEPT !.todo = <<>>, !.at = "head"]
    /\ SaveAs("running")
    /\ UNCHANGED <<tried, left>>

NextCall ==
    /\ m.at = "calls"
    /\ IF m.todo = <<>> \/ Breaks(m) THEN CallsDone(m)
       ELSE LET call == Head(m.todo)
                noted == [m EXCEPT !.seen[call] = IF @ > MaxRepeats THEN @ ELSE @ + 1]
            IN  IF noted.seen[call] > MaxRepeats THEN CallsDone([noted EXCEPT !.repeated = TRUE])
                ELSE /\ m' = [noted EXCEPT !.tool = @ + 1, !.todo = Tail(@), !.at = "begin"]
                     /\ UNCHANGED <<checkpoint, tried, left>>

\* The tool answers: it fails, succeeds with a trivial result, or with one that is evidence.
CallAnswers ==
    /\ m.mode = "adaptive" /\ m.at = "exec"
    /\ \E ok \in BOOLEAN, substantive \in BOOLEAN :
        m' = [m EXCEPT !.completed = Append(@, ok), !.grounded = @ \/ (ok /\ substantive),
                       !.at = "calls"]
    /\ UNCHANGED <<checkpoint, tried, left>>

\* A tool call or an attempt at a step begins, after the await of its announcement.
Begin ==
    /\ m.at = "begin"
    /\ m' = [m EXCEPT !.at = "exec", !.overrun = IF m.cancel THEN @ + 1 ELSE @]
    /\ UNCHANGED <<checkpoint, tried, left>>

------------------------------------------------------------------------------

Step == \/ PlanHead \/ Attempt \/ StepAnswers \/ StepVerified
        \/ AdaptiveHead \/ RateLimited \/ Prose \/ ToolCalls \/ NextCall \/ CallAnswers
        \/ Begin

Next == Run \/ RunAdaptive \/ Resume \/ Step \/ Cancel \/ TimePasses \/ Crash

Spec == Init /\ [][Next]_vars

\* Tools and providers answer within their timeouts, so the loop goes on.
Fairness == WF_vars(Step)
FairSpec == Spec /\ Fairness

------------------------------------------------------------------------------
(* What a mission promises.                                                 *)

\* A goal that depends on the world right now is answered only from evidence, whichever of
\* the loop's ways out it takes; any other is answered from a result a tool returned, or in
\* prose after one nudge (the grounding gate, _needs_reasoning, run_adaptive's verdict).
Grounded ==
    m.mode = "adaptive" /\ m.status = "completed" =>
        /\ m.fresh => m.grounded /\ Verified
        /\ Verified \/ ~m.required

\* The checkpoint passes over no step of its plan that was not carried out, wherever runs fail,
\* raise, crash and are resumed, but for one a cancellation interrupted and those before the
\* place where a resume entered a plan made anew: resume says how many steps, not of which plan
\* (run, resume).
CoversSteps == \A c \in checkpoint : UpTo(c.plan, c.step) \subseteq tried \cup left

\* Once a mission is cancelled at most one more call begins, the one that was announced
\* (cancel, the checks between the awaits).
CancelStops == m.overrun <= 1

\* A mission that runs ends, whatever the planner and the tools answer (MissionLimits, the
\* bounded challenges and waits).
Ends == Running ~> ~Running
==============================================================================
