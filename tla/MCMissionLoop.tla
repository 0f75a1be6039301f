---------------------------- MODULE MCMissionLoop ----------------------------
(***************************************************************************)
(* MissionLoop for TLC.                                                    *)
(***************************************************************************)
EXTENDS MissionLoop

McPlans == {"short", "long"}
McPlanLength == [p \in McPlans |-> IF p = "short" THEN 1 ELSE 2]
==============================================================================
