---------------------------- MODULE MCAutomations ----------------------------
(***************************************************************************)
(* Automations for TLC: one automation of each type with all requests, a   *)
(* one-time and a recurring one that share a due list of one, or two       *)
(* conditional ones that share a memory of one task.                       *)
(***************************************************************************)
EXTENDS Automations

CONSTANTS o1, o2, r1, r2, c1, c2, c3

McWorlds ==
    {[autos |-> {a}, ops |-> Ops] : a \in {o1, r1, c1}}
        \cup {[autos |-> {o2, r2}, ops |-> {"resume"}], [autos |-> {c2, c3}, ops |-> {}]}
==============================================================================
