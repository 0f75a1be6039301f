--------------------------- MODULE MCTaskRuntime ---------------------------
(***************************************************************************)
(* TaskRuntime for TLC.  Request coroutines are interchangeable, so the    *)
(* safety runs take them up to permutation; the bounds are in the cfg.     *)
(***************************************************************************)
EXTENDS TaskRuntime, TLC

RequestSymmetry == Permutations(Requests)
=============================================================================
