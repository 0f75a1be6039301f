---------------------------- MODULE MCTaskLeases ----------------------------
(***************************************************************************)
(* TaskLeases for TLC; the bounds are in the cfg.  Liveness is checked, so *)
(* nodes are not taken up to permutation.                                  *)
(***************************************************************************)
EXTENDS TaskLeases
=============================================================================
