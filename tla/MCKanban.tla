------------------------------ MODULE MCKanban ------------------------------
(***************************************************************************)
(* Kanban for TLC.  The pids in the cfg bound how many workers, orphans    *)
(* included, exist at a time.                                              *)
(***************************************************************************)
EXTENDS Kanban
==============================================================================
