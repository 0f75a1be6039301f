---------------------------- MODULE MCPaperTrading ---------------------------
(***************************************************************************)
(* PaperTrading for TLC.                                                   *)
(***************************************************************************)
EXTENDS PaperTrading, TLC

Symmetry == Permutations(Clients) \cup Permutations(Symbols)
==============================================================================
