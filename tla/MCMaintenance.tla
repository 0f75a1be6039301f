---------------------------- MODULE MCMaintenance ----------------------------
(***************************************************************************)
(* Maintenance for TLC.                                                    *)
(***************************************************************************)
EXTENDS Maintenance

\* Two versions: one of a statement that can be repeated, as v1 to v6, and one that begins
\* with one that cannot, as v7 to v10 do.
McStatements == <<<<"safe">>, <<"alter", "safe">>>>
==============================================================================
