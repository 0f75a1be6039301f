---------------------------- MODULE MCModelQuota ----------------------------
(***************************************************************************)
(* ModelQuota for TLC.                                                     *)
(***************************************************************************)
EXTENDS ModelQuota

CONSTANTS Both, pro, flash

\* Some callers may go on to a second model.
McCompatible == [c \in Callers |-> IF c \in Both THEN {pro, flash} ELSE {pro}]

\* What the behaviour and the properties depend on: of the windows what acquire remembers, of
\* the file what a restart would load, of the meter what is left of it unless a sleeper is
\* about to use it as it is, and no cooldown that is over.
McView ==
    <<now, restarts, lock, slots, caller, recent, today, taught, unrouted,
      [m \in Models |-> Remembered(m)],
      Loaded,
      IF \E c \in Callers : caller[c].at = "sleep" THEN meter ELSE Rolled,
      [m \in Models |-> IF Cooling(m) THEN <<until[m], after[m]>> ELSE <<>>]>>
==============================================================================
