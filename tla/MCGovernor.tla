----------------------------- MODULE MCGovernor -----------------------------
(***************************************************************************)
(* Small instances of Governor: a table of three frequencies, and a window *)
(* of 1024 so that a busy time reads as a utilisation.                     *)
(***************************************************************************)
EXTENDS Governor

FullRange == <<100, 400>>
Ranges == {FullRange, <<100, 200>>, <<200, 400>>}

\* No fast switching; load and soft limits change.
SoftSlow ==
  [fast |-> FALSE, legacy |-> FALSE, sums |-> {64, 512}, boosts |-> {0},
   soft |-> {200}, limits |-> {FullRange}]

\* No fast switching; load and the limits of the policy change.
MovingSlow ==
  [fast |-> FALSE, legacy |-> FALSE, sums |-> {64, 512}, boosts |-> {0},
   soft |-> {}, limits |-> Ranges]

\* Fast switching; load, soft limits and the limits of the policy change.
MovingFast ==
  [fast |-> TRUE, legacy |-> TRUE, sums |-> {64, 512}, boosts |-> {256},
   soft |-> {200}, limits |-> Ranges]

\* Fast switching; only the load changes.
OnlyLoad ==
  [fast |-> TRUE, legacy |-> FALSE, sums |-> {64, 512}, boosts |-> {0},
   soft |-> {}, limits |-> {FullRange}]

AllChanges == {SoftSlow, MovingSlow, MovingFast}
LoadChanges == {OnlyLoad}
=============================================================================
