-------------------------- MODULE MCWaltAccounting --------------------------
(***************************************************************************)
(* Instances of WaltAccounting for TLC.  No task is special.               *)
(***************************************************************************)
EXTENDS WaltAccounting, TLC

Symmetry == Permutations(Tasks)

\* Without the busy times that only CpuBusyExact and TaskHistoryExact read,
\* and on which no step depends.
BoundsView == <<clock, curr, cur_freq, codeVars, tunables, tracked>>
=============================================================================
