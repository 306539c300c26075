---------------------------- MODULE RolloverClock ----------------------------
(***************************************************************************)
(* What the window protocol promises the rest of the system.  There is one *)
(* sequence of rollovers, however many CPUs keep windows of their own: a   *)
(* window is claimed after the one before it, and a claim is never lost,   *)
(* because the work it asks for is pending from then on until it runs.     *)
(* Claims made while the work is pending share its next run.               *)
(***************************************************************************)
EXTENDS Integers

VARIABLES
  window,   \* start of the last window that was claimed, 0 before the first
  pending   \* the work of some claim has not been run yet

vars == <<window, pending>>

Init == window = 0 /\ pending = FALSE

\* The first tick opens the sequence; nothing has ended yet.
Open == window = 0 /\ window' \in Nat \ {0} /\ UNCHANGED pending

Claim == window # 0 /\ window' \in Nat /\ window' > window /\ pending' = TRUE

Run == pending /\ pending' = FALSE /\ UNCHANGED window

Next == Open \/ Claim \/ Run

Spec == Init /\ [][Next]_vars
=============================================================================
