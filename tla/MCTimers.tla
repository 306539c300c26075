------------------------------ MODULE MCTimers ------------------------------
(***************************************************************************)
(* The two components that live on timers, for TLC.  What they share is    *)
(* that a shadow tick on an idle CPU touches the monitor, and Monitor lets *)
(* a CPU touch at any time; so each is explored with the other at rest.    *)
(***************************************************************************)
EXTENDS Monitor, ShadowTick

VARIABLE focus   \* the component that runs

vars == <<focus, monitorVars, shadowVars>>

Init == focus \in {"monitor", "shadow"} /\ MonitorInit /\ ShadowInit

Next ==
  \/ focus = "monitor" /\ MonitorNext /\ UNCHANGED <<focus, shadowVars>>
  \/ focus = "shadow" /\ ShadowNext /\ UNCHANGED <<focus, monitorVars>>

\* Time passes and what is due runs; code with interrupts off comes to its
\* end, and an hrtimer that stays queued fires once its CPU lets it.  Nothing
\* is assumed of the tasks that write sysctls.
Fairness ==
  /\ WF_vars(focus = "monitor" /\ MonitorProgress /\ UNCHANGED <<focus, shadowVars>>)
  /\ \A c \in ShadowCpus :
       /\ WF_vars(focus = "shadow" /\ IrqOffStep(c) /\ UNCHANGED <<focus, monitorVars>>)
       /\ SF_vars(focus = "shadow" /\ TimerFires(c) /\ UNCHANGED <<focus, monitorVars>>)

Spec == Init /\ [][Next]_vars /\ Fairness

\* The variables of both components keep their types.
TypeOK == MonitorTypeOK /\ ShadowTypeOK
=============================================================================
