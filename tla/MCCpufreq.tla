----------------------------- MODULE MCCpufreq ------------------------------
(***************************************************************************)
(* The two components that live with cpufreq's policies, for TLC: the      *)
(* clusters and the life of the governor.  They share only the list of     *)
(* clusters, which never changes after load, so each is explored with the  *)
(* other at rest.                                                          *)
(***************************************************************************)
EXTENDS Clusters, GovLifecycle

VARIABLE focus   \* what runs: "clusters", or the governor with some users

vars == <<focus, clusterVars, lifecycleVars>>

\* Every topology of four CPUs with any cluster ids, some of them unknown; and,
\* with policies, two clusters of two CPUs: a policy for each, one for both, two
\* for the first, or one for the first and one for a CPU of the second.
Topologies ==
  [id : [PossibleCpus -> -1 .. 2] \cup {[c \in PossibleCpus |-> c], [c \in PossibleCpus |-> 3 - c]},
   capacity : [PossibleCpus -> {1, 2}] \cup {[c \in PossibleCpus |-> 1 + ((c * 3) % 4)]},
   policies : {{}}]
Phones ==
  {[id |-> [c \in PossibleCpus |-> c \div 2],
    capacity |-> [c \in PossibleCpus |-> 2 - (c \div 2)],
    policies |-> ps] : ps \in {{{0, 1}, {2, 3}}, {{0, 1, 2, 3}}, {{0}, {1}},
                         {{0, 1}, {2}}}}
AllMachines == Topologies \cup Phones

\* The governor: two slow policies that share their tunables, or a fast and a
\* slow one that do not.
Fast == CHOOSE p \in Policies : TRUE

Init ==
  /\ ClustersInit
  /\ LifecycleInit
  /\ focus \in {"clusters", "irqs", "store"}
  /\ focus # "clusters" =>
       /\ machine.policies = {{0, 1}, {2, 3}} /\ created = {}
       /\ fast = IF per_policy THEN {Fast} ELSE {}
  /\ focus = "clusters" => ~per_policy /\ fast = {}

\* The users in interrupts and the one in sysfs do not meet, except in the
\* work they queue: they are explored one kind at a time.
Governor(A) ==
  /\ focus # "clusters" /\ A
  /\ focus = "irqs" => store' = NoPolicy
  /\ focus = "store" => roll' = NoPolicy /\ tick' = NoPolicy
  /\ UNCHANGED <<focus, clusterVars>>

Next ==
  \/ focus = "clusters" /\ ClustersNext /\ UNCHANGED <<focus, lifecycleVars>>
  \/ Governor(LifecycleNext)

\* An operation of the core that has begun goes on, if need be after waiting
\* for a mutex; code with interrupts off, a store and a worker come to an end.
Fairness ==
  /\ \A p \in Policies : /\ SF_vars(Governor(CoreGoesOn(p)))
                         /\ WF_vars(Governor(WorkStep(p)))
  /\ WF_vars(Governor(RollStep))
  /\ WF_vars(Governor(TickEnd))
  /\ WF_vars(Governor(StoreStep))

Spec == Init /\ [][Next]_vars /\ Fairness

\* The variables of both components keep their types.
TypeOK == ClustersTypeOK /\ LifecycleTypeOK
=============================================================================
