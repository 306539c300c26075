------------------------------ MODULE Clusters ------------------------------
(***************************************************************************)
(* The clusters of lse_sched_cluster.c: their list, built once at load,    *)
(* from which the rollover callback finds its policies, and the frequency  *)
(* and limits that cpufreq's notifiers keep in them.                       *)
(*                                                                         *)
(* A cluster is the set of its CPUs, a cpufreq policy the set of its       *)
(* related_cpus.  init_cluster is the cluster of all CPUs.                 *)
(***************************************************************************)
EXTENDS Integers, Sequences, FiniteSets, SequencesExt

CONSTANTS
  NrCpus,
  Machines,        \* [id, capacity, policies]: topology and cpufreq policies
  Freqs            \* frequencies; also the limits of a policy

PossibleCpus == 0 .. NrCpus - 1
init_cluster == PossibleCpus
Cluster == (SUBSET PossibleCpus) \ {{}}
MAX_LSE_CLUSTERS == 4
Side == {"min", "max"}
Limit == {l \in [Side -> Freqs] : l["min"] <= l["max"]}
BootFreq == 1      \* cur_freq, min_freq and max_freq of a new cluster
BootLimit == [s \in Side |-> BootFreq]

ASSUME ClustersAssumption ==
  /\ NrCpus \in Nat \ {0}
  /\ Freqs \subseteq Nat \ {0}
  /\ \A m \in Machines :
       /\ m.id \in [PossibleCpus -> Int]
       /\ m.capacity \in [PossibleCpus -> Nat]
       /\ m.policies \subseteq Cluster
       /\ \A p, q \in m.policies : p = q \/ p \cap q = {}
       \* add_cluster: BUG_ON(lse_num_sched_clusters >= MAX_LSE_CLUSTERS)
       /\ Cardinality({m.id[c] : c \in PossibleCpus}) <= MAX_LSE_CLUSTERS

VARIABLES
  machine,                   \* never changes
  lse_cluster_head,          \* the list
  cluster_of,                \* lrq->cluster
  freq_domain_cpumask,
  cur_freq, limit, freq_init_done,     \* of each cluster
  created,                   \* the policies that exist
  policy_limit, policy_cur,  \* their limits, the last frequency announced
  nb,                        \* the clusters on the QoS chains of a policy
  seen,                      \* ghost: the policies created since the load
  heard                      \* ghost, per policy: the sides of its limits that
                             \* a notifier of the module was called for

clusterList == <<machine, lse_cluster_head, cluster_of>>
clusterVars == <<clusterList, freq_domain_cpumask, cur_freq, limit,
                 freq_init_done, created, policy_limit, policy_cur, nb,
                 seen, heard>>

cpumask_first(cpus) == Min(cpus)

-----------------------------------------------------------------------------
\* The list.

Capacity(m, cluster) == m.capacity[cpumask_first(cluster)]

\* Before the first cluster of a larger capacity.
insert_cluster(m, list, cluster) ==
  LET i == SelectInSeq(list, LAMBDA t : Capacity(m, cluster) < Capacity(m, t))
  IN IF i = 0 THEN Append(list, cluster) ELSE InsertAt(list, i, cluster)

\* Of four clusters the two in the middle change places, if the second is
\* the smaller.
align_clusters(m, list) ==
  IF Len(list) = 4 /\ Capacity(m, list[2]) < Capacity(m, list[3])
  THEN <<list[1], list[3], list[2], list[4]>>
  ELSE list

get_possible_siblings(m, cpu) ==
  IF m.id[cpu] = -1 THEN {}
                    ELSE {c \in PossibleCpus : m.id[c] = m.id[cpu]}

\* A mutant: the clusters made so far are freed, and stay in lrq->cluster.
cleanup_clusters_dangling(b) == [b EXCEPT !.list = <<>>]

cleanup_clusters(b) ==
  [b EXCEPT !.list = <<>>, !.of = [c \in PossibleCpus |-> init_cluster]]

add_cluster(m, b, cpus) ==
  [b EXCEPT !.list = insert_cluster(m, @, cpus),
            !.of = [c \in PossibleCpus |-> IF c \in cpus THEN cpus ELSE @[c]],
            !.left = @ \ cpus]

\* The body of the loop of update_cluster_topology for one CPU; left are the
\* CPUs still to be visited.  A CPU without an id ends the loop.
visit_cpu(m, b, cpu) ==
  LET siblings == get_possible_siblings(m, cpu) IN
  IF b.failed \/ cpu \notin b.left THEN b
  ELSE IF siblings = {} THEN [cleanup_clusters(b) EXCEPT !.failed = TRUE]
  ELSE add_cluster(m, b, siblings)

\* The loop: its state after the CPUs below n.
topology_loop(m) ==
  LET start == [left |-> PossibleCpus, list |-> <<>>, failed |-> FALSE,
                of |-> [c \in PossibleCpus |-> init_cluster]]
      after[n \in 0 .. NrCpus] ==
        IF n = 0 THEN start ELSE visit_cpu(m, after[n - 1], n - 1)
  IN after

update_cluster_topology(m) ==
  LET b == topology_loop(m)[NrCpus]
  IN [of |-> b.of, list |-> IF b.failed THEN <<init_cluster>>
                                        ELSE align_clusters(m, b.list)]

-----------------------------------------------------------------------------
\* The notifiers.

\* The clusters that the loop over a policy's CPUs visits; the last one.
Visited(p) == {cluster_of[c] : c \in p}
LastVisited(p) ==
  CHOOSE k \in Visited(p) :
    \A j \in Visited(p) : cpumask_first(j \cap p) <= cpumask_first(k \cap p)

\* A mutant: the QoS notifiers are added with the first limits only.
QosNotified_once(p) == {k \in {LastVisited(p)} : ~freq_init_done[k]}

\* The cluster whose QoS notifiers are added: the last one visited.
QosNotified(p) == {LastVisited(p)}

\* CPUFREQ_CREATE_POLICY.  Only a cluster's first policy sets its limits.
CreatePolicy(p) ==
  \E l \in Limit :
    LET new == {k \in Visited(p) : ~freq_init_done[k]} IN
    /\ p \in machine.policies \ created
    /\ created' = created \cup {p}
    /\ policy_limit' = [policy_limit EXCEPT ![p] = l]
    /\ limit' = [k \in DOMAIN limit |-> IF k \in new THEN l ELSE limit[k]]
    /\ freq_init_done' =
         [k \in DOMAIN limit |-> freq_init_done[k] \/ k \in new]
    /\ freq_domain_cpumask' =
         [c \in PossibleCpus |-> IF cluster_of[c] \in new THEN p
                                 ELSE freq_domain_cpumask[c]]
    /\ nb' = [nb EXCEPT ![p] = QosNotified(p)]
    /\ seen' = seen \cup {p}
    /\ heard' = [heard EXCEPT ![p] = IF p \in seen THEN {} ELSE Side]
    /\ UNCHANGED <<clusterList, cur_freq, policy_cur>>

\* CPUFREQ_REMOVE_POLICY: no cluster was looked up, so no notifier is found
\* and removed; the chains disappear with the policy.
RemovePolicy(p) ==
  /\ p \in created
  /\ created' = created \ {p}
  /\ policy_limit' = [policy_limit EXCEPT ![p] = BootLimit]
  /\ policy_cur' = [policy_cur EXCEPT ![p] = 0]
  /\ nb' = [nb EXCEPT ![p] = {}]
  /\ heard' = [heard EXCEPT ![p] = {}]
  /\ UNCHANGED <<clusterList, freq_domain_cpumask, cur_freq, limit,
                 freq_init_done, seen>>

\* cpufreq_update_min or cpufreq_update_max, called for a new limit of p.
cpufreq_update_limit(p) ==
  \E side \in Side, l \in Limit :
    /\ p \in created
    /\ \A s \in Side : l[s] # policy_limit[p][s] <=> s = side
    /\ policy_limit' = [policy_limit EXCEPT ![p] = l]
    /\ limit' = [k \in DOMAIN limit |->
                   IF k \in nb[p] THEN [limit[k] EXCEPT ![side] = l[side]]
                                  ELSE limit[k]]
    /\ heard' = [heard EXCEPT ![p] = IF p \in seen THEN @ \cup {side} ELSE @]
    /\ UNCHANGED <<clusterList, freq_domain_cpumask, cur_freq, freq_init_done,
                   created, policy_cur, nb, seen>>

\* The loop of cpufreq_notifier_trans is over the frequency domain of
\* policy->cpu, but looks up the cluster of policy->cpu itself each time.
NotifiedClusters(p) == {cluster_of[cpumask_first(p)]}

\* CPUFREQ_POSTCHANGE.
cpufreq_notifier_trans(p) ==
  \E f \in Freqs :
    /\ p \in created
    /\ policy_cur' = [policy_cur EXCEPT ![p] = f]
    /\ cur_freq' = [k \in DOMAIN cur_freq |->
                      IF k \in NotifiedClusters(p) THEN f ELSE cur_freq[k]]
    /\ UNCHANGED <<clusterList, freq_domain_cpumask, limit, freq_init_done,
                   created, policy_limit, nb, seen, heard>>

-----------------------------------------------------------------------------
\* lse_sched_cluster_init.  The module may be loaded when policies exist: of
\* them its notifier hears nothing, their limits are not set and no cluster is
\* on their chains.
ClustersInit ==
  /\ machine \in Machines
  /\ \E t \in {update_cluster_topology(machine)} :
       /\ lse_cluster_head = t.list
       /\ cluster_of = t.of
  /\ freq_domain_cpumask = [c \in PossibleCpus |-> {c}]
  /\ cur_freq = [k \in Range(lse_cluster_head) |-> BootFreq]
  /\ limit = [k \in Range(lse_cluster_head) |-> BootLimit]
  /\ freq_init_done = [k \in Range(lse_cluster_head) |-> FALSE]
  /\ created \in SUBSET machine.policies
  /\ policy_limit \in {f \in [machine.policies -> Limit \cup {BootLimit}] :
                        \A p \in machine.policies :
                          IF p \in created THEN f[p] \in Limit
                                           ELSE f[p] = BootLimit}
  /\ policy_cur = [p \in machine.policies |-> 0]
  /\ nb = [p \in machine.policies |-> {}]
  /\ seen = {} /\ heard = [p \in machine.policies |-> {}]

ClustersNext ==
  \E p \in machine.policies : \/ CreatePolicy(p) \/ RemovePolicy(p)
                              \/ cpufreq_update_limit(p)
                              \/ cpufreq_notifier_trans(p)

ClustersSpec == ClustersInit /\ [][ClustersNext]_clusterVars

-----------------------------------------------------------------------------
ClustersTypeOK ==
  LET Listed == Range(lse_cluster_head)
      Known == Freqs \cup {BootFreq}
  IN
  /\ machine \in Machines
  /\ Listed \subseteq Cluster
  /\ cluster_of \in [PossibleCpus -> Cluster]
  /\ freq_domain_cpumask \in [PossibleCpus -> Cluster]
  /\ cur_freq \in [Listed -> Known]
  /\ limit \in [Listed -> [Side -> Known]]
  /\ freq_init_done \in [Listed -> BOOLEAN]
  /\ created \subseteq machine.policies /\ seen \subseteq machine.policies
  /\ policy_limit \in [machine.policies -> [Side -> Known]]
  /\ policy_cur \in [machine.policies -> Freqs \cup {0}]
  /\ nb \in [machine.policies -> SUBSET Listed]
  /\ heard \in [machine.policies -> SUBSET Side]

\* What insert_cluster, align_clusters and cleanup_clusters leave, whatever the
\* order of the CPUs and even if a later CPU turns out to have no cluster id:
\* the list holds each cluster of the topology once, or init_cluster alone;
\* every CPU points to the cluster on the list that contains it; the smallest
\* cluster comes first, the largest last, and out of order are only the two in
\* the middle of four.
ListMatchesTopology ==
  LET list == lse_cluster_head
      m == machine
      n == Len(list)
      expected == IF \E c \in PossibleCpus : m.id[c] = -1 THEN {init_cluster}
                  ELSE {{d \in PossibleCpus : m.id[d] = m.id[c]} : c \in PossibleCpus}
  IN /\ Range(list) = expected /\ n = Cardinality(expected)
     /\ \A c \in PossibleCpus : cluster_of[c] \in expected /\ c \in cluster_of[c]
     /\ \A i, j \in 1 .. n :
          i < j /\ ~(n = 4 /\ i = 2 /\ j = 3) =>
            Capacity(m, list[i]) <= Capacity(m, list[j])

\* Where cpufreq's policy is a cluster, as on the hardware this is written for,
\* the cluster has the frequency last announced for the policy, and it has each
\* limit that the module was told of: both when the policy is created for the
\* first time since the module was loaded, later the one that changes.  That
\* holds whatever other policies share or span clusters.  A policy that existed
\* at load has neither told, and one that is created again (freq_init_done is
\* never reset) none before it changes.
ClusterFollowsPolicy ==
  \A p \in created \cap Range(lse_cluster_head) :
    /\ policy_cur[p] # 0 => cur_freq[p] = policy_cur[p]
    /\ \A s \in heard[p] : limit[p][s] = policy_limit[p][s]
=============================================================================
