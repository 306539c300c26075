--------------------------- MODULE ClustersProofs ---------------------------
(***************************************************************************)
(* Proofs about Clusters, for any number of CPUs, any topology and any     *)
(* cpufreq policies; and, with those about the life of the governor, about *)
(* the two together.                                                       *)
(***************************************************************************)
EXTENDS MCCpufreq, GovLifecycleProofs, FiniteNats, SequenceTheorems

\* The loop of update_cluster_topology, unfolded: its state after n + 1 CPUs
\* is what visit_cpu makes of its state after n.
LEMMA LoopUnfolds ==
  ASSUME NEW m
  PROVE  LET loop == topology_loop(m)
         IN  /\ loop[0] = [left |-> PossibleCpus, list |-> <<>>, failed |-> FALSE,
                           of |-> [c \in PossibleCpus |-> init_cluster]]
             /\ \A n \in 0 .. NrCpus - 1 : loop[n + 1] = visit_cpu(m, loop[n], n)
<1> DEFINE start == [left |-> PossibleCpus, list |-> <<>>, failed |-> FALSE,
                     of |-> [c \in PossibleCpus |-> init_cluster]]
           Body(g, n) == IF n = 0 THEN start ELSE visit_cpu(m, g[n - 1], n - 1)
           P == {k \in Nat : \E g : g = [n \in 0 .. k |-> Body(g, n)]}
<1> HIDE DEF start
<1>1. 0 \in P
  <2> DEFINE g == [n \in 0 .. 0 |-> start]
  <2>1. g = [n \in 0 .. 0 |-> Body(g, n)]
    OBVIOUS
  <2> QED BY <2>1
<1>2. ASSUME NEW k \in P PROVE k + 1 \in P
  <2>1. PICK g : g = [n \in 0 .. k |-> Body(g, n)]
    OBVIOUS
  <2> DEFINE h == [n \in 0 .. k + 1 |->
                     IF n = k + 1 THEN visit_cpu(m, g[k], k) ELSE g[n]]
  <2>2. \A n \in 0 .. k + 1 : h[n] = Body(h, n)
    <3> SUFFICES ASSUME NEW n \in 0 .. k + 1 PROVE h[n] = Body(h, n)
      OBVIOUS
    <3>1. CASE n = k + 1
      BY <3>1
    <3>2. CASE n # k + 1
      BY <3>2, <2>1
    <3> QED BY <3>1, <3>2
  <2>3. h = [n \in 0 .. k + 1 |-> Body(h, n)]
    BY <2>2
  <2> HIDE DEF h
  <2>4. \E f : f = [n \in 0 .. k + 1 |-> Body(f, n)]
    BY <2>3
  <2> QED BY <2>4
<1>3. P = Nat
  <2>1. P \in SUBSET Nat
    OBVIOUS
  <2> HIDE DEF P
  <2> QED BY <1>1, <1>2, <2>1, SetInduction
<1>4. PICK g : g = [n \in 0 .. NrCpus |-> Body(g, n)]
  BY <1>3, ClustersAssumption
<1> DEFINE loop == CHOOSE f : f = [n \in 0 .. NrCpus |-> Body(f, n)]
<1>5. loop = [n \in 0 .. NrCpus |-> Body(loop, n)]
  BY <1>4
<1>6. topology_loop(m) = loop
  BY DEF topology_loop, start
<1> HIDE DEF loop
<1>7. loop[0] = start
  BY <1>5, ClustersAssumption
<1>8. \A n \in 0 .. NrCpus - 1 : loop[n + 1] = visit_cpu(m, loop[n], n)
  <2> SUFFICES ASSUME NEW n \in 0 .. NrCpus - 1
               PROVE  loop[n + 1] = visit_cpu(m, loop[n], n)
    OBVIOUS
  <2>1. n + 1 \in 0 .. NrCpus /\ n + 1 # 0 /\ (n + 1) - 1 = n
    BY ClustersAssumption
  <2>2. loop[n + 1] = Body(loop, n + 1)
    BY <1>5, <2>1
  <2> QED BY <2>1, <2>2
<1> QED BY <1>6, <1>7, <1>8 DEF start

-----------------------------------------------------------------------------
\* The list.

\* The clusters of the topology.
Siblings(m, c) == {d \in PossibleCpus : m.id[d] = m.id[c]}

\* No cluster is on the list twice, and the capacities do not decrease.
Distinct(list) == \A i, j \in 1 .. Len(list) : list[i] = list[j] => i = j
Ordered(m, list) ==
  \A i, j \in 1 .. Len(list) :
    i < j => Capacity(m, list[i]) <= Capacity(m, list[j])

\* The capacity of a cluster is that of one of its CPUs.
LEMMA CapacityType ==
  ASSUME NEW m \in Machines, NEW k \in Cluster
  PROVE  Capacity(m, k) \in Nat
<1>0. PossibleCpus \subseteq Nat
  BY ClustersAssumption DEF PossibleCpus
<1>1. k \in SUBSET Nat /\ k # {} /\ k \subseteq PossibleCpus
  BY <1>0 DEF Cluster
<1>2. Min(k) \in PossibleCpus
  BY <1>1, MinOfNats
<1>3. m.capacity \in [PossibleCpus -> Nat]
  BY ClustersAssumption
<1> QED BY <1>2, <1>3 DEF Capacity, cpumask_first

\* A sequence is the function of its elements.
LEMMA SequenceIsFunction ==
  ASSUME NEW S, NEW s \in Seq(S), NEW f,
         f = [j \in 1 .. Len(s) |-> f[j]],
         \A j \in 1 .. Len(s) : s[j] = f[j]
  PROVE  s = f
<1>1. s = [j \in 1 .. Len(s) |-> s[j]]
  OBVIOUS
<1> QED BY <1>1

\* Where insert_cluster puts a cluster: behind those of at most its capacity,
\* before the others.
LEMMA InsertPosition ==
  ASSUME NEW m \in Machines, NEW list \in Seq(Cluster), NEW k \in Cluster,
         Ordered(m, list)
  PROVE  \E p \in 1 .. Len(list) + 1 :
           /\ insert_cluster(m, list, k) =
                [j \in 1 .. Len(list) + 1 |->
                   IF j < p THEN list[j] ELSE IF j = p THEN k ELSE list[j - 1]]
           /\ \A j \in 1 .. Len(list) :
                /\ j < p => Capacity(m, list[j]) <= Capacity(m, k)
                /\ j >= p => Capacity(m, k) <= Capacity(m, list[j])
<1> DEFINE I == {i \in 1 .. Len(list) : Capacity(m, k) < Capacity(m, list[i])}
           New(p) == [j \in 1 .. Len(list) + 1 |->
                        IF j < p THEN list[j] ELSE IF j = p THEN k ELSE list[j - 1]]
<1>1. /\ Capacity(m, k) \in Nat
      /\ \A i \in 1 .. Len(list) : Capacity(m, list[i]) \in Nat
  BY CapacityType
<1>2. Len(list) \in Nat
  OBVIOUS
<1>3. CASE I = {}
  <2>1. insert_cluster(m, list, k) = Append(list, k)
    BY <1>3 DEF insert_cluster, SelectInSeq
  <2>2. Append(list, k) = New(Len(list) + 1)
    <3> DEFINE s == Append(list, k)
    <3>1. /\ s \in Seq(Cluster) /\ Len(s) = Len(list) + 1
          /\ \A j \in 1 .. Len(list) + 1 :
               s[j] = IF j < Len(list) + 1 THEN list[j] ELSE k
      OBVIOUS
    <3> HIDE DEF s
    <3>2. \A j \in 1 .. Len(s) : s[j] = New(Len(list) + 1)[j]
      BY <3>1, <1>2
    <3>3. s = New(Len(list) + 1)
      BY <3>1, <3>2, SequenceIsFunction
    <3> QED BY <3>3 DEF s
  <2>3. \A j \in 1 .. Len(list) : Capacity(m, list[j]) <= Capacity(m, k)
    BY <1>1, <1>3
  <2> QED BY <1>2, <2>1, <2>2, <2>3
<1>4. CASE I # {}
  <2> DEFINE p == Min(I)
  <2>1. p \in I /\ \A i \in I : p <= i
    <3>1. I \in SUBSET Nat
      BY <1>2
    <3> HIDE DEF I
    <3> QED BY <3>1, <1>4, MinOfNats
  <2>2. insert_cluster(m, list, k) = InsertAt(list, p, k)
    BY <1>4, <2>1 DEF insert_cluster, SelectInSeq
  <2> HIDE DEF p
  <2>3. p \in 1 .. Len(list)
    BY <2>1
  <2>4. InsertAt(list, p, k) = New(p)
    <3> DEFINE a == SubSeq(list, 1, p - 1)
               b == SubSeq(list, p, Len(list))
    <3>1. /\ a \in Seq(Cluster) /\ Len(a) = p - 1
          /\ \A j \in 1 .. p - 1 : a[j] = list[j]
      BY <1>2, <2>3
    <3>2. /\ b \in Seq(Cluster) /\ Len(b) = Len(list) - p + 1
          /\ \A j \in 1 .. Len(list) - p + 1 : b[j] = list[p + j - 1]
      BY <1>2, <2>3
    <3> HIDE DEF a, b
    <3>3. /\ a \o <<k>> \in Seq(Cluster) /\ Len(a \o <<k>>) = p
          /\ \A j \in 1 .. p : (a \o <<k>>)[j] = IF j < p THEN list[j] ELSE k
      BY <3>1, <2>3
    <3> DEFINE ak == a \o <<k>>
    <3> HIDE DEF ak
    <3>4. /\ ak \in Seq(Cluster) /\ Len(ak) = p
          /\ \A j \in 1 .. p : ak[j] = IF j < p THEN list[j] ELSE k
      BY <3>3 DEF ak
    <3>5. /\ ak \o b \in Seq(Cluster) /\ Len(ak \o b) = Len(list) + 1
          /\ \A j \in 1 .. Len(list) + 1 :
               (ak \o b)[j] = IF j <= p THEN ak[j] ELSE b[j - p]
      <4>1. ak \o b \in Seq(Cluster) /\ Len(ak \o b) = Len(ak) + Len(b)
        BY <3>2, <3>4
      <4>2. \A j \in 1 .. Len(ak) + Len(b) :
              (ak \o b)[j] = IF j <= Len(ak) THEN ak[j] ELSE b[j - Len(ak)]
        BY <3>2, <3>4
      <4>3. Len(ak) = p /\ Len(ak) + Len(b) = Len(list) + 1
        BY <3>2, <3>4, <2>3, <1>2
      <4> QED BY <4>1, <4>2, <4>3
    <3>6. \A j \in 1 .. Len(list) + 1 : j > p => b[j - p] = list[j - 1]
      BY <3>2, <2>3, <1>2
    <3>7. \A j \in 1 .. Len(list) + 1 : (ak \o b)[j] = New(p)[j]
      BY <3>4, <3>5, <3>6, <2>3, <1>2
    <3>8. ak \o b = New(p)
      <4> DEFINE s == ak \o b
      <4>1. s \in Seq(Cluster) /\ Len(s) = Len(list) + 1
            /\ \A j \in 1 .. Len(s) : s[j] = New(p)[j]
        BY <3>5, <3>7
      <4> HIDE DEF s
      <4>2. s = New(p)
        BY <4>1, SequenceIsFunction
      <4> QED BY <4>2 DEF s
    <3> QED BY <3>8 DEF InsertAt, ak, a, b
  <2>5. ASSUME NEW j \in 1 .. Len(list)
        PROVE  /\ j < p => Capacity(m, list[j]) <= Capacity(m, k)
               /\ j >= p => Capacity(m, k) <= Capacity(m, list[j])
    <3>1. CASE j < p
      BY <3>1, <2>1, <2>3, <1>1
    <3>2. CASE j >= p
      <4>1. Capacity(m, list[p]) <= Capacity(m, list[j])
        BY <3>2, <2>3, <1>1 DEF Ordered
      <4> QED BY <4>1, <3>2, <2>1, <2>3, <1>1
    <3> QED BY <3>1, <3>2, <2>3
  <2> QED BY <2>2, <2>3, <2>4, <2>5
<1> QED BY <1>3, <1>4

\* insert_cluster adds one cluster and keeps the list distinct and in order.
LEMMA InsertKeeps ==
  ASSUME NEW m \in Machines, NEW list \in Seq(Cluster), NEW k \in Cluster,
         Ordered(m, list), Distinct(list), k \notin Range(list)
  PROVE  LET new == insert_cluster(m, list, k)
         IN  /\ new \in Seq(Cluster)
             /\ Range(new) = Range(list) \cup {k}
             /\ Distinct(new)
             /\ Ordered(m, new)
<1> DEFINE new == insert_cluster(m, list, k)
<1>1. PICK p \in 1 .. Len(list) + 1 :
        /\ new = [j \in 1 .. Len(list) + 1 |->
                    IF j < p THEN list[j] ELSE IF j = p THEN k ELSE list[j - 1]]
        /\ \A j \in 1 .. Len(list) :
             /\ j < p => Capacity(m, list[j]) <= Capacity(m, k)
             /\ j >= p => Capacity(m, k) <= Capacity(m, list[j])
  BY InsertPosition
<1> HIDE DEF new
<1>2. Len(list) \in Nat /\ DOMAIN list = 1 .. Len(list)
  OBVIOUS
<1>3. \A j \in 1 .. Len(list) + 1 :
        new[j] = IF j < p THEN list[j] ELSE IF j = p THEN k ELSE list[j - 1]
  BY <1>1
<1>4. new \in Seq(Cluster) /\ Len(new) = Len(list) + 1
      /\ DOMAIN new = 1 .. Len(list) + 1
  <2>1. \A j \in 1 .. Len(list) + 1 : new[j] \in Cluster
    BY <1>2, <1>3
  <2>2. new \in [1 .. Len(list) + 1 -> Cluster]
    BY <1>1, <2>1
  <2> QED BY <1>2, <2>2
<1>5. Range(new) = Range(list) \cup {k}
  <2>1. ASSUME NEW x \in Range(list) PROVE x \in Range(new)
    <3>1. PICK j \in 1 .. Len(list) : x = list[j]
      BY <1>2 DEF Range
    <3>2. new[j] = x \/ new[j + 1] = x
      BY <1>2, <1>3, <3>1
    <3> QED BY <1>2, <1>4, <3>2 DEF Range
  <2>2. k \in Range(new)
    BY <1>2, <1>3, <1>4 DEF Range
  <2>3. ASSUME NEW x \in Range(new) PROVE x \in Range(list) \cup {k}
    <3>1. PICK j \in 1 .. Len(list) + 1 : x = new[j]
      BY <1>4 DEF Range
    <3>2. \/ j < p /\ x = list[j] /\ j \in 1 .. Len(list)
          \/ x = k
          \/ j > p /\ x = list[j - 1] /\ j - 1 \in 1 .. Len(list)
      BY <1>2, <1>3, <3>1
    <3> QED BY <1>2, <3>2 DEF Range
  <2> QED BY <2>1, <2>2, <2>3
<1>6. Distinct(new)
  <2> SUFFICES ASSUME NEW i \in 1 .. Len(list) + 1, NEW j \in 1 .. Len(list) + 1,
                      new[i] = new[j]
               PROVE  i = j
    BY <1>4 DEF Distinct
  <2>1. \A h \in 1 .. Len(list) : list[h] # k
    BY <1>2 DEF Range
  <2> QED BY <1>2, <1>3, <2>1 DEF Distinct
<1>7. Ordered(m, new)
  <2> SUFFICES ASSUME NEW i \in 1 .. Len(list) + 1, NEW j \in 1 .. Len(list) + 1,
                      i < j
               PROVE  Capacity(m, new[i]) <= Capacity(m, new[j])
    BY <1>4 DEF Ordered
  <2>1. CASE i = p
    BY <2>1, <1>1, <1>2, <1>3
  <2>2. CASE j = p
    BY <2>2, <1>1, <1>2, <1>3
  <2>3. CASE i # p /\ j # p
    BY <2>3, <1>2, <1>3 DEF Ordered
  <2> QED BY <2>1, <2>2, <2>3
<1> QED BY <1>4, <1>5, <1>6, <1>7 DEF new

-----------------------------------------------------------------------------
\* The loop of update_cluster_topology.

\* Its invariant.  b is its state after the CPUs below n: they all had an id,
\* the clusters on the list are theirs, the other CPUs are those left; or it
\* has met a CPU without an id and undone everything.
LoopInv(m, n, b) ==
  /\ b = [left |-> b.left, list |-> b.list, failed |-> b.failed, of |-> b.of]
  /\ b.failed \in BOOLEAN
  /\ b.failed =>
       /\ \E c \in PossibleCpus : m.id[c] = -1
       /\ b.of = [c \in PossibleCpus |-> init_cluster]
  /\ ~b.failed =>
       /\ \A c \in PossibleCpus : c < n => m.id[c] # -1
       /\ b.left = {c \in PossibleCpus :
                      \A d \in PossibleCpus : d < n => m.id[d] # m.id[c]}
       /\ b.list \in Seq(Cluster) /\ Distinct(b.list) /\ Ordered(m, b.list)
       /\ \A k : k \in Range(b.list) <=>
                   \E c \in PossibleCpus : c < n /\ k = Siblings(m, c)
       /\ b.of = [c \in PossibleCpus |->
                    IF c \in b.left THEN init_cluster ELSE Siblings(m, c)]

\* One pass of the loop.
LEMMA VisitKeeps ==
  ASSUME NEW m \in Machines, NEW n \in PossibleCpus, NEW b, LoopInv(m, n, b)
  PROVE  LoopInv(m, n + 1, visit_cpu(m, b, n))
<1>0. PossibleCpus \subseteq Nat /\ n \in Nat
  BY ClustersAssumption DEF PossibleCpus
<1>1. CASE b.failed
  <2>1. visit_cpu(m, b, n) = b
    BY <1>1 DEF visit_cpu
  <2> QED BY <1>1, <2>1 DEF LoopInv
<1>2. CASE ~b.failed /\ n \notin b.left
  <2>1. visit_cpu(m, b, n) = b
    BY <1>2 DEF visit_cpu
  <2>2. PICK d \in PossibleCpus : d < n /\ m.id[d] = m.id[n]
    BY <1>2 DEF LoopInv
  <2>3. m.id[n] # -1 /\ Siblings(m, d) = Siblings(m, n)
    BY <1>2, <2>2 DEF LoopInv, Siblings
  <2>4. \A c \in PossibleCpus : c < n + 1 <=> c < n \/ c = n
    BY <1>0
  <2>5. \A c \in PossibleCpus : c < n + 1 => m.id[c] # -1
    BY <1>2, <2>3, <2>4 DEF LoopInv
  <2>6. b.left = {c \in PossibleCpus :
                    \A e \in PossibleCpus : e < n + 1 => m.id[e] # m.id[c]}
    BY <1>2, <2>2, <2>4 DEF LoopInv
  <2>7. \A k : k \in Range(b.list) <=>
                 \E c \in PossibleCpus : c < n + 1 /\ k = Siblings(m, c)
    BY <1>2, <2>2, <2>3, <2>4 DEF LoopInv
  <2> QED BY <1>2, <2>1, <2>5, <2>6, <2>7 DEF LoopInv
<1>3. CASE ~b.failed /\ n \in b.left /\ m.id[n] = -1
  <2>1. visit_cpu(m, b, n) = [cleanup_clusters(b) EXCEPT !.failed = TRUE]
    BY <1>3 DEF visit_cpu, get_possible_siblings
  <2>2. visit_cpu(m, b, n) =
          [left |-> b.left, list |-> <<>>, failed |-> TRUE,
           of |-> [c \in PossibleCpus |-> init_cluster]]
    BY <2>1 DEF cleanup_clusters, LoopInv
  <2> QED BY <1>3, <2>2 DEF LoopInv
<1>4. CASE ~b.failed /\ n \in b.left /\ m.id[n] # -1
  <2> DEFINE k == Siblings(m, n)
             new == insert_cluster(m, b.list, k)
  <2>1. /\ get_possible_siblings(m, n) = k /\ n \in k
        /\ k \in Cluster
    BY <1>4 DEF get_possible_siblings, Siblings, Cluster
  <2>2. visit_cpu(m, b, n) = add_cluster(m, b, k)
    BY <1>4, <2>1 DEF visit_cpu
  <2>3. visit_cpu(m, b, n) =
          [left |-> b.left \ k, list |-> new, failed |-> FALSE,
           of |-> [c \in PossibleCpus |-> IF c \in k THEN k ELSE b.of[c]]]
    BY <1>4, <2>2 DEF add_cluster, LoopInv
  <2>4. k \notin Range(b.list)
    <3> SUFFICES ASSUME k \in Range(b.list) PROVE FALSE
      OBVIOUS
    <3>1. PICK c \in PossibleCpus : c < n /\ k = Siblings(m, c)
      BY <1>4 DEF LoopInv
    <3>2. m.id[c] = m.id[n]
      BY <2>1, <3>1 DEF Siblings
    <3> QED BY <1>4, <3>1, <3>2 DEF LoopInv
  <2>5. /\ new \in Seq(Cluster) /\ Range(new) = Range(b.list) \cup {k}
        /\ Distinct(new) /\ Ordered(m, new)
    BY <1>4, <2>1, <2>4, InsertKeeps DEF LoopInv
  <2> HIDE DEF new
  <2>6. \A c \in PossibleCpus : c < n + 1 <=> c < n \/ c = n
    BY <1>0
  <2>7. \A c \in PossibleCpus : c < n + 1 => m.id[c] # -1
    BY <1>4, <2>6 DEF LoopInv
  <2>8. b.left \ k = {c \in PossibleCpus :
                        \A d \in PossibleCpus : d < n + 1 => m.id[d] # m.id[c]}
    BY <1>4, <2>6 DEF LoopInv, Siblings
  <2>9. \A x : x \in Range(new) <=>
                 \E c \in PossibleCpus : c < n + 1 /\ x = Siblings(m, c)
    BY <1>4, <2>5, <2>6 DEF LoopInv
  <2>10. [c \in PossibleCpus |-> IF c \in k THEN k ELSE b.of[c]] =
         [c \in PossibleCpus |->
            IF c \in b.left \ k THEN init_cluster ELSE Siblings(m, c)]
    <3>1. \A c \in k : Siblings(m, c) = k
      BY DEF Siblings
    <3>2. \A c \in PossibleCpus :
            b.of[c] = IF c \in b.left THEN init_cluster ELSE Siblings(m, c)
      BY <1>4 DEF LoopInv
    <3> HIDE DEF k
    <3> QED BY <3>1, <3>2
  <2> DEFINE r == visit_cpu(m, b, n)
  <2>11. /\ r = [left |-> r.left, list |-> r.list, failed |-> r.failed, of |-> r.of]
         /\ ~r.failed /\ r.failed \in BOOLEAN
         /\ r.left = b.left \ k /\ r.list = new
         /\ r.of = [c \in PossibleCpus |-> IF c \in k THEN k ELSE b.of[c]]
    BY <2>3
  <2> HIDE DEF r, k
  <2>12. LoopInv(m, n + 1, r)
    BY <2>5, <2>7, <2>8, <2>9, <2>10, <2>11 DEF LoopInv
  <2> QED BY <2>12 DEF r
<1> QED BY <1>1, <1>2, <1>3, <1>4 DEF LoopInv

\* The whole loop.
LEMMA LoopInvariant ==
  ASSUME NEW m \in Machines
  PROVE  LoopInv(m, NrCpus, topology_loop(m)[NrCpus])
<1> DEFINE loop == topology_loop(m)
           P == {n \in Nat : n <= NrCpus => LoopInv(m, n, loop[n])}
<1>0. NrCpus \in Nat /\ PossibleCpus \subseteq Nat
  BY ClustersAssumption DEF PossibleCpus
<1> HIDE DEF loop
<1>1. 0 \in P
  <2> DEFINE b == [left |-> PossibleCpus, list |-> <<>>, failed |-> FALSE,
                   of |-> [c \in PossibleCpus |-> init_cluster]]
  <2>1. loop[0] = b
    BY LoopUnfolds DEF loop
  <2>2. \A c \in PossibleCpus : ~(c < 0)
    BY <1>0
  <2>3. <<>> \in Seq(Cluster) /\ Distinct(<<>>) /\ Ordered(m, <<>>) /\ Range(<<>>) = {}
    BY DEF Distinct, Ordered, Range
  <2>4. LoopInv(m, 0, b)
    BY <2>2, <2>3 DEF LoopInv
  <2> QED BY <2>1, <2>4
<1>2. ASSUME NEW n \in P PROVE n + 1 \in P
  <2>1. n \in Nat
    OBVIOUS
  <2>2. SUFFICES ASSUME n + 1 <= NrCpus PROVE LoopInv(m, n + 1, loop[n + 1])
    BY <2>1
  <2>3. n \in PossibleCpus /\ n \in 0 .. NrCpus - 1
    BY <1>0, <2>1, <2>2 DEF PossibleCpus
  <2>4. LoopInv(m, n, loop[n])
    BY <1>0, <2>1, <2>2
  <2>5. loop[n + 1] = visit_cpu(m, loop[n], n)
    BY <2>3, LoopUnfolds DEF loop
  <2> QED BY <2>3, <2>4, <2>5, VisitKeeps
<1>3. P = Nat
  <2>1. P \in SUBSET Nat
    OBVIOUS
  <2> HIDE DEF P
  <2> QED BY <1>1, <1>2, <2>1, SetInduction
<1>4. LoopInv(m, NrCpus, loop[NrCpus])
  BY <1>0, <1>3
<1> QED BY <1>4 DEF loop

-----------------------------------------------------------------------------
\* What is known once update_cluster_topology has run.

\* The clusters that the list must hold: those of the topology, or the cluster
\* of all CPUs if one of them has no id.
Unidentified(m) == \E c \in PossibleCpus : m.id[c] = -1
ClusterOf(m, c) == IF Unidentified(m) THEN init_cluster ELSE Siblings(m, c)
Expected(m) == {ClusterOf(m, c) : c \in PossibleCpus}

\* In order, except for the two in the middle of four.
NearlyOrdered(m, list) ==
  \A i, j \in 1 .. Len(list) :
    i < j /\ ~(Len(list) = 4 /\ i = 2 /\ j = 3) =>
      Capacity(m, list[i]) <= Capacity(m, list[j])

\* align_clusters only exchanges the two in the middle of four.
LEMMA AlignKeeps ==
  ASSUME NEW m \in Machines, NEW list \in Seq(Cluster), Distinct(list),
         Ordered(m, list)
  PROVE  LET new == align_clusters(m, list)
         IN  /\ new \in Seq(Cluster) /\ Range(new) = Range(list)
             /\ Distinct(new) /\ NearlyOrdered(m, new)
<1>1. CASE align_clusters(m, list) = list
  BY <1>1 DEF Ordered, NearlyOrdered
<1>2. CASE align_clusters(m, list) # list
  <2> DEFINE new == <<list[1], list[3], list[2], list[4]>>
  <2>1. Len(list) = 4 /\ align_clusters(m, list) = new
    BY <1>2 DEF align_clusters
  <2>2. /\ new \in Seq(Cluster) /\ Len(new) = 4
        /\ new[1] = list[1] /\ new[2] = list[3] /\ new[3] = list[2]
        /\ new[4] = list[4]
    <3>1. /\ list[1] \in Cluster /\ list[2] \in Cluster
          /\ list[3] \in Cluster /\ list[4] \in Cluster
      <4>1. Len(list) = 4
        BY <2>1
      <4>2. \A i \in 1 .. Len(list) : list[i] \in Cluster
        BY ElementOfSeq
      <4> QED BY <4>1, <4>2
    <3> QED BY <3>1
  <2>3. DOMAIN new = {1, 2, 3, 4} /\ DOMAIN list = {1, 2, 3, 4}
    BY <2>1, <2>2
  <2> HIDE DEF new
  <2>4. Range(new) = Range(list)
    BY <2>2, <2>3 DEF Range
  <2>5. Distinct(new)
    BY <2>1, <2>2 DEF Distinct
  <2>6. NearlyOrdered(m, new)
    BY <2>1, <2>2 DEF Ordered, NearlyOrdered
  <2> QED BY <2>1, <2>2, <2>4, <2>5, <2>6
<1> QED BY <1>1, <1>2

\* What update_cluster_topology computes.
LEMMA TopologyCorrect ==
  ASSUME NEW m \in Machines
  PROVE  LET t == update_cluster_topology(m)
         IN  /\ t.list \in Seq(Cluster) /\ Distinct(t.list)
             /\ Range(t.list) = Expected(m)
             /\ NearlyOrdered(m, t.list)
             /\ t.of = [c \in PossibleCpus |-> ClusterOf(m, c)]
<1> DEFINE b == topology_loop(m)[NrCpus]
           t == update_cluster_topology(m)
<1>0. /\ PossibleCpus \subseteq Nat /\ 0 \in PossibleCpus
      /\ \A c \in PossibleCpus : c < NrCpus
  BY ClustersAssumption DEF PossibleCpus
<1>1. LoopInv(m, NrCpus, b)
  BY LoopInvariant
<1>2. /\ t.of = b.of
      /\ t.list = IF b.failed THEN <<init_cluster>> ELSE align_clusters(m, b.list)
  BY DEF update_cluster_topology
<1> HIDE DEF b, t
<1>3. CASE b.failed
  <2>1. Unidentified(m) /\ b.of = [c \in PossibleCpus |-> init_cluster]
    BY <1>1, <1>3 DEF LoopInv, Unidentified
  <2>2. Expected(m) = {init_cluster}
    BY <1>0, <2>1 DEF Expected, ClusterOf
  <2>3. init_cluster \in Cluster
    BY <1>0 DEF init_cluster, Cluster
  <2>4. /\ <<init_cluster>> \in Seq(Cluster) /\ Len(<<init_cluster>>) = 1
        /\ Range(<<init_cluster>>) = {init_cluster}
    BY <2>3 DEF Range
  <2>5. Distinct(<<init_cluster>>) /\ NearlyOrdered(m, <<init_cluster>>)
    BY <2>4 DEF Distinct, NearlyOrdered
  <2> QED BY <1>2, <1>3, <2>1, <2>2, <2>4, <2>5 DEF ClusterOf, t
<1>4. CASE ~b.failed
  <2>1. ~Unidentified(m)
    BY <1>0, <1>1, <1>4 DEF LoopInv, Unidentified
  <2>2. b.of = [c \in PossibleCpus |-> Siblings(m, c)]
    <3>1. b.left = {}
      BY <1>0, <1>1, <1>4 DEF LoopInv
    <3> QED BY <1>1, <1>4, <3>1 DEF LoopInv
  <2>3. Range(b.list) = Expected(m)
    BY <1>0, <1>1, <1>4, <2>1 DEF LoopInv, Expected, ClusterOf
  <2>4. b.list \in Seq(Cluster) /\ Distinct(b.list) /\ Ordered(m, b.list)
    BY <1>1, <1>4 DEF LoopInv
  <2>5. /\ t.list \in Seq(Cluster) /\ Range(t.list) = Range(b.list)
        /\ Distinct(t.list) /\ NearlyOrdered(m, t.list)
    BY <1>2, <1>4, <2>4, AlignKeeps
  <2> QED BY <1>2, <2>1, <2>2, <2>3, <2>5 DEF ClusterOf, t
<1> QED BY <1>1, <1>3, <1>4 DEF LoopInv

\* The list, as the notifiers find it.
TopologyInv ==
  /\ machine \in Machines
  /\ lse_cluster_head \in Seq(Cluster) /\ Distinct(lse_cluster_head)
  /\ Range(lse_cluster_head) = Expected(machine)
  /\ NearlyOrdered(machine, lse_cluster_head)
  /\ cluster_of = [c \in PossibleCpus |-> ClusterOf(machine, c)]

\* The clusters on the list are a partition of the CPUs.
LEMMA Partition ==
  ASSUME TopologyInv
  PROVE  LET OnHead == Range(lse_cluster_head)
         IN  /\ OnHead \subseteq Cluster
             /\ cluster_of \in [PossibleCpus -> OnHead]
             /\ \A c \in PossibleCpus : c \in cluster_of[c]
             /\ \A k \in OnHead, c \in PossibleCpus : c \in k => cluster_of[c] = k
<1>1. Range(lse_cluster_head) \subseteq Cluster
  BY DEF TopologyInv, Range
<1>2. cluster_of \in [PossibleCpus -> Range(lse_cluster_head)]
  BY DEF TopologyInv, Expected
<1>3. \A c \in PossibleCpus : c \in cluster_of[c]
  BY DEF TopologyInv, ClusterOf, Siblings, init_cluster
<1>4. ASSUME NEW k \in Range(lse_cluster_head), NEW c \in PossibleCpus, c \in k
      PROVE  cluster_of[c] = k
  <2>1. PICK d \in PossibleCpus : k = ClusterOf(machine, d)
    BY DEF TopologyInv, Expected
  <2>2. ClusterOf(machine, c) = ClusterOf(machine, d)
    BY <1>4, <2>1 DEF ClusterOf, Siblings
  <2> QED BY <2>1, <2>2 DEF TopologyInv
<1> QED BY <1>1, <1>2, <1>3, <1>4

\* The invariant says what ListMatchesTopology says, and counts the list.
LEMMA TopologyInvSuffices == TopologyInv => ListMatchesTopology
<1> SUFFICES ASSUME TopologyInv PROVE ListMatchesTopology
  OBVIOUS
<1> DEFINE list == lse_cluster_head
           expected == IF \E c \in PossibleCpus : machine.id[c] = -1
                       THEN {init_cluster}
                       ELSE {{d \in PossibleCpus : machine.id[d] = machine.id[c]} :
                               c \in PossibleCpus}
<1>0. 0 \in PossibleCpus
  BY ClustersAssumption DEF PossibleCpus
<1>1. expected = Expected(machine)
  BY <1>0 DEF Expected, ClusterOf, Siblings, Unidentified
<1> HIDE DEF expected
<1>2. Len(list) = Cardinality(expected)
  <2>1. list \in [1 .. Len(list) -> expected] /\ Len(list) \in Nat
    BY <1>1 DEF TopologyInv, Range
  <2>2. list \in Bijection(1 .. Len(list), expected)
    BY <1>1, <2>1 DEF TopologyInv, Distinct, Range, Bijection, Injection, IsInjective,
                         Surjection
  <2> QED BY <2>1, <2>2, FS_CountingElements DEF ExistsBijection
<1>3. \A c \in PossibleCpus : cluster_of[c] \in expected /\ c \in cluster_of[c]
  BY <1>1, Partition DEF TopologyInv
<1> QED BY <1>1, <1>2, <1>3
        DEF ListMatchesTopology, TopologyInv, NearlyOrdered, expected

-----------------------------------------------------------------------------
\* The notifiers.

\* A policy's notifiers belong to clusters it meets; a policy that does not
\* exist has no frequency; a cluster that is a policy itself is on its chains and
\* has its limits set only if the module saw the policy created.
PolicyInv ==
  \A p \in machine.policies :
    /\ nb[p] \subseteq Visited(p)
    /\ p \notin created => policy_cur[p] = 0
    /\ p \in Range(lse_cluster_head) =>
         /\ p \in created \cap seen => nb[p] = {p}
         /\ freq_init_done[p] => p \in seen
    /\ heard[p] # {} => p \in seen

ClustersInv == ClustersTypeOK /\ TopologyInv /\ PolicyInv /\ ClusterFollowsPolicy

\* The clusters a policy meets are on the list, and if one of them is a policy
\* it is that policy: policies have no CPU in common.
LEMMA VisitedFacts ==
  ASSUME TopologyInv, NEW p \in machine.policies
  PROVE  /\ p \in Cluster /\ cpumask_first(p) \in p
         /\ Visited(p) \subseteq Range(lse_cluster_head)
         /\ \A q \in machine.policies : q \in Visited(p) => q = p
         /\ p \in Range(lse_cluster_head) => Visited(p) = {p}
         /\ LastVisited(p) \in Visited(p)
<1> DEFINE OnHead == Range(lse_cluster_head)
<1>1. /\ PossibleCpus \subseteq Nat
      /\ p \in Cluster /\ p \subseteq PossibleCpus /\ p # {} /\ p \in SUBSET Nat
      /\ machine.policies \subseteq Cluster
      /\ \A q \in machine.policies : p = q \/ p \cap q = {}
  <2>1. PossibleCpus \subseteq Nat
    BY ClustersAssumption DEF PossibleCpus
  <2>2. /\ machine.policies \subseteq Cluster
        /\ \A q \in machine.policies : p = q \/ p \cap q = {}
    BY ClustersAssumption DEF TopologyInv
  <2>3. p \in Cluster /\ p \subseteq PossibleCpus /\ p # {}
    BY <2>2 DEF Cluster
  <2> QED BY <2>1, <2>2, <2>3
<1>2. cpumask_first(p) \in p
  BY <1>1, MinOfNats DEF cpumask_first
<1>3. Visited(p) \subseteq OnHead
  BY <1>1, Partition DEF Visited
<1>4. \A q \in machine.policies : q \in Visited(p) => q = p
  BY <1>1, Partition DEF Visited
<1>5. p \in OnHead => Visited(p) = {p}
  <2> SUFFICES ASSUME p \in OnHead PROVE Visited(p) = {p}
    OBVIOUS
  <2>1. \A c \in p : cluster_of[c] = p
    BY <1>1, Partition
  <2>2. PICK c \in p : TRUE
    BY <1>1
  <2> QED BY <2>1, <2>2 DEF Visited
<1>6. LastVisited(p) \in Visited(p)
  <2> DEFINE first == [k \in Visited(p) |-> cpumask_first(k \cap p)]
             S == {first[k] : k \in Visited(p)}
  <2>1. \A k \in Visited(p) : first[k] \in Nat
    <3> SUFFICES ASSUME NEW k \in Visited(p) PROVE cpumask_first(k \cap p) \in Nat
      OBVIOUS
    <3>1. k \cap p \in SUBSET Nat /\ k \cap p # {}
      BY <1>1, Partition DEF Visited
    <3> QED BY <3>1, MinOfNats DEF cpumask_first
  <2>2. IsFiniteSet(Visited(p))
    <3>1. IsFiniteSet(p)
      <4>1. IsFiniteSet(PossibleCpus)
        BY FS_Interval, ClustersAssumption DEF PossibleCpus
      <4> QED BY <4>1, <1>1, FS_Subset
    <3> QED BY <3>1, FiniteRange DEF Visited
  <2> HIDE DEF first
  <2>3. S \in SUBSET Nat /\ S # {} /\ IsFiniteSet(S)
    <3>1. Visited(p) # {}
      BY <1>1 DEF Visited
    <3> QED BY <3>1, <2>1, <2>2, FiniteRange
  <2>4. Max(S) \in S /\ \A x \in S : Max(S) >= x
    BY <2>3, MaxOfNats
  <2>5. PICK k \in Visited(p) : first[k] = Max(S)
    BY <2>4
  <2>6. \A j \in Visited(p) : first[j] <= first[k]
    BY <2>1, <2>4, <2>5
  <2>7. \A j \in Visited(p) : cpumask_first(j \cap p) <= cpumask_first(k \cap p)
    BY <2>6 DEF first
  <2> QED BY <2>5, <2>7 DEF LastVisited
<1> QED BY <1>1, <1>2, <1>3, <1>4, <1>5, <1>6

\* CPUFREQ_CREATE_POLICY.
LEMMA CreatePreserves ==
  ASSUME ClustersInv, NEW p \in machine.policies, CreatePolicy(p)
  PROVE  ClustersInv'
<1> USE DEF ClustersInv
<1> DEFINE OnHead == Range(lse_cluster_head)
           new == {k \in Visited(p) : ~freq_init_done[k]}
<1>1. PICK l \in Limit :
        /\ p \in machine.policies \ created
        /\ created' = created \cup {p}
        /\ policy_limit' = [policy_limit EXCEPT ![p] = l]
        /\ limit' = [k \in DOMAIN limit |-> IF k \in new THEN l ELSE limit[k]]
        /\ freq_init_done' =
             [k \in DOMAIN limit |-> freq_init_done[k] \/ k \in new]
        /\ freq_domain_cpumask' =
             [c \in PossibleCpus |-> IF cluster_of[c] \in new THEN p
                                     ELSE freq_domain_cpumask[c]]
        /\ nb' = [nb EXCEPT ![p] = {LastVisited(p)}]
        /\ seen' = seen \cup {p}
        /\ heard' = [heard EXCEPT ![p] = IF p \in seen THEN {} ELSE Side]
        /\ UNCHANGED <<clusterList, cur_freq, policy_cur>>
  BY DEF CreatePolicy, QosNotified
<1>2. TopologyInv' /\ machine' = machine /\ lse_cluster_head' = lse_cluster_head
      /\ cluster_of' = cluster_of
  BY <1>1 DEF TopologyInv, clusterList
<1>3. \A q : Visited(q)' = Visited(q)
  BY <1>2 DEF Visited
<1>4. DOMAIN limit = OnHead /\ new \subseteq OnHead
  BY VisitedFacts DEF ClustersTypeOK
<1>5. ClustersTypeOK'
  <2>1. limit' \in [OnHead -> [Side -> Freqs \cup {BootFreq}]]
    BY <1>1, <1>4 DEF ClustersTypeOK, Limit
  <2>2. freq_init_done' \in [OnHead -> BOOLEAN]
    BY <1>1, <1>4 DEF ClustersTypeOK
  <2>3. freq_domain_cpumask' \in [PossibleCpus -> Cluster]
    BY <1>1, VisitedFacts DEF ClustersTypeOK
  <2>4. policy_limit' \in [machine.policies -> [Side -> Freqs \cup {BootFreq}]]
    BY <1>1 DEF ClustersTypeOK, Limit
  <2>5. nb' \in [machine.policies -> SUBSET OnHead]
    BY <1>1, VisitedFacts DEF ClustersTypeOK
  <2>6. heard' \in [machine.policies -> SUBSET Side] /\ seen' \subseteq machine.policies
    BY <1>1 DEF ClustersTypeOK
  <2> QED BY <1>1, <1>2, <2>1, <2>2, <2>3, <2>4, <2>5, <2>6 DEF ClustersTypeOK
<1>6. PolicyInv'
  <2> SUFFICES ASSUME NEW q \in machine.policies
               PROVE  /\ nb'[q] \subseteq Visited(q)
                      /\ q \notin created' => policy_cur'[q] = 0
                      /\ q \in OnHead =>
                           /\ q \in created' \cap seen' => nb'[q] = {q}
                           /\ freq_init_done'[q] => q \in seen'
                      /\ heard'[q] # {} => q \in seen'
    BY <1>2, <1>3 DEF PolicyInv
  <2>1. CASE q = p
    BY <2>1, <1>1, VisitedFacts DEF ClustersTypeOK
  <2>2. CASE q # p
    <3>1. q \notin new
      BY <2>2, VisitedFacts
    <3>2. nb'[q] = nb[q] /\ (q \in created' <=> q \in created)
      BY <2>2, <1>1 DEF ClustersTypeOK
    <3>3. q \in OnHead => freq_init_done'[q] = freq_init_done[q]
      BY <3>1, <1>1, <1>4 DEF ClustersTypeOK
    <3> QED BY <3>2, <3>3, <1>1 DEF PolicyInv
  <2> QED BY <2>1, <2>2
<1>7. ClusterFollowsPolicy'
  <2> SUFFICES ASSUME NEW q \in created' \cap OnHead
               PROVE  /\ policy_cur'[q] # 0 => cur_freq'[q] = policy_cur'[q]
                      /\ \A s \in heard'[q] : limit'[q][s] = policy_limit'[q][s]
    BY <1>2 DEF ClusterFollowsPolicy
  <2>0. q \in machine.policies
    BY <1>1 DEF ClustersTypeOK
  <2>1. CASE q = p
    <3>1. policy_cur'[q] = 0
      BY <2>1, <1>1 DEF PolicyInv
    <3>2. q \notin seen => q \in new
      BY <2>1, <1>1, VisitedFacts DEF PolicyInv
    <3>4. q \in seen => heard'[q] = {}
      BY <2>1, <1>1 DEF ClustersTypeOK
    <3>3. q \in new => limit'[q] = l /\ policy_limit'[q] = l
      BY <2>1, <1>1, <1>4 DEF ClustersTypeOK
    <3> QED BY <1>1, <3>1, <3>2, <3>3, <3>4
  <2>2. CASE q # p
    <3>1. q \notin new
      BY <2>0, <2>2, VisitedFacts
    <3>2. /\ limit'[q] = limit[q] /\ policy_limit'[q] = policy_limit[q]
          /\ heard'[q] = heard[q]
      BY <2>0, <2>2, <3>1, <1>1, <1>4 DEF ClustersTypeOK
    <3> QED BY <1>1, <2>2, <3>2 DEF ClusterFollowsPolicy
  <2> QED BY <2>1, <2>2
<1> QED BY <1>2, <1>5, <1>6, <1>7

\* CPUFREQ_REMOVE_POLICY.
LEMMA RemovePreserves ==
  ASSUME ClustersInv, NEW p \in machine.policies, RemovePolicy(p)
  PROVE  ClustersInv'
<1> USE DEF ClustersInv, RemovePolicy
<1>1. TopologyInv' /\ machine' = machine /\ lse_cluster_head' = lse_cluster_head
      /\ cluster_of' = cluster_of
  BY DEF TopologyInv, clusterList
<1>2. \A q : Visited(q)' = Visited(q)
  BY <1>1 DEF Visited
<1>3. ClustersTypeOK'
  <2>1. policy_limit' \in [machine.policies -> [Side -> Freqs \cup {BootFreq}]]
    BY DEF ClustersTypeOK, BootLimit
  <2> QED BY <1>1, <2>1 DEF ClustersTypeOK
<1>4. PolicyInv'
  BY <1>1, <1>2 DEF PolicyInv, ClustersTypeOK
<1>5. ClusterFollowsPolicy'
  BY <1>1 DEF ClusterFollowsPolicy, ClustersTypeOK
<1> QED BY <1>1, <1>3, <1>4, <1>5

\* A new limit reaches the clusters on the chains of the policy.
LEMMA LimitPreserves ==
  ASSUME ClustersInv, NEW p \in machine.policies, cpufreq_update_limit(p)
  PROVE  ClustersInv'
<1> USE DEF ClustersInv
<1> DEFINE OnHead == Range(lse_cluster_head)
           Known == Freqs \cup {BootFreq}
<1>1. PICK side \in Side, l \in Limit :
        /\ p \in created
        /\ \A s \in Side : l[s] # policy_limit[p][s] <=> s = side
        /\ policy_limit' = [policy_limit EXCEPT ![p] = l]
        /\ limit' = [k \in DOMAIN limit |->
                       IF k \in nb[p] THEN [limit[k] EXCEPT ![side] = l[side]]
                                      ELSE limit[k]]
        /\ heard' = [heard EXCEPT ![p] = IF p \in seen THEN @ \cup {side} ELSE @]
        /\ UNCHANGED <<clusterList, freq_domain_cpumask, cur_freq, freq_init_done,
                       created, policy_cur, nb, seen>>
  BY DEF cpufreq_update_limit
<1>2. TopologyInv' /\ machine' = machine /\ lse_cluster_head' = lse_cluster_head
      /\ cluster_of' = cluster_of
  BY <1>1 DEF TopologyInv, clusterList
<1>3. \A q : Visited(q)' = Visited(q)
  BY <1>2 DEF Visited
<1>4. DOMAIN limit = OnHead /\ l \in [Side -> Known] /\ side \in Side
  BY DEF ClustersTypeOK, Limit
<1>5. ClustersTypeOK'
  <2>1. limit' \in [OnHead -> [Side -> Known]]
    BY <1>1, <1>4 DEF ClustersTypeOK
  <2>2. policy_limit' \in [machine.policies -> [Side -> Known]]
    BY <1>1, <1>4 DEF ClustersTypeOK
  <2>3. heard' \in [machine.policies -> SUBSET Side]
    BY <1>1 DEF ClustersTypeOK
  <2> QED BY <1>1, <1>2, <2>1, <2>2, <2>3 DEF ClustersTypeOK
<1>6. PolicyInv'
  <2>1. \A q \in machine.policies : heard'[q] # {} => q \in seen
    BY <1>1 DEF PolicyInv, ClustersTypeOK
  <2> QED BY <1>1, <1>2, <1>3, <2>1 DEF PolicyInv
<1>7. ClusterFollowsPolicy'
  <2> SUFFICES ASSUME NEW q \in created \cap OnHead, NEW s \in heard'[q]
               PROVE  limit'[q][s] = policy_limit'[q][s]
    BY <1>1, <1>2 DEF ClusterFollowsPolicy
  <2>0. q \in machine.policies /\ s \in Side
    <3>1. q \in machine.policies
      BY DEF ClustersTypeOK
    <3>2. heard' \in [machine.policies -> SUBSET Side]
      BY <1>2, <1>5 DEF ClustersTypeOK
    <3> QED BY <3>1, <3>2
  <2>1. CASE q = p
    <3>1. q \in seen
      BY <2>0, <1>1, <1>2, <1>6 DEF PolicyInv
    <3>2. nb[p] = {p}
      BY <2>0, <2>1, <3>1, <1>1 DEF PolicyInv
    <3>3. limit[q] \in [Side -> Known] /\ policy_limit[p] \in [Side -> Known]
      BY <2>0, <2>1 DEF ClustersTypeOK
    <3>4. limit'[q] = [limit[q] EXCEPT ![side] = l[side]] /\ policy_limit'[q] = l
      BY <2>0, <2>1, <3>2, <1>1, <1>4 DEF ClustersTypeOK
    <3>5. CASE s = side
      BY <3>3, <3>4, <3>5, <1>4
    <3>6. CASE s # side
      <4>1. s \in heard[q]
        BY <2>0, <2>1, <3>6, <1>1 DEF ClustersTypeOK
      <4>2. limit[q][s] = policy_limit[p][s]
        BY <2>1, <4>1 DEF ClusterFollowsPolicy
      <4>3. l[s] = policy_limit[p][s]
        BY <2>0, <3>6, <1>1
      <4> QED BY <2>0, <3>3, <3>4, <3>6, <4>2, <4>3
    <3> QED BY <3>5, <3>6
  <2>2. CASE q # p
    <3>1. q \notin nb[p]
      BY <2>0, <2>2, VisitedFacts DEF PolicyInv
    <3>2. s \in heard[q]
      BY <2>0, <2>2, <1>1 DEF ClustersTypeOK
    <3>3. limit'[q] = limit[q] /\ policy_limit'[q] = policy_limit[q]
      BY <2>0, <2>2, <3>1, <1>1, <1>4 DEF ClustersTypeOK
    <3> QED BY <3>2, <3>3 DEF ClusterFollowsPolicy
  <2> QED BY <2>1, <2>2
<1> QED BY <1>2, <1>5, <1>6, <1>7

\* CPUFREQ_POSTCHANGE.
LEMMA TransitionPreserves ==
  ASSUME ClustersInv, NEW p \in machine.policies, cpufreq_notifier_trans(p)
  PROVE  ClustersInv'
<1> USE DEF ClustersInv
<1> DEFINE OnHead == Range(lse_cluster_head)
           k0 == cluster_of[cpumask_first(p)]
<1>1. PICK f \in Freqs :
        /\ p \in created
        /\ policy_cur' = [policy_cur EXCEPT ![p] = f]
        /\ cur_freq' = [k \in DOMAIN cur_freq |->
                          IF k \in NotifiedClusters(p) THEN f ELSE cur_freq[k]]
        /\ UNCHANGED <<clusterList, freq_domain_cpumask, limit, freq_init_done,
                       created, policy_limit, nb, seen, heard>>
  BY DEF cpufreq_notifier_trans
<1>2. TopologyInv' /\ machine' = machine /\ lse_cluster_head' = lse_cluster_head
      /\ cluster_of' = cluster_of
  BY <1>1 DEF TopologyInv, clusterList
<1>3. \A q : Visited(q)' = Visited(q)
  BY <1>2 DEF Visited
<1>4. NotifiedClusters(p) = {k0} /\ k0 \in Visited(p) /\ DOMAIN cur_freq = OnHead
  BY VisitedFacts DEF NotifiedClusters, Visited, ClustersTypeOK
<1>5. ClustersTypeOK'
  <2>1. cur_freq' \in [OnHead -> Freqs \cup {BootFreq}]
    BY <1>1, <1>4 DEF ClustersTypeOK
  <2>2. policy_cur' \in [machine.policies -> Freqs \cup {0}]
    BY <1>1 DEF ClustersTypeOK
  <2> QED BY <1>1, <1>2, <2>1, <2>2 DEF ClustersTypeOK
<1>6. PolicyInv'
  BY <1>1, <1>2, <1>3 DEF PolicyInv, ClustersTypeOK
<1>7. ClusterFollowsPolicy'
  <2> SUFFICES ASSUME NEW q \in created \cap OnHead
               PROVE  policy_cur'[q] # 0 => cur_freq'[q] = policy_cur'[q]
    BY <1>1, <1>2 DEF ClusterFollowsPolicy
  <2>0. q \in machine.policies
    BY DEF ClustersTypeOK
  <2>1. CASE q = p
    <3>1. k0 = q
      BY <2>1, <1>4, VisitedFacts
    <3> QED BY <2>0, <2>1, <3>1, <1>1, <1>4 DEF ClustersTypeOK
  <2>2. CASE q # p
    <3>1. k0 # q
      BY <2>0, <2>2, <1>4, VisitedFacts
    <3>2. cur_freq'[q] = cur_freq[q] /\ policy_cur'[q] = policy_cur[q]
      BY <2>0, <2>2, <3>1, <1>1, <1>4 DEF ClustersTypeOK
    <3> QED BY <3>2 DEF ClusterFollowsPolicy
  <2> QED BY <2>1, <2>2
<1> QED BY <1>2, <1>5, <1>6, <1>7

\* The state that lse_sched_cluster_init leaves.
LEMMA ClustersInvInit == ClustersInit => ClustersInv
<1> SUFFICES ASSUME ClustersInit PROVE ClustersInv
  OBVIOUS
<1> USE DEF ClustersInit
<1>1. TopologyInv
  BY TopologyCorrect DEF TopologyInv
<1>2. ClustersTypeOK
  <2>1. Range(lse_cluster_head) \subseteq Cluster
        /\ cluster_of \in [PossibleCpus -> Cluster]
    BY <1>1, Partition
  <2>2. \A c \in PossibleCpus : {c} \in Cluster
    BY DEF Cluster
  <2>3. /\ limit \in [Range(lse_cluster_head) -> [Side -> Freqs \cup {BootFreq}]]
        /\ policy_limit \in [machine.policies -> [Side -> Freqs \cup {BootFreq}]]
    BY DEF BootLimit, Limit
  <2>4. {freq_init_done} \subseteq [Range(lse_cluster_head) -> BOOLEAN]
    OBVIOUS
  <2> QED BY <2>1, <2>2, <2>3, <2>4 DEF ClustersTypeOK
<1>3. PolicyInv /\ ClusterFollowsPolicy
  BY DEF PolicyInv, ClusterFollowsPolicy
<1> QED BY <1>1, <1>2, <1>3 DEF ClustersInv

-----------------------------------------------------------------------------
\* The inductive invariant holds in every reachable state.
THEOREM ClustersInvariance == ClustersSpec => []ClustersInv
<1>1. ClustersInv /\ [ClustersNext]_clusterVars => ClustersInv'
  <2>1. ASSUME ClustersInv, UNCHANGED clusterVars PROVE ClustersInv'
    <3> USE <2>1 DEF clusterVars, clusterList
    <3>1. ClustersTypeOK' /\ TopologyInv'
      BY DEF ClustersInv, ClustersTypeOK, TopologyInv
    <3>2. PolicyInv'
      <4>1. \A p : Visited(p)' = Visited(p)
        BY DEF Visited
      <4> QED BY <4>1 DEF ClustersInv, PolicyInv
    <3>3. ClusterFollowsPolicy'
      BY DEF ClustersInv, ClusterFollowsPolicy
    <3> QED BY <3>1, <3>2, <3>3 DEF ClustersInv
  <2> QED BY <2>1, CreatePreserves, RemovePreserves, LimitPreserves,
             TransitionPreserves
          DEF ClustersNext
<1> QED BY <1>1, ClustersInvInit, PTL DEF ClustersSpec

\* The variables of lse_sched_cluster.c keep their types.
THEOREM ClustersTypeCorrect == ClustersSpec => []ClustersTypeOK
  BY ClustersInvariance, PTL DEF ClustersInv

\* For every topology the list holds each cluster once, in order but for the
\* two in the middle of four, and every CPU points to its own.
THEOREM ListCorrect == ClustersSpec => []ListMatchesTopology
  BY ClustersInvariance, TopologyInvSuffices, PTL DEF ClustersInv

\* A cluster that is a cpufreq policy has the frequency last announced for it
\* and every limit of it that the module was told of.
THEOREM FollowsPolicy == ClustersSpec => []ClusterFollowsPolicy
  BY ClustersInvariance, PTL DEF ClustersInv

-----------------------------------------------------------------------------
\* The clusters and the governor together: each takes its own steps or rests.
\* The variables of both keep their types.
THEOREM TypeCorrect == Spec => []TypeOK
<1>1. Init => ClustersInit /\ LifecycleInit
  BY DEF Init
<1>2. [Next]_vars => [ClustersNext]_clusterVars
  BY DEF Next, vars, Governor
<1>3. [Next]_vars => [LifecycleNext]_lifecycleVars
  BY DEF Next, vars, Governor
<1>4. Spec => ClustersSpec
  BY <1>1, <1>2, PTL DEF Spec, ClustersSpec
<1>5. Spec => LifecycleSpec
  BY <1>1, <1>3, PTL DEF Spec, LifecycleSpec
<1> QED BY <1>4, <1>5, ClustersTypeCorrect, LifecycleTypeCorrect, PTL DEF TypeOK
=============================================================================
