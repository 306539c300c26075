----------------------------- MODULE DsqProofs ------------------------------
(***************************************************************************)
(* Proofs about Dsq, for any number of CPUs and tasks, any deadlines and   *)
(* any scan interval and any bound on time.                                *)
(***************************************************************************)
EXTENDS Dsq, FiniteSetTheorems, TLAPS

-----------------------------------------------------------------------------
\* The inductive invariant.

\* A hook switches from the current task of its CPU; what it has checked before
\* it takes a lock still holds.
HookInv ==
  \A c \in CPU :
    /\ pc[c] = "out" => prev[c] = NoTask /\ next[c] = NoTask
    /\ pc[c] # "out" => prev[c] = curr[c]
    /\ pc[c] \in {"enqueue", "enqueue_lock"} =>
         prev[c] \in Tasks /\ prev[c] # next[c]
    /\ pc[c] \in {"dequeue", "dequeue_lock"} =>
         next[c] \in Tasks /\ prev[c] # next[c]
    /\ pc[c] = "enqueue_lock" =>
         /\ prev[c] \in lts /\ ~on_dsq[prev[c]] /\ scenario.hook = "after"
         /\ idx[c] = lse_dsq_classify(kind[prev[c]])
    /\ pc[c] = "dequeue_lock" =>
         next[c] \in lts /\ idx[c] = lse_dsq_classify(kind[next[c]])

\* No task is on two CPUs.
Held(c) == {curr[c], next[c]}
ApartInv ==
  \A c, d \in CPU : \A t \in Tasks : t \in Held(c) /\ t \in Held(d) => c = d

\* A task that runs or is about to is on a runqueue, and one that has exited is
\* nowhere.
LifeInv ==
  /\ \A c \in CPU :
       /\ next[c] \in Tasks => on_rq[next[c]]
       /\ pc[c] \in {"out", "enqueue", "enqueue_lock"} /\ curr[c] \in Tasks =>
            on_rq[curr[c]]
  /\ \A t \in Tasks \ alive : ~on_rq[t] /\ \A c \in CPU : t \notin Held(c)

\* on_dsq says whether a task is linked, to one list at most, and the lists
\* hold no freed task.
LinkInv ==
  /\ \A q \in Queues : IsFiniteSet(fifo[q]) /\ fifo[q] \subseteq lts
  /\ \A t \in Tasks : on_dsq[t] <=> \E q \in Queues : t \in fifo[q]
  /\ \A q, r \in Queues : \A t \in Tasks :
       t \in fifo[q] /\ t \in fifo[r] => q = r

\* While no task changes its class, it is on the list of its class, nr counts
\* the list, and a timeout means a list that is not empty.
ClassInv ==
  scenario.mutable = {} =>
    \A q \in Queues :
      /\ \A t \in fifo[q] : q = lse_dsq_classify(kind[t])
      /\ nr[q] = Cardinality(fifo[q])
      /\ is_timeout[q] => fifo[q] # {}

\* The deadline of a queue started no later than the wait of any task on it.
WaitInv ==
  \A q \in Queues : \A t \in fifo[q] : last_consume_at[q] <= listed_at[t]

\* While monitoring stays on, a task is linked if and only if it was preempted
\* and the hook sees the switch done, but for the two tasks of a hook in progress.
Linked(t) == \E q \in Queues : t \in fifo[q]
Followed(t) == preempted[t] /\ scenario.hook = "after"
InHook(t) == \E c \in CPU : pc[c] # "out" /\ t \in {prev[c], next[c]}

\* What the hook of CPU c has done so far.
DoneSoFar(c) ==
  /\ pc[c] = "out" /\ curr[c] \in Tasks => ~preempted[curr[c]]
  /\ next[c] \in Tasks => ~preempted[next[c]]
  /\ pc[c] \in {"enqueue", "enqueue_lock"} =>
       preempted[prev[c]] /\ ~Linked(prev[c])
  /\ pc[c] \in {"dequeue", "dequeue_lock", "scan", "scan_lock"}
       /\ prev[c] \in lts /\ prev[c] # next[c]
     => (Followed(prev[c]) <=> Linked(prev[c]))
  /\ pc[c] \in {"scan", "scan_lock"} => ~Linked(next[c])

MonitoredInv ==
  /\ lse_dsq_enable /\ slim_stats /\ sync = SyncDone
  /\ \A t \in Tasks : preempted[t] => on_rq[t]
  /\ \A t \in lts : InHook(t) \/ (Followed(t) <=> Linked(t))
  /\ \A c \in CPU : DoneSoFar(c)

PreemptInv == scenario.switches = {} => MonitoredInv

IInv == /\ TypeOK /\ HookInv /\ ApartInv /\ LifeInv /\ LinkInv /\ ClassInv
        /\ WaitInv /\ PreemptInv

-----------------------------------------------------------------------------
\* Lemmas about the operators of the model.

\* The queues are numbered from 0 to SyncDone - 1.
LEMMA QueueNumbers ==
  /\ Queues = 0 .. SyncDone - 1
  /\ SyncDone \in Nat /\ 0 \in 0 .. SyncDone
  /\ \A c \in CPU : Pcp(c) \in Queues
  /\ \A i \in 0 .. 9 : i \in Queues
  BY SystemAssumption
  DEF Queues, SyncDone, Global, Pcp, CPU, LSE_DSQ_PCP_BASE, LSE_MAX_GLOBAL_DSQS

\* lse_dsq_classify_lts finds a queue for every task.
LEMMA ClassifyType ==
  ASSUME TypeOK, NEW t \in Tasks
  PROVE  lse_dsq_classify(kind[t]) \in Queues
<1>1. ASSUME NEW k \in Kind PROVE lse_dsq_classify(k) \in Queues
  <2>1. /\ k.pin \in CPU \cup {NoPin}
        /\ k.class \in {"boosted", "foreground", "normal", "background"}
    BY DEF Kind
  <2>2. [boosted |-> 3, foreground |-> 6, normal |-> 8,
         background |-> 9][k.class] \in {3, 6, 8, 9}
    BY <2>1
  <2>3. CASE k.pin # NoPin
    BY <2>1, <2>3, QueueNumbers DEF lse_dsq_classify
  <2>4. CASE k.pin = NoPin
    BY <2>2, <2>4, QueueNumbers DEF lse_dsq_classify
  <2> QED BY <2>3, <2>4
<1> QED BY <1>1, SystemAssumption DEF TypeOK

\* NoTask stands for the idle tasks, which the queues never see.
LEMMA NoTaskLemma == NoTask \notin Tasks
  BY SystemAssumption

\* Only the two tasks of a hook in progress are being switched.
LEMMA SwitchingLemma == \A t : t \in Switching <=> InHook(t)
  BY DEF Switching, InHook

\* __dsq_enqueue links prev, which no list held.
LEMMA EnqueueLinks ==
  ASSUME IInv, NEW c \in CPU, EnqueueLocked(c)
  PROVE  /\ prev[c] \in lts /\ ~Linked(prev[c]) /\ idx[c] \in Queues
         /\ \A q \in Queues :
              fifo'[q] = IF q = idx[c] THEN fifo[q] \cup {prev[c]} ELSE fifo[q]
         /\ \A t \in Tasks : Linked(t)' <=> Linked(t) \/ t = prev[c]
         /\ LinkInv'
<1> USE DEF IInv, TypeOK, EnqueueLocked, __dsq_enqueue
<1>1. /\ prev[c] \in lts /\ ~Linked(prev[c]) /\ idx[c] \in Queues
      /\ prev[c] \in Tasks
  BY DEF HookInv, LinkInv, Linked
<1>2. \A q \in Queues :
        fifo'[q] = IF q = idx[c] THEN fifo[q] \cup {prev[c]} ELSE fifo[q]
  OBVIOUS
<1>3. \A t \in Tasks : Linked(t)' <=> Linked(t) \/ t = prev[c]
  BY <1>1, <1>2 DEF Linked
<1>4. ASSUME NEW q \in Queues
      PROVE  IsFiniteSet(fifo'[q]) /\ fifo'[q] \subseteq lts'
  <2>1. IsFiniteSet(fifo[q] \cup {prev[c]})
    BY FS_AddElement DEF LinkInv
  <2>2. IsFiniteSet(fifo'[q])
    <3>1. fifo'[q] \in {fifo[q], fifo[q] \cup {prev[c]}}
      BY <1>2
    <3>2. IsFiniteSet(fifo[q])
      BY DEF LinkInv
    <3> HIDE DEF IInv, TypeOK, EnqueueLocked, __dsq_enqueue
    <3> QED BY <2>1, <3>1, <3>2
  <2>3. fifo'[q] \subseteq lts'
    BY <1>1, <1>2 DEF LinkInv, kernel, life
  <2> QED BY <2>2, <2>3
<1>5. \A t \in Tasks : on_dsq'[t] <=> Linked(t)'
  BY <1>1, <1>3 DEF LinkInv, Linked
<1>6. \A q, r \in Queues : \A t \in Tasks :
        t \in fifo'[q] /\ t \in fifo'[r] => q = r
  BY <1>1, <1>2 DEF LinkInv, Linked
<1> QED BY <1>1, <1>2, <1>3, <1>4, <1>5, <1>6 DEF LinkInv, Linked

\* __dsq_dequeue leaves next on no list, and the others where they are.
LEMMA DequeueUnlinks ==
  ASSUME IInv, NEW c \in CPU, DequeueLocked(c)
  PROVE  /\ next[c] \in lts /\ idx[c] \in Queues
         /\ \A q \in Queues : fifo'[q] = fifo[q] \ {next[c]}
         /\ \A t \in Tasks : Linked(t)' <=> Linked(t) /\ t # next[c]
         /\ LinkInv'
<1> USE DEF IInv, TypeOK, DequeueLocked
<1>1. next[c] \in lts /\ idx[c] \in Queues /\ next[c] \in Tasks
  BY DEF HookInv
<1>2. /\ \A q \in Queues : fifo'[q] = fifo[q] \ {next[c]}
      /\ on_dsq' \in [Tasks -> BOOLEAN]
      /\ \A t \in Tasks : on_dsq'[t] <=> on_dsq[t] /\ t # next[c]
  <2>1. CASE on_dsq[next[c]]
    <3>1. /\ fifo' = [s \in Queues |-> fifo[s] \ {next[c]}]
          /\ on_dsq' = [on_dsq EXCEPT ![next[c]] = FALSE]
      BY <2>1 DEF __dsq_dequeue, unlink
    <3> QED BY <1>1, <3>1
  <2>2. CASE ~on_dsq[next[c]]
    BY <1>1, <2>2 DEF __dsq_dequeue, queueVars, LinkInv
  <2> QED BY <2>1, <2>2
<1>3. \A t \in Tasks : Linked(t)' <=> Linked(t) /\ t # next[c]
  BY <1>2 DEF Linked
<1>4. ASSUME NEW q \in Queues
      PROVE  IsFiniteSet(fifo'[q]) /\ fifo'[q] \subseteq lts'
  <2>1. IsFiniteSet(fifo[q] \ {next[c]})
    BY FS_Subset DEF LinkInv
  <2>2. IsFiniteSet(fifo'[q])
    BY <1>2, <2>1
  <2>3. fifo'[q] \subseteq lts'
    BY <1>2 DEF LinkInv, kernel, life
  <2> QED BY <2>2, <2>3
<1>5. \A t \in Tasks : on_dsq'[t] <=> Linked(t)'
  BY <1>2, <1>3 DEF LinkInv, Linked
<1>6. \A q, r \in Queues : \A t \in Tasks :
        t \in fifo'[q] /\ t \in fifo'[r] => q = r
  BY <1>2 DEF LinkInv
<1> QED BY <1>1, <1>2, <1>3, <1>4, <1>5, <1>6 DEF LinkInv, Linked

\* While no task changes its class, the list that holds next is the one whose
\* lock __dsq_dequeue takes, and it is the only list that changes.
LEMMA DequeueRightList ==
  ASSUME IInv, scenario.mutable = {}, NEW c \in CPU, pc[c] = "dequeue_lock",
         on_dsq[next[c]]
  PROVE  \A q \in Queues : next[c] \in fifo[q] <=> q = idx[c]
  BY DEF IInv, TypeOK, HookInv, LinkInv, ClassInv

-----------------------------------------------------------------------------
\* The context switch, and the hook up to its first check.  The incoming task
\* is nobody else's, and the outgoing one, which was running, is on no list.
LEMMA SchedulePreserves ==
  ASSUME IInv, NEW c \in CPU, lse_dsq_on_schedule(c)
  PROVE  IInv'
<1> USE DEF IInv, TypeOK, life, kernel, switchVars, queueVars, hookVars, ghosts
<1>1. PICK n \in Tasks \cup {NoTask}, sleeps \in BOOLEAN :
        lse_dsq_on_schedule(c)!(n, sleeps)
  BY DEF lse_dsq_on_schedule
<1>2. TypeOK'
  <2>1. on_rq' \in [Tasks -> BOOLEAN]
    BY <1>1
  <2>2. preempted' \in [Tasks -> BOOLEAN]
    BY <1>1
  <2>3. /\ curr' \in [CPU -> Tasks \cup {NoTask}]
        /\ prev' \in [CPU -> Tasks \cup {NoTask}]
        /\ next' \in [CPU -> Tasks \cup {NoTask}]
    <3>1. /\ curr \in [CPU -> Tasks \cup {NoTask}]
          /\ prev \in [CPU -> Tasks \cup {NoTask}]
          /\ next \in [CPU -> Tasks \cup {NoTask}]
      OBVIOUS
    <3>2. \/ /\ curr' = curr
             /\ prev' = [prev EXCEPT ![c] = curr[c]]
             /\ next' = [next EXCEPT ![c] = n]
          \/ /\ curr' = [curr EXCEPT ![c] = n]
             /\ prev' = prev /\ next' = next
      BY <1>1
    <3> HIDE DEF IInv, TypeOK
    <3> QED BY <3>1, <3>2
  <2>4. pc' \in [CPU -> {"out", "enqueue", "enqueue_lock", "dequeue",
                         "dequeue_lock", "scan", "scan_lock"}]
    BY <1>1 DEF AfterEnqueue
  <2> QED BY <1>1, <2>1, <2>2, <2>3, <2>4
<1>3. (HookInv /\ ApartInv)'
  <2>1. HookInv'
    BY <1>1, NoTaskLemma DEF AfterEnqueue, HookInv
  <2>2. ApartInv'
    BY <1>1 DEF Running, Switching, HookInv, ApartInv, Held
  <2> QED BY <2>1, <2>2
<1>4. LifeInv'
  BY <1>1, NoTaskLemma
  DEF AfterEnqueue, Running, Switching, HookInv, ApartInv, LifeInv, Held
<1>5. (LinkInv /\ ClassInv /\ WaitInv)'
  BY <1>1 DEF LinkInv, ClassInv, WaitInv
<1>6. PreemptInv'
  <2> SUFFICES ASSUME scenario.switches = {} PROVE MonitoredInv'
    BY <1>1 DEF PreemptInv
  <2>1. MonitoredInv
    BY DEF PreemptInv
  <2>2. /\ pc[c] = "out" /\ UNCHANGED <<curr, lts, switchVars, scenario>>
        /\ pc' = [pc EXCEPT ![c] = IF curr[c] # n /\ curr[c] # NoTask /\ ~sleeps
                                   THEN "enqueue" ELSE AfterEnqueue(curr[c], n)]
        /\ prev' = [prev EXCEPT ![c] = curr[c]]
        /\ next' = [next EXCEPT ![c] = n]
        /\ n = curr[c] => ~sleeps
    BY <1>1, <2>1 DEF MonitoredInv
  <2>3. \A t \in Tasks :
          /\ on_rq'[t] <=> on_rq[t] /\ ~(sleeps /\ t = curr[c])
          /\ preempted'[t] <=> /\ t # n
                               /\ IF t = curr[c] THEN ~sleeps ELSE preempted[t]
    BY <1>1
  <2>4. \A t : Linked(t)' <=> Linked(t)
    BY <1>1 DEF Linked
  <2>5. n \in Tasks => n = curr[c] \/ (~InHook(n) /\ \A d \in CPU : n # curr[d])
    BY <1>1, SwitchingLemma DEF Running
  <2>6. \A t \in Tasks : preempted'[t] => on_rq'[t]
    BY <2>1, <2>2, <2>3 DEF MonitoredInv, LifeInv
  <2>7. ASSUME NEW t \in lts PROVE InHook(t)' \/ (Followed(t)' <=> Linked(t)')
    <3>1. CASE t \in {n, curr[c]}
      BY <2>2, <3>1, NoTaskLemma DEF InHook, AfterEnqueue
    <3>2. CASE t \notin {n, curr[c]}
      BY <2>1, <2>2, <2>3, <2>4, <3>2 DEF MonitoredInv, InHook, Followed
    <3> QED BY <3>1, <3>2
  <2>8. DoneSoFar(c)'
    <3>1. curr[c] \in lts => ~Linked(curr[c])
      <4>1. ASSUME curr[c] \in lts PROVE ~InHook(curr[c])
        BY <2>2, <4>1 DEF InHook, HookInv, ApartInv, Held
      <4> QED BY <2>1, <2>2, <4>1 DEF MonitoredInv, DoneSoFar, Followed
    <3>2. curr[c] \in Tasks => ~Linked(curr[c])
      BY <3>1 DEF LinkInv, Linked
    <3>3. ~Linked(NoTask)
      BY NoTaskLemma DEF Linked
    <3>4. /\ pc'[c] = IF curr[c] # n /\ curr[c] # NoTask /\ ~sleeps
                      THEN "enqueue"
                      ELSE IF curr[c] # n /\ n # NoTask THEN "dequeue" ELSE "scan"
          /\ prev'[c] = curr[c] /\ next'[c] = n /\ lts' = lts
      BY <2>2 DEF AfterEnqueue
    <3> QED BY <2>3, <2>4, <3>2, <3>3, <3>4, NoTaskLemma DEF DoneSoFar, Followed
  <2>9. ASSUME NEW d \in CPU \ {c} PROVE DoneSoFar(d)'
    <3>1. DoneSoFar(d)
      BY <2>1 DEF MonitoredInv
    <3>2. \A t \in Tasks : t \in Held(d) => t # n /\ t # curr[c]
      BY <2>2, <2>5 DEF InHook, ApartInv, Held, HookInv
    <3> QED BY <2>2, <2>3, <2>4, <3>1, <3>2 DEF DoneSoFar, Followed, Held, HookInv
  <2> QED BY <2>1, <2>2, <2>6, <2>7, <2>8, <2>9 DEF MonitoredInv
<1> QED BY <1>2, <1>3, <1>4, <1>5, <1>6

\* The checks before the lock of __dsq_enqueue: what they find still holds when
\* the lock is taken, because the hook holds the runqueue lock of prev.
LEMMA EnqueueCheckPreserves ==
  ASSUME IInv, NEW c \in CPU, lse_dsq_enqueue_task(c)
  PROVE  IInv'
<1> USE DEF IInv, TypeOK, life, kernel, switchVars, queueVars, hookVars, ghosts
<1>1. TypeOK'
  <2>1. lse_dsq_classify(kind[prev[c]]) \in Queues
    BY ClassifyType DEF lse_dsq_enqueue_task, HookInv
  <2> QED BY <2>1 DEF lse_dsq_enqueue_task, AfterEnqueue
<1>2. HookInv'
  <2>1. may_enqueue(c) => /\ prev[c] \in lts /\ ~on_dsq[prev[c]]
                          /\ scenario.hook = "after"
    BY SystemAssumption DEF may_enqueue, hook_curr
  <2> QED BY <2>1 DEF lse_dsq_enqueue_task, AfterEnqueue, HookInv
<1>3. (ApartInv /\ LifeInv)'
  BY DEF lse_dsq_enqueue_task, AfterEnqueue, HookInv, ApartInv, LifeInv, Held
<1>4. (LinkInv /\ ClassInv /\ WaitInv)'
  BY DEF lse_dsq_enqueue_task, LinkInv, ClassInv, WaitInv
<1>5. PreemptInv'
  <2> SUFFICES ASSUME scenario.switches = {} PROVE MonitoredInv'
    BY DEF lse_dsq_enqueue_task, PreemptInv
  <2>1. MonitoredInv
    BY DEF PreemptInv
  <2>2. /\ pc[c] = "enqueue" /\ prev[c] \in Tasks /\ prev[c] # next[c]
        /\ pc' = [pc EXCEPT ![c] =
                    IF may_enqueue(c) THEN "enqueue_lock"
                    ELSE IF next[c] # NoTask THEN "dequeue" ELSE "scan"]
        /\ UNCHANGED <<prev, next, curr, lts, on_rq, preempted, switchVars,
                       fifo, scenario>>
    BY DEF lse_dsq_enqueue_task, AfterEnqueue, HookInv
  <2>3. ~may_enqueue(c) /\ prev[c] \in lts => scenario.hook # "after"
    BY <2>1, <2>2
    DEF MonitoredInv, DoneSoFar, may_enqueue, hook_curr, LinkInv, Linked,
        HookInv, LifeInv
  <2>4. \A t : /\ Linked(t)' <=> Linked(t)
               /\ Followed(t)' <=> Followed(t)
    BY <2>2 DEF Linked, Followed
  <2>5. ASSUME NEW t \in lts PROVE InHook(t)' \/ (Followed(t)' <=> Linked(t)')
    BY <2>1, <2>2, <2>4 DEF MonitoredInv, InHook
  <2>6. DoneSoFar(c)'
    <3>1. ~Linked(NoTask)
      BY NoTaskLemma DEF Linked
    <3> QED BY <2>1, <2>2, <2>3, <2>4, <3>1 DEF MonitoredInv, DoneSoFar, Followed
  <2>7. ASSUME NEW d \in CPU \ {c} PROVE DoneSoFar(d)'
    BY <2>1, <2>2, <2>4 DEF MonitoredInv, DoneSoFar
  <2> QED BY <2>1, <2>2, <2>5, <2>6, <2>7 DEF MonitoredInv
<1> QED BY <1>1, <1>2, <1>3, <1>4, <1>5

\* __dsq_enqueue: prev was on no list.
LEMMA EnqueuePreserves ==
  ASSUME IInv, NEW c \in CPU, EnqueueLocked(c)
  PROVE  IInv'
<1> USE DEF IInv, TypeOK, life, kernel, switchVars, queueVars, hookVars, ghosts
<1>1. TypeOK'
  BY DEF EnqueueLocked, __dsq_enqueue, AfterEnqueue, HookInv
<1>2. HookInv'
  BY DEF EnqueueLocked, __dsq_enqueue, AfterEnqueue, HookInv, ApartInv, Held
<1>3. (ApartInv /\ LifeInv)'
  BY DEF EnqueueLocked, AfterEnqueue, HookInv, ApartInv, LifeInv, Held
<1>4. LinkInv'
  BY EnqueueLinks
<1>5. ClassInv'
  <2> SUFFICES ASSUME scenario.mutable = {}, NEW q \in Queues
               PROVE  /\ \A t \in fifo'[q] : q = lse_dsq_classify(kind[t])
                      /\ nr'[q] = Cardinality(fifo'[q])
                      /\ is_timeout'[q] => fifo'[q] # {}
    BY DEF EnqueueLocked, ClassInv
  <2>1. fifo'[q] = IF q = idx[c] THEN fifo[q] \cup {prev[c]} ELSE fifo[q]
    BY EnqueueLinks
  <2>2. \A t \in fifo'[q] : q = lse_dsq_classify(kind[t])
    BY <2>1 DEF EnqueueLocked, HookInv, ClassInv
  <2>3. nr'[q] = Cardinality(fifo'[q])
    <3>1. prev[c] \notin fifo[q] /\ IsFiniteSet(fifo[q])
      BY EnqueueLinks DEF Linked, LinkInv
    <3>2. Cardinality(fifo[q] \cup {prev[c]}) = Cardinality(fifo[q]) + 1
      BY <3>1, FS_AddElement
    <3> QED BY <2>1, <3>2 DEF EnqueueLocked, __dsq_enqueue, ClassInv
  <2>4. is_timeout'[q] => fifo'[q] # {}
    BY <2>1 DEF EnqueueLocked, __dsq_enqueue, ClassInv
  <2> QED BY <2>2, <2>3, <2>4
<1>6. WaitInv'
  <2> SUFFICES ASSUME NEW q \in Queues, NEW t \in fifo'[q]
               PROVE  last_consume_at'[q] <= listed_at'[t]
    BY DEF WaitInv
  <2>1. fifo'[q] = IF q = idx[c] THEN fifo[q] \cup {prev[c]} ELSE fifo[q]
    BY EnqueueLinks
  <2>2. prev[c] \in Tasks /\ idx[c] \in Queues /\ t \in Tasks
    BY <1>1, EnqueueLinks
  <2>3. last_consume_at'[q] = IF q = idx[c] /\ fifo[q] = {} THEN jiffies
                                                          ELSE last_consume_at[q]
    BY <2>2 DEF EnqueueLocked, __dsq_enqueue
  <2>4. listed_at'[t] = IF t = prev[c] THEN jiffies ELSE listed_at[t]
    BY <2>2 DEF EnqueueLocked
  <2>5. last_consume_at[q] \in 0 .. jiffies /\ jiffies \in Nat
    BY SystemAssumption
  <2> QED BY <2>1, <2>2, <2>3, <2>4, <2>5, EnqueueLinks DEF WaitInv, Linked
<1>7. PreemptInv'
  <2> SUFFICES ASSUME scenario.switches = {} PROVE MonitoredInv'
    BY DEF EnqueueLocked, PreemptInv
  <2>1. MonitoredInv
    BY DEF PreemptInv
  <2>2. /\ prev[c] \in lts /\ prev[c] # next[c] /\ pc[c] = "enqueue_lock"
        /\ scenario.hook = "after"
        /\ \A t \in Tasks : Linked(t)' <=> Linked(t) \/ t = prev[c]
        /\ pc' = [pc EXCEPT ![c] =
                     IF next[c] # NoTask THEN "dequeue" ELSE "scan"]
        /\ UNCHANGED <<prev, next, curr, lts, on_rq, preempted, switchVars,
                       scenario>>
    BY EnqueueLinks DEF EnqueueLocked, AfterEnqueue, HookInv
  <2>3. ~Linked(NoTask)'
    BY <1>1, NoTaskLemma DEF Linked
  <2>4. ASSUME NEW t \in lts PROVE InHook(t)' \/ (Followed(t)' <=> Linked(t)')
    BY <2>1, <2>2 DEF MonitoredInv, InHook, Followed
  <2>5. DoneSoFar(c)'
    BY <2>1, <2>2, <2>3 DEF MonitoredInv, DoneSoFar, Followed
  <2>6. ASSUME NEW d \in CPU \ {c} PROVE DoneSoFar(d)'
    <3>1. DoneSoFar(d) /\ ~Linked(NoTask)
      BY <2>1, NoTaskLemma DEF MonitoredInv, Linked
    <3>2. prev[c] # next[d] /\ (pc[d] # "out" => prev[c] # prev[d])
      BY <2>2 DEF HookInv, ApartInv, Held
    <3>3. pc[d] # "out" => prev[d] \in Tasks \cup {NoTask}
      OBVIOUS
    <3> QED BY <2>2, <2>3, <3>1, <3>2, <3>3 DEF DoneSoFar, Followed
  <2> QED BY <2>1, <2>2, <2>4, <2>5, <2>6 DEF MonitoredInv
<1> QED BY <1>1, <1>2, <1>3, <1>4, <1>5, <1>6, <1>7

\* The checks before the lock of __dsq_dequeue.
LEMMA DequeueCheckPreserves ==
  ASSUME IInv, NEW c \in CPU, lse_dsq_dequeue_task(c)
  PROVE  IInv'
<1> USE DEF IInv, TypeOK, life, kernel, switchVars, queueVars, hookVars, ghosts
<1>1. TypeOK'
  <2>1. dequeue_idx(c) \in Queues
    BY ClassifyType DEF lse_dsq_dequeue_task, dequeue_idx, HookInv
  <2> QED BY <2>1 DEF lse_dsq_dequeue_task
<1>2. HookInv'
  BY DEF lse_dsq_dequeue_task, may_dequeue, dequeue_idx, HookInv
<1>3. (ApartInv /\ LifeInv)'
  BY DEF lse_dsq_dequeue_task, HookInv, ApartInv, LifeInv, Held
<1>4. (LinkInv /\ ClassInv /\ WaitInv)'
  BY DEF lse_dsq_dequeue_task, LinkInv, ClassInv, WaitInv
<1>5. PreemptInv'
  BY DEF lse_dsq_dequeue_task, may_dequeue, HookInv, LinkInv, PreemptInv,
         MonitoredInv, DoneSoFar, Linked, Followed, InHook
<1> QED BY <1>1, <1>2, <1>3, <1>4, <1>5

\* __dsq_dequeue: nr is not zero when there is something to dequeue.
LEMMA DequeuePreserves ==
  ASSUME IInv, NEW c \in CPU, DequeueLocked(c)
  PROVE  IInv'
<1> USE DEF IInv, TypeOK, life, kernel, switchVars, queueVars, hookVars, ghosts
<1>1. TypeOK'
  <2>0. listed_at' \in [Tasks -> 0 .. jiffies]
    <3>1. 0 \in 0 .. jiffies /\ listed_at \in [Tasks -> 0 .. jiffies]
      BY SystemAssumption
    <3>2. listed_at' = [listed_at EXCEPT ![next[c]] = 0]
      BY DEF DequeueLocked
    <3> HIDE DEF IInv, TypeOK
    <3> QED BY <3>1, <3>2
  <2>1. CASE on_dsq[next[c]]
    <3>1. unlink(idx[c], next[c])
      BY <2>1 DEF DequeueLocked, __dsq_dequeue
    <3>2. fifo' \in [Queues -> SUBSET Tasks] /\ nr' \in [Queues -> Nat]
      BY <3>1 DEF unlink
    <3>3. on_dsq' \in [Tasks -> BOOLEAN] /\ is_timeout' \in [Queues -> BOOLEAN]
      BY <3>1 DEF unlink
    <3>4. last_consume_at' \in [Queues -> 0 .. jiffies]
      BY <3>1 DEF unlink
    <3> QED BY <2>0, <3>2, <3>3, <3>4 DEF DequeueLocked
  <2>2. CASE ~on_dsq[next[c]]
    BY <2>0, <2>2 DEF DequeueLocked, __dsq_dequeue
  <2> QED BY <2>1, <2>2
<1>2. HookInv'
  <2>1. \A t \in Tasks : on_dsq'[t] => on_dsq[t]
    BY DequeueUnlinks DEF LinkInv, Linked
  <2> QED BY <2>1 DEF DequeueLocked, HookInv
<1>3. (ApartInv /\ LifeInv)'
  BY DEF DequeueLocked, HookInv, ApartInv, LifeInv, Held
<1>4. LinkInv'
  BY DequeueUnlinks
<1>5. ClassInv'
  <2> SUFFICES ASSUME scenario.mutable = {}, NEW q \in Queues
               PROVE  /\ \A t \in fifo'[q] : q = lse_dsq_classify(kind[t])
                      /\ nr'[q] = Cardinality(fifo'[q])
                      /\ is_timeout'[q] => fifo'[q] # {}
    BY DEF DequeueLocked, ClassInv
  <2>1. CASE ~on_dsq[next[c]]
    BY <2>1 DEF DequeueLocked, __dsq_dequeue, ClassInv
  <2>2. CASE on_dsq[next[c]] /\ q # idx[c]
    <3>1. fifo'[q] = fifo[q]
      <4>1. next[c] \notin fifo[q]
        BY <2>2, DequeueRightList DEF DequeueLocked
      <4>2. fifo'[q] = fifo[q] \ {next[c]}
        BY DequeueUnlinks
      <4> QED BY <4>1, <4>2
    <3>2. UNCHANGED <<nr[q], is_timeout[q], last_consume_at[q]>>
      BY <2>2 DEF DequeueLocked, __dsq_dequeue, unlink
    <3> QED BY <3>1, <3>2 DEF ClassInv
  <2>3. CASE on_dsq[next[c]] /\ q = idx[c]
    <3>1. fifo'[q] = fifo[q] \ {next[c]} /\ next[c] \in fifo[q]
      BY <2>3, DequeueRightList, DequeueUnlinks DEF DequeueLocked
    <3>2. /\ nr'[q] = IF nr[q] > 0 THEN nr[q] - 1 ELSE 0
          /\ is_timeout'[q] <=> is_timeout[q] /\ fifo'[q] # {}
      <4>1. unlink(idx[c], next[c])
        BY <2>3 DEF DequeueLocked, __dsq_dequeue
      <4>2. nr'[q] = IF nr[q] > 0 THEN nr[q] - 1 ELSE 0
        BY <2>3, <4>1 DEF unlink
      <4>3. is_timeout'[q] <=> is_timeout[q] /\ fifo'[q] # {}
        BY <2>3, <4>1 DEF unlink
      <4> QED BY <4>2, <4>3
    <3>3. /\ Cardinality(fifo'[q]) = Cardinality(fifo[q]) - 1
          /\ Cardinality(fifo[q]) \in Nat /\ Cardinality(fifo'[q]) \in Nat
      <4>1. IsFiniteSet(fifo[q])
        BY DEF LinkInv
      <4>2. IsFiniteSet(fifo'[q])
        BY <3>1, <4>1, FS_RemoveElement
      <4> QED BY <3>1, <4>1, <4>2, FS_RemoveElement, FS_CardinalityType
    <3>4. nr'[q] = Cardinality(fifo'[q])
      BY <3>2, <3>3 DEF ClassInv
    <3> QED BY <3>1, <3>2, <3>4 DEF ClassInv
  <2> QED BY <2>1, <2>2, <2>3
<1>6. WaitInv'
  <2> SUFFICES ASSUME NEW q \in Queues, NEW t \in fifo'[q]
               PROVE  last_consume_at'[q] <= listed_at'[t]
    BY DEF WaitInv
  <2>1. fifo'[q] = fifo[q] \ {next[c]} /\ t \in fifo[q] /\ t # next[c]
    BY DequeueUnlinks
  <2>2. last_consume_at'[q] = last_consume_at[q]
    <3>1. CASE on_dsq[next[c]]
      BY <2>1, <3>1 DEF DequeueLocked, __dsq_dequeue, unlink
    <3>2. CASE ~on_dsq[next[c]]
      BY <3>2 DEF DequeueLocked, __dsq_dequeue
    <3> QED BY <3>1, <3>2
  <2>3. listed_at'[t] = listed_at[t]
    BY <2>1 DEF DequeueLocked
  <2> QED BY <2>1, <2>2, <2>3 DEF WaitInv
<1>7. PreemptInv'
  <2> SUFFICES ASSUME scenario.switches = {} PROVE MonitoredInv'
    BY DEF DequeueLocked, PreemptInv
  <2>1. MonitoredInv
    BY DEF PreemptInv
  <2>2. /\ next[c] \in lts /\ prev[c] # next[c] /\ pc[c] = "dequeue_lock"
        /\ \A t \in Tasks : Linked(t)' <=> Linked(t) /\ t # next[c]
        /\ pc' = [pc EXCEPT ![c] = "scan"]
        /\ UNCHANGED <<prev, next, curr, lts, on_rq, preempted, switchVars,
                       scenario>>
    BY DequeueUnlinks DEF DequeueLocked, HookInv
  <2>3. ~Linked(NoTask)'
    BY <1>1, NoTaskLemma DEF Linked
  <2>4. ASSUME NEW t \in lts PROVE InHook(t)' \/ (Followed(t)' <=> Linked(t)')
    BY <2>1, <2>2 DEF MonitoredInv, InHook, Followed
  <2>5. DoneSoFar(c)'
    BY <2>1, <2>2, <2>3 DEF MonitoredInv, DoneSoFar, Followed
  <2>6. ASSUME NEW d \in CPU \ {c} PROVE DoneSoFar(d)'
    <3>1. DoneSoFar(d) /\ ~Linked(NoTask)
      BY <2>1, NoTaskLemma DEF MonitoredInv, Linked
    <3>2. next[c] # next[d] /\ (pc[d] # "out" => next[c] # prev[d])
      BY <2>2 DEF HookInv, ApartInv, Held
    <3> QED BY <2>2, <2>3, <3>1, <3>2 DEF DoneSoFar, Followed
  <2> QED BY <2>1, <2>2, <2>4, <2>5, <2>6 DEF MonitoredInv
<1> QED BY <1>1, <1>2, <1>3, <1>4, <1>5, <1>6, <1>7

\* The hook ends, and next becomes the current task.
LEMMA HookDonePreserves ==
  ASSUME IInv, NEW c \in CPU, pc[c] \in {"scan", "scan_lock"}, HookDone(c),
         UNCHANGED <<fifo, on_dsq, switchVars, preempted>>
  PROVE  (HookInv /\ ApartInv /\ LifeInv /\ LinkInv /\ PreemptInv)'
<1> USE NoTaskLemma DEF IInv, TypeOK, HookDone, life, switchVars
<1>1. (HookInv /\ ApartInv)'
  BY DEF HookInv, ApartInv, Held
<1>2. LifeInv'
  <2>1. \A t \in Tasks \ alive : ~on_rq[t] /\ \A d \in CPU : t \notin Held(d)'
    BY DEF LifeInv, Held
  <2>2. ASSUME NEW d \in CPU
        PROVE  /\ next'[d] \in Tasks => on_rq[next'[d]]
               /\ /\ pc'[d] \in {"out", "enqueue", "enqueue_lock"}
                  /\ curr'[d] \in Tasks
                  => on_rq[curr'[d]]
    BY DEF LifeInv
  <2> QED BY <2>1, <2>2 DEF LifeInv
<1>3. LinkInv'
  BY DEF LinkInv
<1>4. PreemptInv'
  <2> SUFFICES ASSUME scenario.switches = {} PROVE MonitoredInv'
    BY DEF PreemptInv
  <2>1. MonitoredInv
    BY DEF PreemptInv
  <2>2. \A t : Linked(t)' <=> Linked(t)
    BY DEF Linked
  <2>3. ASSUME NEW t \in lts PROVE InHook(t)' \/ (Followed(t)' <=> Linked(t)')
    <3>1. CASE t \in {prev[c], next[c]}
      BY <2>1, <2>2, <3>1 DEF MonitoredInv, DoneSoFar, Followed
    <3>2. CASE t \notin {prev[c], next[c]}
      BY <2>1, <2>2, <3>2 DEF MonitoredInv, InHook, Followed
    <3> QED BY <3>1, <3>2
  <2>4. ASSUME NEW d \in CPU PROVE DoneSoFar(d)'
    BY <2>1, <2>2 DEF MonitoredInv, DoneSoFar, Followed
  <2> QED BY <2>1, <2>3, <2>4 DEF MonitoredInv
<1> QED BY <1>1, <1>2, <1>3, <1>4

\* The hook goes on to the next queue of lse_dsq_scan_timeout.
LEMMA HookScanPreserves ==
  ASSUME IInv, NEW c \in CPU, pc[c] \in {"scan", "scan_lock"},
         \A d \in CPU : /\ pc'[d] = IF d = c THEN "scan_lock" ELSE pc[d]
                        /\ d # c => idx'[d] = idx[d],
         UNCHANGED <<kernel, prev, next, fifo, on_dsq, switchVars, preempted>>
  PROVE  (HookInv /\ ApartInv /\ LifeInv /\ LinkInv /\ PreemptInv)'
<1> USE DEF IInv, TypeOK, kernel, life, switchVars
<1>1. (HookInv /\ ApartInv)'
  BY DEF HookInv, ApartInv, Held
<1>2. (LifeInv /\ LinkInv)'
  BY DEF LifeInv, LinkInv, Held
<1>3. PreemptInv'
  <2>1. \A t \in Tasks : /\ Linked(t)' <=> Linked(t)
                         /\ InHook(t)' <=> InHook(t)
    BY DEF Linked, InHook
  <2>2. lts \subseteq Tasks
    OBVIOUS
  <2>3. ASSUME NEW d \in CPU, DoneSoFar(d) PROVE DoneSoFar(d)'
    <3>1. next[d] \in Tasks => (Linked(next[d])' <=> Linked(next[d]))
      BY DEF Linked
    <3> QED BY <2>1, <2>3 DEF DoneSoFar, Linked, Followed
  <2>4. \A t : Followed(t)' <=> Followed(t)
    BY DEF Followed
  <2> QED BY <2>1, <2>2, <2>3, <2>4 DEF PreemptInv, MonitoredInv
<1> QED BY <1>1, <1>2, <1>3

\* The throttle of the scan.
LEMMA StartScanPreserves ==
  ASSUME IInv, NEW c \in CPU, StartScan(c)
  PROVE  IInv'
<1> USE DEF IInv, TypeOK, life, kernel, switchVars, queueVars, hookVars, ghosts
<1>1. lse_dsq_last_scan_jf' \in [CPU -> 0 .. jiffies]
  BY DEF StartScan
<1>2. CASE HookDone(c)
  <2>1. (HookInv /\ ApartInv /\ LifeInv /\ LinkInv /\ PreemptInv)'
    BY <1>2, HookDonePreserves DEF StartScan
  <2>2. (ClassInv /\ WaitInv)'
    BY <1>2 DEF StartScan, HookDone, ClassInv, WaitInv
  <2>3. TypeOK'
    <3>1. 0 \in Queues
      BY QueueNumbers
    <3> QED BY <1>1, <1>2, <3>1 DEF StartScan, HookDone
  <2> QED BY <2>1, <2>2, <2>3
<1>3. CASE ~HookDone(c)
  <2>1. /\ pc' = [pc EXCEPT ![c] = "scan_lock"]
        /\ idx' = [idx EXCEPT ![c] = Pcp(c)]
        /\ UNCHANGED <<kernel, prev, next>>
    BY <1>3 DEF StartScan
  <2>2. (HookInv /\ ApartInv /\ LifeInv /\ LinkInv /\ PreemptInv)'
    BY <2>1, HookScanPreserves DEF StartScan
  <2>3. (ClassInv /\ WaitInv)'
    BY <2>1 DEF StartScan, ClassInv, WaitInv
  <2>4. Pcp(c) \in Queues
    BY QueueNumbers
  <2>5. TypeOK'
    BY <1>1, <2>1, <2>4 DEF StartScan
  <2> QED BY <2>2, <2>3, <2>5
<1> QED BY <1>2, <1>3

\* One queue of the scan: a timeout is raised on a list that has waited longer
\* than its deadline.
LEMMA ScanPreserves ==
  ASSUME IInv, NEW c \in CPU, lse_dsq_scan_timeout(c)
  PROVE  IInv'
<1> USE DEF IInv, TypeOK, life, kernel, switchVars, queueVars, hookVars, ghosts
<1>1. scan_one(idx[c]) /\ idx[c] \in Queues /\ pc[c] = "scan_lock"
  BY DEF lse_dsq_scan_timeout
<1>2. UNCHANGED <<fifo, nr, on_dsq, jiffies, switchVars, lse_dsq_last_scan_jf,
                  ghosts, scenario, kind>>
  <2>1. UNCHANGED kernel \/ HookDone(c)
    BY DEF lse_dsq_scan_timeout
  <2> QED BY <1>1, <2>1 DEF lse_dsq_scan_timeout, scan_one, HookDone
<1>3. /\ is_timeout' \in [Queues -> BOOLEAN]
      /\ last_consume_at' \in [Queues -> 0 .. jiffies]
  <2>1. is_timeout' \in [Queues -> BOOLEAN]
    BY <1>1 DEF scan_one
  <2>2. last_consume_at' \in [Queues -> 0 .. jiffies]
    BY <1>1 DEF scan_one
  <2> QED BY <2>1, <2>2
<1>4. (ClassInv /\ WaitInv)'
  <2>1. \A q \in Queues : is_timeout'[q] => is_timeout[q] \/ fifo[q] # {}
    BY <1>1 DEF scan_one
  <2>2. \A q \in Queues : fifo[q] # {} => last_consume_at'[q] = last_consume_at[q]
    BY <1>1 DEF scan_one
  <2> QED BY <1>2, <2>1, <2>2 DEF ClassInv, WaitInv
<1>5. CASE HookDone(c)
  <2>1. (HookInv /\ ApartInv /\ LifeInv /\ LinkInv /\ PreemptInv)'
    BY <1>1, <1>2, <1>5, HookDonePreserves
  <2>2. TypeOK'
    <3>1. 0 \in Queues
      BY QueueNumbers
    <3> QED BY <1>2, <1>3, <1>5, <3>1 DEF HookDone
  <2> QED BY <1>4, <2>1, <2>2
<1>6. CASE ~HookDone(c)
  <2>1. /\ UNCHANGED <<kernel, pc, prev, next>>
        /\ \/ idx' = [idx EXCEPT ![c] = 5]
           \/ idx[c] \in 5 .. 8 /\ idx' = [idx EXCEPT ![c] = @ + 1]
    BY <1>6 DEF lse_dsq_scan_timeout, NonPeriod
  <2>2. (HookInv /\ ApartInv /\ LifeInv /\ LinkInv /\ PreemptInv)'
    BY <1>1, <1>2, <2>1, HookScanPreserves
  <2>3. /\ 5 \in Queues
        /\ \A i \in 5 .. 8 : i + 1 \in Queues
    <3>1. \A i \in 5 .. 8 : i + 1 \in 0 .. 9
      OBVIOUS
    <3> QED BY <3>1, QueueNumbers
  <2>4. idx' \in [CPU -> Queues]
    BY <2>1, <2>3
  <2>5. TypeOK'
    BY <1>2, <1>3, <2>1, <2>4
  <2> QED BY <1>4, <2>2, <2>5
<1> QED BY <1>5, <1>6

-----------------------------------------------------------------------------
\* What the rest of the kernel does to a task that no CPU runs or switches.
LEMMA TaskPreserves ==
  ASSUME IInv, NEW t \in Tasks,
         \/ Wake(t) \/ SetKind(t)
         \/ alloc_lse_task_struct(t) \/ free_lse_task_struct(t)
  PROVE  IInv'
<1> USE DEF IInv, TypeOK, life, kernel, switchVars, queueVars, hookVars, ghosts
<1>1. CASE Wake(t)
  <2>1. TypeOK' /\ (HookInv /\ ApartInv /\ LinkInv /\ ClassInv /\ WaitInv)'
    BY <1>1 DEF Wake, HookInv, ApartInv, LinkInv, ClassInv, WaitInv, Held
  <2>2. LifeInv'
    BY <1>1 DEF Wake, LifeInv, Held
  <2>3. PreemptInv'
    BY <1>1 DEF Wake, PreemptInv, MonitoredInv, DoneSoFar, Linked, Followed, InHook
  <2> QED BY <2>1, <2>2, <2>3
<1>2. CASE SetKind(t)
  <2>1. TypeOK' /\ (ApartInv /\ LifeInv /\ LinkInv /\ WaitInv)'
    BY <1>2 DEF SetKind, ApartInv, LifeInv, LinkInv, WaitInv, Held
  <2>2. HookInv'
    BY <1>2 DEF SetKind, HookInv, Running, Switching
  <2>3. (ClassInv /\ PreemptInv)'
    BY <1>2 DEF SetKind, ClassInv, PreemptInv, MonitoredInv, DoneSoFar, Linked, Followed,
                InHook
  <2> QED BY <2>1, <2>2, <2>3
<1>3. CASE alloc_lse_task_struct(t)
  <2>1. TypeOK'
    BY <1>3 DEF alloc_lse_task_struct
  <2>2. (HookInv /\ ApartInv /\ LifeInv)'
    BY <1>3 DEF alloc_lse_task_struct, HookInv, ApartInv, LifeInv, Held
  <2>3. (LinkInv /\ ClassInv /\ WaitInv)'
    BY <1>3 DEF alloc_lse_task_struct, LinkInv, ClassInv, WaitInv
  <2>4. PreemptInv'
    BY <1>3 DEF alloc_lse_task_struct, LifeInv, LinkInv, HookInv, Held,
                PreemptInv, MonitoredInv, DoneSoFar, Linked, Followed, InHook
  <2> QED BY <2>1, <2>2, <2>3, <2>4
\* A scenario with forks writes no sysctl, so the queues were never off; a task
\* that sleeps was not preempted, and so is on no list.
<1>4. CASE free_lse_task_struct(t)
  <2>1. TypeOK'
    BY <1>4 DEF free_lse_task_struct
  <2>2. (HookInv /\ ApartInv /\ LifeInv)'
    BY <1>4, NoTaskLemma
    DEF free_lse_task_struct, HookInv, ApartInv, LifeInv, Held, Running,
        Switching
  <2>3. ~Linked(t)
    <3>1. MonitoredInv
      BY <1>4, SystemAssumption DEF free_lse_task_struct, PreemptInv
    <3>2. t \in lts => ~Linked(t)
      BY <1>4, <3>1, SwitchingLemma
      DEF free_lse_task_struct, MonitoredInv, Followed
    <3> QED BY <3>2 DEF LinkInv, Linked
  <2>4. (LinkInv /\ ClassInv /\ WaitInv)'
    BY <1>4, <2>3 DEF free_lse_task_struct, LinkInv, ClassInv, WaitInv, Linked
  <2>5. PreemptInv'
    BY <1>4 DEF free_lse_task_struct, PreemptInv, MonitoredInv, DoneSoFar,
                Linked, Followed, InHook
  <2> QED BY <2>1, <2>2, <2>4, <2>5
<1> QED BY <1>1, <1>2, <1>3, <1>4

\* The sysctls and the drain, and time.
LEMMA SwitchPreserves ==
  ASSUME IInv, \/ lse_proc_dsq_toggle_update \/ lse_dsq_sync \/ write_slim_stats
               \/ Tick \/ UNCHANGED vars
  PROVE  IInv'
<1> USE DEF IInv, TypeOK, life, kernel, switchVars, queueVars, hookVars, ghosts
<1>1. CASE lse_proc_dsq_toggle_update
  <2>1. TypeOK'
    BY <1>1, QueueNumbers DEF lse_proc_dsq_toggle_update
  <2>2. (HookInv /\ ApartInv /\ LifeInv /\ LinkInv)'
    BY <1>1 DEF lse_proc_dsq_toggle_update, HookInv, ApartInv, LifeInv, LinkInv,
                Held
  <2>3. (ClassInv /\ WaitInv /\ PreemptInv)'
    BY <1>1 DEF lse_proc_dsq_toggle_update, ClassInv, WaitInv, PreemptInv
  <2> QED BY <2>1, <2>2, <2>3
\* The tasks of one list are unlinked, and no others.
<1>2. CASE lse_dsq_sync
  <2>1. sync \in Queues /\ sync + 1 \in 0 .. SyncDone
    <3>1. sync \in 0 .. SyncDone /\ sync # SyncDone
      BY <1>2 DEF lse_dsq_sync
    <3> HIDE DEF IInv, TypeOK
    <3> QED BY <3>1, QueueNumbers
  <2>2. /\ \A q \in Queues : fifo'[q] = IF q = sync THEN {} ELSE fifo[q]
        /\ \A q \in Queues : nr'[q] = IF q = sync THEN 0 ELSE nr[q]
        /\ \A t \in Tasks : on_dsq'[t] <=> on_dsq[t] /\ t \notin fifo[sync]
    BY <1>2, <2>1 DEF lse_dsq_sync
  <2>3. TypeOK'
    <3>1. on_dsq' \in [Tasks -> BOOLEAN]
      BY <1>2 DEF lse_dsq_sync
    <3> QED BY <1>2, <2>1, <3>1 DEF lse_dsq_sync
  <2>4. (HookInv /\ ApartInv /\ LifeInv)'
    BY <1>2, <2>2 DEF lse_dsq_sync, HookInv, ApartInv, LifeInv, Held
  <2>5. LinkInv'
    <3>1. \A q \in Queues : IsFiniteSet(fifo'[q]) /\ fifo'[q] \subseteq lts'
      BY <1>2, <2>2, FS_EmptySet DEF lse_dsq_sync, LinkInv
    <3> QED BY <2>1, <2>2, <3>1 DEF LinkInv
  <2>6. (ClassInv /\ WaitInv)'
    BY <1>2, <2>2, FS_EmptySet DEF lse_dsq_sync, ClassInv, WaitInv
  <2>7. PreemptInv'
    BY <1>2 DEF lse_dsq_sync, PreemptInv, MonitoredInv
  <2> QED BY <2>3, <2>4, <2>5, <2>6, <2>7
<1>3. CASE write_slim_stats
  BY <1>3 DEF write_slim_stats, HookInv, ApartInv, LifeInv, LinkInv, ClassInv,
              WaitInv, PreemptInv, Held
<1>4. CASE Tick
  <2>1. TypeOK'
    BY <1>4, SystemAssumption DEF Tick
  <2>2. (HookInv /\ ApartInv /\ LifeInv /\ LinkInv /\ PreemptInv)'
    BY <1>4 DEF Tick, HookInv, ApartInv, LifeInv, LinkInv, PreemptInv,
                MonitoredInv, DoneSoFar, Linked, Followed, InHook, Held
  <2>3. (ClassInv /\ WaitInv)'
    BY <1>4 DEF Tick, ClassInv, WaitInv
  <2> QED BY <2>1, <2>2, <2>3
<1>5. CASE UNCHANGED vars
  BY <1>5 DEF vars, HookInv, ApartInv, LifeInv, LinkInv, ClassInv, WaitInv,
              PreemptInv, MonitoredInv, DoneSoFar, Linked, Followed, InHook, Held
<1> QED BY <1>1, <1>2, <1>3, <1>4, <1>5

-----------------------------------------------------------------------------
\* The queues start empty, and no hook runs.
LEMMA IInvInit == Init => IInv
<1> SUFFICES ASSUME Init PROVE IInv
  OBVIOUS
<1> USE DEF Init
<1>1. TypeOK
  <2>1. 0 \in Queues /\ SyncDone \in 0 .. SyncDone
    BY QueueNumbers
  <2>2. scenario.tasks \subseteq Tasks /\ scenario.until \in Nat
        /\ kind \in [Tasks -> scenario.kinds]
    BY SystemAssumption
  <2> QED BY <2>1, <2>2 DEF TypeOK
<1>2. HookInv /\ ApartInv /\ LifeInv
  BY NoTaskLemma DEF HookInv, ApartInv, LifeInv, Held
<1>3. LinkInv /\ ClassInv /\ WaitInv
  BY FS_EmptySet DEF LinkInv, ClassInv, WaitInv
<1>4. PreemptInv
  <2> SUFFICES ASSUME scenario.switches = {} PROVE MonitoredInv
    BY DEF PreemptInv
  <2>1. \A t : ~Linked(t)
    BY DEF Linked
  <2>2. \A t \in Tasks : ~preempted[t]
    OBVIOUS
  <2>3. \A t \in lts : t \in Tasks
    BY <1>1 DEF TypeOK
  <2>4. slim_stats
    OBVIOUS
  <2> QED BY <2>1, <2>2, <2>3, <2>4, NoTaskLemma DEF MonitoredInv, DoneSoFar, Followed
<1> QED BY <1>1, <1>2, <1>3, <1>4 DEF IInv

\* The inductive invariant holds in every reachable state, for any number of
\* CPUs and tasks.
THEOREM Invariance == Spec => []IInv
<1>1. IInv /\ [Next]_vars => IInv'
  <2> SUFFICES ASSUME IInv, [Next]_vars PROVE IInv'
    OBVIOUS
  <2>1. ASSUME NEW c \in CPU,
               \/ lse_dsq_on_schedule(c)
               \/ lse_dsq_enqueue_task(c) \/ EnqueueLocked(c)
               \/ lse_dsq_dequeue_task(c) \/ DequeueLocked(c)
               \/ StartScan(c) \/ lse_dsq_scan_timeout(c)
        PROVE  IInv'
    BY <2>1, SchedulePreserves, EnqueueCheckPreserves, EnqueuePreserves,
       DequeueCheckPreserves, DequeuePreserves, StartScanPreserves,
       ScanPreserves
  <2> QED BY <2>1, TaskPreserves, SwitchPreserves DEF Next
<1> QED BY <1>1, IInvInit, PTL DEF Spec

\* Type correctness of the dispatch queues: nr is never negative, and no
\* timestamp lies in the future.
THEOREM TypeCorrect == Spec => []TypeOK
<1>1. IInv => TypeOK
  BY DEF IInv
<1> QED BY <1>1, Invariance, PTL

\* lts->on_dsq says exactly whether the node is linked, to one list.
THEOREM LinkedOnce == Spec => []OnDsqIffQueued
<1>1. ASSUME IInv, NEW t \in lts
      PROVE  Cardinality({q \in Queues : t \in fifo[q]}) =
               IF on_dsq[t] THEN 1 ELSE 0
  <2> DEFINE lists == {q \in Queues : t \in fifo[q]}
  <2>1. t \in Tasks
    BY <1>1 DEF IInv, TypeOK
  <2>2. CASE on_dsq[t]
    <3>1. PICK q \in Queues : t \in fifo[q]
      BY <1>1, <2>1, <2>2 DEF IInv, LinkInv
    <3>2. lists = {q}
      BY <1>1, <2>1, <3>1 DEF IInv, LinkInv
    <3> QED BY <2>2, <3>2, FS_Singleton
  <2>3. CASE ~on_dsq[t]
    <3>1. lists = {}
      BY <1>1, <2>1, <2>3 DEF IInv, LinkInv
    <3> QED BY <2>3, <3>1, FS_EmptySet
  <2> QED BY <2>2, <2>3
<1>2. IInv => OnDsqIffQueued
  BY <1>1 DEF OnDsqIffQueued
<1> QED BY <1>2, Invariance, PTL

\* While no task changes its class, dsq->nr is the length of the list: the
\* clamp of __dsq_dequeue at zero never hides a miscount.
THEOREM DepthCorrect == Spec => []DepthExact
<1>1. IInv => DepthExact
  BY DEF IInv, ClassInv, DepthExact, NrMatchesFifo
<1> QED BY <1>1, Invariance, PTL

\* While no task changes its class, __dsq_dequeue takes the right lock.
THEOREM RightLock == Spec => []DequeueLocksItsQueue
<1>1. ASSUME IInv, scenario.mutable = {}, NEW c \in CPU, pc[c] = "dequeue_lock",
             on_dsq[next[c]]
      PROVE  next[c] \in fifo[idx[c]]
  <2>1. idx[c] \in Queues
    BY <1>1 DEF IInv, TypeOK
  <2> QED BY <1>1, <2>1, DequeueRightList
<1>2. IInv => DequeueLocksItsQueue
  BY <1>1 DEF DequeueLocksItsQueue
<1> QED BY <1>2, Invariance, PTL

\* While no task changes its class, the timeouts and lse_dsq_urgency_signal
\* report only queues on which tasks wait.
THEOREM UrgencySound == Spec => []UrgencyNeedsBacklog
<1> DEFINE waiting == {q \in Global : fifo[q] # {}}
           timeouts == {q \in Global : is_timeout[q]}
<1>1. ASSUME IInv, scenario.mutable = {}
      PROVE  \A q \in Queues : is_timeout[q] => fifo[q] # {}
  BY <1>1 DEF IInv, ClassInv
<1>2. ASSUME IInv, scenario.mutable = {}
      PROVE  lse_dsq_urgency_signal <= 256 * Cardinality(waiting)
  <2>1. Global \subseteq Queues /\ IsFiniteSet(Global)
    <3>1. Global = 0 .. 9
      BY DEF Global, LSE_MAX_GLOBAL_DSQS
    <3>2. IsFiniteSet(0 .. 9)
      <4>1. \A a, b \in Int : IsFiniteSet(a .. b)
        BY FS_Interval
      <4>2. 0 \in Int /\ 9 \in Int
        OBVIOUS
      <4> QED BY <4>1, <4>2, Zenon
    <3> QED BY <3>1, <3>2 DEF Queues
  <2>2. IsFiniteSet(waiting)
    BY <2>1, FS_Subset
  <2>3. timeouts \subseteq waiting
    BY <1>1, <1>2, <2>1
  <2>4. Cardinality(timeouts) <= Cardinality(waiting)
    BY <2>2, <2>3, FS_Subset
  <2>5. /\ Cardinality(timeouts) \in Nat
        /\ Cardinality(waiting) \in Nat
    BY <2>2, <2>3, FS_Subset, FS_CardinalityType
  <2> HIDE DEF waiting, timeouts
  <2>6. ASSUME NEW a \in Int, NEW b \in Int PROVE Min({a, b}) <= a
    <3>1. \E x \in {a, b} : \A y \in {a, b} : x <= y
      BY <2>6
    <3> QED BY <2>6, <3>1 DEF Min
  <2>7. Min({Cardinality(timeouts) * 256, 1024}) <= Cardinality(timeouts) * 256
    BY <2>5, <2>6
  <2>8. lse_dsq_urgency_signal =
          IF lse_dsq_enable THEN Min({Cardinality(timeouts) * 256, 1024}) ELSE 0
    BY DEF lse_dsq_urgency_signal, timeouts
  <2>9. Min({Cardinality(timeouts) * 256, 1024}) \in Int
    <3>1. ASSUME NEW a \in Int, NEW b \in Int PROVE Min({a, b}) \in Int
      <4>1. \E x \in {a, b} : \A y \in {a, b} : x <= y
        BY <3>1
      <4> QED BY <3>1, <4>1 DEF Min
    <3> QED BY <2>5, <3>1
  <2> QED BY <2>4, <2>5, <2>7, <2>8, <2>9
<1>3. IInv => UrgencyNeedsBacklog
  BY <1>1, <1>2 DEF UrgencyNeedsBacklog
<1> QED BY <1>3, Invariance, PTL

\* A scan overlooks no task that has waited longer than the deadline of its
\* queue, also when drains and class changes race with the hooks.
THEOREM StarvationSeen == Spec => StarvationReported
<1>1. ASSUME IInv, NEW c \in CPU, lse_dsq_scan_timeout(c),
             NEW t \in fifo[idx[c]], jiffies > listed_at[t] + Deadline[idx[c]]
      PROVE  is_timeout'[idx[c]]
  <2> DEFINE q == idx[c]
  <2>1. q \in Queues /\ scan_one(q)
    BY <1>1 DEF IInv, TypeOK, lse_dsq_scan_timeout
  <2>2. fifo[q] # {} /\ last_consume_at[q] <= listed_at[t]
    BY <1>1, <2>1 DEF IInv, WaitInv
  <2>3. /\ t \in Tasks /\ jiffies \in Int /\ listed_at[t] \in Int
        /\ last_consume_at[q] \in Int /\ Deadline[q] \in Int
    BY <1>1, <2>1, SystemAssumption DEF IInv, TypeOK
  <2>4. jiffies > last_consume_at[q] + Deadline[q]
    BY <1>1, <2>2, <2>3
  <2>5. is_timeout \in [Queues -> BOOLEAN]
    BY <1>1 DEF IInv, TypeOK
  <2> QED BY <2>1, <2>2, <2>4, <2>5 DEF scan_one
<1>2. IInv /\ [Next]_vars =>
        [\A c \in CPU : lse_dsq_scan_timeout(c) =>
           \A t \in fifo[idx[c]] :
             jiffies > listed_at[t] + Deadline[idx[c]] => is_timeout'[idx[c]]]_vars
  BY <1>1
<1> QED BY <1>2, Invariance, PTL DEF Spec, StarvationReported

\* While monitoring stays on, the queues hold exactly the preempted tasks, even
\* if their class changes while they are queued, or nothing if the hook runs
\* before the switch.
THEOREM PreemptedQueued == Spec => []PreemptedTasksQueued
<1>1. IInv => PreemptedTasksQueued
  BY SwitchingLemma
  DEF IInv, PreemptInv, MonitoredInv, PreemptedTasksQueued, Linked, Followed
<1> QED BY <1>1, Invariance, PTL

\* While monitoring stays on, free_lse_task_struct frees no linked node.
THEOREM NoFreedTaskLinked == Spec => []FreedTasksUnlinked
<1>1. IInv => FreedTasksUnlinked
  BY DEF IInv, LinkInv, FreedTasksUnlinked
<1> QED BY <1>1, Invariance, PTL
=============================================================================
