-------------------------------- MODULE Dsq --------------------------------
(***************************************************************************)
(* The dispatch queues of lse_dsq.c.  They dispatch nothing: they follow,  *)
(* from the schedule hook, which preempted tasks wait for a CPU, and raise *)
(* a timeout when a queue has waited too long, which the governor turns    *)
(* into a higher frequency.                                                *)
(*                                                                         *)
(* The hook of a CPU runs under its runqueue lock, so a task that is being *)
(* switched in or out there is not touched by another CPU.  A section      *)
(* under dsq->lock is one step; the checks before it are steps of their    *)
(* own, and the sysctl that disables the queues drains them one by one.    *)
(*                                                                         *)
(* fifo[q] is the set of the tasks on the list: only the dump reads the    *)
(* order.  The variables preempted and listed_at do not exist in the code. *)
(***************************************************************************)
EXTENDS Integers, FiniteSets, FiniteSetsExt

CONSTANTS
  N,                \* nr_cpu_ids
  Tasks,            \* the tasks other than the idle tasks
  NoTask,           \* stands for the idle task of a CPU
  Scenarios,        \* what a behaviour may do:
                    \*   tasks     the tasks at the start
                    \*   kinds     what they may be, [pin, sched, class]
                    \*   start     the kinds of the tasks at the start
                    \*   mutable   the tasks whose kind may change
                    \*   forks     whether tasks exit and are forked; not if
                    \*             a sysctl is written, for a task that exits
                    \*             then may leave its freed node on a list
                    \*   switches  the sysctls that are written
                    \*   hook      the hook runs "before" or "after" the
                    \*             kernel makes next the current task
                    \*   until     bound on jiffies
  Deadline,         \* deadline of each queue, in jiffies
  ScanInterval,     \* jiffies between two scans of a CPU
  MaxNr             \* no kind changes while a queue counts more tasks

CPU == 0 .. N - 1
NoPin == -1
LSE_MAX_GLOBAL_DSQS == 10
LSE_DSQ_PCP_BASE == LSE_MAX_GLOBAL_DSQS
Global == 0 .. LSE_MAX_GLOBAL_DSQS - 1
Pcp(c) == LSE_DSQ_PCP_BASE + c
Queues == Global \cup {Pcp(c) : c \in CPU}
NonPeriod == 5 .. 9          \* LSE_DSQ_NON_PERIOD_START .. END - 1
SyncDone == LSE_DSQ_PCP_BASE + N

Kind == [pin : CPU \cup {NoPin}, sched : {"deadline", "rt", "fair"},
         class : {"boosted", "foreground", "normal", "background"}]

ASSUME SystemAssumption ==
  /\ N \in Nat \ {0}
  /\ NoTask \notin Tasks
  /\ \A s \in Scenarios :
       /\ s.tasks \subseteq Tasks /\ s.mutable \subseteq Tasks
       /\ s.kinds \subseteq Kind /\ s.start \subseteq [Tasks -> s.kinds]
       /\ s.forks \in BOOLEAN /\ s.until \in Nat
       /\ s.switches \subseteq {"dsq_enable", "slim_stats"}
       /\ s.forks => s.switches = {}
       /\ s.hook \in {"before", "after"}
  /\ Deadline \in [Queues -> Nat]
  /\ ScanInterval \in Nat
  /\ MaxNr \in Nat

VARIABLES
  scenario,                           \* never changes
  jiffies,
  alive, lts,                         \* the tasks; those with a lse_task_struct
  kind, on_rq, curr,                  \* the kernel's tasks and rq->curr
  lse_dsq_enable, slim_stats,
  sync,                               \* the queue lse_dsq_sync drains next
  fifo, nr, is_timeout, last_consume_at,           \* struct lse_dispatch_q
  on_dsq,                             \* lts->on_dsq
  pc, prev, next, idx,                \* where the hook of a CPU is, its locals
  lse_dsq_last_scan_jf,
  preempted,                          \* has been preempted and not run since
  listed_at                           \* when a task on a list was put there

life == <<scenario, alive, lts>>
kernel == <<life, kind, on_rq, curr>>
switchVars == <<lse_dsq_enable, slim_stats, sync>>
queueVars == <<fifo, nr, is_timeout, last_consume_at, on_dsq>>
hookVars == <<pc, prev, next, idx>>
ghosts == <<preempted, listed_at>>
vars == <<jiffies, kernel, switchVars, queueVars, hookVars,
          lse_dsq_last_scan_jf, ghosts>>

-----------------------------------------------------------------------------
\* lse_dsq_classify_lts: the queue of a task.  The class and the boost in lts
\* were refreshed from the task earlier in the same hook.
lse_dsq_classify(k) ==
  CASE k.pin # NoPin -> Pcp(k.pin)
    [] k.pin = NoPin /\ k.sched = "deadline" -> 0   \* CRITICAL_SYSTEM
    [] k.pin = NoPin /\ k.sched = "rt" -> 2         \* PRIO_RT
    [] OTHER -> [boosted |-> 3, foreground |-> 6,
                 normal |-> 8, background |-> 9][k.class]

\* The tasks a hook in progress switches: their runqueue lock is held.
Switching == UNION {{prev[c], next[c]} : c \in {d \in CPU : pc[d] # "out"}}
Running == {curr[c] : c \in CPU}

\* rq->curr as the hook of CPU c sees it.  lse_dsq.c queues prev only "after";
\* lse_util_track.c, called from the same hook, relies on "before".
hook_curr(c) == IF scenario.hook = "before" THEN prev[c] ELSE next[c]

-----------------------------------------------------------------------------
\* A mutant: every task that is queued restarts the deadline.
__dsq_enqueue_restarts(q, p) ==
  /\ last_consume_at' = [last_consume_at EXCEPT ![q] = jiffies]
  /\ fifo' = [fifo EXCEPT ![q] = @ \cup {p}]
  /\ on_dsq' = [on_dsq EXCEPT ![p] = TRUE]
  /\ nr' = [nr EXCEPT ![q] = @ + 1]
  /\ UNCHANGED is_timeout

\* __dsq_enqueue, under the lock of queue q.
__dsq_enqueue(q, p) ==
  /\ last_consume_at' =
       IF fifo[q] = {} THEN [last_consume_at EXCEPT ![q] = jiffies]
                       ELSE last_consume_at
  /\ fifo' = [fifo EXCEPT ![q] = @ \cup {p}]
  /\ on_dsq' = [on_dsq EXCEPT ![p] = TRUE]
  /\ nr' = [nr EXCEPT ![q] = @ + 1]
  /\ UNCHANGED is_timeout

\* A mutant: a queue that becomes empty keeps its timeout.
unlink_keeps_timeout(q, p) ==
  /\ fifo' = [s \in Queues |-> fifo[s] \ {p}]
  /\ on_dsq' = [on_dsq EXCEPT ![p] = FALSE]
  /\ nr' = [nr EXCEPT ![q] = IF @ > 0 THEN @ - 1 ELSE 0]
  /\ UNCHANGED <<is_timeout, last_consume_at>>

\* A mutant: nr is not kept from going below zero.
unlink_unclamped(q, p) ==
  LET left == [s \in Queues |-> fifo[s] \ {p}]
      clear == left[q] = {} /\ is_timeout[q]
  IN /\ fifo' = left
     /\ on_dsq' = [on_dsq EXCEPT ![p] = FALSE]
     /\ nr' = [nr EXCEPT ![q] = @ - 1]
     /\ is_timeout' = [is_timeout EXCEPT ![q] = @ /\ ~clear]
     /\ last_consume_at' =
          [last_consume_at EXCEPT ![q] = IF clear THEN jiffies ELSE @]

\* __dsq_dequeue, under the lock of queue q.  list_del_init unlinks the task
\* from the list that holds it, whichever queue that list belongs to.
unlink(q, p) ==
  LET left == [s \in Queues |-> fifo[s] \ {p}]
      clear == left[q] = {} /\ is_timeout[q]
  IN /\ fifo' = left
     /\ on_dsq' = [on_dsq EXCEPT ![p] = FALSE]
     /\ nr' = [nr EXCEPT ![q] = IF @ > 0 THEN @ - 1 ELSE 0]
     /\ is_timeout' = [is_timeout EXCEPT ![q] = @ /\ ~clear]
     /\ last_consume_at' =
          [last_consume_at EXCEPT ![q] = IF clear THEN jiffies ELSE @]

\* A mutant: on_dsq is not looked at again under the lock.
__dsq_dequeue_unchecked(q, p) == unlink(q, p)

__dsq_dequeue(q, p) ==
  IF on_dsq[p] THEN unlink(q, p)
               ELSE UNCHANGED queueVars

\* The checks of lse_dsq_enqueue_task: does the hook of c queue prev?
may_enqueue(c) ==
  /\ lse_dsq_enable
  /\ prev[c] \in lts /\ ~on_dsq[prev[c]]
  /\ on_rq[prev[c]]
  /\ prev[c] # hook_curr(c)

\* The checks of lse_dsq_dequeue_task and __dsq_dequeue before the lock.
may_dequeue(c) == lse_dsq_enable /\ next[c] \in lts /\ on_dsq[next[c]]

\* A mutant: the dequeue classifies by priority alone.
dequeue_idx_unpinned(c) ==
  lse_dsq_classify([kind[next[c]] EXCEPT !.pin = NoPin])

\* The queue lse_dsq_dequeue_task locks.
dequeue_idx(c) == lse_dsq_classify(kind[next[c]])

-----------------------------------------------------------------------------
\* The schedule hook of CPU c.

\* A mutant: a hook that queues prev forgets to dequeue next.
AfterEnqueue_one_of_two(p, n) ==
  IF p = NoTask /\ n # NoTask THEN "dequeue" ELSE "scan"

\* Where lse_dsq_on_schedule goes after the enqueue, if any, of prev.
AfterEnqueue(p, n) == IF p # n /\ n # NoTask THEN "dequeue" ELSE "scan"

\* CPU c switches from its current task to n, and lse_dsq_on_schedule begins.
\* The outgoing task may have gone to sleep.
lse_dsq_on_schedule(c) ==
  \E n \in Tasks \cup {NoTask}, sleeps \in BOOLEAN :
    LET p == curr[c] IN
    /\ pc[c] = "out"
    /\ n = p => ~sleeps
    /\ p = NoTask => ~sleeps
    /\ n \in Tasks \ {p} =>
         /\ on_rq[n]
         /\ n \notin Running \cup Switching
         /\ kind[n].pin \in {NoPin, c}
    /\ on_rq' = IF sleeps THEN [on_rq EXCEPT ![p] = FALSE] ELSE on_rq
    /\ preempted' = [t \in Tasks |-> CASE t = n -> FALSE
                                       [] t = p /\ t # n -> ~sleeps
                                       [] OTHER -> preempted[t]]
    /\ IF slim_stats /\ lse_dsq_enable
       THEN /\ pc' = [pc EXCEPT ![c] = IF p # n /\ p # NoTask /\ ~sleeps
                                       THEN "enqueue" ELSE AfterEnqueue(p, n)]
            /\ prev' = [prev EXCEPT ![c] = p]
            /\ next' = [next EXCEPT ![c] = n]
            /\ UNCHANGED curr
       ELSE /\ curr' = [curr EXCEPT ![c] = n]
            /\ UNCHANGED <<pc, prev, next>>
    /\ UNCHANGED <<jiffies, life, kind, switchVars, queueVars, idx,
                   lse_dsq_last_scan_jf, listed_at>>

lse_dsq_enqueue_task(c) ==
  /\ pc[c] = "enqueue"
  /\ IF may_enqueue(c)
     THEN /\ idx' = [idx EXCEPT ![c] = lse_dsq_classify(kind[prev[c]])]
          /\ pc' = [pc EXCEPT ![c] = "enqueue_lock"]
     ELSE /\ pc' = [pc EXCEPT ![c] = AfterEnqueue(prev[c], next[c])]
          /\ UNCHANGED idx
  /\ UNCHANGED <<jiffies, kernel, switchVars, queueVars, prev, next,
                 lse_dsq_last_scan_jf, ghosts>>

EnqueueLocked(c) ==
  /\ pc[c] = "enqueue_lock"
  /\ __dsq_enqueue(idx[c], prev[c])
  /\ listed_at' = [listed_at EXCEPT ![prev[c]] = jiffies]
  /\ pc' = [pc EXCEPT ![c] = AfterEnqueue(prev[c], next[c])]
  /\ UNCHANGED <<jiffies, kernel, switchVars, prev, next, idx,
                 lse_dsq_last_scan_jf, preempted>>

lse_dsq_dequeue_task(c) ==
  /\ pc[c] = "dequeue"
  /\ IF may_dequeue(c)
     THEN /\ idx' = [idx EXCEPT ![c] = dequeue_idx(c)]
          /\ pc' = [pc EXCEPT ![c] = "dequeue_lock"]
     ELSE /\ pc' = [pc EXCEPT ![c] = "scan"]
          /\ UNCHANGED idx
  /\ UNCHANGED <<jiffies, kernel, switchVars, queueVars, prev, next,
                 lse_dsq_last_scan_jf, ghosts>>

DequeueLocked(c) ==
  /\ pc[c] = "dequeue_lock"
  /\ __dsq_dequeue(idx[c], next[c])
  /\ listed_at' = [listed_at EXCEPT ![next[c]] = 0]
  /\ pc' = [pc EXCEPT ![c] = "scan"]
  /\ UNCHANGED <<jiffies, kernel, switchVars, prev, next, idx,
                 lse_dsq_last_scan_jf, preempted>>

\* The hook ends: the switch completes.
HookDone(c) ==
  /\ pc' = [pc EXCEPT ![c] = "out"]
  /\ curr' = [curr EXCEPT ![c] = next[c]]
  /\ prev' = [prev EXCEPT ![c] = NoTask]
  /\ next' = [next EXCEPT ![c] = NoTask]
  /\ idx' = [idx EXCEPT ![c] = 0]
  /\ UNCHANGED <<life, kind, on_rq>>

\* The throttle of lse_dsq_on_schedule and the start of lse_dsq_scan_timeout.
StartScan(c) ==
  /\ pc[c] = "scan"
  /\ IF lse_dsq_last_scan_jf[c] + ScanInterval < jiffies
     THEN /\ lse_dsq_last_scan_jf' =
               [lse_dsq_last_scan_jf EXCEPT ![c] = jiffies]
          /\ IF lse_dsq_enable
             THEN /\ pc' = [pc EXCEPT ![c] = "scan_lock"]
                  /\ idx' = [idx EXCEPT ![c] = Pcp(c)]
                  /\ UNCHANGED <<kernel, prev, next>>
             ELSE HookDone(c)
     ELSE HookDone(c) /\ UNCHANGED lse_dsq_last_scan_jf
  /\ UNCHANGED <<jiffies, switchVars, queueVars, ghosts>>

\* The body of the two loops of lse_dsq_scan_timeout, under the lock of q.
scan_one(q) ==
  LET overdue == /\ fifo[q] # {} /\ ~is_timeout[q]
                 /\ jiffies > last_consume_at[q] + Deadline[q]
      stale == q \in Global /\ fifo[q] = {} /\ is_timeout[q]
  IN /\ is_timeout' =
          [is_timeout EXCEPT ![q] = (@ \/ overdue) /\ ~stale]
     /\ last_consume_at' =
          [last_consume_at EXCEPT ![q] = IF stale THEN jiffies ELSE @]
     /\ UNCHANGED <<fifo, nr, on_dsq>>

lse_dsq_scan_timeout(c) ==
  /\ pc[c] = "scan_lock"
  /\ scan_one(idx[c])
  /\ CASE idx[c] = Pcp(c) -> /\ idx' = [idx EXCEPT ![c] = 5]
                             /\ UNCHANGED <<kernel, pc, prev, next>>
       [] idx[c] \in NonPeriod \ {9} -> /\ idx' = [idx EXCEPT ![c] = @ + 1]
                                        /\ UNCHANGED <<kernel, pc, prev, next>>
       [] OTHER -> HookDone(c)
  /\ UNCHANGED <<jiffies, switchVars, lse_dsq_last_scan_jf, ghosts>>

\* lse_dsq_urgency_signal: 256 for each global queue with a timeout.
lse_dsq_urgency_signal ==
  LET timeouts == Cardinality({q \in Global : is_timeout[q]})
  IN IF lse_dsq_enable THEN Min({timeouts * 256, 1024}) ELSE 0

-----------------------------------------------------------------------------
\* Sysctl writes, and what the rest of the kernel does.

\* lse_proc_dsq_toggle_update: a changed value is stored, then lse_dsq_sync
\* runs under the same mutex; it does nothing when the queues are enabled.
lse_proc_dsq_toggle_update ==
  /\ "dsq_enable" \in scenario.switches
  /\ sync = SyncDone
  /\ lse_dsq_enable' = ~lse_dsq_enable
  /\ sync' = IF lse_dsq_enable' THEN SyncDone ELSE 0
  /\ UNCHANGED <<jiffies, kernel, slim_stats, queueVars, hookVars,
                 lse_dsq_last_scan_jf, ghosts>>

\* A mutant: the drain leaves on_dsq set.
lse_dsq_sync_keeps_on_dsq ==
  /\ sync # SyncDone
  /\ fifo' = [fifo EXCEPT ![sync] = {}]
  /\ nr' = [nr EXCEPT ![sync] = 0]
  /\ is_timeout' = [is_timeout EXCEPT ![sync] = FALSE]
  /\ sync' = sync + 1
  /\ UNCHANGED <<jiffies, kernel, lse_dsq_enable, slim_stats, last_consume_at,
                 on_dsq, hookVars, lse_dsq_last_scan_jf, ghosts>>

\* lse_dsq_sync drains one queue under its lock.
lse_dsq_sync ==
  /\ sync # SyncDone
  /\ on_dsq' = [t \in Tasks |-> on_dsq[t] /\ t \notin fifo[sync]]
  /\ fifo' = [fifo EXCEPT ![sync] = {}]
  /\ nr' = [nr EXCEPT ![sync] = 0]
  /\ is_timeout' = [is_timeout EXCEPT ![sync] = FALSE]
  /\ sync' = sync + 1
  /\ UNCHANGED <<jiffies, kernel, lse_dsq_enable, slim_stats, last_consume_at,
                 hookVars, lse_dsq_last_scan_jf, ghosts>>

\* slim_stats (like slim_walt_ctrl, which gates the same hook) is written by
\* the kernel's own handler: nothing is drained.
write_slim_stats ==
  /\ "slim_stats" \in scenario.switches
  /\ slim_stats' = ~slim_stats
  /\ UNCHANGED <<jiffies, kernel, lse_dsq_enable, sync, queueVars, hookVars,
                 lse_dsq_last_scan_jf, ghosts>>

\* The kernel wakes a task.
Wake(t) ==
  /\ t \in alive /\ ~on_rq[t]
  /\ t \notin Running \cup Switching
  /\ on_rq' = [on_rq EXCEPT ![t] = TRUE]
  /\ UNCHANGED <<jiffies, life, kind, curr, switchVars, queueVars, hookVars,
                 lse_dsq_last_scan_jf, ghosts>>

\* Affinity, scheduling class, nice value or inherited priority of a task
\* changes, under its runqueue lock.  Such changes make nr grow: MaxNr bounds
\* it.
SetKind(t) ==
  \E k \in scenario.kinds \ {kind[t]} :
    /\ t \in scenario.mutable \cap alive
    /\ t \notin Running \cup Switching
    /\ \A q \in Queues : nr[q] <= MaxNr
    /\ kind' = [kind EXCEPT ![t] = k]
    /\ UNCHANGED <<jiffies, life, on_rq, curr, switchVars, queueVars, hookVars,
                   lse_dsq_last_scan_jf, ghosts>>

\* alloc_lse_task_struct, called for a forked task.  The allocation may fail,
\* and a task forked between the scan of lse_task_struct_ext_init and the
\* registration of this hook has no lse_task_struct either.
alloc_lse_task_struct(t) ==
  \E allocated \in BOOLEAN :
    /\ scenario.forks /\ t \notin alive
    /\ alive' = alive \cup {t}
    /\ lts' = IF allocated THEN lts \cup {t} ELSE lts
    /\ on_dsq' = IF allocated THEN [on_dsq EXCEPT ![t] = FALSE] ELSE on_dsq
    /\ on_rq' = [on_rq EXCEPT ![t] = TRUE]
    /\ UNCHANGED <<jiffies, scenario, kind, curr, switchVars, fifo, nr, is_timeout,
                   last_consume_at, hookVars, lse_dsq_last_scan_jf, ghosts>>

\* free_lse_task_struct, for a task that went to sleep for the last time.  Its
\* node is not unlinked.
free_lse_task_struct(t) ==
  /\ scenario.forks /\ t \in alive /\ ~on_rq[t]
  /\ t \notin Running \cup Switching
  /\ alive' = alive \ {t}
  /\ lts' = lts \ {t}
  /\ UNCHANGED <<jiffies, scenario, kind, on_rq, curr, switchVars, queueVars,
                 hookVars, lse_dsq_last_scan_jf, ghosts>>

Tick ==
  /\ jiffies < scenario.until
  /\ jiffies' = jiffies + 1
  /\ UNCHANGED <<kernel, switchVars, queueVars, hookVars,
                 lse_dsq_last_scan_jf, ghosts>>

\* lse_dsq_init, the boot values, and a system whose CPUs idle.  slim_stats is
\* off at boot; a run that never writes it starts after it was switched on.
Init ==
  /\ scenario \in Scenarios
  /\ jiffies = 0
  /\ alive = scenario.tasks /\ lts = scenario.tasks
  /\ kind \in scenario.start
  /\ on_rq = [t \in Tasks |-> t \in alive]
  /\ curr = [c \in CPU |-> NoTask]
  /\ lse_dsq_enable = TRUE
  /\ slim_stats = ("slim_stats" \notin scenario.switches)
  /\ sync = SyncDone
  /\ fifo = [q \in Queues |-> {}]
  /\ nr = [q \in Queues |-> 0]
  /\ is_timeout = [q \in Queues |-> FALSE]
  /\ last_consume_at = [q \in Queues |-> 0]
  /\ on_dsq = [t \in Tasks |-> FALSE]
  /\ pc = [c \in CPU |-> "out"]
  /\ prev = [c \in CPU |-> NoTask]
  /\ next = [c \in CPU |-> NoTask]
  /\ idx = [c \in CPU |-> 0]
  /\ lse_dsq_last_scan_jf = [c \in CPU |-> 0]
  /\ preempted = [t \in Tasks |-> FALSE]
  /\ listed_at = [t \in Tasks |-> 0]

Next ==
  \/ \E c \in CPU : \/ lse_dsq_on_schedule(c)
                    \/ lse_dsq_enqueue_task(c) \/ EnqueueLocked(c)
                    \/ lse_dsq_dequeue_task(c) \/ DequeueLocked(c)
                    \/ StartScan(c) \/ lse_dsq_scan_timeout(c)
  \/ \E t \in Tasks : \/ Wake(t) \/ SetKind(t)
                      \/ alloc_lse_task_struct(t) \/ free_lse_task_struct(t)
  \/ lse_proc_dsq_toggle_update \/ lse_dsq_sync \/ write_slim_stats
  \/ Tick

Spec == Init /\ [][Next]_vars

-----------------------------------------------------------------------------
\* Types and bounds: no queue counts less than zero tasks, and no timestamp of
\* the code lies in the future.
TypeOK ==
  /\ scenario \in Scenarios
  /\ jiffies \in 0 .. scenario.until
  /\ alive \subseteq Tasks /\ lts \subseteq alive
  /\ kind \in [Tasks -> scenario.kinds]
  /\ on_rq \in [Tasks -> BOOLEAN]
  /\ curr \in [CPU -> Tasks \cup {NoTask}]
  /\ lse_dsq_enable \in BOOLEAN /\ slim_stats \in BOOLEAN
  /\ sync \in 0 .. SyncDone
  /\ fifo \in [Queues -> SUBSET Tasks]
  /\ nr \in [Queues -> Nat]
  /\ is_timeout \in [Queues -> BOOLEAN]
  /\ last_consume_at \in [Queues -> 0 .. jiffies]
  /\ on_dsq \in [Tasks -> BOOLEAN]
  /\ pc \in [CPU -> {"out", "enqueue", "enqueue_lock", "dequeue",
                     "dequeue_lock", "scan", "scan_lock"}]
  /\ prev \in [CPU -> Tasks \cup {NoTask}]
  /\ next \in [CPU -> Tasks \cup {NoTask}]
  /\ idx \in [CPU -> Queues]
  /\ lse_dsq_last_scan_jf \in [CPU -> 0 .. jiffies]
  /\ preempted \in [Tasks -> BOOLEAN]
  /\ listed_at \in [Tasks -> 0 .. jiffies]

\* on_dsq (lts->on_dsq) says exactly whether the task's node is linked, and no
\* node is ever on two lists: __dsq_enqueue links it without looking, and the
\* drain of lse_dsq_sync races with the hooks that have passed their checks.
OnDsqIffQueued ==
  \A t \in lts :
    Cardinality({q \in Queues : t \in fifo[q]}) = IF on_dsq[t] THEN 1 ELSE 0

\* dsq->nr is "Total number of tasks in this DSQ" (lse_dsq.h): the depth and
\* backlog queries read it in place of the list.
NrMatchesFifo == \A q \in Queues : nr[q] = Cardinality(fifo[q])

\* While no task changes its class, the depth that lse_dsq_depth_global and the
\* other queries report is that of the list, through drains that race with
\* hooks and with the clamp of nr at zero in __dsq_dequeue.
DepthExact == scenario.mutable = {} => NrMatchesFifo

\* lse_dsq_urgency_signal, which the governor turns into a frequency boost:
\* while no task changes its class, no timeout outlives the backlog of its
\* queue, whether a dequeue, a drain or a scan of another CPU emptied it, and
\* the signal is at most 256 for each global queue on which a task waits.
UrgencyNeedsBacklog ==
  scenario.mutable = {} =>
    /\ \A q \in Queues : is_timeout[q] => fifo[q] # {}
    /\ lse_dsq_urgency_signal <=
         256 * Cardinality({q \in Global : fifo[q] # {}})

\* "Timeout scanning for starvation detection" (lse_dsq.c): a scan overlooks no
\* task.  last_consume_at is one time for the whole queue, and every enqueue on
\* an empty list, dequeue and drain may move it; yet when lse_dsq_scan_timeout
\* has looked at a queue, the queue has its timeout if any task has been on it
\* for longer than the deadline, also if the class of tasks changes.
StarvationReported ==
  [][\A c \in CPU : lse_dsq_scan_timeout(c) =>
       \A t \in fifo[idx[c]] :
         jiffies > listed_at[t] + Deadline[idx[c]] => is_timeout'[idx[c]]]_vars

\* "prev leaves CPU -> enqueue if still runnable on this CPU, next arrives ->
\* dequeue" (lse_dsq_on_schedule).  While monitoring stays on, the queues hold
\* exactly the tasks that were preempted and have not run since, even if their
\* class changed meanwhile, if the kernel has made next the current task before
\* it calls the hook.  If it calls the hook first, prev is taken for a running
\* task, and the queues stay empty for ever.
PreemptedTasksQueued ==
  scenario.switches = {} =>
    \A t \in lts \ Switching :
      (\E q \in Queues : t \in fifo[q]) <=>
        preempted[t] /\ scenario.hook = "after"

\* While monitoring stays on, free_lse_task_struct, which unlinks nothing, frees
\* no memory that is still on a list: a task runs, and so is dequeued, before
\* it exits.
FreedTasksUnlinked ==
  scenario.switches = {} => \A q \in Queues : fifo[q] \subseteq lts

\* While no task changes its class, the lock that __dsq_dequeue is about to take
\* is the one that protects the list the task is on.
DequeueLocksItsQueue ==
  scenario.mutable = {} =>
    \A c \in CPU : pc[c] = "dequeue_lock" /\ on_dsq[next[c]] =>
                      next[c] \in fifo[idx[c]]
============================================================================
