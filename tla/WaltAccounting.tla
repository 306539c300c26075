--------------------------- MODULE WaltAccounting ---------------------------
(***************************************************************************)
(* The load accounting of Slim WALT (lse_util_track.c): what the scheduler *)
(* hooks, the irq_work and the shadow tick add to the counters of a CPU    *)
(* and of a task.  An update runs under the runqueue lock of its CPU and   *)
(* touches only that CPU and the tasks on it, so each hook is one step.    *)
(* The agreement of the CPUs on rollovers is the subject of                *)
(* WindowRollover.                                                         *)
(*                                                                         *)
(* The variables busy_curr .. tracked do not exist in the code.  They      *)
(* count, tick of the clock by tick of the clock, who really ran, and are  *)
(* what the counters are compared with.                                    *)
(***************************************************************************)
EXTENDS Integers, Sequences, FiniteSetsExt

CONSTANTS
  N,                    \* nr_cpu_ids
  Tasks,                \* the tasks other than the idle tasks
  InitWindow,           \* DEFAULT_SCHED_RAVG_WINDOW
  Windows,              \* the sizes lse_irq_work may switch to
  RAVG_HIST_SIZE,
  SCHED_CAPACITY_SCALE,
  MaxFreq,              \* policy->cpuinfo.max_freq
  Freqs,                \* the values policy->cur takes
  Policies,             \* the values sched_window_stats_policy takes
  Controls,             \* the values slim_walt_ctrl takes
  MaxClock              \* bound on the clock

CPU == 0 .. N - 1
Idle(c) == <<"idle", c>>
IdleTasks == {Idle(c) : c \in CPU}
AllTasks == Tasks \cup IdleTasks
HistIdx == 0 .. RAVG_HIST_SIZE - 1
FirstWindow == 1        \* tick_sched_clock

ASSUME SizeAssumption ==
  /\ N \in Nat \ {0}
  /\ Windows \subseteq Nat \ {0} /\ IsFiniteSet(Windows)
  /\ InitWindow \in Windows
  /\ RAVG_HIST_SIZE \in Nat \ {0}
  /\ SCHED_CAPACITY_SCALE \in Nat \ {0}
  /\ SCHED_CAPACITY_SCALE <= InitWindow     \* 1024 and 8 million
  /\ MaxFreq \in Freqs
  /\ Freqs \subseteq 1 .. MaxFreq
  /\ MaxClock \in Nat \ {0}
\* An update reads the window size several times, and a hook that applies a new
\* one looks at its own window only: the hook of one CPU may resize the window
\* in the middle of an update on another.  A step here reads one size, so the
\* size changes only where there is one CPU.
ASSUME ResizeAssumption == N = 1 \/ Windows = {InitWindow}
ASSUME ChoiceAssumption ==
  /\ Tasks \cap IdleTasks = {}
  /\ Policies \subseteq {"recent", "max", "max_recent_avg", "avg"}
  /\ "max_recent_avg" \in Policies
  /\ Controls \subseteq BOOLEAN /\ TRUE \in Controls

VARIABLES
  clock,                     \* sched_clock(), sampled by every hook
  curr,                      \* rq->curr
  cur_freq,                  \* policy->cur
  lrq,                       \* struct lse_rq
  lts,                       \* struct lse_task_struct
  lse_sched_ravg_window,
  sched_window_stats_policy,
  slim_walt_ctrl,
  busy_curr, busy_prev,      \* busy time of a CPU in this and the last window
  ran, ran_hist,             \* ... of a task, and its last non-empty windows
  tracked                    \* slim_walt_ctrl has never been switched off

codeVars == <<lrq, lts>>
tunables == <<lse_sched_ravg_window, sched_window_stats_policy, slim_walt_ctrl>>
truth == <<busy_curr, busy_prev, ran, ran_hist, tracked>>
vars == <<clock, curr, cur_freq, codeVars, tunables, truth>>

LseRq == [window_start : Nat, latest_clock : Nat, prev_window_size : Nat,
          task_exec_scale : Nat, prev_runnable_sum : Nat,
          curr_runnable_sum : Nat]
LseTask == [mark_start : Nat, window_start : Nat, sum : Nat,
            sum_history : [HistIdx -> Nat], cidx : HistIdx, demand : Nat,
            demand_scaled : Nat]

Min2(a, b) == IF a <= b THEN a ELSE b
Max2(a, b) == IF a >= b THEN a ELSE b
CeilDiv(a, b) == (a + b - 1) \div b

-----------------------------------------------------------------------------
\* The counters of a CPU.  q is its lse_rq, l the task's lse_task_struct.

scale_exec_time(delta, q) ==
  (delta * q.task_exec_scale) \div SCHED_CAPACITY_SCALE

\* Mutant: the sum of the window before last survives a longer pause.
rollover_keeps_old(q, full_window) ==
  [q EXCEPT !.prev_runnable_sum = q.curr_runnable_sum,
            !.curr_runnable_sum = 0]

rollover_cpu_window(q, full_window) ==
  [q EXCEPT !.prev_runnable_sum = IF full_window THEN 0 ELSE q.curr_runnable_sum,
            !.curr_runnable_sum = 0]

update_window_start(q, t) ==
  LET W == lse_sched_ravg_window
      nr_windows == (t - q.window_start) \div W
      q1 == [q EXCEPT !.latest_clock = t]
  IN IF nr_windows = 0 THEN q1
     ELSE rollover_cpu_window(
            [q1 EXCEPT !.window_start = @ + nr_windows * W,
                       !.prev_window_size = W],
            nr_windows > 1)

\* The capacity of every CPU is SCHED_CAPACITY_SCALE.
update_task_rq_cpu_cycles(q, c) ==
  [q EXCEPT !.task_exec_scale =
     Max2(1, CeilDiv(cur_freq[c] * SCHED_CAPACITY_SCALE, MaxFreq))]

account_busy_for_cpu_time(p, event) ==
  p \notin IdleTasks /\ event \in {"PUT_PREV_TASK", "TASK_UPDATE"}

\* Mutant: time before the window is added to the previous one unclipped.
update_cpu_busy_time_unclipped(l, q, p, event, t) ==
  IF ~account_busy_for_cpu_time(p, event) THEN q
  ELSE IF l.mark_start >= q.window_start
  THEN [q EXCEPT !.curr_runnable_sum =
                   @ + scale_exec_time(t - l.mark_start, q)]
  ELSE [q EXCEPT !.prev_runnable_sum =
                   @ + scale_exec_time(q.window_start - l.mark_start, q),
                 !.curr_runnable_sum =
                   @ + scale_exec_time(t - q.window_start, q)]

update_cpu_busy_time(l, q, p, event, t) ==
  LET before == Min2(q.window_start - l.mark_start, q.prev_window_size) IN
  IF ~account_busy_for_cpu_time(p, event) THEN q
  ELSE IF l.mark_start >= q.window_start
  THEN [q EXCEPT !.curr_runnable_sum =
                   @ + scale_exec_time(t - l.mark_start, q)]
  ELSE [q EXCEPT !.prev_runnable_sum = @ + scale_exec_time(before, q),
                 !.curr_runnable_sum =
                   @ + scale_exec_time(t - q.window_start, q)]

-----------------------------------------------------------------------------
\* The counters of a task.

add_to_task_demand(l, q, delta) ==
  [l EXCEPT !.sum = Min2(@ + scale_exec_time(delta, q), lse_sched_ravg_window)]

\* PUT_PREV_TASK, or TASK_UPDATE of the running task; the other events end a
\* stretch of waiting or sleeping.
account_busy_for_task_demand(c, p, event) ==
  /\ p \notin IdleTasks
  /\ event = "PUT_PREV_TASK" \/ (event = "TASK_UPDATE" /\ curr[c] = p)

\* lse_fixup_window_dep is called once, from lse_sched_stats_init.
lse_scale_demand_divisor == InitWindow \div SCHED_CAPACITY_SCALE
lse_scale_time_to_util(d) == d \div lse_scale_demand_divisor

\* The sum of the first n windows of the ring, for each n.
HistSum(hist) ==
  LET sum[n \in 0 .. RAVG_HIST_SIZE] ==
        IF n = 0 THEN 0 ELSE sum[n - 1] + hist[n - 1]
  IN sum

\* Mutant: the sum of the windows is not divided by their number.
Demand_undivided(runtime, hist) ==
  Max2(HistSum(hist)[RAVG_HIST_SIZE], runtime)

\* The demand of a task under the policy, from its ring of windows.
Demand(runtime, hist) ==
  LET avg == HistSum(hist)[RAVG_HIST_SIZE] \div RAVG_HIST_SIZE
      max == Max({hist[i] : i \in HistIdx})
  IN CASE sched_window_stats_policy = "recent" -> runtime
       [] sched_window_stats_policy = "max" -> max
       [] sched_window_stats_policy = "avg" -> avg
       [] OTHER -> Max2(avg, runtime)

\* Mutant: the running sum is not reset when its window is closed.
update_history_keeps_sum(l, p, runtime, samples) ==
  IF runtime = 0 \/ p \in IdleTasks \/ samples = 0 THEN l
  ELSE [l EXCEPT !.sum_history =
                   [i \in HistIdx |->
                      IF (i - l.cidx) % RAVG_HIST_SIZE < samples
                        THEN runtime ELSE l.sum_history[i]],
                 !.cidx = (@ + samples) % RAVG_HIST_SIZE,
                 !.demand = Demand(runtime, l.sum_history)]

\* Mutant: the index of the ring does not wrap around.
update_history_no_wrap(l, p, runtime, samples) ==
  IF runtime = 0 \/ p \in IdleTasks \/ samples = 0 THEN l
  ELSE [l EXCEPT !.sum_history[l.cidx] = runtime,
                 !.cidx = @ + samples,
                 !.sum = 0,
                 !.demand = Demand(runtime, l.sum_history)]

\* samples entries of the ring, from cidx on, get the value runtime.
update_history(l, p, runtime, samples) ==
  IF runtime = 0 \/ p \in IdleTasks \/ samples = 0 THEN l
  ELSE LET hist == [i \in HistIdx |->
                      IF (i - l.cidx) % RAVG_HIST_SIZE < samples
                        THEN runtime ELSE l.sum_history[i]]
           demand == Demand(runtime, hist)
       IN [l EXCEPT !.sum_history = hist,
                    !.cidx = (@ + samples) % RAVG_HIST_SIZE,
                    !.sum = 0,
                    !.demand = demand,
                    !.demand_scaled = lse_scale_time_to_util(demand)]

\* The busy time since mark_start is cut at the window boundaries: the rest of
\* the window of mark_start, nr_full_windows whole ones, and the part of q's
\* current window.
update_task_demand(l, q, c, p, event, t) ==
  LET W == lse_sched_ravg_window
      new_window == l.mark_start < q.window_start
      nr_full_windows == (q.window_start - l.mark_start) \div W
      first == q.window_start - nr_full_windows * W
      closed == LET l1 == add_to_task_demand(l, q, first - l.mark_start)
                IN update_history(l1, p, l1.sum, 1)
      filled == update_history(closed, p, scale_exec_time(W, q),
                               nr_full_windows)
  IN IF ~account_busy_for_task_demand(c, p, event)
       THEN IF new_window THEN update_history(l, p, l.sum, 1) ELSE l
     ELSE IF ~new_window
       THEN add_to_task_demand(l, q, t - l.mark_start)
     ELSE add_to_task_demand(filled, q, t - q.window_start)

-----------------------------------------------------------------------------
\* lse_update_task_ravg: the pair of the new lse_rq and lse_task_struct.

lse_update_task_ravg(l, q, c, p, event, t) ==
  IF ~slim_walt_ctrl \/ q.window_start = 0 \/ l.mark_start = t THEN <<q, l>>
  ELSE LET q1 == update_window_start(q, t)
           q2 == update_task_rq_cpu_cycles(q1, c)
           l2 == update_task_demand(l, q2, c, p, event, t)
           q3 == update_cpu_busy_time(l, q2, p, event, t)
       IN IF l.mark_start = 0
            THEN <<q1, [l EXCEPT !.mark_start = t,
                                 !.window_start = q1.window_start]>>
            ELSE <<q3, [l2 EXCEPT !.mark_start = t,
                                  !.window_start = q1.window_start]>>

\* lse_schedule.  The hook is called before rq->curr becomes next.
lse_schedule(c, next) ==
  /\ \A d \in CPU \ {c} : curr[d] # next
  /\ LET prev == curr[c]
         put == lse_update_task_ravg(lts[prev], lrq[c], c, prev,
                                     "PUT_PREV_TASK", clock)
         pick == lse_update_task_ravg(lts[next], put[1], c, next,
                                      "PICK_NEXT_TASK", clock)
         same == lse_update_task_ravg(lts[prev], lrq[c], c, prev,
                                      "TASK_UPDATE", clock)
     IN IF prev # next
        THEN /\ lrq' = [lrq EXCEPT ![c] = pick[1]]
             /\ lts' = [lts EXCEPT ![prev] = put[2], ![next] = pick[2]]
        ELSE /\ lrq' = [lrq EXCEPT ![c] = same[1]]
             /\ lts' = [lts EXCEPT ![prev] = same[2]]
  /\ curr' = [curr EXCEPT ![c] = next]
  /\ UNCHANGED <<clock, cur_freq, tunables, truth>>

\* An update of the running task, from lse_tick_entry, lse_irq_work or
\* lse_shadow_tick_cb.
UpdateCurr(c) ==
  LET p == curr[c]
      r == lse_update_task_ravg(lts[p], lrq[c], c, p, "TASK_UPDATE", clock)
  IN /\ lrq' = [lrq EXCEPT ![c] = r[1]]
     /\ lts' = [lts EXCEPT ![p] = r[2]]

lse_tick_entry(c) ==
  /\ UpdateCurr(c)
  /\ UNCHANGED <<clock, curr, cur_freq, tunables, truth>>

\* The shadow tick leaves the idle task alone.
lse_shadow_tick_cb(c) ==
  /\ slim_walt_ctrl
  /\ curr[c] \notin IdleTasks
  /\ UpdateCurr(c)
  /\ UNCHANGED <<clock, curr, cur_freq, tunables, truth>>

\* lse_irq_work, with the size that sched_ravg_window_change asked for.
lse_irq_work(c, new_window) ==
  /\ UpdateCurr(c)
  /\ lse_sched_ravg_window' =
       IF clock < lrq'[c].window_start + new_window
         THEN new_window ELSE lse_sched_ravg_window
  /\ UNCHANGED <<clock, curr, cur_freq, sched_window_stats_policy,
                 slim_walt_ctrl, truth>>

lse_cpu_util(c) ==
  LET shift == Max2(lrq[c].prev_window_size, 1) \div SCHED_CAPACITY_SCALE
  IN IF shift = 0 THEN 0 ELSE lrq[c].prev_runnable_sum \div shift

-----------------------------------------------------------------------------
\* The frequency governor and the sysctls.

SetFreq(c, f) ==
  /\ cur_freq' = [cur_freq EXCEPT ![c] = f]
  /\ UNCHANGED <<clock, curr, codeVars, tunables, truth>>

SetPolicy(s) ==
  /\ sched_window_stats_policy' = s
  /\ UNCHANGED <<clock, curr, cur_freq, codeVars, lse_sched_ravg_window,
                 slim_walt_ctrl, truth>>

SetControl(b) ==
  /\ slim_walt_ctrl' = b
  /\ tracked' = (tracked /\ b)
  /\ UNCHANGED <<clock, curr, cur_freq, codeVars, lse_sched_ravg_window,
                 sched_window_stats_policy, busy_curr, busy_prev, ran, ran_hist>>

\* One unit of time in which curr[c] runs on c.  A task counts from its first
\* update on.
Runs(p) == \E c \in CPU : curr[c] = p /\ p \in Tasks /\ lts[p].mark_start # 0
Busy(c) == Runs(curr[c])
One(b) == IF b THEN 1 ELSE 0
Push(h, x) == IF x = 0 THEN h ELSE Append(Tail(h), x)

Tick ==
  /\ clock < MaxClock
  /\ clock' = clock + 1
  /\ LET b == [c \in CPU |-> busy_curr[c] + One(Busy(c))]
         r == [p \in Tasks |-> ran[p] + One(Runs(p))]
     IN IF (clock + 1 - FirstWindow) % InitWindow = 0
        THEN /\ busy_prev' = b
             /\ busy_curr' = [c \in CPU |-> 0]
             /\ ran_hist' = [p \in Tasks |-> Push(ran_hist[p], r[p])]
             /\ ran' = [p \in Tasks |-> 0]
        ELSE /\ busy_curr' = b
             /\ ran' = r
             /\ UNCHANGED <<busy_prev, ran_hist>>
  /\ UNCHANGED <<curr, cur_freq, codeVars, tunables, tracked>>

\* The first tick has opened the first window everywhere.
Init ==
  /\ clock = FirstWindow
  /\ curr \in [CPU -> AllTasks]
  /\ \A c \in CPU : /\ curr[c] \in Tasks \cup {Idle(c)}
                    /\ \A d \in CPU \ {c} : curr[d] # curr[c]
  /\ cur_freq = [c \in CPU |-> MaxFreq]
  /\ lrq = [c \in CPU |->
              [window_start |-> FirstWindow, latest_clock |-> 0,
               prev_window_size |-> InitWindow,
               task_exec_scale |-> SCHED_CAPACITY_SCALE,
               prev_runnable_sum |-> 0, curr_runnable_sum |-> 0]]
  /\ lts = [p \in AllTasks |->
              [mark_start |-> 0, window_start |-> 0, sum |-> 0,
               sum_history |-> [i \in HistIdx |-> 0], cidx |-> 0,
               demand |-> 0, demand_scaled |-> 0]]
  /\ lse_sched_ravg_window = InitWindow
  /\ sched_window_stats_policy = "max_recent_avg"
  /\ slim_walt_ctrl = TRUE
  /\ busy_curr = [c \in CPU |-> 0]
  /\ busy_prev = [c \in CPU |-> 0]
  /\ ran = [p \in Tasks |-> 0]
  /\ ran_hist = [p \in Tasks |-> [i \in 1 .. RAVG_HIST_SIZE |-> 0]]
  /\ tracked = TRUE

Next ==
  \/ Tick
  \/ \E c \in CPU :
       \/ \E next \in Tasks \cup {Idle(c)} : lse_schedule(c, next)
       \/ lse_tick_entry(c)
       \/ lse_shadow_tick_cb(c)
       \/ \E w \in Windows : lse_irq_work(c, w)
       \/ \E f \in Freqs : SetFreq(c, f)
  \/ \E s \in Policies : SetPolicy(s)
  \/ \E b \in Controls : SetControl(b)

Spec == Init /\ [][Next]_vars

-----------------------------------------------------------------------------
\* Properties.

\* Types: no counter of struct lse_rq or lse_task_struct ever goes negative
\* (they are unsigned, a difference taken the wrong way round would wrap), and
\* the ring index stays in the ring.
TypeOK ==
  /\ clock \in FirstWindow .. MaxClock
  /\ curr \in [CPU -> AllTasks]
  /\ cur_freq \in [CPU -> Freqs]
  /\ lse_sched_ravg_window \in Windows
  /\ sched_window_stats_policy \in Policies
  /\ slim_walt_ctrl \in Controls
  /\ lrq \in [CPU -> LseRq]
  /\ lts \in [AllTasks -> LseTask]

\* Right after an update, the two sums of a CPU are the time it really was
\* busy in the window that is open and in the one before it, whichever hooks
\* ran or were missed on the way (fixed window size and frequency).
CpuBusyExact ==
  \A c \in CPU :
    lrq[c].latest_clock = clock /\ lts[curr[c]].mark_start = clock =>
      /\ lrq[c].curr_runnable_sum = busy_curr[c]
      /\ lrq[c].prev_runnable_sum = busy_prev[c]

\* The ring of a task, oldest window first.
History(l) ==
  [i \in 1 .. RAVG_HIST_SIZE |->
     l.sum_history[(l.cidx + i - 1) % RAVG_HIST_SIZE]]

\* Right after an update of a task, its sum is the time it really ran in the
\* open window and its ring holds its last non-empty windows, also when it
\* moved between CPUs or ran through several windows without an update.
TaskHistoryExact ==
  \A p \in Tasks :
    lts[p].mark_start = clock =>
      /\ lts[p].sum = ran[p]
      /\ History(lts[p]) = ran_hist[p]

\* At any frequency a CPU is never reported busier than time allows, as long as
\* tracking has not been interrupted.  A single CPU may also resize its window:
\* lse_irq_work applies a new size only if it does not cut the open window.
BusyWithinWindow ==
  tracked => \A c \in CPU :
    /\ lrq[c].prev_runnable_sum <= lrq[c].prev_window_size
    /\ lrq[c].curr_runnable_sum <=
         Max2(lrq[c].latest_clock - lrq[c].window_start, 0)

\* lse_cpu_util, which nothing clamps, never exceeds the full capacity, under
\* the same condition.
UtilWithinCapacity ==
  tracked => \A c \in CPU : lse_cpu_util(c) <= SCHED_CAPACITY_SCALE

\* Even when tracking is switched off and on again, so that a task is updated
\* with a mark_start from before a sleep, and when window size and policy
\* change, no window of a task is charged with more than the largest window,
\* and its demand is never more than what one of its windows holds.
DemandWithinWindow ==
  \A p \in Tasks : LET l == lts[p]
                       hist == {l.sum_history[i] : i \in HistIdx}
                   IN /\ l.sum <= Max(Windows)
                      /\ l.demand <= Max(hist)
                      /\ Max(hist) <= Max(Windows)
=============================================================================
