# A TLA+ model of the LSE scheduler extension

This directory models the kernel module in `src/`: the WALT-style load tracking
("Slim WALT"), the dispatch queues that follow preempted tasks, the cpufreq
governor that turns load into frequency, and the timers, clusters and switches
around them. The modules are checked with TLC on small instances (the `.cfg`
files), and their safety properties are proved with TLAPS for any number of CPUs,
tasks and policies (the `*Proofs.tla` modules). `PROJECT.json` lists the runs, the
source lines behind every definition, the hazards, the findings and the theorems.

## The system

| Component | Source | State | Operations | Module |
|---|---|---|---|---|
| Window rollover | `lse_util_track.c` 57-130, 478-664; `lse_cfs.c`; `lse_main.c` | per CPU `window_start`, `latest_clock`; global `lse_sched_ravg_window`, `new_lse_sched_ravg_window`, `lse_run_rollover_lastq_ws`, `tick_sched_clock`; the irq_work; the suspended clock | `lse_update_task_ravg`, `lse_window_rollover_run_once`, `lse_irq_work`, `lse_scheduler_tick` (first tick), `sched_ravg_window_change`, `lse_suspend`, `lse_resume` | `WindowRollover`, `RolloverClock` |
| Load accounting | `lse_util_track.c` 130-480 | per CPU `prev/curr_runnable_sum`, `prev_window_size`, `task_exec_scale`; per task `mark_start`, `sum`, `sum_history`, `cidx`, `demand` | `update_window_start`, `update_cpu_busy_time`, `update_task_demand`, `update_history`, called from the schedule, tick, irq_work and shadow tick hooks | `WaltAccounting` |
| Dispatch queues | `lse_dsq.c`, `lse_dsq.h` | per queue `fifo`, `nr`, `is_timeout`, `last_consume_at`, `lock`; per task `on_dsq` | `lse_dsq_on_schedule` (enqueue, dequeue, scan), `lse_dsq_urgency_signal`, `lse_dsq_sync`, the sysctl switches | `Dsq` |
| Task extension storage | `lse_task_struct_ext.c` | one `lse_task_struct` per task | allocation at load and fork, release at exit | `Dsq` |
| Governor | `cpufreq_lse.c` | per policy `next_freq`, soft limits, kthread work; per CPU a cached cluster utilisation; shared tunables, `gov_flag` | rollover and tick update, `lse_gov_work`, soft limit stores, `lse_gov_limits`; `init`, `start`, `stop`, `exit` | `GovFormula`, `Governor`, `GovLifecycle` |
| Shadow tick | `lse_shadow_tick.c` | per CPU hrtimer and `armed` | started and cancelled by the schedule hook and by sysctl; the callback re-arms itself | `ShadowTick` |
| Monitor | `lse_monitor.c` | `heartbeat`, watchdog timestamp, timer and delayed work | touches, timer and work handlers, `lse_monitor_sync`, `reset_stats` | `Monitor` |
| Clusters | `lse_sched_cluster.c` | list of clusters, `lrq->cluster`, frequency and limits of each | construction at load; cpufreq's policy, transition and QoS notifiers | `Clusters` |
| Sysctl, module entry | `lse_sysctl.c`, `lse_main.c` | the tunables | writes; init order; suspend and resume | with the component each configures |

How they interact. The scheduler's hooks run under a runqueue lock and call the
accounting, which advances the CPU's window. The CPU whose compare-and-exchange
moves `lse_run_rollover_lastq_ws` queues an irq_work, which calls the governor's
rollover update for every cluster and applies a new window size. The tick also
calls the governor directly, and the governor asks the dispatch queues for an
urgency signal. The governor changes the frequency, which scales what the
accounting adds next. The schedule hook arms and cancels the shadow tick, whose
callback updates the load and, on an idle CPU, touches the monitor. The cpufreq
core creates and removes policies and starts and stops the governor on them.
Sysctl and sysfs writes change the tunables under all of this, mostly with plain
stores.

What is hard. The CPUs share the window protocol's words without a common lock;
the window size changes between two reads of one update; the dispatch queues are
checked without their lock and drained while hooks are past their checks; the
governor's tick computes before it locks, and its worker reads before it acts;
its data is freed while callbacks may run; timers re-arm themselves while they
are being switched off. `PROJECT.json` lists the hazards line by line.

What makes each part correct. Rollover: no `LSE_BUG` fires, one grid of windows,
every window rolled over once and no claim lost. Accounting: the counters equal
the time really spent, and stay within the window. Queues: a node is on at most
one list, `on_dsq` and `nr` tell the truth, no starving task is overlooked, no
freed node is linked. Governor: the frequency asked for is the one the hardware
gets, limits and soft limits prevail, and nothing is used after it is freed. Timers:
they run while their switch is on and die out when it is off. Clusters: every CPU
points to the listed cluster that contains it.

## Modules

**WindowRollover** (`WindowRolloverProofs`). One process per CPU. `pc[c]` says
where the CPU is: outside, in a runqueue lock section (`locked`), between the
window update and the check and compare-and-exchange at the end of
`lse_update_task_ravg` (`ravg`), in `lse_irq_work` (`irq`, `irq_ravg`,
`irq_window`), or in the loop of the first tick (`init`). The grain is what other
CPUs can observe: the update up to `mark_start` works on data of its own locked
runqueue except for one read of the window size; the check reads the size again.
`RqLock`, `RqRelock` and `RqUnlock` are the scheduler core; `Tick` is time. A CPU
that is dying still runs hooks, but irq_work goes to a CPU that is up.

**RolloverClock** is the abstract specification: one hand that moves forward, and
work that is pending from each claim until it runs. `WindowRollover` implements
it with the mapping `window <- lse_run_rollover_lastq_ws`,
`pending <- irq_work # NoCpu` (`ImplementsClock`). Claims that find the work
pending share its next run, as `irq_work_queue` does.

**WaltAccounting** (`MCWaltAccounting`). One action per hook, because a hook holds
the runqueue lock and touches only that CPU and its tasks. The records `lrq` and
`lts` have the fields of `struct lse_rq` and `struct lse_task_struct`.
`busy_curr` to `tracked` are history variables: they count who really ran, tick
by tick, and the counters of the code are compared with them. `tracked` becomes
false when tracking is switched off. A hook reads `lse_sched_ravg_window` once
here. The code reads it again at 126, 210-216 and 334, and `lse_irq_work` of
another CPU may store it in between (592), holding only its own runqueue's lock.
`ResizeAssumption` therefore lets the size change for one CPU only, where the
store cannot fall inside a hook; with more CPUs there is one size. The division by
the window and the capacity scale is integer division, as in the code. The capacity
of every CPU is the full one.

**Dsq** (`MCDsq`). A step is a section under one `dsq->lock`; the unlocked checks
before it are steps of their own. A task is described by what the classification
reads: pinned or not, scheduling class, priority group. Tasks are forked, with or
without a `lse_task_struct`, and freed; a freed node is not unlinked, as in
`free_lse_task_struct`. `hook_curr` is `rq->curr` as the hook sees it: `scenario`
says whether the kernel calls the hook before or after it makes `next` current (see
below). `preempted` and `listed_at` are history variables. The numbers of the
queues are those of the code; the ten global ones and one per CPU all exist, the
instances use three. The variable `scenario`, chosen in the initial state, says
which parts of the environment are active.

**GovFormula, Governor** (`MCGovernor`). `GovFormula` holds the arithmetic from
busy times to a frequency. `Governor` has the four writers of the frequency. The
tick is split where it takes `update_lock`; the worker is split where it is
unlinked from the queue, where it reads `next_freq`, and where it calls the
driver; a store of a soft limit is split between the two stores of
`soft_freq_cur_store` (631, 632) and before it is applied. The stores of one set of
tunables exclude each other, by the mutex of the attribute set. `resolve_freq` is
the cpufreq core's clamp and rounding (external). `Init` is the first or a later
start: `next_freq` is 0, but the cached utilisations are those of before, because
`lse_gov_start` does not clear `lse_gov_rq_data`, and the soft limits may have been
written already, because tunables are shared. A store that is half-way when the
governor stops is part of `GovLifecycle`. The figures kept for /proc
(`last_agg_util` and the like) are left out. Its `scenario` holds the settings and
what may change.

**GovLifecycle** (`MCCpufreq`). What the governor allocates for a policy and who
uses it. The cpufreq core serialises `init`, `start`, `stop` and `exit` of one
policy; those of two policies interleave, with `global_tunables_lock` between
them, and with a rollover callback, a tick, a sysfs store and the workers. Each
call is split where another actor can see the difference: `governor_data` is
stored before `tunables`, the hook is removed before the work is cancelled and
`gov_flag` cleared after it. `synchronize_rcu` waits for the readers that were
running when it began (`grace`). A policy is a cluster here, as on the phones the
module is written for, so `gov_flag` is a set of policies.

**Clusters** (`MCCpufreq`). `topology_loop` is the loop of
`update_cluster_topology` over the CPUs, a recursive function of the number of
CPUs visited; its result is the initial state. The actions are the
notifiers. A policy may be a cluster, span two or share one. Any policies may exist
when the module is loaded, with any limits: it is a module by default
(`Kconfig:17-18`), and registering a notifier (354-365) does not replay
`CPUFREQ_CREATE_POLICY` for them. `seen` and `heard` are history variables: what
the notifiers of the module have been told.

**Monitor** (`MCTimers`). Times are relative, so the state space is finite without
a clock bound: a timer is its distance, the watchdog timestamp its age. The
handlers are split where they read a switch or a flag and act on it later; a touch
is split between its read of `jiffies` and its store. `touch_age` and `unseen` are
history variables.

**ShadowTick** (`MCTimers`). Hooks and callbacks exclude each other on a CPU
(interrupts are off); the sysctl's loop is a task of its own that anything may
interrupt, and a timer it starts is put on the CPU it happens to run on
(`HRTIMER_MODE_REL_PINNED`). The callback clears `armed` of the CPU it runs on,
as the code does. The hook decides on `curr_idle`, that is `rq->curr == rq->idle`,
and `rq->curr` becomes `next` when it returns. `own` is a history variable.

`MCTimers` and `MCCpufreq` each hold two components that share nothing that
changes (the monitor accepts touches at any time, the cluster list is fixed after
load), so `focus` lets one move while the other rests.

One question is about code outside `src/`: is `rq->curr` still `prev` when the
schedule hook runs, or already `next`? `lse_util_track.c:152-157` relies on `prev`
(the idle exit time is not accounted for the first task picked), which is also how
the kernel calls this hook; `WaltAccounting` and `ShadowTick` follow it.
`lse_dsq.c:205` queues `prev` only if `rq->curr` is already another task. `Dsq` has
both orders, since its lists, counts and drain must be right in either.

## Runs

| Run | Instance | Shows |
|---|---|---|
| `RolloverLive` | 2 CPUs that stay online, no suspend, window 3, clock to 7, fair | types; no assertion fires; one grid; while all CPUs keep ticking, a window end that a CPU has seen is rolled over |
| `RolloverResize` | 2 CPUs, one comes and goes, suspend, windows 2 and 4, long lock sections | the token is never lost, `lastq_ws` only advances, and the protocol implements `RolloverClock` |
| `RolloverResizeBug` | 2 CPUs, windows 5 and 3 | **violation**: shrinking the window fires the "ahead by more than 1 window" assertion |
| `RolloverIdle` | as `RolloverLive`, CPU 1 may stop ticking | **violation**: no rollover until the idle CPU wakes |
| `WaltExact` | 2 CPUs, 2 tasks, window 2, history 2, clock to 7 | the sums of CPUs and tasks are the time really spent, across missed hooks and migrations |
| `WaltBounds` | 1 CPU, 2 tasks, 2 frequencies, 2 windows, 2 policies, tracking on and off | types (no unsigned difference goes negative); busy time, utilisation and demand stay within the window, the first two while `tracked` |
| `Dsq` | 2 CPUs, 2 tasks; `dsq_enable` or `slim_stats` written at any time, or tasks forked, freed and reniced | list, `on_dsq` and `nr` agree while the drain races with hooks; the dequeue takes the right lock; a scan overlooks no starving task, and without a backlog there is no timeout and no urgency; the queues hold exactly the preempted tasks, or none at all, by the order of hook and switch; none of them is freed |
| `DsqClassChange` | 2 CPUs, 3 tasks, one changes its nice value | **violation**: `nr` no longer counts the list |
| `Gov` | 2 CPUs, 3 frequencies, load that changes; a worker with soft limits or with policy limits that move, or fast switching with both and boosts; fair | the hardware runs at what was last asked for, whatever the order of ticks, worker, stores and limits (without fast switching: while the limits stay); once limits were applied it stays within them; soft limits prevail over what was computed before they were written |
| `GovStaleCache` | 2 CPUs, load changes, fair | **violation**: a CPU uses an old utilisation of its cluster for ever |
| `Timers` | 2 touching CPUs, watchdog of 4 jiffies; 2 CPUs with shadow ticks | timers follow their switches; a stall is reported within one and a half timeouts, and nothing else is; the heartbeat goes on reporting; a shadow tick is right again after its CPU's hook has cancelled it once, and ends when switched off |
| `Cpufreq` | 4 CPUs in every topology; 3 machines with policies that exist at load, come and go; 2 policies, tunables shared or not, with a worker or fast | list and CPUs match the topology; clusters follow what the module is told of their policies; rollover, tick, work and store never use freed data; a failed `init` and an `exit` leave nothing; every operation returns |

### Bounds

`MaxClock`, `scenario.until` (jiffies), `MaxHold`, `MaxNr` and `MaxAge` are the
bounds. The clock of the rollover runs covers two window ends, so that a CPU may
miss one while the other claims it; that is the shortest history in which a token
could be lost. In `WaltExact` the clock covers three windows with a ring of two, so
the ring wraps and a task can sleep through a whole window. `MaxHold` bounds a lock
section by less than a window; a section as long as a window would stop the machine
before WALT noticed. In `Dsq` deadline and scan interval are zero, which makes
every queue overdue one jiffy after it fills: the comparison is strict, so a clock
of one jiffy exercises both outcomes; the scenario in which tasks change class has
no time, so no timeout is reached there. `MaxNr` only limits when a kind may
change, because each wrong dequeue leaves one more count behind. The governor has
no clock; its instances have a table of three frequencies, enough for the formula
to overshoot and come back, and two loads, one that raises the frequency and one
that lowers it. `MaxAge` in `Monitor` lies beyond every value that is compared, so
nothing is cut off; the run of `Timers` has no other bound. In `Cpufreq` the users
in interrupts and the sysfs store are explored one kind at a time, and `Topologies`
has every assignment of four CPUs to ids -1 to 2, and to four ids, with two
capacities or four. Task symmetry is sound where it is used: no definition singles
out a task, and the tasks of the scenarios are exchanged with their kinds.
`WaltBounds` uses a VIEW that drops the history variables that its properties do
not read and no guard depends on. `RolloverResize` does not check for deadlock:
after an assertion the machine has stopped. Neither does `Cpufreq`: a machine
without policies does nothing, and `OperationsFinish` shows that no operation gets
stuck.

### Fairness

`WindowRollover`: what runs with interrupts off, and a lock section, reaches its
end (`SectionsEnd`); in `RolloverLive` every CPU takes its runqueue lock again and
again and its hook runs (`KeepsTicking`, the periodic tick). Strong fairness is
needed because the lock is not always free: an irq_work or another section may hold
the CPU in between. Nothing is assumed of time or of the irq_work. In
`RolloverIdle` only CPU 0 keeps ticking: with NO_HZ an idle CPU has no tick.
`Governor`: every CPU ticks again and again, and the worker, a SCHED_FIFO thread,
runs; rollovers, load changes, stores and limits are never assumed. `Timers`:
jiffies pass and due handlers run; code with interrupts off ends; an hrtimer that
is due again and again fires (strong, because hooks with interrupts off hold it
back). Nothing is assumed of whoever writes the sysctls. `Cpufreq`: an operation of
the core goes on, strongly fair because it may wait for a mutex; callbacks, stores
and workers come to an end.

## Findings

1. **Resizing the window can panic** (`RolloverResizeBug`, `lse_util_track.c:592`).
   The size is stored under the local runqueue lock only. A CPU between its window
   update and its check then compares with the smaller size.
2. **An idle CPU can stop the rollovers** (`RolloverIdle`, `lse_util_track.c:491`).
   A CPU claims a window and goes idle without ticks. A busy CPU that skipped that
   window compares its own old window with the newer word and fails, now and at
   every later window. No rollover, and so no governor update from it, happens until
   the first CPU wakes. The same holds for a CPU taken offline.
3. **A task can be taken off the wrong queue** (`DsqClassChange`,
   `lse_dsq.c:262`). The dequeue classifies the task again. If its nice value,
   affinity or inherited priority changed while it was queued, the list is changed
   under another queue's lock and the wrong `nr` is decremented.
4. **The cached cluster utilisation never expires** (`GovStaleCache`,
   `cpufreq_lse.c:238`). `last_tick_ns` is stored just before the staleness test
   that reads it. A CPU whose own load does not change keeps the utilisation it
   calculated before another CPU's load changed, against the "two windows before
   forced recal" of line 224. In the run the busy times no longer change, and the
   ticks of that CPU go on with the old value.

Met while modelling and not the subject of a run:

*Load and queues*

- The demand divisor is computed at boot and not when the window size changes
  (`lse_main.h:243`, `lse_util_track.c:654`), so `demand_scaled` is off after a
  resize.
- `lse_irq_work` stores a new window size after a look at the local CPU's window
  only and under the local lock only (`lse_util_track.c:591-592`). A hook of another
  CPU that reads the size again (210-216, 334) mixes two sizes: when it falls from 4
  to 2 between 214 and 216, `prev_runnable_sum` is larger than the
  `prev_window_size` stored beside it, and `lse_cpu_util` exceeds the full
  capacity. Even between hooks, the other CPU can be past the end of its window in
  the new size while its sums belong to the old one. The bounds on busy time are
  about one CPU or one size for that reason.
- A timeout does not mean that a task waited. `lse_dsq.h:117` calls
  `last_consume_at` the time of the last consumption and `lse_dsq.c:395`, 411 speak
  of "actual timeouts" and "genuine starvation", but a dequeue moves it only when
  it empties a queue that has timed out (`lse_dsq.c:240-244`): a queue that is
  served all the time and never empties times out and raises the urgency signal
  although each of its tasks waits briefly. No property claims otherwise;
  `StarvationReported` is the direction that holds, and `UrgencyNeedsBacklog` what
  is true of the other.
- With `rq->curr` still `prev`, as `lse_util_track.c:152-157` has it, the check
  `rq->curr == p` (`lse_dsq.c:205`) rejects every `prev` that the hook offers
  (450-453): nothing is ever queued, no queue ever times out, and the urgency signal
  is always 0. `PreemptedTasksQueued` states this, and what the hook would do in
  the other order.
- Switching `slim_stats` off leaves tasks queued (`lse_dsq.c:446`), which is why
  `PreemptedTasksQueued` is checked without that switch. A task that was queued
  then, runs and exits is freed with its node linked
  (`lse_task_struct_ext.c:64`); `FreedTasksUnlinked` holds while the switches stay.

*Governor*

- `target_load` is in percent and the utilisation is not (`cpufreq_lse.c:428`):
  every utilisation above 95 of 1024 raises the frequency.
- On a policy with one CPU the tick averages its load with 0, the rollover does
  not (`cpufreq_lse.c:263`, 174-175), so the two ask for different frequencies and
  `next_freq` swings between them under a steady load.
- With more CPUs a steady load may not settle either. Two table frequencies can both
  be fixed points of the formula, and a tick that computed its answer at one of them
  is overtaken before it takes `update_lock` (344) and then asks for it at the
  other. This needs no stale cache, and happens with fast switching too. No
  property says that the frequency settles.
- The comment at `cpufreq_lse.c:287` says the tick uses `curr_runnable_sum`; the
  code uses `prev_runnable_sum`.
- Without fast switching, policy limits that are lowered and raised again leave the
  frequency low: `next_freq` has not changed, so no work is queued
  (`cpufreq_lse.c:1038`). `RequestServed` is about fixed limits or fast switching for
  that reason; `WithinLimits` is about all.
- A soft maximum is rounded up to the next table frequency (`cpufreq_lse.c:478`),
  and a soft limit is applied at once to the first policy of the list only (562).
- The tick looks at `governor_data` and not at `gov_flag`
  (`cpufreq_lse.c:302-306`). One that begins after `lse_gov_stop`, before
  `lse_gov_exit` clears the pointer, is waited for by nobody, and one between lines
  881 and 882 finds no tunables. `TickUsesLive` is about ticks of a started
  governor.
- Two policies in one cluster share one `gov_flag`; the rollover uses `cluster->id`
  as its index without the check against `MAX_LSE_CLUSTERS` that start and stop
  make (732, 1002).
- Work that is queued after `lse_gov_stop` cancelled it (1017) may run after the
  next start, with a `next_freq` of 0.
- `lse_gov_cpu_reset` clears the pointers of `policy->cpus` only: that of a CPU that
  is offline keeps pointing to freed data (709-712), until it starts again.

*Timers and clusters*

- `lse_sysctl_init` registers the files and then calls `lse_monitor_sync` without
  the mutex of the files (`lse_sysctl.c:419-423`). The model begins after it.
- Each toggle of the watchdog starts the heartbeat's period again, and
  `reset_stats` clears `heartbeat`, so a stall may be reported late or once too
  often.
- A timer started by the sysctl runs on the writer's CPU, and its callback updates
  that CPU's task. The first cancellation by the CPU's own hook repairs it
  (`TimerFollowsPrev`).
- The hook decides on the task that leaves (`lse_shadow_tick.c:115-118`): a CPU that
  goes idle keeps its timer, or starts one, until its next switch, and one that
  leaves idle has none until its next switch. `TimerFollowsPrev` says so.
- `hrtimer_cancel` under a runqueue lock (`lse_shadow_tick.c:39`) waits for a
  callback that takes the lock of the CPU it runs on. With timers on foreign CPUs a
  cycle of three CPUs is conceivable; runqueue locks are not part of `ShadowTick`.
- `align_clusters` exchanges the middle two of four clusters when they are in
  ascending order, so that list is not sorted by capacity.
- Of a policy that exists when the module is loaded, the notifiers hear nothing
  (`lse_sched_cluster.c:354-365`; `Kconfig:17-18` makes a module the default): the
  limits of its cluster stay 1, and no QoS notifier is added. Its frequency is
  right from the first transition on. `CPUFREQ_REMOVE_POLICY` finds no notifier to
  remove, and `freq_init_done` is never reset, so the limits of a policy that was
  created again are stale until they change (281, 308). The loop of
  `cpufreq_notifier_trans` looks up the cluster of `policy->cpu` each time (338): a
  policy that spans clusters updates one of them.

## Proofs

Every invariant that a passing run checks, and every action property, is stated
by a theorem that holds for all values of the constants the assumptions allow.
Each proof has an inductive invariant, checked with TLC on the run's instance
before it was proved, one step per action, and a theorem per property.
`FiniteNats` has the facts about numbers that several proofs share; its
`SetInduction` states induction for the set of numbers that have a property, so
that the recursive functions of `WaltAccounting` and `Clusters` can be reasoned
about.

**WindowRolloverProofs**, for every number of CPUs, set of window sizes,
hotplug set and clock bound allowed by the assumptions of `WindowRollover`, proves:

- `TypeCorrect`: `Spec => []TypeOK`;
- `TokenNeverLost`: `Spec => []TokenHeld`, so a rollover can always be claimed;
- `RolledOverOnce`: `Spec => LastqAdvances`;
- `Refinement`: `Spec => ImplementsClock`, so the protocol implements
  `RolloverClock`;
- `OneGrid`: `Spec => []WindowsAligned`, assuming one window size;
- `NoPanic`: `Spec => []NoLseBug`, assuming `FixedWindow`: one window size and
  lock sections no longer than the lead of the first window. The first finding
  shows that the first half of that assumption is needed. For the second:
  a CPU whose lock section began before the first tick holds a clock sample that
  may be older than the lead, and would find the window the tick opened for it
  ahead of its clock.

The argument. `TokenHeld` is not inductive: it needs to know that a CPU in the
middle of an update stands at or after the window it came from (`RavgInv`), that
the loop of the first tick writes the one value that becomes the shared word
before anyone can compare with it (`InitInv`), and that clock samples never lie
in the future (`ClockInv`). `IInv` is the conjunction of these with `TypeOK` and
`TokenHeld`; `Invariance` proves `Spec => []IInv`, one step per action.
`WindowLemma` gives the arithmetic of `update_window_start`: the result lies on
the old grid, not after the wallclock and less than a window before it.
`Refinement` maps every step with the help of `IInv`: the first tick opens the
clock, a compare-and-exchange that succeeds is a claim, because the CPU's new
window lies after the one it compared with, and it leaves the work queued; the
irq_work is a run; a CPU that dies hands its work on, and all else stutters.
`NoPanic` adds `SafeInv`: a clock sample is recent, and neither `latest_clock` nor
the window is ahead of it when it is used (`SampleInv`); the irq_work exists only
after the first rollover and on a CPU that is up (`IrqInv`); while the clock is
suspended nobody is ahead of the value it stopped at (`SuspendInv`).
`OneGrid` needs `GridInv`: a window that has been set is a natural number of
windows after the first, which the remainder in `WindowsAligned` does not say.

**WaltAccountingProofs**, for every set of tasks and frequencies, every length of
the history, and one CPU with any windows or any CPUs with one window
(`ResizeAssumption`). `IInv` says of each CPU that its window does not lie in the
future and that its scale is at most the full one (`QueueOK`), of each task that
its sums and windows are at most the largest window and its demand at most one of
them (`TaskOK`), that no task runs on two CPUs, and, while `tracked`, that the
running task was last updated when its CPU was (`TrackInv`): without that, time
before a migration could be counted twice. `TypeCorrect`, `BusyBounded` and
`DemandBounded` follow. `UtilBounded` assumes `RoundSizes`: the code divides by
`window >> 10`, and the quotient can exceed 1024 when this shift drops more than
the quotient can absorb; windows that are a multiple of 1024 ns or at least 1024 *
1024 ns (1.05 ms) are safe, and the default of 8 ms and the frame times of displays
are. `BusyTimesExact` assumes `FixedRate`: one window size, full frequency,
tracking on. Its invariant `ExactInv` says what the sums and the time since the
last update make up, according to whether the last update was in the open window,
in the one before it, or earlier. `TaskTimesExact` has the same assumption, and
says the same of a task, wherever it ran. Its invariant `HistInv` compares the
counters of each task with its true times (`Counted`): in the window of its last
update, time since then is still to be added if it runs; after that window has
ended, the history is the ring, the rest of that window, and a full window for each
one since (`FilledUp`), or, for a task that sleeps, the ring and its sum. Most of
the proof is about the ring: `RingShift` says that writing `samples` entries from
`cidx` on, modulo the size, is a shift of the history, and `RunningDemand` that the
division in `update_task_demand` finds exactly the full windows.

**DsqProofs**, for every set of CPUs and tasks, all deadlines and all scenarios in
which tasks are forked only while the switches rest (`SystemAssumption`; a task
that exits while the switches move may be freed linked, see above). `IInv` relates
every node to at most one list (`LinkInv`), each step of a hook to what its earlier
steps have checked, tasks to at most one CPU (`ApartInv`), `nr`, class and timeouts
to the lists while no class changes (`ClassInv`), and preempted tasks to linked ones
while monitoring stays on (`PreemptInv`). From it:
`LinkedOnce`, `DepthCorrect`, `RightLock`, `UrgencySound`, `StarvationSeen`,
`PreemptedQueued`, `NoFreedTaskLinked`, `TypeCorrect`. `StarvationSeen` holds while
classes change, too: no queue's `last_consume_at` is later than the time any task on
it was queued.

**GovLifecycleProofs**, for any number of policies, shared tunables or not, worker
or fast switching. The invariant says for each value of `op` what is allocated,
published and listed (`OpInv`, `TunedInv`, `ListInv`), who holds
`global_tunables_lock` (`LockInv`), that tunables live while they have users
(`LiveInv`), and that the operation of a policy cannot pass a reader that uses it
(`ReaderInv`). From it: `RolloverSafe`,
`TickSafe`, `WorkAndStoreSafe`, `ExitLeavesNothing`, `LifecycleTypeCorrect`.

**GovernorProofs**, for every frequency table, window (of at least 2) and set of
loads, CPUs, limits and soft limits, from every state a start may find.
`LimitsKept` and `TypeCorrect` hold without restriction. `RequestServed` is about
fast switching or limits that stay, because otherwise it is false (see
`cpufreq_lse.c:1038` above). Its invariant says that a worker that has read
`next_freq` has read the last one, or that work is queued again. The bound on the
utilisation needs that a mean of values is within their bounds, for the top two
CPUs and for the sum.

**TimersProofs**, for any number of CPUs and all timeouts of the assumptions.
For the monitor: `SwitchesObeyed`, `StallsReported`, `NoFalseAlarm` (the action
property `WatchdogTruthful`); the invariant says that the timestamp is at most one
jiffy older than the last touch, and that the time a stall has gone unseen and the
time to the next check add up to one and a half timeouts at most. For the
shadow tick: `TimerRepaired`, `ShadowTypeCorrect`. `TypeCorrect` is about both
together.

**ClustersProofs**, for any number of CPUs and every topology. `LoopInv` says what
`topology_loop` has built after n CPUs: the clusters of the CPUs visited, each
once, sorted by capacity, and pointers from their CPUs; `insert_cluster` and
`align_clusters` keep that, up to the exchange of the middle two of four.
`ListCorrect` follows, `FollowsPolicy` uses that the notifiers write only clusters
on the list and that what was heard of a policy stays true of its cluster,
whichever policies existed at load, and `TypeCorrect` is about clusters and life
cycle together.

What stays with TLC: liveness (`RolloverCatchesUp`, `SoftLimitsPrevail`,
`HeartbeatReports`, `ShadowTickEnds`, `OperationsFinish`), which needs `ENABLED`
and is out of the prover's reach.

## Not modelled, and why

Tracing, statistics and proc output change nothing. `lse_dsq_add_runtime`, the
round-robin state, the margins of a cluster and `cached_tunables` have no reader.
CPUs that go offline are part of `WindowRollover` only. The init order of the
module is sequential code that runs once; each module starts after its own part.
A CPU frequency table that is not sorted, CPUs of different capacity (except in
`Clusters`) and 64-bit overflow of the nanosecond clock are left out: the counters
stay far below 2^64 for the life of a machine.

## Plan

1. *Done*: rollover protocol with its abstract clock; accounting; queues with the
   life of tasks; governor in operation and its life cycle; shadow tick; monitor;
   clusters; proofs of their safety properties.
2. Weaker assumptions: `BusyTimesExact` and `TaskTimesExact` at frequencies that
   change, with a bound on what rounding loses.
3. The hazards of PROJECT.json that no property covers yet.
