------------------------------ MODULE Governor ------------------------------
(***************************************************************************)
(* The governor of one cpufreq policy between lse_gov_start and            *)
(* lse_gov_stop (cpufreq_lse.c): four writers of next_freq and of the      *)
(* hardware's frequency.                                                   *)
(*   - the window rollover, under update_lock throughout;                  *)
(*   - the tick of each CPU, which computes first and locks afterwards;    *)
(*   - a sysfs store of a soft limit;                                      *)
(*   - the cpufreq core, which changes the policy's limits.                *)
(* Without fast switching a kthread worker carries next_freq to the        *)
(* driver.  Figures the code only keeps to report them, such as            *)
(* last_agg_util, are left out.                                            *)
(***************************************************************************)
EXTENDS GovFormula

CONSTANT
  Scenarios    \* what a behaviour may do, and the settings it does not change:
               \*   fast      policy->fast_switch_enabled
               \*   legacy    gov_legacy_formula_enable
               \*   sums      the busy times of a CPU in its last window
               \*   boosts    the values of lse_dsq_urgency_signal
               \*   soft      the soft limits written to sysfs
               \*   limits    the policy limits, as <<min, max>>

ASSUME GovernorAssumption ==
  \A s \in Scenarios :
    /\ {s.fast, s.legacy} \subseteq BOOLEAN
    /\ s.sums \subseteq Nat /\ s.boosts \subseteq 0 .. 1024
    /\ s.soft \subseteq Nat \cup {None}
    /\ \A l \in s.limits : l \in Table \X Table /\ l[1] <= l[2]

VARIABLES
  scenario,                 \* never changes
  prev_runnable_sum,        \* of every CPU, as lse_util_track.c leaves it
  limits, limits_pending,   \* policy->min, max; lse_gov_limits is still to run
  cur,                      \* policy->cur
  next_freq,                          \* struct lse_gov_policy
  soft_freq_max, soft_freq_min, apply_freq_immediately,
  store,                    \* what a soft limit's store has yet to do
  work_pending, worker, worker_freq,  \* kthread work and lse_gov_work
  cached_this_sum, cached_agg_util,   \* struct lse_gov_rq
  tick, tick_freq                     \* lse_gov_tick_update and its next_f

env == <<scenario, prev_runnable_sum, limits, limits_pending>>
tunables == <<soft_freq_max, soft_freq_min, apply_freq_immediately, store>>
workVars == <<work_pending, worker, worker_freq>>
cache == <<cached_this_sum, cached_agg_util>>
tickVars == <<tick, tick_freq>>
vars == <<env, cur, next_freq, tunables, workVars, cache, tickVars>>

Limited(f) == soft_freq_clamp(soft_freq_max, soft_freq_min, f)

-----------------------------------------------------------------------------
\* A mutant: no work is queued while the worker is at work.
request_drops_work(f) ==
  /\ next_freq' = f
  /\ IF next_freq = f \/ scenario.fast
     THEN UNCHANGED work_pending
     ELSE work_pending' = (work_pending \/ worker = "idle")
  /\ cur' = IF next_freq # f /\ scenario.fast THEN resolve_freq(limits, f) ELSE cur

\* A mutant: the driver switches to what the caller resolved earlier.
request_unclamped(f) ==
  /\ next_freq' = f
  /\ IF next_freq = f \/ scenario.fast THEN UNCHANGED work_pending
                                    ELSE work_pending' = TRUE
  /\ cur' = IF next_freq # f /\ scenario.fast THEN f ELSE cur

\* Under update_lock: a new next_freq goes to the hardware or to the worker.
\* Queueing work that is already queued does nothing.
request(f) ==
  /\ next_freq' = f
  /\ IF next_freq = f \/ scenario.fast THEN UNCHANGED work_pending
                                    ELSE work_pending' = TRUE
  /\ cur' = IF next_freq # f /\ scenario.fast THEN resolve_freq(limits, f) ELSE cur

\* A mutant: the frequency is not resolved to one of the table.
update_cpufreq_unresolved ==
  \E sum \in {rollover_sum(prev_runnable_sum)} :
    /\ request(Limited(get_next_freq(scenario.legacy, cur, sum)))
    /\ UNCHANGED <<env, tunables, worker, worker_freq, cache, tickVars>>

\* lsegov_update_freq and lse_gov_update_cpufreq, on a window rollover.
lse_gov_update_cpufreq ==
  \E sum \in {rollover_sum(prev_runnable_sum)} :
    /\ \E f \in {get_next_freq(scenario.legacy, cur, sum)} :
         \E target \in {resolve_freq(limits, Limited(f))} : request(target)
    /\ UNCHANGED <<env, tunables, worker, worker_freq, cache, tickVars>>

-----------------------------------------------------------------------------
\* The tick.

Apart(a, b) == IF a > b THEN a - b ELSE b - a

\* lse_gov_cluster_util reuses the cached value of CPU c.  Its staleness test
\* compares the time with last_tick_ns, which lse_gov_tick_update has just set
\* to that same time: it always passes.
cache_usable(c) ==
  /\ cached_agg_util[c] # 0 /\ cached_this_sum[c] # 0
  /\ Apart(prev_runnable_sum[c], cached_this_sum[c]) * 20 < cached_this_sum[c]

lse_gov_cluster_util(c) ==
  IF cache_usable(c) THEN cached_agg_util[c] ELSE cluster_util(prev_runnable_sum)

\* A mutant: the tick leaves the soft limits to the rollover.
tick_target_unclamped(f) == resolve_freq(limits, f)

\* What the tick makes of a frequency before it locks.
tick_target(f) == resolve_freq(limits, Limited(f))

\* lse_gov_tick_update on CPU c up to the lock: the frequency is chosen from
\* the load, the current frequency and the limits as they are now.
lse_gov_tick_update(c) ==
  \E boost \in scenario.boosts, util \in {lse_gov_cluster_util(c)} :
  \E agg_util \in {AtMost((util * (1024 + boost)) \div 1024,
                          SCHED_CAPACITY_SCALE)} :
  \E f \in {scaled_freq(cur, agg_util)} :
    /\ tick[c] = "out"
    /\ tick' = [tick EXCEPT ![c] = "lock"]
    /\ tick_freq' = [tick_freq EXCEPT ![c] = tick_target(f)]
    /\ cached_this_sum' =
         [cached_this_sum EXCEPT ![c] = prev_runnable_sum[c]]
    /\ cached_agg_util' = [cached_agg_util EXCEPT ![c] = util]
    /\ UNCHANGED <<env, cur, next_freq, tunables, workVars>>

\* The rest of it, under update_lock.
TickLocked(c) ==
  /\ tick[c] = "lock"
  /\ request(tick_freq[c])
  /\ tick' = [tick EXCEPT ![c] = "out"]
  /\ tick_freq' = [tick_freq EXCEPT ![c] = 0]
  /\ UNCHANGED <<env, tunables, worker, worker_freq, cache>>

-----------------------------------------------------------------------------
\* The kthread worker: it unlinks the work, then lse_gov_work runs.

WorkerTake ==
  /\ worker = "idle" /\ work_pending
  /\ work_pending' = FALSE
  /\ worker' = "taken"
  /\ UNCHANGED <<env, cur, next_freq, tunables, worker_freq, cache, tickVars>>

\* lse_gov_work reads next_freq under update_lock ...
WorkerRead ==
  /\ worker = "taken"
  /\ worker_freq' = next_freq
  /\ worker' = "read"
  /\ UNCHANGED <<env, cur, next_freq, tunables, work_pending, cache, tickVars>>

\* ... and hands it to the driver under work_lock.
WorkerTarget ==
  /\ worker = "read"
  /\ cur' = resolve_freq(limits, worker_freq)
  /\ worker' = "idle"
  /\ worker_freq' = 0
  /\ UNCHANGED <<env, next_freq, tunables, work_pending, cache, tickVars>>

-----------------------------------------------------------------------------
\* Sysfs and the cpufreq core.

\* A store of sysfs runs under the mutex of the attributes: one at a time.  It
\* leaves at once when the value is not new, and applies it, in a step of its
\* own, if apply_freq_immediately is set.
ThenApply == store' = IF apply_freq_immediately THEN "apply" ELSE "out"

soft_freq_max_store ==
  \E v \in scenario.soft \ {soft_freq_max} :
    /\ store = "out"
    /\ soft_freq_max' = v
    /\ ThenApply
    /\ UNCHANGED <<env, cur, next_freq, soft_freq_min, apply_freq_immediately,
                   workVars, cache, tickVars>>

soft_freq_min_store ==
  \E v \in scenario.soft \ {soft_freq_min} :
    /\ store = "out"
    /\ soft_freq_min' = v
    /\ ThenApply
    /\ UNCHANGED <<env, cur, next_freq, soft_freq_max, apply_freq_immediately,
                   workVars, cache, tickVars>>

\* soft_freq_cur_store stores the maximum, then the minimum; the rollover and
\* the ticks may read them in between.
soft_freq_cur_store ==
  \/ \E v \in scenario.soft :
       /\ store = "out"
       /\ {soft_freq_max, soft_freq_min} # {v}
       /\ soft_freq_max' = v
       /\ store' = "min"
       /\ UNCHANGED <<env, cur, next_freq, soft_freq_min,
                      apply_freq_immediately, workVars, cache, tickVars>>
  \/ /\ store = "min"
     /\ soft_freq_min' = soft_freq_max
     /\ ThenApply
     /\ UNCHANGED <<env, cur, next_freq, soft_freq_max, apply_freq_immediately,
                    workVars, cache, tickVars>>

lse_gov_update_soft_limit_cpufreq ==
  /\ store = "apply"
  /\ store' = "out"
  /\ \E target \in {resolve_freq(limits, Limited(next_freq))} : request(target)
  /\ UNCHANGED <<env, soft_freq_max, soft_freq_min, apply_freq_immediately,
                 worker, worker_freq, cache, tickVars>>

apply_freq_immediately_store ==
  /\ scenario.soft # {} /\ store = "out"
  /\ apply_freq_immediately' = ~apply_freq_immediately
  /\ UNCHANGED <<env, cur, next_freq, soft_freq_max, soft_freq_min, store,
                 workVars, cache, tickVars>>

\* External: cpufreq_set_policy stores new limits and calls lse_gov_limits.
SetLimits ==
  \E l \in scenario.limits \ {limits} :
    /\ ~limits_pending
    /\ limits' = l
    /\ limits_pending' = TRUE
    /\ UNCHANGED <<scenario, prev_runnable_sum, cur, next_freq, tunables,
                   workVars, cache, tickVars>>

\* With fast switching next_freq is resolved again; otherwise, under
\* work_lock, cpufreq_policy_apply_limits moves cur into the limits.
lse_gov_limits ==
  /\ limits_pending
  /\ limits_pending' = FALSE
  /\ cur' = IF scenario.fast THEN resolve_freq(limits, next_freq)
                          ELSE Clamp(cur, limits[1], limits[2])
  /\ UNCHANGED <<scenario, prev_runnable_sum, limits, next_freq, tunables,
                 workVars, cache, tickVars>>

\* The load of a CPU changes: a new window of lse_util_track.c.
NewLoad(c) ==
  \E s \in scenario.sums \ {prev_runnable_sum[c]} :
    /\ prev_runnable_sum' = [prev_runnable_sum EXCEPT ![c] = s]
    /\ UNCHANGED <<scenario, limits, limits_pending, cur, next_freq, tunables,
                   workVars, cache, tickVars>>

\* After lse_gov_start, for the first time or again, and the call of
\* lse_gov_limits that follows it.  next_freq starts at zero.  The tunables
\* may be those of other policies or of before a stop, and lse_gov_rq_data is
\* what the last run of the governor left there.
Init ==
  /\ scenario \in Scenarios
  /\ prev_runnable_sum \in [Cpus -> scenario.sums]
  /\ limits \in scenario.limits
  /\ limits_pending = FALSE
  /\ cur \in IF scenario.fast THEN {resolve_freq(limits, 0)}
             ELSE {t \in Table : limits[1] <= t /\ t <= limits[2]}
  /\ next_freq = 0
  /\ soft_freq_max \in scenario.soft \cup {None}
  /\ soft_freq_min \in scenario.soft \cup {None}
  /\ apply_freq_immediately \in {TRUE} \cup {v \in BOOLEAN : scenario.soft # {}}
  /\ store = "out"
  /\ work_pending = FALSE
  /\ worker = "idle"
  /\ worker_freq = 0
  /\ \/ /\ cached_this_sum = [c \in Cpus |-> 0]
        /\ cached_agg_util = [c \in Cpus |-> 0]
     \/ \E old \in [Cpus -> [Cpus -> scenario.sums]] :
          /\ cached_this_sum = [c \in Cpus |-> old[c][c]]
          /\ cached_agg_util = [c \in Cpus |-> cluster_util(old[c])]
  /\ tick = [c \in Cpus |-> "out"]
  /\ tick_freq = [c \in Cpus |-> 0]

Next ==
  \/ lse_gov_update_cpufreq
  \/ \E c \in Cpus : lse_gov_tick_update(c) \/ TickLocked(c) \/ NewLoad(c)
  \/ WorkerTake \/ WorkerRead \/ WorkerTarget
  \/ soft_freq_max_store \/ soft_freq_min_store \/ soft_freq_cur_store
  \/ lse_gov_update_soft_limit_cpufreq \/ apply_freq_immediately_store
  \/ SetLimits \/ lse_gov_limits

Spec == Init /\ [][Next]_vars

\* Every CPU keeps ticking, and the worker, a FIFO thread, is scheduled.  (A tick
\* can always take place, and an action of the worker always changes worker.)
Worker == WorkerTake \/ WorkerRead \/ WorkerTarget
Fairness ==
  /\ \A c \in Cpus : []<><<TickLocked(c)>>_tick
  /\ WF_worker(Worker)
FairSpec == Spec /\ Fairness

-----------------------------------------------------------------------------
\* Types and bounds: every frequency asked for or set is one of the table.
TypeOK ==
  /\ scenario \in Scenarios
  /\ prev_runnable_sum \in [Cpus -> scenario.sums]
  /\ limits \in scenario.limits /\ limits_pending \in BOOLEAN
  /\ cur \in Table
  /\ next_freq \in Table \cup {0}
  /\ {soft_freq_max, soft_freq_min} \subseteq scenario.soft \cup {None}
  /\ apply_freq_immediately \in BOOLEAN /\ store \in {"out", "min", "apply"}
  /\ work_pending \in BOOLEAN
  /\ worker \in {"idle", "taken", "read"}
  /\ worker_freq \in Table \cup {0}
  /\ cached_this_sum \in [Cpus -> Nat]
  /\ cached_agg_util \in [Cpus -> 0 .. SCHED_CAPACITY_SCALE]
  /\ tick \in [Cpus -> {"out", "lock"}]
  /\ tick_freq \in [Cpus -> Table \cup {0}]

\* The limits of the policy never change.
LimitsFixed == \A k, l \in scenario.limits : k = l

\* "the request will be proceed before the lse_gov thread sleeps"
\* (lse_gov_work): when no work is queued and the worker sleeps, and the core
\* waits for nothing, the hardware runs at the frequency last asked for, as far
\* as the limits allow it.  Without fast switching new limits move cur and
\* leave next_freq: there it says so of fixed limits only.
RequestServed ==
  /\ scenario.fast \/ LimitsFixed
  /\ worker = "idle" /\ ~work_pending /\ ~limits_pending /\ next_freq # 0
  => cur = resolve_freq(limits, next_freq)

\* "The limits" of lse_gov_limits reach the hardware on every path, whichever
\* of the rollover, a tick, a store or the worker was half-way when they were
\* changed: once lse_gov_limits has returned, the frequency is within them, and
\* nothing that was computed from the old ones moves it out again.
WithinLimits ==
  ~limits_pending => limits[1] <= cur /\ cur <= limits[2]

\* Soft limits prevail: once nobody writes them or the limits any more, the
\* hardware comes to run at a frequency they allow and stays there, however
\* the load goes on changing and whatever was computed before the last write
\* and stored over it afterwards.  "Allow" is up to the driver, which rounds
\* to its table and to the limits of the policy.
SettingsStay == <>[][FALSE]_<<limits, limits_pending, tunables>>
SoftLimitsPrevail ==
  SettingsStay /\ (scenario.fast \/ LimitsFixed)
  => <>[](cur = resolve_freq(limits, Limited(cur)))

\* Every cached utilisation of the cluster is calculated again, "two windows
\* before forced recal" (UTIL_CACHE_STALE_NS): when the busy times of all CPUs
\* stay as they are, the ticks come to use the utilisation that these make.
CachedUtilCatchesUp ==
  <>[][FALSE]_prev_runnable_sum
  => <>[](\A c \in Cpus :
            lse_gov_cluster_util(c) = cluster_util(prev_runnable_sum))
=============================================================================
