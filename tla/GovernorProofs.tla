--------------------------- MODULE GovernorProofs ---------------------------
(***************************************************************************)
(* Proofs about Governor, for any number of CPUs, any table of             *)
(* frequencies, any window and any scenarios.                              *)
(***************************************************************************)
EXTENDS Governor, FiniteNats

-----------------------------------------------------------------------------
\* The inductive invariant.

\* With fast switching nothing is left to the worker.  Without it, a worker
\* that has read next_freq has read the last one, or work is queued again.
WorkerInv ==
  /\ scenario.fast => worker = "idle" /\ ~work_pending
  /\ worker = "read" /\ ~work_pending => worker_freq = next_freq
  /\ LimitsFixed => ~limits_pending

\* A tick that waits for the lock has a frequency to ask for.
TickInv == \A c \in Cpus : tick[c] = "lock" => tick_freq[c] # 0

IInv == TypeOK /\ WithinLimits /\ WorkerInv /\ RequestServed /\ TickInv

-----------------------------------------------------------------------------
\* The operators of GovFormula.

\* The limits of the hardware are the ends of the table.
LEMMA TableEnds ==
  /\ Table \subseteq Nat \ {0}
  /\ min_freq \in Table /\ max_freq \in Table
  /\ \A t \in Table : min_freq <= t /\ t <= max_freq
<1>1. Table \in SUBSET Nat /\ Table # {} /\ IsFiniteSet(Table)
  BY FormulaAssumption
<1> QED BY <1>1, FormulaAssumption, MinOfNats, MaxOfNats DEF min_freq, max_freq

\* The two largest values over the CPUs of a policy are natural numbers.
LEMMA TopTwo ==
  ASSUME NEW f, \A c \in Cpus : f[c] \in Nat
  PROVE  top1(f) \in {f[c] : c \in Cpus} /\ top2(f) \in {0} \cup {f[c] : c \in Cpus}
<1>1. top1(f) \in {f[c] : c \in Cpus}
  <2>1. /\ {f[c] : c \in Cpus} \in SUBSET Nat /\ {f[c] : c \in Cpus} # {}
        /\ IsFiniteSet({f[c] : c \in Cpus})
    BY FormulaAssumption, FiniteRange
  <2> QED BY <2>1, MaxOfNats DEF top1
<1>2. top2(f) \in {0} \cup {f[c] : c \in Cpus}
  <2> DEFINE first == CHOOSE c \in Cpus : f[c] = top1(f)
             rest == {0} \cup {f[c] : c \in Cpus \ {first}}
  <2> HIDE DEF first
  <2>1. rest \in SUBSET Nat /\ rest # {}
    OBVIOUS
  <2>2. IsFiniteSet(Cpus \ {first})
    BY FormulaAssumption, FS_RemoveElement
  <2>3. IsFiniteSet({f[c] : c \in Cpus \ {first}})
    BY <2>2, FiniteRange
  <2>4. IsFiniteSet(rest)
    BY <2>3, FS_Singleton, FS_Union
  <2>5. Max(rest) \in rest
    BY <2>1, <2>4, MaxOfNats
  <2>6. top2(f) = Max(rest)
    BY DEF top2, first
  <2> QED BY <2>5, <2>6
<1> QED BY <1>1, <1>2

\* A utilisation is at most the capacity.
LEMMA UtilType ==
  ASSUME NEW sum \in Nat
  PROVE  to_util(sum) \in 0 .. SCHED_CAPACITY_SCALE
<1>1. sum * 1024 \in Nat
  OBVIOUS
<1>2. (sum * 1024) \div Window \in Nat
  BY <1>1, FormulaAssumption, Division
<1> QED BY <1>2 DEF to_util, AtMost, SCHED_CAPACITY_SCALE

\* The busy time the rollover hands on, and the utilisation of the tick.
LEMMA AggregateType ==
  ASSUME NEW sums \in [Cpus -> Nat]
  PROVE  /\ rollover_sum(sums) \in Nat
         /\ cluster_util(sums) \in 0 .. SCHED_CAPACITY_SCALE
<1>1. top1(sums) \in Nat /\ top2(sums) \in Nat
  BY TopTwo
<1>2. lse_top2_avg_util(sums) \in Nat
  <2> DEFINE util == [c \in Cpus |-> to_util(sums[c])]
  <2>1. \A c \in Cpus : util[c] \in Nat
    <3> SUFFICES ASSUME NEW c \in Cpus PROVE to_util(sums[c]) \in Nat
      OBVIOUS
    <3>1. sums[c] \in Nat
      OBVIOUS
    <3>2. to_util(sums[c]) \in 0 .. SCHED_CAPACITY_SCALE
      BY <3>1, UtilType, Zenon
    <3> QED BY <3>2 DEF SCHED_CAPACITY_SCALE
  <2> HIDE DEF util
  <2>2. top1(util) \in Nat /\ top2(util) \in Nat
    BY <2>1, TopTwo
  <2>3. (top1(util) + top2(util)) \div 2 \in Nat
    BY <2>2
  <2> QED BY <2>2, <2>3 DEF lse_top2_avg_util, util
<1>3. (lse_top2_avg_util(sums) * Window) \div SCHED_CAPACITY_SCALE \in Nat
  <2>1. lse_top2_avg_util(sums) * Window \in Nat
    BY <1>2, FormulaAssumption
  <2> QED BY <2>1 DEF SCHED_CAPACITY_SCALE
<1>4. (top1(sums) + top2(sums)) \div 2 \in Nat
  BY <1>1
<1> QED BY <1>1, <1>3, <1>4, UtilType DEF rollover_sum, cluster_util

\* The target load stays between its bounds.
LEMMA TargetLoadType ==
  ASSUME NEW cur_, NEW agg_util
  PROVE  lse_dynamic_target_load(cur_, agg_util) \in target_load_min .. target_load_max
<1> DEFINE p == lse_compute_power_pressure(cur_, agg_util)
<1> HIDE DEF p
<1>1. lse_dynamic_target_load(cur_, agg_util) \in {88, 90, 92}
  BY DEF lse_dynamic_target_load, Clamp, AtMost, AtLeast, DEFAULT_TARGET_LOAD,
         target_load_min, target_load_max, target_load_step, p
<1> QED BY <1>1 DEF target_load_min, target_load_max

\* The frequency of both formulas is a natural number: neither divides by
\* zero, since a window is longer than the percentage of a target load.
LEMMA NextFreqType ==
  ASSUME NEW f \in Table, NEW u \in 0 .. SCHED_CAPACITY_SCALE,
         NEW sum \in Nat, NEW legacy \in BOOLEAN
  PROVE  scaled_freq(f, u) \in Nat /\ get_next_freq(legacy, f, sum) \in Nat
<1>1. ASSUME NEW v \in 0 .. SCHED_CAPACITY_SCALE PROVE scaled_freq(f, v) \in Nat
  <2> DEFINE tl == lse_dynamic_target_load(f, v)
  <2>1. tl \in Nat \ {0} /\ AtLeast(tl, 1) = tl
    BY TargetLoadType DEF target_load_min, target_load_max, AtLeast
  <2> HIDE DEF tl
  <2>2. f * v \in Nat
    BY TableEnds DEF SCHED_CAPACITY_SCALE
  <2>3. (f * v) \div tl \in Nat
    BY <2>1, <2>2, Division
  <2> QED BY <2>1, <2>3, TableEnds DEF scaled_freq, tl
<1>2. to_util(sum) \in 0 .. SCHED_CAPACITY_SCALE
  BY UtilType
<1>3. ASSUME legacy PROVE get_next_freq(legacy, f, sum) \in Nat
  <2> DEFINE tl == lse_dynamic_target_load(f, to_util(sum))
             size == (Window * tl) \div 100
             divisor == CeilDiv(size * SCHED_CAPACITY_SCALE, f)
  <2>1. tl \in Nat /\ tl >= 70
    BY TargetLoadType DEF target_load_min, target_load_max
  <2> HIDE DEF tl
  <2>2. Window * tl \in Nat /\ 2 * 70 <= Window * tl
    BY <2>1, FormulaAssumption, ProductBound
  <2>3. size \in Nat \ {0}
    <3> DEFINE x == Window * tl
    <3>1. x \in Nat /\ 140 <= x
      BY <2>2
    <3> HIDE DEF x
    <3>2. x \div 100 \in Nat \ {0}
      BY <3>1
    <3> QED BY <3>2 DEF x
  <2> HIDE DEF size
  <2>4. divisor \in Nat \ {0}
    <3>1. f \in Nat \ {0}
      BY TableEnds
    <3>2. size * 1024 + f - 1 \in Nat /\ size * 1024 + f - 1 >= f
      BY <3>1, <2>3
    <3> QED BY <3>1, <3>2, Division DEF CeilDiv, SCHED_CAPACITY_SCALE
  <2> HIDE DEF divisor
  <2>5. sum * 1024 + divisor - 1 \in Nat
    BY <2>4
  <2>6. CeilDiv(sum * SCHED_CAPACITY_SCALE, divisor) \in Nat
    BY <2>4, <2>5, Division DEF CeilDiv, SCHED_CAPACITY_SCALE
  <2> QED BY <1>3, <2>6 DEF get_next_freq, divisor, size, tl
<1>4. ASSUME ~legacy PROVE get_next_freq(legacy, f, sum) \in Nat
  BY <1>1, <1>2, <1>4 DEF get_next_freq
<1> QED BY <1>1, <1>3, <1>4

\* Whatever it is asked for, the driver chooses a frequency of the table that
\* is within the limits.
LEMMA ResolveType ==
  ASSUME NEW l \in Table \X Table, l[1] <= l[2], NEW f \in Int
  PROVE  /\ resolve_freq(l, f) \in Table
         /\ l[1] <= resolve_freq(l, f) /\ resolve_freq(l, f) <= l[2]
<1> DEFINE k == Clamp(f, l[1], l[2])
           S == {t \in Table : t >= k}
<1>1. l[1] \in Table /\ l[2] \in Table /\ l[1] \in Nat /\ l[2] \in Nat
  BY TableEnds
<1>2. k \in Int /\ l[1] <= k /\ k <= l[2]
  BY <1>1 DEF Clamp, AtMost, AtLeast
<1> HIDE DEF k
<1>3. S \in SUBSET Nat /\ l[2] \in S
  BY <1>1, <1>2, TableEnds
<1>4. Min(S) \in S /\ Min(S) <= l[2]
  BY <1>3, MinOfNats
<1> HIDE DEF S
<1>5. Min(S) \in Table /\ Min(S) \in Nat /\ Min(S) >= k
  BY <1>4, TableEnds DEF S
<1>6. resolve_freq(l, f) = Min(S)
  BY DEF resolve_freq, S, k
<1> QED BY <1>1, <1>2, <1>4, <1>5, <1>6

-----------------------------------------------------------------------------
\* The state.

\* What the assumptions say of the scenario of a behaviour.
LEMMA ScenarioFacts ==
  ASSUME TypeOK
  PROVE  /\ scenario.fast \in BOOLEAN /\ scenario.legacy \in BOOLEAN
         /\ scenario.sums \subseteq Nat
         /\ scenario.boosts \subseteq 0 .. 1024
         /\ scenario.soft \subseteq Nat \cup {None}
         /\ \A l \in scenario.limits : l \in Table \X Table /\ l[1] <= l[2]
         /\ limits \in Table \X Table /\ limits[1] <= limits[2]
         /\ prev_runnable_sum \in [Cpus -> Nat]
         /\ next_freq \in Nat /\ cur \in Nat \ {0}
<1>1. /\ scenario.fast \in BOOLEAN /\ scenario.legacy \in BOOLEAN
      /\ scenario.sums \subseteq Nat
      /\ scenario.boosts \subseteq 0 .. 1024
      /\ scenario.soft \subseteq Nat \cup {None}
      /\ \A l \in scenario.limits : l \in Table \X Table /\ l[1] <= l[2]
  BY GovernorAssumption DEF TypeOK
<1>2. limits \in Table \X Table /\ limits[1] <= limits[2]
  BY <1>1 DEF TypeOK
<1>3. prev_runnable_sum \in [Cpus -> Nat]
  BY <1>1 DEF TypeOK
<1>4. next_freq \in Nat /\ cur \in Nat \ {0}
  BY TableEnds DEF TypeOK
<1> QED BY <1>1, <1>2, <1>3, <1>4

\* The soft limits turn a frequency into a frequency.
LEMMA LimitedType ==
  ASSUME TypeOK, NEW f \in Nat
  PROVE  Limited(f) \in Nat
<1>1. soft_freq_max \in Nat \cup {-1} /\ soft_freq_min \in Nat \cup {-1}
  BY ScenarioFacts DEF TypeOK, None
<1>2. min_freq \in Nat /\ max_freq \in Nat
  BY TableEnds
<1> QED BY <1>1, <1>2 DEF Limited, soft_freq_clamp, AtLeast, AtMost

\* Under update_lock: a request for a frequency of the table.
LEMMA RequestStep ==
  ASSUME IInv, NEW f \in Table, request(f),
         UNCHANGED <<scenario, limits, limits_pending, worker, worker_freq>>
  PROVE  /\ next_freq' \in Table /\ cur' \in Table /\ work_pending' \in BOOLEAN
         /\ WithinLimits' /\ WorkerInv' /\ RequestServed'
<1> USE DEF IInv
<1>1. next_freq' = f /\ f # 0
  BY TableEnds DEF request
<1>2. /\ resolve_freq(limits, f) \in Table
      /\ limits[1] <= resolve_freq(limits, f)
      /\ resolve_freq(limits, f) <= limits[2]
  BY ScenarioFacts, ResolveType, TableEnds
<1>3. cur' \in {cur, resolve_freq(limits, f)}
  BY DEF request
<1>4. cur' \in Table /\ WithinLimits'
  BY <1>2, <1>3 DEF TypeOK, WithinLimits
<1>5. work_pending' \in BOOLEAN
  BY DEF request, TypeOK
<1>6. WorkerInv'
  BY <1>1 DEF request, WorkerInv, LimitsFixed
<1>7. RequestServed'
  <2>1. CASE next_freq = f
    <3>1. cur' = cur /\ work_pending' = work_pending
      BY <2>1 DEF request
    <3> QED BY <3>1, <2>1, <1>1 DEF RequestServed, LimitsFixed
  <2>2. CASE next_freq # f /\ scenario.fast
    <3>1. cur' = resolve_freq(limits, f)
      BY <2>2 DEF request
    <3> QED BY <3>1, <1>1 DEF RequestServed
  <2>3. CASE next_freq # f /\ ~scenario.fast
    <3>1. work_pending' = TRUE
      BY <2>3 DEF request
    <3> QED BY <3>1 DEF RequestServed
  <2> QED BY <2>1, <2>2, <2>3
<1> QED BY <1>1, <1>4, <1>5, <1>6, <1>7

\* A step that leaves the frequencies, the limits and the worker alone.
LEMMA Untouched ==
  ASSUME IInv,
         UNCHANGED <<scenario, limits, limits_pending, cur, next_freq, workVars>>
  PROVE  WithinLimits' /\ WorkerInv' /\ RequestServed'
  BY DEF IInv, WithinLimits, WorkerInv, RequestServed, LimitsFixed,
         workVars

-----------------------------------------------------------------------------
\* The window rollover asks for a frequency of the table.
LEMMA RolloverPreserves ==
  ASSUME IInv, lse_gov_update_cpufreq
  PROVE  IInv'
<1> USE DEF IInv
<1> DEFINE sum == rollover_sum(prev_runnable_sum)
           f == get_next_freq(scenario.legacy, cur, sum)
           target == resolve_freq(limits, Limited(f))
<1>0. /\ request(target)
      /\ UNCHANGED <<env, tunables, worker, worker_freq, cache, tickVars>>
  BY DEF lse_gov_update_cpufreq
<1>1. sum \in Nat
  BY ScenarioFacts, AggregateType
<1>2. f \in Nat
  <2>1. 0 \in 0 .. SCHED_CAPACITY_SCALE /\ cur \in Table
    BY DEF TypeOK, SCHED_CAPACITY_SCALE
  <2> HIDE DEF sum
  <2> QED BY <1>1, <2>1, ScenarioFacts, NextFreqType
<1> HIDE DEF sum, f
<1>3. target \in Table
  BY <1>2, ScenarioFacts, LimitedType, ResolveType
<1>4. /\ next_freq' \in Table /\ cur' \in Table /\ work_pending' \in BOOLEAN
      /\ WithinLimits' /\ WorkerInv' /\ RequestServed'
  <2> HIDE DEF target
  <2> QED BY <1>0, <1>3, RequestStep DEF env
<1>5. TypeOK'
  BY <1>0, <1>4 DEF TypeOK, env, tunables, cache, tickVars
<1>6. TickInv'
  BY <1>0 DEF TickInv, tickVars
<1> QED BY <1>4, <1>5, <1>6

\* The tick chooses a frequency of the table before it locks ...
LEMMA TickPreserves ==
  ASSUME IInv, NEW c \in Cpus, lse_gov_tick_update(c)
  PROVE  IInv'
<1> DEFINE util == lse_gov_cluster_util(c)
           agg(boost) == AtMost((util * (1024 + boost)) \div 1024,
                                SCHED_CAPACITY_SCALE)
<1> PICK boost \in scenario.boosts :
      /\ tick' = [tick EXCEPT ![c] = "lock"]
      /\ tick_freq' = [tick_freq EXCEPT ![c] =
           resolve_freq(limits, Limited(scaled_freq(cur, agg(boost))))]
      /\ cached_this_sum' =
           [cached_this_sum EXCEPT ![c] = prev_runnable_sum[c]]
      /\ cached_agg_util' = [cached_agg_util EXCEPT ![c] = util]
      /\ UNCHANGED <<env, cur, next_freq, tunables, workVars>>
  <2>1. PICK boost \in scenario.boosts, u \in {util} :
          lse_gov_tick_update(c)!(boost, u)
    BY DEF lse_gov_tick_update
  <2> HIDE DEF util
  <2>2. \E a \in {agg(boost)} : \E f \in {scaled_freq(cur, a)} :
          /\ tick' = [tick EXCEPT ![c] = "lock"]
          /\ tick_freq' = [tick_freq EXCEPT ![c] =
                             resolve_freq(limits, Limited(f))]
          /\ cached_this_sum' =
               [cached_this_sum EXCEPT ![c] = prev_runnable_sum[c]]
          /\ cached_agg_util' = [cached_agg_util EXCEPT ![c] = util]
          /\ UNCHANGED <<env, cur, next_freq, tunables, workVars>>
    BY <2>1 DEF tick_target
  <2> HIDE DEF agg
  <2> QED BY <2>2
<1> USE DEF IInv
<1> DEFINE agg_util == agg(boost)
           f == scaled_freq(cur, agg_util)
<1>1. util \in 0 .. SCHED_CAPACITY_SCALE
  BY ScenarioFacts, AggregateType DEF lse_gov_cluster_util, TypeOK
<1>2. agg_util \in 0 .. SCHED_CAPACITY_SCALE
  <2>1. util \in Nat /\ boost \in Nat
    <3>1. boost \in 0 .. 1024
      BY ScenarioFacts
    <3> HIDE DEF util, IInv, agg
    <3>2. util \in Nat
      BY <1>1 DEF SCHED_CAPACITY_SCALE
    <3> QED BY <3>1, <3>2
  <2>2. util * (1024 + boost) \in Nat
    BY <2>1
  <2>3. (util * (1024 + boost)) \div 1024 \in Nat
    BY <2>2, Division
  <2> QED BY <2>3 DEF AtMost, SCHED_CAPACITY_SCALE
<1> HIDE DEF agg
<1>3. f \in Nat
  BY <1>2, NextFreqType DEF TypeOK
<1> HIDE DEF f, util
<1>4. resolve_freq(limits, Limited(f)) \in Table
  BY <1>3, ScenarioFacts, LimitedType, ResolveType
<1>x. tick_freq' = [tick_freq EXCEPT ![c] = resolve_freq(limits, Limited(f))]
  BY DEF f
<1>5. prev_runnable_sum[c] \in Nat
  BY ScenarioFacts
<1>6. TypeOK'
  <2>1. tick' \in [Cpus -> {"out", "lock"}]
    BY DEF TypeOK
  <2>2. tick_freq' \in [Cpus -> Table \cup {0}]
    BY <1>4, <1>x DEF TypeOK
  <2>3. cached_this_sum' \in [Cpus -> Nat]
    BY <1>5 DEF TypeOK
  <2>4. cached_agg_util' \in [Cpus -> 0 .. SCHED_CAPACITY_SCALE]
    BY <1>1 DEF TypeOK
  <2> QED BY <2>1, <2>2, <2>3, <2>4 DEF TypeOK, env, tunables, workVars
<1>7. WithinLimits' /\ WorkerInv' /\ RequestServed'
  BY Untouched DEF env
<1>8. TickInv'
  BY <1>4, <1>x, TableEnds DEF TypeOK, TickInv
<1> QED BY <1>6, <1>7, <1>8

\* ... and asks for it under the lock.
LEMMA TickLockedPreserves ==
  ASSUME IInv, NEW c \in Cpus, TickLocked(c)
  PROVE  IInv'
<1> USE DEF IInv, TickLocked
<1>1. /\ next_freq' \in Table /\ cur' \in Table /\ work_pending' \in BOOLEAN
      /\ WithinLimits' /\ WorkerInv' /\ RequestServed'
  <2>1. tick_freq[c] \in Table
    BY DEF TypeOK, TickInv
  <2> QED BY <2>1, RequestStep DEF env
<1>2. TypeOK'
  <2>1. tick' \in [Cpus -> {"out", "lock"}]
    BY DEF TypeOK
  <2>2. tick_freq' \in [Cpus -> Table \cup {0}]
    BY DEF TypeOK
  <2> QED BY <1>1, <2>1, <2>2 DEF TypeOK, env, tunables, cache
<1>3. TickInv'
  BY DEF TypeOK, TickInv
<1> QED BY <1>1, <1>2, <1>3

\* The worker carries the last request to the driver, within the limits.
LEMMA WorkerPreserves ==
  ASSUME IInv, Worker
  PROVE  IInv'
<1> USE DEF IInv
<1>0. TickInv' /\ UNCHANGED <<env, tunables, cache, tickVars>>
  BY DEF Worker, WorkerTake, WorkerRead, WorkerTarget, TickInv, tickVars
<1>1. CASE WorkerTake
  <2> USE <1>1 DEF WorkerTake
  <2>1. TypeOK'
    BY <1>0 DEF TypeOK, env, tunables, cache, tickVars
  <2>2. WithinLimits' /\ WorkerInv' /\ RequestServed'
    BY <1>0 DEF env, WithinLimits, WorkerInv, RequestServed, LimitsFixed
  <2> QED BY <1>0, <2>1, <2>2
<1>2. CASE WorkerRead
  <2> USE <1>2 DEF WorkerRead
  <2>1. TypeOK'
    BY <1>0 DEF TypeOK, env, tunables, cache, tickVars
  <2>2. WithinLimits' /\ WorkerInv' /\ RequestServed'
    BY <1>0 DEF env, WithinLimits, WorkerInv, RequestServed, LimitsFixed
  <2> QED BY <1>0, <2>1, <2>2
<1>3. CASE WorkerTarget
  <2> USE <1>3 DEF WorkerTarget
  <2>1. worker_freq \in Int
    BY TableEnds DEF TypeOK
  <2>2. cur' \in Table /\ limits[1] <= cur' /\ cur' <= limits[2]
    BY <2>1, ScenarioFacts, ResolveType
  <2>3. TypeOK'
    BY <1>0, <2>2 DEF TypeOK, env, tunables, cache, tickVars
  <2>4. WithinLimits' /\ WorkerInv'
    BY <1>0, <2>2 DEF env, WithinLimits, WorkerInv, LimitsFixed
  <2>5. RequestServed'
    BY <1>0 DEF env, WorkerInv, RequestServed
  <2> QED BY <1>0, <2>3, <2>4, <2>5
<1> QED BY <1>1, <1>2, <1>3 DEF Worker

\* The stores of sysfs.
LEMMA StorePreserves ==
  ASSUME IInv,
         \/ soft_freq_max_store \/ soft_freq_min_store \/ soft_freq_cur_store
         \/ lse_gov_update_soft_limit_cpufreq \/ apply_freq_immediately_store
  PROVE  IInv'
<1> USE DEF IInv
<1>1. CASE soft_freq_max_store \/ soft_freq_min_store \/ soft_freq_cur_store
  <2> USE <1>1 DEF soft_freq_max_store, soft_freq_min_store,
                   soft_freq_cur_store, ThenApply
  <2>1. /\ soft_freq_max' \in scenario.soft \cup {None}
        /\ soft_freq_min' \in scenario.soft \cup {None}
        /\ store' \in {"out", "min", "apply"}
    BY DEF TypeOK
  <2>2. UNCHANGED <<env, cur, next_freq, apply_freq_immediately, workVars,
                    cache, tickVars>>
    OBVIOUS
  <2>3. TypeOK'
    BY <2>1, <2>2 DEF TypeOK, env, workVars, cache, tickVars
  <2>4. WithinLimits' /\ WorkerInv' /\ RequestServed'
    BY <2>2, Untouched DEF env
  <2>5. TickInv'
    BY <2>2 DEF TickInv, tickVars
  <2> QED BY <2>3, <2>4, <2>5
<1>2. CASE lse_gov_update_soft_limit_cpufreq
  <2> USE <1>2 DEF lse_gov_update_soft_limit_cpufreq
  <2> DEFINE target == resolve_freq(limits, Limited(next_freq))
  <2>1. request(target)
    OBVIOUS
  <2>2. target \in Table
    BY ScenarioFacts, LimitedType, ResolveType
  <2> HIDE DEF target
  <2>3. /\ next_freq' \in Table /\ cur' \in Table /\ work_pending' \in BOOLEAN
        /\ WithinLimits' /\ WorkerInv' /\ RequestServed'
    BY <2>1, <2>2, RequestStep DEF env
  <2>4. TypeOK'
    BY <2>3 DEF TypeOK, env, cache, tickVars
  <2>5. TickInv'
    BY DEF TickInv, tickVars
  <2> QED BY <2>3, <2>4, <2>5
<1>3. CASE apply_freq_immediately_store
  <2> USE <1>3 DEF apply_freq_immediately_store
  <2>1. TypeOK'
    BY DEF TypeOK, env, workVars, cache, tickVars
  <2>2. WithinLimits' /\ WorkerInv' /\ RequestServed'
    BY Untouched DEF env
  <2>3. TickInv'
    BY DEF TickInv, tickVars
  <2> QED BY <2>1, <2>2, <2>3
<1> QED BY <1>1, <1>2, <1>3

\* New limits, and the call of lse_gov_limits that applies them.
LEMMA LimitsPreserve ==
  ASSUME IInv, SetLimits \/ lse_gov_limits
  PROVE  IInv'
<1> USE DEF IInv
<1>1. CASE SetLimits
  <2> USE <1>1 DEF SetLimits
  <2>1. TypeOK'
    BY DEF TypeOK, tunables, workVars, cache, tickVars
  <2>2. ~LimitsFixed
    BY DEF TypeOK, LimitsFixed
  <2>3. WithinLimits' /\ WorkerInv' /\ RequestServed' /\ TickInv'
    BY <2>2 DEF WithinLimits, WorkerInv, RequestServed, LimitsFixed,
                TickInv, workVars, tickVars
  <2> QED BY <2>1, <2>3
<1>2. CASE lse_gov_limits
  <2> USE <1>2 DEF lse_gov_limits
  <2>1. /\ resolve_freq(limits, next_freq) \in Table
        /\ limits[1] <= resolve_freq(limits, next_freq)
        /\ resolve_freq(limits, next_freq) <= limits[2]
    BY ScenarioFacts, ResolveType
  <2>2. LET k == Clamp(cur, limits[1], limits[2])
        IN  k \in Table /\ limits[1] <= k /\ k <= limits[2]
    <3>1. limits[1] \in Table /\ limits[2] \in Table /\ limits[1] <= limits[2]
      BY ScenarioFacts
    <3>2. cur \in Table
      BY DEF TypeOK
    <3>3. Table \subseteq Nat
      BY TableEnds
    <3>4. \A x, lo, hi \in Nat : lo <= hi =>
            /\ Clamp(x, lo, hi) \in {x, lo, hi}
            /\ lo <= Clamp(x, lo, hi) /\ Clamp(x, lo, hi) <= hi
      BY DEF Clamp, AtMost, AtLeast
    <3>5. /\ Clamp(cur, limits[1], limits[2]) \in {cur, limits[1], limits[2]}
          /\ limits[1] <= Clamp(cur, limits[1], limits[2])
          /\ Clamp(cur, limits[1], limits[2]) <= limits[2]
      BY <3>1, <3>2, <3>3, <3>4
    <3> QED BY <3>1, <3>2, <3>5
  <2>3. cur' \in Table /\ limits[1] <= cur' /\ cur' <= limits[2]
    BY <2>1, <2>2
  <2>4. TypeOK'
    BY <2>3 DEF TypeOK, tunables, workVars, cache, tickVars
  <2>5. WithinLimits' /\ WorkerInv' /\ TickInv'
    BY <2>3 DEF WithinLimits, WorkerInv, LimitsFixed, TickInv, workVars,
                tickVars
  <2>6. RequestServed'
    BY DEF WorkerInv, RequestServed, LimitsFixed
  <2> QED BY <2>4, <2>5, <2>6
<1> QED BY <1>1, <1>2

\* A new window of lse_util_track.c.
LEMMA LoadPreserves ==
  ASSUME IInv, NEW c \in Cpus, NewLoad(c)
  PROVE  IInv'
<1> USE DEF IInv, NewLoad
<1>1. TypeOK'
  BY DEF TypeOK, tunables, workVars, cache, tickVars
<1>2. WithinLimits' /\ WorkerInv' /\ RequestServed'
  BY Untouched <1>3. TickInv'
  BY DEF TickInv, tickVars
<1> QED BY <1>1, <1>2, <1>3

\* Every step preserves the inductive invariant.
LEMMA IInvNext == IInv /\ [Next]_vars => IInv'
<1> SUFFICES ASSUME IInv, [Next]_vars PROVE IInv'
  OBVIOUS
<1>1. CASE UNCHANGED vars
  <2>1. WithinLimits' /\ WorkerInv' /\ RequestServed'
    BY <1>1, Untouched DEF vars, env
  <2>2. TypeOK' /\ TickInv'
    BY <1>1 DEF IInv, TypeOK, TickInv, vars, env, tunables, workVars,
                cache, tickVars
  <2> QED BY <2>1, <2>2 DEF IInv
<1> QED BY <1>1, RolloverPreserves, TickPreserves, TickLockedPreserves,
           WorkerPreserves, StorePreserves, LimitsPreserve, LoadPreserves
        DEF Next, Worker

\* What lse_gov_start finds in the caches is of the caches' types.
LEMMA CachesInit ==
  ASSUME Init
  PROVE  /\ cached_this_sum \in [Cpus -> Nat]
         /\ cached_agg_util \in [Cpus -> 0 .. SCHED_CAPACITY_SCALE]
<1>1. CASE /\ cached_this_sum = [c \in Cpus |-> 0]
           /\ cached_agg_util = [c \in Cpus |-> 0]
  BY <1>1 DEF SCHED_CAPACITY_SCALE
<1>2. ASSUME NEW old \in [Cpus -> [Cpus -> scenario.sums]],
             cached_this_sum = [c \in Cpus |-> old[c][c]],
             cached_agg_util = [c \in Cpus |-> cluster_util(old[c])]
      PROVE  /\ cached_this_sum \in [Cpus -> Nat]
             /\ cached_agg_util \in [Cpus -> 0 .. SCHED_CAPACITY_SCALE]
  <2>1. scenario.sums \subseteq Nat
    BY GovernorAssumption DEF Init
  <2>2. \A c \in Cpus : old[c] \in [Cpus -> Nat]
    BY <2>1
  <2>3. \A c \in Cpus : cluster_util(old[c]) \in 0 .. SCHED_CAPACITY_SCALE
    BY <2>2, AggregateType
  <2> QED BY <1>2, <2>2, <2>3
<1> QED BY <1>1, <1>2 DEF Init

\* The state that lse_gov_start leaves.
LEMMA IInvInit == Init => IInv
<1> SUFFICES ASSUME Init PROVE IInv
  OBVIOUS
<1>1. scenario \in Scenarios /\ limits \in scenario.limits
  BY DEF Init
<1>2. limits \in Table \X Table /\ limits[1] <= limits[2]
  BY <1>1, GovernorAssumption
<1>3. cur \in Table /\ limits[1] <= cur /\ cur <= limits[2]
  <2>1. /\ resolve_freq(limits, 0) \in Table
        /\ limits[1] <= resolve_freq(limits, 0)
        /\ resolve_freq(limits, 0) <= limits[2]
    BY <1>2, ResolveType
  <2> QED BY <2>1 DEF Init
<1>4. /\ cached_this_sum \in [Cpus -> Nat]
      /\ cached_agg_util \in [Cpus -> 0 .. SCHED_CAPACITY_SCALE]
  BY CachesInit
<1>5. TypeOK
  <2>1. /\ tick \in [Cpus -> {"out", "lock"}]
        /\ tick_freq \in [Cpus -> Table \cup {0}]
    BY DEF Init
  <2>2. /\ prev_runnable_sum \in [Cpus -> scenario.sums]
        /\ soft_freq_max \in scenario.soft \cup {None}
        /\ soft_freq_min \in scenario.soft \cup {None}
        /\ limits_pending \in BOOLEAN /\ apply_freq_immediately \in BOOLEAN
        /\ work_pending \in BOOLEAN
    BY DEF Init
  <2>3. /\ store \in {"out", "min", "apply"}
        /\ worker \in {"idle", "taken", "read"}
        /\ next_freq \in Table \cup {0} /\ worker_freq \in Table \cup {0}
    BY DEF Init
  <2> QED BY <1>1, <1>3, <1>4, <2>1, <2>2, <2>3 DEF TypeOK
<1>6. WithinLimits
  BY <1>3 DEF WithinLimits
<1>7. WorkerInv /\ RequestServed /\ TickInv
  BY DEF Init, WorkerInv, RequestServed, TickInv
<1> QED BY <1>5, <1>6, <1>7 DEF IInv

-----------------------------------------------------------------------------
\* The inductive invariant holds in every reachable state.
THEOREM Invariance == Spec => []IInv
  BY IInvInit, IInvNext, PTL DEF Spec

\* Every frequency the governor asks for or sets is one of the driver's table,
\* and no utilisation exceeds the capacity.
THEOREM TypeCorrect == Spec => []TypeOK
  BY Invariance, PTL DEF IInv

\* Once lse_gov_limits has returned, the hardware runs within the limits.
THEOREM LimitsKept == Spec => []WithinLimits
  BY Invariance, PTL DEF IInv

\* When the worker sleeps, the last request is served: always with fast
\* switching, and without it as long as the limits of the policy stay.
THEOREM RequestsServed == Spec => []RequestServed
  BY Invariance, PTL DEF IInv
=============================================================================
