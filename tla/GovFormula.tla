----------------------------- MODULE GovFormula -----------------------------
(***************************************************************************)
(* The arithmetic of the frequency governor (cpufreq_lse.c): from the busy *)
(* time of the CPUs of a policy to the frequency it asks for.  The values  *)
(* set by lse_gov_start are the ones the code uses; frequencies and window *)
(* are scaled down by the instance.                                        *)
(***************************************************************************)
EXTENDS Integers, FiniteSetsExt

CONSTANTS
  Cpus,               \* policy->cpus
  Table,              \* the frequencies of the driver's table
  Window,             \* lse_sched_ravg_window, also policy's cluster_window_ns
  AggMode,            \* cluster_agg_mode: "top2_avg" or "max"
  TlDynEnable         \* cluster_tl_dyn_enable

ASSUME FormulaAssumption ==
  /\ IsFiniteSet(Cpus) /\ Cpus # {}
  /\ IsFiniteSet(Table) /\ Table # {} /\ Table \subseteq Nat \ {0}
  /\ Window \in Nat /\ Window > 1    \* in ns: 70% of it is not zero
  /\ AggMode \in {"top2_avg", "max"}
  /\ TlDynEnable \in BOOLEAN

SCHED_CAPACITY_SCALE == 1024
DEFAULT_TARGET_LOAD == 90
target_load_min == 70
target_load_max == 95
target_load_step == 2
min_freq == Min(Table)          \* policy->cpuinfo.min_freq
max_freq == Max(Table)          \* policy->cpuinfo.max_freq
None == -1                      \* a soft limit that is not set

AtMost(a, b) == IF a <= b THEN a ELSE b
AtLeast(a, b) == IF a >= b THEN a ELSE b
CeilDiv(a, b) == (a + b - 1) \div b
Clamp(v, lo, hi) == AtMost(AtLeast(v, lo), hi)

\* The two largest values of f, the second one 0 if there is only one.
top1(f) == Max({f[c] : c \in Cpus})
top2(f) == LET first == CHOOSE c \in Cpus : f[c] = top1(f)
           IN Max({0} \cup {f[c] : c \in Cpus \ {first}})

\* Busy time as a utilisation.
to_util(sum) == AtMost((sum * SCHED_CAPACITY_SCALE) \div Window,
                       SCHED_CAPACITY_SCALE)

\* lse_top2_avg_util, of the rollover path.
lse_top2_avg_util(sums) ==
  LET util == [c \in Cpus |-> to_util(sums[c])]
  IN IF Cardinality(Cpus) = 1 THEN top1(util)
                              ELSE (top1(util) + top2(util)) \div 2

\* The busy time lsegov_update_freq hands to lse_gov_update_cpufreq.
rollover_sum(sums) ==
  IF AggMode = "top2_avg"
  THEN (lse_top2_avg_util(sums) * Window) \div SCHED_CAPACITY_SCALE
  ELSE top1(sums)

\* The full traversal of lse_gov_cluster_util, of the tick path.
cluster_util(sums) ==
  to_util(IF AggMode = "top2_avg" THEN (top1(sums) + top2(sums)) \div 2
                                  ELSE top1(sums))

lse_compute_power_pressure(cur, agg_util) ==
  AtMost(((cur * 1024) \div max_freq + agg_util) \div 2, 1024)

\* target_load_base is never changed after lse_gov_start.
lse_dynamic_target_load(cur, agg_util) ==
  LET tl == Clamp(DEFAULT_TARGET_LOAD, target_load_min, target_load_max)
      pressure == lse_compute_power_pressure(cur, agg_util)
      moved == CASE /\ pressure > 850
                    /\ tl + target_load_step <= target_load_max
                      -> tl + target_load_step
                 [] /\ pressure < 450
                    /\ tl > target_load_min + target_load_step
                      -> tl - target_load_step
                 [] OTHER -> tl
  IN IF TlDynEnable THEN Clamp(moved, target_load_min, target_load_max) ELSE tl

\* cur * agg_util / target_load, in both paths.
scaled_freq(cur, agg_util) ==
  LET f == (cur * agg_util)
              \div AtLeast(lse_dynamic_target_load(cur, agg_util), 1)
  IN IF f = 0 THEN min_freq ELSE f

\* get_next_freq, of the rollover path; legacy is gov_legacy_formula_enable.
\* The capacity of the CPU is 1024.
get_next_freq(legacy, cur, sum) ==
  LET agg_util == to_util(sum)
      window_size_tl ==
        (Window * lse_dynamic_target_load(cur, agg_util)) \div 100
      divisor == CeilDiv(window_size_tl * SCHED_CAPACITY_SCALE, cur)
  IN IF legacy THEN CeilDiv(sum * SCHED_CAPACITY_SCALE, divisor)
               ELSE scaled_freq(cur, agg_util)

\* soft_freq_clamp: the soft minimum, then the soft maximum, then the caps of
\* the cluster, which are the limits of the hardware.
soft_freq_clamp(soft_max, soft_min, f) ==
  LET up == IF soft_min >= 0 /\ soft_min > f THEN soft_min ELSE f
      down == IF soft_max >= 0 /\ soft_max < up THEN soft_max ELSE up
  IN AtLeast(AtMost(down, max_freq), min_freq)

\* External: cpufreq_driver_resolve_freq, and what the driver switches to.  The
\* target is clamped to the policy's limits, then rounded up to the table.
resolve_freq(limits, f) ==
  Min({t \in Table : t >= Clamp(f, limits[1], limits[2])})
=============================================================================
