\* Two CPUs and two tasks that migrate; fixed window, full frequency.
SPECIFICATION Spec
CONSTANTS
  N = 2
  Tasks = {a, b}
  InitWindow = 2
  Windows = {2}
  RAVG_HIST_SIZE = 2
  SCHED_CAPACITY_SCALE = 1
  MaxFreq = 1
  Freqs = {1}
  Policies = {"max_recent_avg"}
  Controls = {TRUE}
  MaxClock = 7
SYMMETRY Symmetry
INVARIANTS
  CpuBusyExact
  TaskHistoryExact
