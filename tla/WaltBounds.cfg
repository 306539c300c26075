\* Frequency, window size, policy and tracking change at any time.
SPECIFICATION Spec
CONSTANTS
  N = 1
  Tasks = {a, b}
  InitWindow = 2
  Windows = {2, 4}
  RAVG_HIST_SIZE = 2
  SCHED_CAPACITY_SCALE = 2
  MaxFreq = 2
  Freqs = {1, 2}
  Policies = {"max_recent_avg", "avg"}
  Controls = {TRUE, FALSE}
  MaxClock = 5
SYMMETRY Symmetry
VIEW BoundsView
INVARIANTS
  TypeOK
  BusyWithinWindow
  UtilWithinCapacity
  DemandWithinWindow
