\* A sysctl is switched off and on, or tasks come, go and change their class;
\* the hook runs before or after the switch.
SPECIFICATION Spec
CONSTANTS
  N = 2
  t1 = t1
  t2 = t2
  t3 = t3
  NoTask = NoTask
  Tasks <- Pair
  Scenarios <- ToggledOrRelabelled
  Deadline <- MCDeadline
  ScanInterval = 0
  MaxNr = 1
SYMMETRY Symmetry
INVARIANTS
  TypeOK
  OnDsqIffQueued
  DepthExact
  DequeueLocksItsQueue
  UrgencyNeedsBacklog
  
  FreedTasksUnlinked
PROPERTIES
  StarvationReported
