\* Window sizes change, CPU 1 comes and goes, and lock sections may
\* outlast the lead of the first window.
SPECIFICATION Spec
CONSTANTS
  N = 2
  HotplugCpus = {1}
  InitWindow = 4
  Windows = {2, 4}
  TickLead = 0
  MaxHold = 1
  MaxClock = 7
INVARIANTS
  TokenHeld
PROPERTIES
  LastqAdvances
  ImplementsClock
CHECK_DEADLOCK FALSE
