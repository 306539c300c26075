\* The size shrinks while another CPU is between its update and its check.
SPECIFICATION Spec
CONSTANTS
  N = 2
  HotplugCpus = {}
  InitWindow = 5
  Windows = {3, 5}
  TickLead = 1
  MaxHold = 1
  MaxClock = 12
INVARIANTS
  NoLseBug
