\* Fixed window size, all CPUs stay online and keep ticking.
SPECIFICATION FairSpec
CONSTANTS
  N = 2
  HotplugCpus = {}
  InitWindow = 3
  Windows = {3}
  TickLead = 1
  MaxHold = 1
  MaxClock = 7
INVARIANTS
  TypeOK
  NoLseBug
  WindowsAligned
PROPERTIES
  RolloverCatchesUp
