\* CPU 1 may go idle for good, without a tick; CPU 0 keeps ticking.
SPECIFICATION IdleSpec
CONSTANTS
  N = 2
  HotplugCpus = {}
  InitWindow = 3
  Windows = {3}
  TickLead = 1
  MaxHold = 1
  MaxClock = 7
PROPERTIES
  RolloverCatchesUp
