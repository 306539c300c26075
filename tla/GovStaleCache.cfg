\* The load of two CPUs changes, then stays.
SPECIFICATION FairSpec
CONSTANTS
  Cpus = {0, 1}
  Table = {100, 200, 400}
  Window = 1024
  AggMode = "top2_avg"
  TlDynEnable = TRUE
  Scenarios <- LoadChanges
PROPERTIES
  CachedUtilCatchesUp
