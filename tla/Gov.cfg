\* Load, soft limits and limits change, with and without fast switching.
SPECIFICATION FairSpec
CONSTANTS
  Cpus = {0, 1}
  Table = {100, 200, 400}
  Window = 1024
  AggMode = "top2_avg"
  TlDynEnable = TRUE
  Scenarios <- AllChanges
INVARIANTS
  TypeOK
  RequestServed
  WithinLimits
PROPERTIES
  SoftLimitsPrevail
