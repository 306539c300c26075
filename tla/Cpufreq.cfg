\* Four CPUs in up to four clusters; the governor of two policies.  A machine
\* without policies never does anything, so deadlock is not checked;
\* OperationsFinish shows that no operation gets stuck.
CHECK_DEADLOCK FALSE
SPECIFICATION Spec
CONSTANTS
  NrCpus = 4
  Machines <- AllMachines
  Freqs = {1, 2}
  Policies = {p1, p2}
  NoPolicy = NoPolicy
INVARIANTS
  TypeOK
  ListMatchesTopology
  ClusterFollowsPolicy
  RolloverUsesLive
  TickUsesLive
  WorkAndStoreUseLive
  DownIsClean
PROPERTIES
  OperationsFinish
