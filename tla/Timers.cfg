\* Two touching CPUs; a watchdog timeout of four jiffies; two
\* CPUs with shadow ticks.
SPECIFICATION Spec
CONSTANTS
  TouchCpus = {0, 1}
  HeartbeatPeriod = 1
  WatchdogTimeout = 4
  ShadowCpus = {c1, c2}
  NoCpu = NoCpu
  Sysctl = Sysctl
INVARIANTS
  TypeOK
  TimersFollowSwitches
  StallReported
  TimerFollowsPrev
PROPERTIES
  WatchdogTruthful
  HeartbeatReports
  ShadowTickEnds
