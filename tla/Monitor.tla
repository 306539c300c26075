------------------------------- MODULE Monitor -------------------------------
(***************************************************************************)
(* The health monitor (lse_monitor.c): a heartbeat timer and a watchdog    *)
(* work that re-arm themselves, the touches that feed them from the ticks  *)
(* of all CPUs, and the sysctl files that switch them on and off.          *)
(*                                                                         *)
(* Times are relative: a timer is its distance in jiffies, the watchdog    *)
(* timestamp its age.  Ages stop at MaxAge, which is beyond every value    *)
(* they are compared with.                                                 *)
(***************************************************************************)
EXTENDS Integers

CONSTANTS
  TouchCpus,         \* the CPUs whose ticks call lse_monitor_touch
  HeartbeatPeriod,   \* LSE_HEARTBEAT_PERIOD_MS in jiffies
  WatchdogTimeout    \* LSE_WATCHDOG_TIMEOUT_MS in jiffies

ASSUME MonitorAssumption ==
  HeartbeatPeriod \in Nat \ {0} /\ WatchdogTimeout \in Nat \ {0}

VARIABLES
  heartbeat, heartbeat_enable, watchdog_enable,
  touch_now,          \* per CPU: age of the jiffies value lse_monitor_touch read
  watchdog_age,       \* jiffies - lse_watchdog_timestamp
  heartbeat_timer, watchdog_work,   \* jiffies until they expire, or Off
  heartbeat_pc, watchdog_pc,        \* where the two handlers are
  sync_pc,            \* lse_monitor_sync, called by the sysctls
  touch_age,          \* history: jiffies since a touch or a reset really ran
  unseen              \* history: jiffies a stall has gone unreported while the
                      \* watchdog was in force

monitorVars ==
  <<heartbeat, heartbeat_enable, watchdog_enable, touch_now, watchdog_age,
    heartbeat_timer, watchdog_work, heartbeat_pc, watchdog_pc, sync_pc,
    touch_age, unseen>>

Off == -1
NoTouch == -1
Half == IF WatchdogTimeout \div 2 > 1 THEN WatchdogTimeout \div 2 ELSE 1
MaxAge == WatchdogTimeout + Half + 2
Older(age) == IF age < MaxAge THEN age + 1 ELSE age

\* The watchdog is in force: it is switched on, and its work is queued or runs.
Watching == watchdog_enable /\ (watchdog_work # Off \/ watchdog_pc # "idle")

\* The history variable after a step that sees the stall, or does not.
Unseen(next) == unseen' = IF Watching' THEN next ELSE 0

-----------------------------------------------------------------------------
\* lse_monitor_touch reads jiffies once and stores it after the heartbeat.
\* It runs with interrupts off, so at most one jiffy passes meanwhile.

TouchBegin(c) ==
  /\ touch_now[c] = NoTouch
  /\ touch_now' = [touch_now EXCEPT ![c] = 0]
  /\ heartbeat' = TRUE
  /\ UNCHANGED <<heartbeat_enable, watchdog_enable, watchdog_age,
                 heartbeat_timer, watchdog_work, heartbeat_pc, watchdog_pc,
                 sync_pc, touch_age, unseen>>

TouchStamp(c) ==
  /\ touch_now[c] # NoTouch
  /\ watchdog_age' = touch_now[c]
  /\ touch_now' = [touch_now EXCEPT ![c] = NoTouch]
  /\ touch_age' = 0
  /\ unseen' = 0
  /\ UNCHANGED <<heartbeat, heartbeat_enable, watchdog_enable,
                 heartbeat_timer, watchdog_work, heartbeat_pc, watchdog_pc,
                 sync_pc>>

\* A write to /proc/lunar_sched_ext/reset_stats.
lse_monitor_reset_stats ==
  /\ heartbeat' = FALSE
  /\ watchdog_age' = 0
  /\ touch_age' = 0
  /\ unseen' = 0
  /\ UNCHANGED <<heartbeat_enable, watchdog_enable, touch_now,
                 heartbeat_timer, watchdog_work, heartbeat_pc, watchdog_pc,
                 sync_pc>>

\* The sysctl file "heartbeat" is writable as well.
WriteHeartbeat ==
  /\ heartbeat' \in BOOLEAN
  /\ UNCHANGED <<heartbeat_enable, watchdog_enable, touch_now, watchdog_age,
                 heartbeat_timer, watchdog_work, heartbeat_pc, watchdog_pc,
                 sync_pc, touch_age, unseen>>

-----------------------------------------------------------------------------
\* lse_heartbeat_timer_fn.

\* Mutant: the handler gives up after it has reported.
HeartbeatRearm_once ==
  heartbeat_timer' = IF heartbeat_pc = "clear" THEN HeartbeatPeriod ELSE Off

HeartbeatRearm == heartbeat_timer' = HeartbeatPeriod

HeartbeatStep ==
  /\ \/ /\ heartbeat_pc = "idle" /\ heartbeat_timer = 0
        /\ heartbeat_timer' = Off
        /\ heartbeat_pc' = "check"
        /\ UNCHANGED heartbeat
     \/ /\ heartbeat_pc = "check"
        /\ heartbeat_pc' = IF ~heartbeat_enable THEN "idle"
                           ELSE IF heartbeat THEN "clear" ELSE "dump"
        /\ UNCHANGED <<heartbeat, heartbeat_timer>>
     \/ /\ heartbeat_pc \in {"clear", "dump"}
        /\ heartbeat' = (heartbeat /\ heartbeat_pc # "clear")
        /\ HeartbeatRearm
        /\ heartbeat_pc' = "idle"
  /\ UNCHANGED <<heartbeat_enable, watchdog_enable, touch_now, watchdog_age,
                 watchdog_work, watchdog_pc, sync_pc, touch_age, unseen>>

-----------------------------------------------------------------------------
\* lse_watchdog_workfn.  queue_delayed_work does nothing if the work is queued.

\* Mutant: the comparison is not strict.
TimedOut_early == watchdog_age >= WatchdogTimeout

TimedOut == watchdog_age > WatchdogTimeout

\* Mutant: the work is delayed by the whole timeout.
WatchdogQueue_full(delay) ==
  watchdog_work' = IF watchdog_work = Off THEN WatchdogTimeout ELSE watchdog_work

\* Mutant: mod_delayed_work, which starts the delay again.
WatchdogQueue_mod(delay) == watchdog_work' = delay

WatchdogQueue(delay) ==
  watchdog_work' = IF watchdog_work = Off THEN delay ELSE watchdog_work

WatchdogStep ==
  /\ \/ /\ watchdog_pc = "idle" /\ watchdog_work = 0
        /\ watchdog_work' = Off
        /\ watchdog_pc' = "check"
     \/ /\ watchdog_pc = "check"
        /\ watchdog_pc' = IF ~watchdog_enable THEN "idle"
                          ELSE IF TimedOut THEN "dump" ELSE "requeue"
        /\ UNCHANGED watchdog_work
     \/ /\ watchdog_pc \in {"dump", "requeue"}
        /\ WatchdogQueue(Half)
        /\ watchdog_pc' = "idle"
  /\ UNCHANGED <<heartbeat, heartbeat_enable, watchdog_enable, touch_now,
                 watchdog_age, heartbeat_timer, heartbeat_pc, sync_pc,
                 touch_age>>
  /\ Unseen(IF watchdog_pc = "dump" THEN 0 ELSE unseen)

-----------------------------------------------------------------------------
\* lse_proc_monitor_toggle_update: one mutex for both files, so there is one
\* writer at a time; a write that does not change the value does nothing.

WriteSwitch ==
  /\ sync_pc = "idle"
  /\ \/ heartbeat_enable' = ~heartbeat_enable /\ UNCHANGED watchdog_enable
     \/ watchdog_enable' = ~watchdog_enable /\ UNCHANGED heartbeat_enable
  /\ sync_pc' = "heartbeat"
  /\ UNCHANGED <<heartbeat, touch_now, watchdog_age, heartbeat_timer,
                 watchdog_work, heartbeat_pc, watchdog_pc, touch_age>>
  /\ Unseen(unseen)

\* Mutant: del_timer, which does not wait for the handler.
DelTimer == heartbeat_timer' = Off

\* del_timer_sync and cancel_delayed_work_sync wait for a handler that runs.
DelTimerSync == heartbeat_pc = "idle" /\ heartbeat_timer' = Off

CancelWorkSync == watchdog_pc = "idle" /\ watchdog_work' = Off

\* lse_monitor_sync.  The mutex keeps the switches still meanwhile.
SyncHeartbeat ==
  /\ sync_pc = "heartbeat"
  /\ IF heartbeat_enable THEN heartbeat_timer' = HeartbeatPeriod
                         ELSE DelTimerSync
  /\ sync_pc' = "watchdog"
  /\ UNCHANGED <<heartbeat, heartbeat_enable, watchdog_enable, touch_now,
                 watchdog_age, watchdog_work, heartbeat_pc, watchdog_pc,
                 touch_age, unseen>>

SyncWatchdog ==
  /\ sync_pc = "watchdog"
  /\ IF watchdog_enable THEN WatchdogQueue(Half) ELSE CancelWorkSync
  /\ sync_pc' = "idle"
  /\ UNCHANGED <<heartbeat, heartbeat_enable, watchdog_enable, touch_now,
                 watchdog_age, heartbeat_timer, heartbeat_pc, watchdog_pc,
                 touch_age>>
  /\ Unseen(unseen)

-----------------------------------------------------------------------------
\* A jiffy passes.  Timers and work that are due run before the next one.
JiffyTick ==
  /\ heartbeat_timer # 0 /\ heartbeat_pc = "idle"
  /\ watchdog_work # 0 /\ watchdog_pc = "idle"
  /\ \A c \in TouchCpus : touch_now[c] # 1
  /\ heartbeat_timer' = IF heartbeat_timer = Off THEN Off ELSE heartbeat_timer - 1
  /\ watchdog_work' = IF watchdog_work = Off THEN Off ELSE watchdog_work - 1
  /\ touch_now' = [c \in TouchCpus |->
                     IF touch_now[c] = NoTouch THEN NoTouch ELSE 1]
  /\ watchdog_age' = Older(watchdog_age)
  /\ touch_age' = Older(touch_age)
  /\ UNCHANGED <<heartbeat, heartbeat_enable, watchdog_enable, heartbeat_pc,
                 watchdog_pc, sync_pc>>
  /\ Unseen(Older(unseen))

\* The state lse_monitor_init leaves, once lse_sysctl_init has returned: the
\* switches are off, so its lse_monitor_sync has nothing to do.
MonitorInit ==
  /\ heartbeat = FALSE
  /\ heartbeat_enable = FALSE /\ watchdog_enable = FALSE
  /\ touch_now = [c \in TouchCpus |-> NoTouch]
  /\ watchdog_age = 0
  /\ heartbeat_timer = Off /\ watchdog_work = Off
  /\ heartbeat_pc = "idle" /\ watchdog_pc = "idle"
  /\ sync_pc = "idle"
  /\ touch_age = 0
  /\ unseen = 0

MonitorNext ==
  \/ \E c \in TouchCpus : TouchBegin(c) \/ TouchStamp(c)
  \/ lse_monitor_reset_stats \/ WriteHeartbeat
  \/ HeartbeatStep \/ WatchdogStep
  \/ WriteSwitch \/ SyncHeartbeat \/ SyncWatchdog
  \/ JiffyTick

MonitorSpec == MonitorInit /\ [][MonitorNext]_monitorVars

\* What the hardware and the kernel threads never stop doing.
MonitorProgress ==
  JiffyTick \/ HeartbeatStep \/ WatchdogStep
            \/ \E c \in TouchCpus : TouchStamp(c)

-----------------------------------------------------------------------------
\* Properties.

MonitorTypeOK ==
  /\ {heartbeat, heartbeat_enable, watchdog_enable} \subseteq BOOLEAN
  /\ touch_now \in [TouchCpus -> NoTouch .. 1]
  /\ {watchdog_age, touch_age, unseen} \subseteq 0 .. MaxAge
  /\ heartbeat_timer \in Off .. HeartbeatPeriod
  /\ watchdog_work \in Off .. Half
  /\ heartbeat_pc \in {"idle", "check", "clear", "dump"}
  /\ watchdog_pc \in {"idle", "check", "dump", "requeue"}
  /\ sync_pc \in {"idle", "heartbeat", "watchdog"}

\* When no lse_monitor_sync is under way, a switch that is on means a handler
\* that runs or will run, and one that is off means that none ever will:
\* whatever the handlers were doing when the switches were written.
TimersFollowSwitches ==
  sync_pc = "idle" =>
    /\ heartbeat_enable = (heartbeat_timer # Off \/ heartbeat_pc # "idle")
    /\ watchdog_enable = (watchdog_work # Off \/ watchdog_pc # "idle")

\* lse_watchdog_workfn reports only a stall: however late a touch on one CPU
\* overwrites the timestamp of another, no CPU has touched for the timeout.
WatchdogTruthful ==
  [][watchdog_pc # "dump" /\ watchdog_pc' = "dump" =>
       touch_age >= WatchdogTimeout]_monitorVars

\* A stall is reported within one and a half timeouts of the last touch or of
\* the watchdog being switched on, however the other switch is toggled.
StallReported == unseen <= WatchdogTimeout + Half

\* Once nothing touches any more and nobody writes the switches, the heartbeat
\* timer goes on reporting the stall.
HeartbeatReports ==
  <>[](heartbeat_enable /\ ~heartbeat /\ sync_pc = "idle") =>
    []<>(heartbeat_pc = "dump")
=============================================================================
