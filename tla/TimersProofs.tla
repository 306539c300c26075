---------------------------- MODULE TimersProofs ----------------------------
(***************************************************************************)
(* Proofs about the two components that live on timers: Monitor, for any   *)
(* number of CPUs that touch it, any period of the heartbeat and any       *)
(* timeout of the watchdog; and ShadowTick, for any set of CPUs.           *)
(***************************************************************************)
EXTENDS MCTimers, TLAPS

-----------------------------------------------------------------------------
\* Monitor: the inductive invariant.

\* lse_monitor_sync settles the heartbeat first, then the watchdog.
SwitchInv ==
  /\ sync_pc \in {"idle", "watchdog"} =>
       (heartbeat_enable <=> heartbeat_timer # Off \/ heartbeat_pc # "idle")
  /\ sync_pc = "idle" =>
       (watchdog_enable <=> watchdog_work # Off \/ watchdog_pc # "idle")

\* The timestamp is at most one jiffy older than the touch that wrote it, and
\* no stall is longer than the timestamp is old.
AgeInv == watchdog_age <= touch_age + 1 /\ unseen <= watchdog_age

\* The time a stall has gone unseen and the time to the next check add up to
\* no more than the bound.
StallInv ==
  /\ ~Watching => unseen = 0
  /\ Watching /\ watchdog_pc = "idle" =>
       unseen + watchdog_work <= WatchdogTimeout + Half
  /\ watchdog_pc = "requeue" => unseen <= WatchdogTimeout
  /\ unseen <= WatchdogTimeout + Half

MonitorInv == MonitorTypeOK /\ SwitchInv /\ AgeInv /\ StallInv

\* Half the timeout, in jiffies, and at least one.
LEMMA HalfLemma == Half \in Nat \ {0} /\ MaxAge \in Nat
  BY MonitorAssumption DEF Half, MaxAge

\* The state lse_monitor_init leaves.
LEMMA MonitorInvInit == MonitorInit => MonitorInv
<1> SUFFICES ASSUME MonitorInit PROVE MonitorInv
  OBVIOUS
<1> USE HalfLemma, MonitorAssumption DEF MonitorInit, Off, NoTouch
<1>1. /\ {heartbeat, heartbeat_enable, watchdog_enable} \subseteq BOOLEAN
      /\ {watchdog_age, touch_age, unseen} = {0}
  OBVIOUS
<1>2. MonitorTypeOK
  BY <1>1 DEF MonitorTypeOK
<1>3. SwitchInv /\ AgeInv /\ StallInv
  BY DEF SwitchInv, AgeInv, StallInv, Watching
<1> QED BY <1>2, <1>3 DEF MonitorInv

\* Every step of the monitor preserves it: a step of a touch, of one of the two
\* handlers, of a write to a switch and its lse_monitor_sync, and a jiffy.
LEMMA MonitorInvNext == MonitorInv /\ [MonitorNext]_monitorVars => MonitorInv'
<1> SUFFICES ASSUME MonitorInv, [MonitorNext]_monitorVars PROVE MonitorInv'
  OBVIOUS
<1> USE HalfLemma, MonitorAssumption DEF MonitorInv, Off, NoTouch
<1>t. /\ heartbeat \in BOOLEAN /\ heartbeat_enable \in BOOLEAN
      /\ watchdog_enable \in BOOLEAN
      /\ watchdog_age \in 0 .. MaxAge /\ touch_age \in 0 .. MaxAge
      /\ unseen \in 0 .. MaxAge
  BY DEF MonitorTypeOK
<1>1. ASSUME NEW c \in TouchCpus, TouchBegin(c) PROVE MonitorInv'
  BY <1>1 DEF TouchBegin, MonitorTypeOK, SwitchInv, AgeInv, StallInv, Watching
<1>2. ASSUME NEW c \in TouchCpus, TouchStamp(c) PROVE MonitorInv'
  BY <1>2 DEF TouchStamp, MaxAge, MonitorTypeOK, SwitchInv, AgeInv, StallInv,
              Watching
<1>3. CASE lse_monitor_reset_stats
  <2> USE <1>3 DEF lse_monitor_reset_stats
  <2>1. MonitorTypeOK'
    <3>1. {heartbeat', heartbeat_enable', watchdog_enable'} \subseteq BOOLEAN
      BY <1>t
    <3>2. {watchdog_age', touch_age', unseen'} \subseteq 0 .. MaxAge
      OBVIOUS
    <3> QED BY <3>1, <3>2 DEF MonitorTypeOK
  <2>2. SwitchInv' /\ AgeInv'
    BY <1>t DEF SwitchInv, AgeInv
  <2>3. StallInv'
    BY <1>t DEF StallInv, Watching, MonitorTypeOK
  <2> QED BY <2>1, <2>2, <2>3
<1>4. CASE WriteHeartbeat
  BY <1>4 DEF WriteHeartbeat, MonitorTypeOK, SwitchInv, AgeInv, StallInv,
              Watching
<1>5. CASE HeartbeatStep
  <2> USE <1>5 DEF HeartbeatStep, HeartbeatRearm
  <2>1. heartbeat' \in BOOLEAN
    BY <1>t
  <2>2. heartbeat_pc' \in {"idle", "check", "clear", "dump"}
    BY DEF MonitorTypeOK
  <2>3. heartbeat_timer' \in Off .. HeartbeatPeriod
    BY DEF MonitorTypeOK
  <2>4. MonitorTypeOK'
    BY <2>1, <2>2, <2>3, <1>t DEF MonitorTypeOK
  <2>5. SwitchInv'
    BY <1>t DEF SwitchInv, MonitorTypeOK
  <2>6. AgeInv' /\ StallInv'
    BY DEF AgeInv, StallInv, Watching
  <2> QED BY <2>4, <2>5, <2>6
<1>6. CASE WatchdogStep
  <2> USE <1>6 DEF WatchdogStep, WatchdogQueue
  <2>1. watchdog_work' \in Off .. Half
    BY DEF MonitorTypeOK
  <2>2. watchdog_pc' \in {"idle", "check", "dump", "requeue"}
    BY DEF MonitorTypeOK
  <2>3. unseen' \in {0, unseen}
    BY DEF Unseen
  <2>4. MonitorTypeOK'
    BY <2>1, <2>2, <2>3, <1>t DEF MonitorTypeOK
  <2>5. SwitchInv'
    BY <1>t DEF SwitchInv, MonitorTypeOK
  <2>6. AgeInv'
    BY <2>3, <1>t DEF AgeInv
  <2>7. StallInv'
    <3>1. CASE watchdog_pc = "idle"
      BY <3>1, <1>t DEF Unseen, StallInv, Watching, MonitorTypeOK
    <3>2. CASE watchdog_pc = "check"
      BY <3>2, <1>t DEF Unseen, StallInv, Watching, MonitorTypeOK, TimedOut,
                        AgeInv
    <3>3. CASE watchdog_pc \in {"dump", "requeue"}
      BY <3>3, <1>t DEF Unseen, StallInv, Watching, MonitorTypeOK
    <3> QED BY <3>1, <3>2, <3>3
  <2> QED BY <2>4, <2>5, <2>6, <2>7
<1>7. CASE WriteSwitch
  <2> USE <1>7 DEF WriteSwitch
  <2>1. heartbeat_enable' \in BOOLEAN /\ watchdog_enable' \in BOOLEAN
    BY <1>t
  <2>2. unseen' \in {0, unseen} /\ (~Watching' => unseen' = 0)
    BY DEF Unseen
  <2>3. MonitorTypeOK'
    BY <2>1, <2>2, <1>t DEF MonitorTypeOK
  <2>4. SwitchInv' /\ AgeInv'
    BY <2>2, <1>t DEF SwitchInv, AgeInv
  <2>5. StallInv'
    <3>1. CASE watchdog_enable' = watchdog_enable
      BY <3>1, <1>t DEF StallInv, Watching, Unseen
    <3>2. CASE watchdog_enable' # watchdog_enable
      <4>1. unseen = 0 \/ ~Watching'
        BY <3>2 DEF StallInv, Watching
      <4>2. unseen' = 0
        BY <4>1, <2>2
      <4> QED BY <4>2, <1>t DEF StallInv, Watching, MonitorTypeOK
    <3> QED BY <3>1, <3>2
  <2> QED BY <2>3, <2>4, <2>5
<1>8. CASE SyncHeartbeat
  BY <1>8 DEF SyncHeartbeat, DelTimerSync, MonitorTypeOK, SwitchInv, AgeInv,
              StallInv, Watching
<1>9. CASE SyncWatchdog
  BY <1>9 DEF SyncWatchdog, WatchdogQueue, CancelWorkSync, MonitorTypeOK,
              SwitchInv, AgeInv, StallInv, Watching, Unseen
<1>10. CASE JiffyTick
  BY <1>10 DEF JiffyTick, Older, MaxAge, MonitorTypeOK, SwitchInv, AgeInv,
               StallInv, Watching, Unseen
<1>11. CASE UNCHANGED monitorVars
  BY <1>11 DEF monitorVars, MonitorTypeOK, SwitchInv, AgeInv, StallInv, Watching
<1> QED BY <1>1, <1>2, <1>3, <1>4, <1>5, <1>6, <1>7, <1>8, <1>9, <1>10, <1>11
        DEF MonitorNext

-----------------------------------------------------------------------------
\* The inductive invariant holds in every reachable state.
THEOREM MonitorInvariance == MonitorSpec => []MonitorInv
  BY MonitorInvInit, MonitorInvNext, PTL DEF MonitorSpec

\* Once lse_monitor_sync has returned, a handler runs or will run exactly if
\* its switch is on.
THEOREM SwitchesObeyed == MonitorSpec => []TimersFollowSwitches
<1>1. MonitorInv => TimersFollowSwitches
  BY DEF MonitorInv, MonitorTypeOK, SwitchInv, TimersFollowSwitches
<1> QED BY <1>1, MonitorInvariance, PTL

\* lse_watchdog_workfn reports a stall only if nothing touched for the timeout.
THEOREM NoFalseAlarm == MonitorSpec => WatchdogTruthful
<1>1. MonitorInv /\ [MonitorNext]_monitorVars =>
        [watchdog_pc # "dump" /\ watchdog_pc' = "dump" =>
           touch_age >= WatchdogTimeout]_monitorVars
  BY MonitorAssumption
  DEF MonitorInv, MonitorTypeOK, AgeInv, MonitorNext, TouchBegin, TouchStamp,
      lse_monitor_reset_stats, WriteHeartbeat, HeartbeatStep, WatchdogStep, TimedOut,
      WriteSwitch, SyncHeartbeat, SyncWatchdog, JiffyTick
<1> QED BY <1>1, MonitorInvariance, PTL DEF MonitorSpec, WatchdogTruthful

\* A stall is reported within one and a half timeouts.
THEOREM StallsReported == MonitorSpec => []StallReported
<1>1. MonitorInv => StallReported
  BY DEF MonitorInv, StallInv, StallReported
<1> QED BY <1>1, MonitorInvariance, PTL

-----------------------------------------------------------------------------
\* ShadowTick: the inductive invariant.

\* A callback occupies the CPU it runs on, so a CPU runs one at a time.
RunInv ==
  /\ \A t \in ShadowCpus : running[t] # NoCpu =>
       shadow_pc[running[t]] \in {"restart", "norestart"}
  /\ \A t, u \in ShadowCpus :
       running[t] = running[u] /\ running[t] # NoCpu => t = u

\* No sysctl write is under way or comes between the hooks that count: what
\* one of them has decided is still right when it acts.
HookInv(c) ==
  /\ shadow_pc[Sysctl] = "out" /\ slim_walt_ctrl
  /\ shadow_pc[c] \in {"cancel", "cancelled"} => ~WantsTick(c)
  /\ shadow_pc[c] = "cancelled" => queued[c] = NoCpu /\ running[c] = NoCpu

\* What the CPU's last hook decided, once one of them has cancelled its timer.
Settled(c) == own[c] \in {"busy", "idle"}
Decided(c) == highres_tick_ctrl /\ own[c] = "busy"

\* Once the CPU's own hook has cancelled the timer, it is on that CPU's base
\* or nowhere, and armed differs from it only inside a hook.
OwnInv(c) ==
  /\ shadow_pc[c] \in {"update", "arm", "armed", "cancel", "cancelled"} =>
       own[c] = Seen(c)
  /\ queued[c] \in {c, NoCpu} /\ running[c] \in {c, NoCpu}
  /\ shadow_pc[c] = "norestart" => ~highres_tick_ctrl
  /\ shadow_pc[c] \in {"out", "restart", "norestart"} =>
       (armed[c] <=> Decided(c))
  /\ shadow_pc[c] \in {"out", "restart", "norestart", "update", "cancel"} =>
       (armed[c] <=> queued[c] # NoCpu \/ running[c] # NoCpu)
  /\ shadow_pc[c] \in {"arm", "armed"} => WantsTick(c)
  /\ shadow_pc[c] = "arm" => queued[c] = NoCpu /\ running[c] = NoCpu
  /\ shadow_pc[c] = "armed" => queued[c] = c

CpuInv ==
  \A c \in ShadowCpus : /\ own[c] # "no" => HookInv(c)
                        /\ Settled(c) => OwnInv(c)

ShadowInv == ShadowTypeOK /\ RunInv /\ CpuInv

-----------------------------------------------------------------------------
\* Every step keeps the types: a timer is on an online CPU or on none.
LEMMA ShadowTypePreserved ==
  ASSUME ShadowTypeOK, [ShadowNext]_shadowVars
  PROVE  ShadowTypeOK'
<1> USE ShadowAssumption
    DEF ShadowTypeOK, Threads, ShadowGoto, TimerOf, Return, Seen
<1>0. ASSUME NEW p \in Threads, HookReturns(p)
      PROVE  /\ curr_idle' \in [ShadowCpus -> BOOLEAN]
             /\ own' \in [ShadowCpus -> {"no", "hook", "busy", "idle"}]
  <2>1. CASE shadow_pc'[p] = "out"
    <3>1. curr_idle' \in [ShadowCpus -> BOOLEAN]
      BY <1>0, <2>1 DEF HookReturns
    <3>2. own' \in [ShadowCpus -> {"no", "hook", "busy", "idle"}]
      BY <1>0, <2>1 DEF HookReturns
    <3> QED BY <3>1, <3>2
  <2> QED BY <1>0, <2>1 DEF HookReturns
<1>1. ASSUME NEW c \in ShadowCpus, UpdateCpu(c) PROVE ShadowTypeOK'
  <2>1. Decide(c, "out") \in {"out", "arm", "cancel"}
    BY DEF Decide
  <2>2. /\ curr_idle' \in [ShadowCpus -> BOOLEAN]
        /\ own' \in [ShadowCpus -> {"no", "hook", "busy", "idle"}]
    BY <1>0, <1>1 DEF UpdateCpu
  <2> QED BY <1>1, <2>1, <2>2 DEF UpdateCpu
<1>2. ASSUME NEW p \in Threads, hrtimer_start(p) PROVE ShadowTypeOK'
  <2> PICK c \in ShadowCpus :
        queued' = [queued EXCEPT ![TimerOf(p)] =
                     IF running[TimerOf(p)] = NoCpu THEN c
                                                    ELSE running[TimerOf(p)]]
    BY <1>2 DEF hrtimer_start
  <2>1. queued' \in [ShadowCpus -> ShadowCpus \cup {NoCpu}]
    OBVIOUS
  <2> QED BY <1>2, <2>1 DEF hrtimer_start
<1>3. ASSUME NEW p \in Threads, StartDone(p) PROVE ShadowTypeOK'
  <2>1. /\ curr_idle' \in [ShadowCpus -> BOOLEAN]
        /\ own' \in [ShadowCpus -> {"no", "hook", "busy", "idle"}]
    BY <1>0, <1>3 DEF StartDone
  <2> QED BY <1>3, <2>1 DEF StartDone
<1>4. ASSUME NEW p \in Threads, hrtimer_cancel(p) PROVE ShadowTypeOK'
  BY <1>4 DEF hrtimer_cancel
<1>5. ASSUME NEW p \in Threads, StopDone(p) PROVE ShadowTypeOK'
  <2>1. /\ curr_idle' \in [ShadowCpus -> BOOLEAN]
        /\ own' \in [ShadowCpus -> {"no", "hook", "busy", "idle"}]
    BY <1>0, <1>5 DEF StopDone
  <2> QED BY <1>5, <2>1 DEF StopDone
<1>6. ASSUME NEW c \in ShadowCpus, CallbackReturn(c) PROVE ShadowTypeOK'
  BY <1>6 DEF CallbackReturn
<1>7. ASSUME NEW c \in ShadowCpus, NEW t \in ShadowCpus, Callback(c, t)
      PROVE  ShadowTypeOK'
  BY <1>7 DEF Callback
<1>8. ASSUME NEW c \in ShadowCpus, Schedule(c) PROVE ShadowTypeOK'
  <2>1. curr_idle' \in [ShadowCpus -> BOOLEAN]
    BY <1>8 DEF Schedule
  <2>2. own' \in [ShadowCpus -> {"no", "hook", "busy", "idle"}]
    BY <1>8 DEF Schedule
  <2> QED BY <1>8, <2>1, <2>2 DEF Schedule
<1>9. CASE WriteShadowTick
  BY <1>9 DEF WriteShadowTick
<1>10. CASE SyncNext
  <2> PICK t \in todo : ShadowGoto(Sysctl, "next", Decide(t, "next"))
                        /\ target' = t /\ todo' = todo \ {t}
    BY <1>10 DEF SyncNext
  <2>1. Decide(t, "next") \in {"next", "arm", "cancel"}
    BY DEF Decide
  <2> QED BY <1>10, <2>1 DEF SyncNext
<1>11. CASE SyncEnd
  BY <1>11 DEF SyncEnd
<1>12. CASE WriteWaltCtrl
  BY <1>12 DEF WriteWaltCtrl
<1>13. CASE UNCHANGED shadowVars
  BY <1>13 DEF shadowVars
<1> QED BY <1>1, <1>2, <1>3, <1>4, <1>5, <1>6, <1>7, <1>8, <1>9, <1>10, <1>11,
           <1>12, <1>13
        DEF ShadowNext, IrqOffStep, TimerStep, TimerFires

\* The steps of a sysctl that is under way keep the invariant: until it is
\* complete no hook counts.
LEMMA SysctlPreserves ==
  ASSUME ShadowInv, TimerStep(Sysctl) \/ SyncNext \/ SyncEnd
  PROVE  RunInv' /\ CpuInv'
<1> USE ShadowAssumption
<1>1. /\ shadow_pc[Sysctl] # "out"
      /\ UNCHANGED <<running, slim_walt_ctrl, highres_tick_ctrl, curr_idle, own>>
      /\ \A c \in ShadowCpus : shadow_pc'[c] = shadow_pc[c]
  BY DEF ShadowInv, ShadowTypeOK, Threads, TimerStep, hrtimer_start, StartDone,
         hrtimer_cancel, StopDone, SyncNext, SyncEnd, ShadowGoto, HookReturns
<1>2. \A c \in ShadowCpus : own[c] = "no"
  BY <1>1 DEF ShadowInv, CpuInv, HookInv
<1>3. CpuInv'
  BY <1>1, <1>2 DEF CpuInv, Settled
<1>4. RunInv'
  BY <1>1 DEF ShadowInv, RunInv, ShadowTypeOK
<1> QED BY <1>3, <1>4

\* The steps of a hook on CPU c, and its callbacks, keep the invariant.
LEMMA CpuPreserves ==
  ASSUME ShadowInv, NEW c \in ShadowCpus,
         UpdateCpu(c) \/ TimerStep(c) \/ Schedule(c)
  PROVE  RunInv' /\ CpuInv'
<1> USE ShadowAssumption DEF ShadowInv
<1>1. /\ shadow_pc[c] \notin {"restart", "norestart"}
      /\ \A d \in Threads : d # c => shadow_pc'[d] = shadow_pc[d]
      /\ UNCHANGED <<running, highres_tick_ctrl, slim_walt_ctrl>>
      /\ \A d \in ShadowCpus : d # c =>
           /\ queued'[d] = queued[d] /\ armed'[d] = armed[d]
           /\ own'[d] = own[d] /\ curr_idle'[d] = curr_idle[d]
  BY DEF ShadowTypeOK, Threads, TimerStep, hrtimer_start, StartDone,
         hrtimer_cancel, StopDone, UpdateCpu, Schedule, ShadowGoto, HookReturns, TimerOf
<1>2. RunInv'
  BY <1>1 DEF RunInv, ShadowTypeOK, Threads
<1>3. running[c] # c
  BY <1>1 DEF RunInv
<1>4. ASSUME NEW d \in ShadowCpus, d # c
      PROVE  (own'[d] # "no" => HookInv(d)') /\ (Settled(d)' => OwnInv(d)')
  BY <1>1, <1>4 DEF CpuInv, HookInv, OwnInv, Settled, Decided, Seen, WantsTick,
                    Threads
<1>5. (own'[c] # "no" => HookInv(c)') /\ (Settled(c)' => OwnInv(c)')
  <2>t. /\ shadow_pc \in [Threads -> {"out", "next", "update", "arm", "armed",
                                      "cancel", "cancelled", "restart",
                                      "norestart"}]
        /\ c \in Threads /\ c # Sysctl /\ Sysctl \in Threads /\ c # NoCpu
        /\ TimerOf(c) = c /\ Return(c) = "out"
    BY DEF ShadowTypeOK, Threads, TimerOf, Return
  <2>i. (own[c] # "no" => HookInv(c)) /\ (Settled(c) => OwnInv(c))
    BY DEF CpuInv, Settled
  <2>1. CASE UpdateCpu(c)
    <3>1. /\ shadow_pc[c] = "update"
          /\ shadow_pc'[c] \in {"out", "arm", "cancel"}
          /\ shadow_pc'[c] = "out" => (armed[c] <=> WantsTick(c))
          /\ shadow_pc'[c] = "arm" => WantsTick(c) /\ ~armed[c]
          /\ shadow_pc'[c] = "cancel" => ~WantsTick(c)
          /\ UNCHANGED <<armed, queued, running, highres_tick_ctrl>>
      BY <2>1, <2>t DEF UpdateCpu, ShadowGoto, Decide, ShadowTypeOK
    <3>2. CASE shadow_pc'[c] = "out"
      <4>1. own'[c] = IF own[c] = "hook" THEN "no" ELSE own[c]
        BY <2>1, <2>t, <3>1, <3>2 DEF UpdateCpu, HookReturns, ShadowTypeOK
      <4> QED BY <2>t, <2>i, <1>1, <3>1, <3>2, <4>1
              DEF HookInv, OwnInv, Settled, Decided, Seen, WantsTick
    <3>3. CASE shadow_pc'[c] # "out"
      <4>1. UNCHANGED <<curr_idle, own>>
        BY <2>1, <3>3 DEF UpdateCpu, HookReturns
      <4> QED BY <2>t, <2>i, <1>1, <3>1, <3>3, <4>1
              DEF HookInv, OwnInv, Settled, Decided, Seen, WantsTick
    <3> QED BY <3>2, <3>3
  <2>2. CASE hrtimer_start(c)
    BY <2>2, <2>t, <2>i, <1>1, <1>3
    DEF hrtimer_start, ShadowGoto, RunsOn, HookInv, OwnInv, Settled, Decided,
        Seen, WantsTick, ShadowTypeOK
  <2>3. CASE StartDone(c)
    BY <2>3, <2>t, <2>i, <1>1, <1>3
    DEF StartDone, ShadowGoto, HookReturns, HookInv, OwnInv, Settled, Decided,
        Seen, WantsTick, ShadowTypeOK
  <2>4. CASE hrtimer_cancel(c)
    BY <2>4, <2>t, <2>i, <1>1, <1>3
    DEF hrtimer_cancel, ShadowGoto, HookInv, OwnInv, Settled, Decided, Seen,
        WantsTick, ShadowTypeOK
  <2>5. CASE StopDone(c)
    BY <2>5, <2>t, <2>i, <1>1, <1>3
    DEF StopDone, ShadowGoto, HookReturns, HookInv, OwnInv, Settled, Decided,
        Seen, WantsTick, ShadowTypeOK
  <2>6. CASE Schedule(c)
    BY <2>6, <2>t, <2>i, <1>1, <1>3
    DEF Schedule, ShadowGoto, HookInv, OwnInv, Settled, Decided, Seen,
        WantsTick, ShadowTypeOK
  <2> QED BY <2>1, <2>2, <2>3, <2>4, <2>5, <2>6 DEF TimerStep
<1> QED BY <1>2, <1>4, <1>5 DEF CpuInv, Settled

\* A callback of timer t on CPU c clears armed only where it is clear already.
LEMMA CallbackPreserves ==
  ASSUME ShadowInv, NEW c \in ShadowCpus, NEW t \in ShadowCpus, Callback(c, t)
  PROVE  RunInv' /\ CpuInv'
<1> USE ShadowAssumption DEF ShadowInv
<1>t. /\ c # NoCpu /\ c # Sysctl /\ c \in Threads /\ Sysctl \in Threads
      /\ ShadowCpus \subseteq Threads
      /\ shadow_pc[c] = "out"
      /\ shadow_pc' = [shadow_pc EXCEPT ![c] = IF CallbackStops THEN "norestart"
                                               ELSE "restart"]
      /\ queued[t] = c /\ queued' = [queued EXCEPT ![t] = NoCpu]
      /\ running' = [running EXCEPT ![t] = c]
      /\ armed' = [armed EXCEPT ![c] = @ /\ ~CallbackStops]
      /\ UNCHANGED <<highres_tick_ctrl, slim_walt_ctrl, curr_idle, own>>
  BY DEF Callback, ShadowGoto, Threads
<1>1. RunInv'
  BY <1>t DEF RunInv, ShadowTypeOK
<1>2. ASSUME NEW d \in ShadowCpus, d # c
      PROVE  (own'[d] # "no" => HookInv(d)') /\ (Settled(d)' => OwnInv(d)')
  <2>1. Settled(d) => d # t
    BY <1>t, <1>2 DEF CpuInv, OwnInv, Settled, Decided
  <2>2. shadow_pc'[d] = shadow_pc[d] /\ shadow_pc'[Sysctl] = shadow_pc[Sysctl]
    BY <1>t, <1>2 DEF ShadowTypeOK
  <2>3. Settled(d) => queued'[d] = queued[d] /\ running'[d] = running[d]
                          /\ armed'[d] = armed[d]
    BY <1>t, <1>2, <2>1 DEF ShadowTypeOK
  <2>4. shadow_pc[d] = "cancelled" /\ own[d] # "no" => d # t
    BY <1>t DEF CpuInv, HookInv
  <2>5. own'[d] # "no" => HookInv(d)'
    BY <1>t, <1>2, <2>2, <2>4 DEF CpuInv, HookInv, WantsTick, ShadowTypeOK
  <2>6. Settled(d)' => OwnInv(d)'
    BY <1>t, <2>2, <2>3 DEF CpuInv, OwnInv, Settled, Decided, Seen, WantsTick
  <2> QED BY <2>5, <2>6
<1>3. (own'[c] # "no" => HookInv(c)') /\ (Settled(c)' => OwnInv(c)')
  <2>1. own[c] # "no" => slim_walt_ctrl /\ shadow_pc[Sysctl] = "out"
    BY DEF CpuInv, HookInv
  <2>2. own'[c] # "no" => HookInv(c)'
    BY <1>t, <2>1 DEF HookInv, ShadowTypeOK
  <2>3. ASSUME Settled(c) PROVE OwnInv(c)'
    <3>1. /\ armed[c] <=> Decided(c)
          /\ armed[c] <=> queued[c] # NoCpu \/ running[c] # NoCpu
          /\ queued[c] \in {c, NoCpu} /\ running[c] \in {c, NoCpu}
          /\ slim_walt_ctrl
      BY <1>t, <2>1, <2>3 DEF CpuInv, OwnInv, Settled
    <3>2. armed'[c] <=> armed[c]
      BY <1>t, <3>1 DEF CallbackStops, Decided, ShadowTypeOK
    <3>3. /\ queued'[c] # NoCpu \/ running'[c] # NoCpu <=>
               queued[c] # NoCpu \/ running[c] # NoCpu
          /\ queued'[c] \in {c, NoCpu} /\ running'[c] \in {c, NoCpu}
      BY <1>t, <3>1 DEF ShadowTypeOK
    <3>4. /\ shadow_pc'[c] \in {"restart", "norestart"}
          /\ shadow_pc'[c] = "norestart" => ~highres_tick_ctrl
      BY <1>t, <3>1 DEF CallbackStops, ShadowTypeOK
    <3> QED BY <1>t, <3>1, <3>2, <3>3, <3>4 DEF OwnInv, Settled, Decided, Seen,
                                                WantsTick
  <2>4. Settled(c)' => Settled(c)
    BY <1>t DEF Settled
  <2> QED BY <2>2, <2>3, <2>4
<1> QED BY <1>1, <1>2, <1>3 DEF CpuInv, Settled

\* A callback that returns queues its timer again if it found the tick on, and
\* a timer that its CPU's own hook has cancelled dies only with the tick off.
LEMMA ReturnPreserves ==
  ASSUME ShadowInv, NEW c \in ShadowCpus, CallbackReturn(c)
  PROVE  RunInv' /\ CpuInv'
<1> USE ShadowAssumption DEF ShadowInv
<1> PICK t \in ShadowCpus :
      /\ running[t] = c
      /\ running' = [running EXCEPT ![t] = NoCpu]
      /\ queued' = [queued EXCEPT ![t] =
                      IF shadow_pc[c] = "restart" THEN c ELSE @]
      /\ shadow_pc' = [shadow_pc EXCEPT ![c] = "out"]
      /\ UNCHANGED <<highres_tick_ctrl, slim_walt_ctrl, curr_idle, armed, todo,
                     target, own>>
  BY DEF CallbackReturn
<1>t. /\ c # NoCpu /\ c # Sysctl /\ c \in Threads /\ Sysctl \in Threads
      /\ ShadowCpus \subseteq Threads
      /\ shadow_pc[c] \in {"restart", "norestart"}
  BY DEF Threads, RunInv
<1>1. RunInv'
  BY <1>t DEF RunInv, ShadowTypeOK
<1>2. ASSUME NEW d \in ShadowCpus
      PROVE  own'[d] # "no" => HookInv(d)'
  <2>1. shadow_pc[d] = "cancelled" /\ own[d] # "no" => d # t
    BY <1>t DEF CpuInv, HookInv
  <2> QED BY <1>t, <2>1 DEF CpuInv, HookInv, WantsTick, ShadowTypeOK
<1>3. ASSUME NEW d \in ShadowCpus, Settled(d)'
      PROVE  OwnInv(d)'
  <2>1. OwnInv(d)
    BY <1>3 DEF CpuInv, Settled
  <2>2. CASE d = t
    <3>1. c = d /\ shadow_pc[d] = "restart"
      BY <1>t, <2>1, <2>2 DEF OwnInv, Settled, Decided, Seen, WantsTick,
                              ShadowTypeOK
    <3>2. queued'[d] = d /\ running'[d] = NoCpu /\ shadow_pc'[d] = "out"
      BY <1>t, <3>1, <2>2 DEF ShadowTypeOK
    <3> QED BY <1>t, <2>1, <2>2, <3>1, <3>2 DEF OwnInv, Settled, Decided, Seen,
                                                WantsTick
  <2>3. CASE d # t
    <3>1. queued'[d] = queued[d] /\ running'[d] = running[d]
      BY <2>3 DEF ShadowTypeOK
    <3>2. CASE d = c
      <4>1. shadow_pc'[d] = "out"
        BY <1>t, <3>2 DEF ShadowTypeOK
      <4> QED BY <1>t, <2>1, <3>1, <3>2, <4>1 DEF OwnInv, Settled, Decided,
                                                  Seen, WantsTick
    <3>3. CASE d # c
      <4>1. shadow_pc'[d] = shadow_pc[d]
        BY <1>t, <3>3 DEF ShadowTypeOK
      <4> QED BY <2>1, <3>1, <4>1 DEF OwnInv, Settled, Decided, Seen, WantsTick
    <3> QED BY <3>2, <3>3
  <2> QED BY <2>2, <2>3
<1> QED BY <1>1, <1>2, <1>3 DEF CpuInv, Settled

\* Every step preserves the inductive invariant.
LEMMA ShadowInvNext == ShadowInv /\ [ShadowNext]_shadowVars => ShadowInv'
<1> SUFFICES ASSUME ShadowInv, [ShadowNext]_shadowVars PROVE ShadowInv'
  OBVIOUS
<1>1. ShadowTypeOK'
  BY ShadowTypePreserved DEF ShadowInv
<1>2. RunInv' /\ CpuInv'
  <2>1. CASE \E c \in ShadowCpus : UpdateCpu(c) \/ TimerStep(c) \/ Schedule(c)
    BY <2>1, CpuPreserves
  <2>2. CASE \E c, t \in ShadowCpus : Callback(c, t)
    BY <2>2, CallbackPreserves
  <2>3. CASE \E c \in ShadowCpus : CallbackReturn(c)
    BY <2>3, ReturnPreserves
  <2>4. CASE TimerStep(Sysctl) \/ SyncNext \/ SyncEnd
    BY <2>4, SysctlPreserves
  <2>5. CASE WriteShadowTick \/ WriteWaltCtrl
    <3>1. /\ \A c \in ShadowCpus : own'[c] = "no" /\ shadow_pc'[c] = shadow_pc[c]
          /\ UNCHANGED running
      BY <2>5, ShadowAssumption
      DEF WriteShadowTick, WriteWaltCtrl, ShadowGoto, ShadowInv, ShadowTypeOK,
          Threads
    <3> QED BY <3>1 DEF ShadowInv, RunInv, CpuInv, Settled, ShadowTypeOK
  <2>6. CASE UNCHANGED shadowVars
    BY <2>6 DEF shadowVars, ShadowInv, RunInv, CpuInv, HookInv, OwnInv,
                Settled, Decided, Seen, WantsTick
  <2> QED BY <2>1, <2>2, <2>3, <2>4, <2>5, <2>6
          DEF ShadowNext, IrqOffStep, TimerFires
<1> QED BY <1>1, <1>2 DEF ShadowInv

\* No timer is started at boot.
LEMMA ShadowInvInit == ShadowInit => ShadowInv
<1> SUFFICES ASSUME ShadowInit PROVE ShadowInv
  OBVIOUS
<1>1. {highres_tick_ctrl, slim_walt_ctrl} \subseteq BOOLEAN
  BY DEF ShadowInit
<1>2. ShadowTypeOK
  BY <1>1 DEF ShadowInit, ShadowTypeOK, Threads
<1>3. RunInv /\ CpuInv
  BY DEF ShadowInit, RunInv, CpuInv, Settled
<1> QED BY <1>2, <1>3 DEF ShadowInv

-----------------------------------------------------------------------------
\* The inductive invariant holds in every reachable state.
THEOREM ShadowInvariance == ShadowSpec => []ShadowInv
  BY ShadowInvInit, ShadowInvNext, PTL DEF ShadowSpec

\* The variables of the shadow tick keep their types.
THEOREM ShadowTypeCorrect == ShadowSpec => []ShadowTypeOK
  BY ShadowInvariance, PTL DEF ShadowInv

\* Once the hook of a CPU has cancelled its timer after a sysctl write, the
\* timer is on that CPU's base exactly while the tick is on and the task that
\* the CPU last switched out was not idle, and lse_shadow_tick_armed says so.
THEOREM TimerRepaired == ShadowSpec => []TimerFollowsPrev
<1>1. ShadowInv => TimerFollowsPrev
  <2> SUFFICES ASSUME ShadowInv, NEW c \in ShadowCpus, own[c] \in {"busy", "idle"},
                      shadow_pc[c] \in {"out", "restart"}
               PROVE  /\ armed[c] = (highres_tick_ctrl /\ own[c] = "busy")
                      /\ armed[c] = (queued[c] # NoCpu \/ running[c] # NoCpu)
                      /\ {queued[c], running[c]} \subseteq {c, NoCpu}
    BY DEF TimerFollowsPrev
  <2>1. OwnInv(c) /\ armed[c] \in BOOLEAN /\ highres_tick_ctrl \in BOOLEAN
    BY DEF ShadowInv, CpuInv, Settled, ShadowTypeOK
  <2> QED BY <2>1 DEF OwnInv, Settled, Decided, Seen, WantsTick
<1> QED BY <1>1, ShadowInvariance, PTL

-----------------------------------------------------------------------------
\* Both at once: the variables of the two components keep their types.
THEOREM TypeCorrect == Spec => []TypeOK
<1>1. Init => MonitorInv /\ ShadowInv
  BY MonitorInvInit, ShadowInvInit DEF Init
<1>2. MonitorInv /\ [Next]_vars => MonitorInv'
  BY MonitorInvNext DEF Next, vars
<1>3. ShadowInv /\ [Next]_vars => ShadowInv'
  BY ShadowInvNext DEF Next, vars
<1>4. MonitorInv /\ ShadowInv => TypeOK
  BY DEF MonitorInv, ShadowInv, TypeOK
<1> QED BY <1>1, <1>2, <1>3, <1>4, PTL DEF Spec
=============================================================================
