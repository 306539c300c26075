--------------------------- MODULE WindowRollover ---------------------------
(***************************************************************************)
(* The window protocol of Slim WALT (lse_util_track.c, lse_cfs.c).  Every  *)
(* CPU keeps its own window_start, protected by its own runqueue lock.     *)
(* The CPUs agree on "this window has ended" only through the shared word  *)
(* lse_run_rollover_lastq_ws: the CPU whose cmpxchg moves it queues the    *)
(* irq_work that re-evaluates the frequency and applies a new window size. *)
(*                                                                         *)
(* A step is what runs without giving up the atomicity the code has: the   *)
(* part of lse_update_task_ravg up to the assignment of mark_start works   *)
(* on data of the locked runqueue, except that it reads the global window  *)
(* size; the check that follows reads the size again, and the cmpxchg is a *)
(* single atomic instruction.  Between the two steps other CPUs run.       *)
(***************************************************************************)
EXTENDS Integers

CONSTANTS
  N,            \* nr_cpu_ids
  HotplugCpus,  \* the CPUs that may be taken offline
  InitWindow,   \* DEFAULT_SCHED_RAVG_WINDOW, in clock units
  Windows,      \* the sizes sched_ravg_window_change may ask for
  TickLead,     \* the 20us by which the first window precedes the tick
  MaxHold,      \* bound on the length of a runqueue lock section
  MaxClock      \* bound on the clock

CPU == 0 .. N - 1
NoCpu == -1

ASSUME NAssumption == N \in Nat \ {0}
ASSUME HotplugAssumption == HotplugCpus \subseteq CPU
ASSUME WindowAssumption ==
  /\ Windows \subseteq Nat \ {0}
  /\ InitWindow \in Windows
ASSUME TimeAssumption ==
  /\ TickLead \in Nat
  /\ MaxHold \in Nat
  /\ MaxClock \in Nat
\* The first tick opens all windows well before the first of them ends.
ASSUME WindowIsLong == \A w \in Windows : TickLead + MaxHold < w

VARIABLES
  clock,                      \* sched_clock()
  rq_clock,                   \* rq->clock, sampled in the current lock section
  pc,                         \* what each CPU is executing
  wc,                         \* local: the wallclock of the update in progress
  old_window_start,           \* local: the result of update_window_start
  window_start,               \* lrq->window_start
  latest_clock,               \* lrq->latest_clock
  lse_sched_ravg_window,
  new_lse_sched_ravg_window,
  tick_sched_clock,
  init_cpu,                   \* loop variable of lse_scheduler_tick
  lse_run_rollover_lastq_ws,
  irq_work,                   \* the CPU lse_slim_walt_irq_work is queued on
  cpu_state,                  \* "up", "dying" (no longer online) or "dead"
  lse_clock_suspended,
  lse_clock_last,
  lse_bug                     \* an LSE_BUG was hit: BUG_ON stops the machine

rqVars == <<rq_clock, pc, wc, old_window_start, window_start, latest_clock>>
sizeVars == <<lse_sched_ravg_window, new_lse_sched_ravg_window>>
initVars == <<tick_sched_clock, init_cpu>>
rollVars == <<lse_run_rollover_lastq_ws, irq_work>>
pmVars == <<cpu_state, lse_clock_suspended, lse_clock_last>>
vars == <<clock, rqVars, sizeVars, initVars, rollVars, pmVars, lse_bug>>

PC == {"out", "locked", "ravg", "irq", "irq_ravg", "irq_window", "init"}

Max2(a, b) == IF a >= b THEN a ELSE b

Goto(c, from, to) ==
  /\ pc[c] = from
  /\ pc' = [pc EXCEPT ![c] = to]

-----------------------------------------------------------------------------
\* The clocks.

\* The clock sample a lock section works with.
Sampled(c) == IF pc[c] \in {"irq", "irq_ravg", "irq_window"} THEN wc[c]
                                                            ELSE rq_clock[c]

\* Time passes; no lock section outlives its clock sample by more than MaxHold.
Tick ==
  /\ clock < MaxClock
  /\ \A c \in CPU : pc[c] # "out" => clock < Sampled(c) + MaxHold
  /\ clock' = clock + 1
  /\ UNCHANGED <<rqVars, sizeVars, initVars, rollVars, pmVars, lse_bug>>

lse_sched_clock == IF lse_clock_suspended THEN lse_clock_last ELSE clock

\* Mutant: the sample of an earlier lock section is used as it is.
lse_rq_clock_no_max(c) ==
  IF lse_clock_suspended THEN lse_clock_last ELSE rq_clock[c]

lse_rq_clock(c) ==
  IF lse_clock_suspended THEN lse_clock_last
                         ELSE Max2(rq_clock[c], latest_clock[c])

\* The scheduler core takes the runqueue lock and updates rq->clock.
RqLock(c) ==
  /\ cpu_state[c] # "dead"
  /\ Goto(c, "out", "locked")
  /\ rq_clock' = [rq_clock EXCEPT ![c] = clock]
  /\ UNCHANGED <<clock, wc, old_window_start, window_start, latest_clock,
                 sizeVars, initVars, rollVars, pmVars, lse_bug>>

\* The core drops the lock inside a section and takes it again, as in
\* newidle_balance: RQCF_UPDATED survives, so rq->clock keeps the old sample.
RqRelock(c) ==
  /\ cpu_state[c] # "dead"
  /\ clock <= rq_clock[c] + MaxHold
  /\ Goto(c, "out", "locked")
  /\ UNCHANGED <<clock, rq_clock, wc, old_window_start, window_start,
                 latest_clock, sizeVars, initVars, rollVars, pmVars, lse_bug>>

\* ... and releases it, after any number of hooks have run under it.
RqUnlock(c) ==
  /\ Goto(c, "locked", "out")
  /\ UNCHANGED <<clock, rq_clock, wc, old_window_start, window_start,
                 latest_clock, sizeVars, initVars, rollVars, pmVars, lse_bug>>

-----------------------------------------------------------------------------
\* lse_update_task_ravg.

\* The wallclock argument: lse_rq_clock(rq) from the scheduler hooks, the
\* lse_sched_clock() read at its start from lse_irq_work.
Wallclock(c) == IF pc[c] = "irq" THEN wc[c] ELSE lse_rq_clock(c)

Hooking(c) == pc[c] \in {"locked", "irq"} /\ window_start[c] # 0

\* The two LSE_BUG checks of update_window_start.
ClockBehind(c) ==
  Wallclock(c) < latest_clock[c] \/ Wallclock(c) < window_start[c]

\* Mutant: a window that has ended is followed by one that starts now.
update_window_start_off_grid(c, t) ==
  IF t - window_start[c] < lse_sched_ravg_window THEN window_start[c] ELSE t

\* The window that contains the time t, on the grid of CPU c.
update_window_start(c, t) ==
  window_start[c] + ((t - window_start[c]) \div lse_sched_ravg_window)
                    * lse_sched_ravg_window

UpdateTaskRavg(c) ==
  /\ Hooking(c)
  /\ ~ClockBehind(c)
  /\ LET t == Wallclock(c) IN
       /\ wc' = [wc EXCEPT ![c] = t]
       /\ old_window_start' = [old_window_start EXCEPT ![c] = window_start[c]]
       /\ window_start' =
            [window_start EXCEPT ![c] = update_window_start(c, t)]
       /\ latest_clock' = [latest_clock EXCEPT ![c] = t]
  /\ pc' = [pc EXCEPT ![c] = IF @ = "irq" THEN "irq_ravg" ELSE "ravg"]
  /\ UNCHANGED <<clock, rq_clock, sizeVars, initVars, rollVars, pmVars,
                 lse_bug>>

UpdateWindowStartBug(c) ==
  /\ Hooking(c)
  /\ ClockBehind(c)
  /\ lse_bug' = TRUE
  /\ UNCHANGED <<clock, rqVars, sizeVars, initVars, rollVars, pmVars>>

\* mark_start is the wallclock, lts->window_start the CPU's window_start.
MarkAhead(c) == wc[c] > window_start[c] + lse_sched_ravg_window

\* Mutant: a CPU that is going down queues the work nowhere.
IrqWorkQueue_dropped(c) ==
  IF irq_work = NoCpu /\ cpu_state[c] = "up" THEN irq_work' = c
                                             ELSE UNCHANGED irq_work

\* irq_work_queue does nothing when the work is already pending.
IrqWorkQueue(c) ==
  IF irq_work # NoCpu THEN UNCHANGED irq_work
  ELSE IF cpu_state[c] = "up" THEN irq_work' = c
  ELSE \E d \in CPU : cpu_state[d] = "up" /\ irq_work' = d

\* Mutant: the time of the update is stored, not the window it fell into.
run_once_stores_wallclock(c) ==
  IF /\ old_window_start[c] # window_start[c]
     /\ lse_run_rollover_lastq_ws = old_window_start[c]
  THEN /\ lse_run_rollover_lastq_ws' = wc[c]
       /\ IrqWorkQueue(c)
  ELSE UNCHANGED rollVars

\* Mutant: a plain store instead of the compare-and-exchange.
run_once_plain_store(c) ==
  IF old_window_start[c] # window_start[c]
  THEN /\ lse_run_rollover_lastq_ws' = window_start[c]
       /\ IrqWorkQueue(c)
  ELSE UNCHANGED rollVars

\* Mutant: the exchange is skipped while the work is still pending.
run_once_skips_pending(c) ==
  IF /\ old_window_start[c] # window_start[c]
     /\ irq_work = NoCpu
     /\ lse_run_rollover_lastq_ws = old_window_start[c]
  THEN /\ lse_run_rollover_lastq_ws' = window_start[c]
       /\ IrqWorkQueue(c)
  ELSE UNCHANGED rollVars

lse_window_rollover_run_once(c) ==
  IF /\ old_window_start[c] # window_start[c]
     /\ lse_run_rollover_lastq_ws = old_window_start[c]
  THEN /\ lse_run_rollover_lastq_ws' = window_start[c]
       /\ IrqWorkQueue(c)
  ELSE UNCHANGED rollVars

RavgDone(c) ==
  /\ pc[c] \in {"ravg", "irq_ravg"}
  /\ ~MarkAhead(c)
  /\ lse_window_rollover_run_once(c)
  /\ pc' = [pc EXCEPT ![c] = IF @ = "ravg" THEN "locked" ELSE "irq_window"]
  /\ wc' = [wc EXCEPT ![c] = IF pc[c] = "ravg" THEN 0 ELSE @]
  /\ old_window_start' = [old_window_start EXCEPT ![c] = 0]
  /\ UNCHANGED <<clock, rq_clock, window_start, latest_clock, sizeVars,
                 initVars, pmVars, lse_bug>>

RavgBug(c) ==
  /\ pc[c] \in {"ravg", "irq_ravg"}
  /\ MarkAhead(c)
  /\ lse_bug' = TRUE
  /\ UNCHANGED <<clock, rqVars, sizeVars, initVars, rollVars, pmVars>>

-----------------------------------------------------------------------------
\* lse_irq_work: the work runs on the CPU it was queued on.

IrqWork(c) ==
  /\ irq_work = c
  /\ Goto(c, "out", "irq")
  /\ irq_work' = NoCpu
  /\ wc' = [wc EXCEPT ![c] = lse_sched_clock]
  /\ UNCHANGED <<clock, rq_clock, old_window_start, window_start,
                 latest_clock, sizeVars, initVars, lse_run_rollover_lastq_ws,
                 pmVars, lse_bug>>

\* rq->curr has no lse_task_struct, is already marked at wc, or tracking is
\* switched off: lse_irq_work goes on without an update.
IrqNoUpdate(c) ==
  /\ Goto(c, "irq", "irq_window")
  /\ UNCHANGED <<clock, rq_clock, wc, old_window_start, window_start,
                 latest_clock, sizeVars, initVars, rollVars, pmVars, lse_bug>>

\* A pending window size is applied if wc lies in the first new window.
IrqWindow(c) ==
  /\ Goto(c, "irq_window", "out")
  /\ lse_sched_ravg_window' =
       IF wc[c] < window_start[c] + new_lse_sched_ravg_window
         THEN new_lse_sched_ravg_window ELSE lse_sched_ravg_window
  /\ wc' = [wc EXCEPT ![c] = 0]
  /\ UNCHANGED <<clock, rq_clock, old_window_start, window_start,
                 latest_clock, new_lse_sched_ravg_window, initVars, rollVars,
                 pmVars, lse_bug>>

\* The sysctl sched_ravg_window_frame_per_sec.
sched_ravg_window_change ==
  /\ new_lse_sched_ravg_window' \in Windows
  /\ UNCHANGED <<clock, rqVars, lse_sched_ravg_window, initVars, rollVars,
                 pmVars, lse_bug>>

-----------------------------------------------------------------------------
\* lse_scheduler_tick: the first tick opens the first window on every CPU,
\* one CPU after the other and without their runqueue locks.

TickFirst(c) ==
  /\ tick_sched_clock = 0
  /\ cpu_state[c] = "up"
  /\ ~lse_clock_suspended       \* no tick between syscore suspend and resume
  /\ clock <= rq_clock[c] + MaxHold
  /\ rq_clock[c] > TickLead
  /\ Goto(c, "out", "init")
  /\ tick_sched_clock' = rq_clock[c] - TickLead
  /\ init_cpu' = 0
  /\ UNCHANGED <<clock, rq_clock, wc, old_window_start, window_start,
                 latest_clock, sizeVars, rollVars, pmVars, lse_bug>>

\* Mutant: the loop over the possible CPUs runs once too often.
TickInitWindow_off_by_one(c) ==
  /\ pc[c] = "init"
  /\ init_cpu <= N
  /\ window_start' = [window_start EXCEPT ![init_cpu] = tick_sched_clock]
  /\ init_cpu' = init_cpu + 1
  /\ UNCHANGED <<clock, rq_clock, pc, wc, old_window_start, latest_clock,
                 sizeVars, tick_sched_clock, rollVars, pmVars, lse_bug>>

TickInitWindow(c) ==
  /\ pc[c] = "init"
  /\ init_cpu < N
  /\ window_start' = [window_start EXCEPT ![init_cpu] = tick_sched_clock]
  /\ init_cpu' = init_cpu + 1
  /\ UNCHANGED <<clock, rq_clock, pc, wc, old_window_start, latest_clock,
                 sizeVars, tick_sched_clock, rollVars, pmVars, lse_bug>>

TickInitRollover(c) ==
  /\ init_cpu = N
  /\ Goto(c, "init", "out")
  /\ lse_run_rollover_lastq_ws' = tick_sched_clock
  /\ UNCHANGED <<clock, rq_clock, wc, old_window_start, window_start,
                 latest_clock, sizeVars, initVars, irq_work, pmVars, lse_bug>>

-----------------------------------------------------------------------------
\* CPU hotplug and system suspend.

CpuDying(c) ==
  /\ c \in HotplugCpus
  /\ cpu_state[c] = "up"
  /\ \E d \in CPU \ {c} : cpu_state[d] = "up"
  /\ pc[c] = "out"
  /\ irq_work # c
  /\ cpu_state' = [cpu_state EXCEPT ![c] = "dying"]
  /\ UNCHANGED <<clock, rqVars, sizeVars, initVars, rollVars,
                 lse_clock_suspended, lse_clock_last, lse_bug>>

CpuDead(c) ==
  /\ cpu_state[c] = "dying"
  /\ pc[c] = "out"
  /\ cpu_state' = [cpu_state EXCEPT ![c] = "dead"]
  /\ UNCHANGED <<clock, rqVars, sizeVars, initVars, rollVars,
                 lse_clock_suspended, lse_clock_last, lse_bug>>

CpuUp(c) ==
  /\ cpu_state[c] = "dead"
  /\ ~lse_clock_suspended
  /\ cpu_state' = [cpu_state EXCEPT ![c] = "up"]
  /\ UNCHANGED <<clock, rqVars, sizeVars, initVars, rollVars,
                 lse_clock_suspended, lse_clock_last, lse_bug>>

\* syscore callbacks run on the last CPU, with interrupts off.
lse_suspend(c) ==
  /\ ~lse_clock_suspended
  /\ cpu_state[c] = "up"
  /\ pc[c] = "out"
  /\ \A d \in CPU \ {c} : cpu_state[d] = "dead"
  /\ lse_clock_last' = clock
  /\ lse_clock_suspended' = TRUE
  /\ UNCHANGED <<clock, rqVars, sizeVars, initVars, rollVars, cpu_state,
                 lse_bug>>

lse_resume ==
  /\ lse_clock_suspended
  /\ \A d \in CPU : pc[d] = "out"
  /\ lse_clock_suspended' = FALSE
  /\ UNCHANGED <<clock, rqVars, sizeVars, initVars, rollVars, cpu_state,
                 lse_clock_last, lse_bug>>

-----------------------------------------------------------------------------
Init ==
  /\ clock = 0
  /\ rq_clock = [c \in CPU |-> 0]
  /\ pc = [c \in CPU |-> "out"]
  /\ wc = [c \in CPU |-> 0]
  /\ old_window_start = [c \in CPU |-> 0]
  /\ window_start = [c \in CPU |-> 0]
  /\ latest_clock = [c \in CPU |-> 0]
  /\ lse_sched_ravg_window = InitWindow
  /\ new_lse_sched_ravg_window = InitWindow
  /\ tick_sched_clock = 0
  /\ init_cpu = 0
  /\ lse_run_rollover_lastq_ws = 0
  /\ irq_work = NoCpu
  /\ cpu_state = [c \in CPU |-> "up"]
  /\ lse_clock_suspended = FALSE
  /\ lse_clock_last = 0
  /\ lse_bug = FALSE

CpuNext(c) ==
  \/ RqLock(c) \/ RqRelock(c) \/ RqUnlock(c)
  \/ UpdateTaskRavg(c) \/ UpdateWindowStartBug(c)
  \/ RavgDone(c) \/ RavgBug(c)
  \/ IrqWork(c) \/ IrqNoUpdate(c) \/ IrqWindow(c)
  \/ TickFirst(c) \/ TickInitWindow(c) \/ TickInitRollover(c)
  \/ CpuDying(c) \/ CpuDead(c) \/ CpuUp(c)
  \/ lse_suspend(c)

Next ==
  /\ ~lse_bug
  /\ \/ Tick
     \/ sched_ravg_window_change
     \/ lse_resume
     \/ \E c \in CPU : CpuNext(c)

Spec == Init /\ [][Next]_vars

\* A CPU that takes ticks locks its runqueue again and again, and the lock
\* sections run lse_tick_entry.
KeepsTicking(c) == SF_vars(RqLock(c)) /\ SF_vars(UpdateTaskRavg(c))

\* A lock section, and what runs with interrupts off, reaches its end.
\* Nothing is assumed of the passage of time or of irq_work being run.
SectionsEnd ==
  \A c \in CPU :
    /\ SF_vars(RqUnlock(c))
    /\ WF_vars(RavgDone(c) \/ IrqNoUpdate(c) \/ IrqWindow(c))
    /\ WF_vars(TickInitWindow(c) \/ TickInitRollover(c))

Fairness == SectionsEnd /\ \A c \in CPU : KeepsTicking(c)

FairSpec == Spec /\ Fairness

\* With NO_HZ an idle CPU takes no ticks; here only CPU 0 is sure to be busy.
IdleSpec == Spec /\ SectionsEnd /\ KeepsTicking(0)

-----------------------------------------------------------------------------
\* Properties.

TypeOK ==
  /\ clock \in Nat
  /\ rq_clock \in [CPU -> Nat]
  /\ pc \in [CPU -> PC]
  /\ wc \in [CPU -> Nat]
  /\ old_window_start \in [CPU -> Nat]
  /\ window_start \in [CPU -> Nat]
  /\ latest_clock \in [CPU -> Nat]
  /\ lse_sched_ravg_window \in Windows
  /\ new_lse_sched_ravg_window \in Windows
  /\ tick_sched_clock \in Nat
  /\ init_cpu \in 0 .. N
  /\ lse_run_rollover_lastq_ws \in Nat
  /\ irq_work \in CPU \cup {NoCpu}
  /\ cpu_state \in [CPU -> {"up", "dying", "dead"}]
  /\ lse_clock_suspended \in BOOLEAN
  /\ lse_clock_last \in Nat
  /\ lse_bug \in BOOLEAN

\* No assertion of update_window_start or lse_update_task_ravg fails: no CPU
\* sees its clock go back or finds itself more than a window ahead.
NoLseBug == ~lse_bug

InRavg(c) == pc[c] \in {"ravg", "irq_ravg"}

\* Once the windows run there is always a CPU whose next window change makes
\* the cmpxchg of lse_window_rollover_run_once succeed: it stands at the
\* shared value or is about to compare against it.  Were there none, no
\* rollover would ever be run again.
TokenHeld ==
  lse_run_rollover_lastq_ws # 0 =>
    \E c \in CPU :
      \/ window_start[c] = lse_run_rollover_lastq_ws
      \/ InRavg(c) /\ old_window_start[c] = lse_run_rollover_lastq_ws

\* The shared window start only moves forward, so the rollover of a window is
\* run once, by one CPU, however late the other CPUs notice its end.
LastqAdvances ==
  [][lse_run_rollover_lastq_ws' > lse_run_rollover_lastq_ws]_
    lse_run_rollover_lastq_ws

\* Together the CPUs implement one clock of rollovers: lse_run_rollover_lastq_ws
\* is its hand, and a claim leaves the irq_work queued on some CPU, whatever
\* becomes of the CPU that made it.
Clock == INSTANCE RolloverClock WITH
           window <- lse_run_rollover_lastq_ws,
           pending <- irq_work # NoCpu
ImplementsClock == Clock!Spec

\* As long as the size is not changed, all CPUs use one grid of windows, the
\* one the first tick fixed, although each computes its own window_start.
OnGrid(t) == t # 0 =>
               (t - tick_sched_clock) % lse_sched_ravg_window = 0
WindowsAligned ==
  OnGrid(lse_run_rollover_lastq_ws) /\ \A c \in CPU : OnGrid(window_start[c])

\* A rollover that one CPU has seen is eventually run by some CPU.
RolloverCatchesUp ==
  \A t \in 1 .. MaxClock :
    (\E c \in CPU : window_start[c] = t) ~> lse_run_rollover_lastq_ws >= t
=============================================================================
