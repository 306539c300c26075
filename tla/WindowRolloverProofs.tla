------------------------ MODULE WindowRolloverProofs ------------------------
(***************************************************************************)
(* Proofs about WindowRollover, for any number of CPUs, any window sizes   *)
(* and any bounds on the clock.                                            *)
(***************************************************************************)
EXTENDS WindowRollover, TLAPS

\* What update_window_start computes: the start of the window of size w that
\* contains t, counted from a.
LEMMA WindowLemma ==
  ASSUME NEW a \in Nat, NEW t \in Nat, NEW w \in Nat \ {0}, a <= t
  PROVE  LET s == a + ((t - a) \div w) * w
         IN  s \in Nat /\ a <= s /\ s <= t /\ t < s + w /\ (t < a + w => s = a)
<1> DEFINE d == t - a
           q == d \div w
<1>1. d \in Nat
  OBVIOUS
<1>2. q \in Nat /\ q * w <= d /\ d < q * w + w
  <2> HIDE DEF d
  <2> QED BY <1>1
<1>3. q * w \in Nat
  <2> HIDE DEF q
  <2> QED BY <1>2
<1>4. d < w => q * w = 0
  <2> HIDE DEF d
  <2> QED BY <1>1, <1>2
<1>5. a + q * w \in Nat /\ a <= a + q * w /\ a + q * w <= t
      /\ t < a + q * w + w /\ (t < a + w => a + q * w = a)
  <2> DEFINE m == q * w
  <2>1. m \in Nat /\ m <= d /\ d < m + w /\ (d < w => m = 0)
    BY <1>2, <1>3, <1>4
  <2> HIDE DEF m
  <2>2. a + m \in Nat /\ a <= a + m /\ a + m <= t /\ t < a + m + w
        /\ (t < a + w => a + m = a)
    BY <2>1
  <2> QED BY <2>2 DEF m
<1> QED BY <1>5

-----------------------------------------------------------------------------
\* The inductive invariant.

IrqPC == {"irq", "irq_ravg", "irq_window"}

\* No sample and no window lies in the future.
ClockInv ==
  /\ lse_clock_last <= clock
  /\ \A c \in CPU : /\ rq_clock[c] <= clock
                    /\ latest_clock[c] <= clock
                    /\ wc[c] <= clock
                    /\ window_start[c] <= clock

\* While one CPU opens the first windows: it is alone in doing so, the first
\* init_cpu windows are open, none of them can have ended, and the shared
\* word is still zero.
InitInv ==
  /\ tick_sched_clock = 0 =>
       /\ lse_run_rollover_lastq_ws = 0
       /\ \A c \in CPU : pc[c] # "init" /\ window_start[c] = 0
  /\ \A c \in CPU : pc[c] = "init" =>
       /\ lse_run_rollover_lastq_ws = 0
       /\ tick_sched_clock > 0
       /\ rq_clock[c] = tick_sched_clock + TickLead
       /\ clock <= rq_clock[c] + MaxHold
       /\ \A d \in CPU : pc[d] = "init" => d = c
       /\ \A d \in CPU :
            window_start[d] = IF d < init_cpu THEN tick_sched_clock ELSE 0

\* A CPU in the middle of an update never moved its window backwards.
RavgInv ==
  \A c \in CPU : InRavg(c) =>
    0 < old_window_start[c] /\ old_window_start[c] <= window_start[c]

IInv == TypeOK /\ ClockInv /\ InitInv /\ RavgInv /\ TokenHeld

\* One update of CPU c: the wallclock it works with is a time between the
\* clock bounds, and the new window contains it.
LEMMA UpdateLemma ==
  ASSUME TypeOK, ClockInv, NEW c \in CPU, UpdateTaskRavg(c)
  PROVE  /\ Wallclock(c) \in Nat /\ Wallclock(c) <= clock
         /\ window_start'[c] \in Nat
         /\ window_start[c] <= window_start'[c]
         /\ window_start'[c] <= Wallclock(c)
         /\ Wallclock(c) < window_start'[c] + lse_sched_ravg_window
         /\ Wallclock(c) < window_start[c] + lse_sched_ravg_window =>
              window_start'[c] = window_start[c]
         /\ \A d \in CPU \ {c} : window_start'[d] = window_start[d]
<1> DEFINE t == Wallclock(c)
<1>1. t \in Nat /\ t <= clock
  BY DEF TypeOK, ClockInv, Wallclock, lse_rq_clock, Max2
<1>2. window_start[c] \in Nat /\ window_start[c] <= t
  BY <1>1 DEF UpdateTaskRavg, ClockBehind, TypeOK
<1>3. lse_sched_ravg_window \in Nat \ {0}
  BY WindowAssumption DEF TypeOK
<1>4. /\ window_start'[c] = update_window_start(c, t)
      /\ \A d \in CPU \ {c} : window_start'[d] = window_start[d]
  BY DEF UpdateTaskRavg, TypeOK
<1> HIDE DEF t
<1>5. /\ update_window_start(c, t) \in Nat
      /\ window_start[c] <= update_window_start(c, t)
      /\ update_window_start(c, t) <= t
      /\ t < update_window_start(c, t) + lse_sched_ravg_window
      /\ t < window_start[c] + lse_sched_ravg_window =>
           update_window_start(c, t) = window_start[c]
  BY <1>1, <1>2, <1>3, WindowLemma DEF update_window_start
<1> QED BY <1>1, <1>4, <1>5 DEF t

\* Every step keeps the variables in their types.
LEMMA TypeNext ==
  TypeOK /\ ClockInv /\ [Next]_vars => TypeOK'
<1> SUFFICES ASSUME TypeOK /\ ClockInv, [Next]_vars PROVE TypeOK'
  OBVIOUS
<1> USE DEF TypeOK,
           Goto, vars, rqVars, sizeVars, initVars, rollVars, pmVars
<1>1. CASE UNCHANGED vars
  BY <1>1
<1>2. CASE Tick
  BY <1>2 DEF Tick
<1>3. CASE sched_ravg_window_change
  BY <1>3 DEF sched_ravg_window_change
<1>4. CASE lse_resume
  BY <1>4 DEF lse_resume
<1>5. ASSUME NEW c \in CPU, RqLock(c) PROVE TypeOK'
  BY <1>5 DEF RqLock, PC
<1>6. ASSUME NEW c \in CPU, RqRelock(c) PROVE TypeOK'
  BY <1>6 DEF RqRelock, PC
<1>7. ASSUME NEW c \in CPU, RqUnlock(c) PROVE TypeOK'
  BY <1>7 DEF RqUnlock, PC
<1>8. ASSUME NEW c \in CPU, UpdateTaskRavg(c) PROVE TypeOK'
  <2>1. window_start'[c] \in Nat /\ Wallclock(c) \in Nat
    BY <1>8, UpdateLemma
  <2>2. window_start' \in [CPU -> Nat]
    BY <1>8, <2>1 DEF UpdateTaskRavg
  <2> QED BY <1>8, <2>1, <2>2 DEF UpdateTaskRavg, PC
<1>9. ASSUME NEW c \in CPU, UpdateWindowStartBug(c) PROVE TypeOK'
  BY <1>9 DEF UpdateWindowStartBug
<1>10. ASSUME NEW c \in CPU, RavgDone(c) PROVE TypeOK'
  BY <1>10 DEF RavgDone, lse_window_rollover_run_once, IrqWorkQueue, PC
<1>11. ASSUME NEW c \in CPU, RavgBug(c) PROVE TypeOK'
  BY <1>11 DEF RavgBug
<1>12. ASSUME NEW c \in CPU, IrqWork(c) PROVE TypeOK'
  BY <1>12 DEF IrqWork, PC, lse_sched_clock
<1>13. ASSUME NEW c \in CPU, IrqNoUpdate(c) PROVE TypeOK'
  BY <1>13 DEF IrqNoUpdate, PC
<1>14. ASSUME NEW c \in CPU, IrqWindow(c) PROVE TypeOK'
  BY <1>14 DEF IrqWindow, PC
<1>15. ASSUME NEW c \in CPU, TickFirst(c) PROVE TypeOK'
  BY <1>15, NAssumption, TimeAssumption
     DEF TickFirst, PC
<1>16. ASSUME NEW c \in CPU, TickInitWindow(c) PROVE TypeOK'
  <2>1. init_cpu' \in 0 .. N
    BY <1>16, NAssumption DEF TickInitWindow
  <2>2. window_start' \in [CPU -> Nat]
    BY <1>16 DEF TickInitWindow
  <2> QED BY <1>16, <2>1, <2>2 DEF TickInitWindow
<1>17. ASSUME NEW c \in CPU, TickInitRollover(c) PROVE TypeOK'
  BY <1>17 DEF TickInitRollover, PC
<1>18. ASSUME NEW c \in CPU, CpuDying(c) PROVE TypeOK'
  BY <1>18 DEF CpuDying
<1>19. ASSUME NEW c \in CPU, CpuDead(c) PROVE TypeOK'
  BY <1>19 DEF CpuDead
<1>20. ASSUME NEW c \in CPU, CpuUp(c) PROVE TypeOK'
  BY <1>20 DEF CpuUp
<1>21. ASSUME NEW c \in CPU, lse_suspend(c) PROVE TypeOK'
  BY <1>21 DEF lse_suspend
<1>22. QED
  BY <1>1, <1>2, <1>3, <1>4, <1>5, <1>6, <1>7, <1>8, <1>9, <1>10, <1>11,
     <1>12, <1>13, <1>14, <1>15, <1>16, <1>17, <1>18, <1>19, <1>20, <1>21 DEF
     Next, CpuNext

\* Every step keeps samples and windows out of the future.
LEMMA ClockNext ==
  IInv /\ [Next]_vars => ClockInv'
<1> SUFFICES ASSUME IInv, [Next]_vars PROVE ClockInv'
  OBVIOUS
<1> USE DEF IInv, TypeOK, ClockInv,
           Goto, vars, rqVars, sizeVars, initVars, rollVars, pmVars
<1>1. CASE UNCHANGED vars
  BY <1>1
<1>2. CASE Tick
  BY <1>2 DEF Tick
<1>3. CASE sched_ravg_window_change
  BY <1>3 DEF sched_ravg_window_change
<1>4. CASE lse_resume
  BY <1>4 DEF lse_resume
<1>5. ASSUME NEW c \in CPU, RqLock(c) PROVE ClockInv'
  BY <1>5 DEF RqLock
<1>6. ASSUME NEW c \in CPU, RqRelock(c) PROVE ClockInv'
  BY <1>6 DEF RqRelock
<1>7. ASSUME NEW c \in CPU, RqUnlock(c) PROVE ClockInv'
  BY <1>7 DEF RqUnlock
<1>8. ASSUME NEW c \in CPU, UpdateTaskRavg(c) PROVE ClockInv'
  <2>1. /\ Wallclock(c) \in Nat /\ Wallclock(c) <= clock
        /\ window_start'[c] <= Wallclock(c)
        /\ \A d \in CPU \ {c} : window_start'[d] = window_start[d]
    BY <1>8, UpdateLemma
  <2>2. window_start'[c] \in Nat
    BY <1>8, UpdateLemma
  <2>3. \A d \in CPU : window_start'[d] <= clock
    BY <2>1, <2>2
  <2> QED BY <1>8, <2>1, <2>3 DEF UpdateTaskRavg
<1>9. ASSUME NEW c \in CPU, UpdateWindowStartBug(c) PROVE ClockInv'
  BY <1>9 DEF UpdateWindowStartBug
<1>10. ASSUME NEW c \in CPU, RavgDone(c) PROVE ClockInv'
  BY <1>10 DEF RavgDone
<1>11. ASSUME NEW c \in CPU, RavgBug(c) PROVE ClockInv'
  BY <1>11 DEF RavgBug
<1>12. ASSUME NEW c \in CPU, IrqWork(c) PROVE ClockInv'
  BY <1>12 DEF IrqWork, lse_sched_clock
<1>13. ASSUME NEW c \in CPU, IrqNoUpdate(c) PROVE ClockInv'
  BY <1>13 DEF IrqNoUpdate
<1>14. ASSUME NEW c \in CPU, IrqWindow(c) PROVE ClockInv'
  BY <1>14 DEF IrqWindow
<1>15. ASSUME NEW c \in CPU, TickFirst(c) PROVE ClockInv'
  BY <1>15 DEF TickFirst
<1>16. ASSUME NEW c \in CPU, TickInitWindow(c) PROVE ClockInv'
  <2>1. tick_sched_clock <= clock
    BY <1>16, TimeAssumption DEF TickInitWindow, InitInv
  <2> QED BY <1>16, <2>1 DEF TickInitWindow
<1>17. ASSUME NEW c \in CPU, TickInitRollover(c) PROVE ClockInv'
  BY <1>17 DEF TickInitRollover
<1>18. ASSUME NEW c \in CPU, CpuDying(c) PROVE ClockInv'
  BY <1>18 DEF CpuDying
<1>19. ASSUME NEW c \in CPU, CpuDead(c) PROVE ClockInv'
  BY <1>19 DEF CpuDead
<1>20. ASSUME NEW c \in CPU, CpuUp(c) PROVE ClockInv'
  BY <1>20 DEF CpuUp
<1>21. ASSUME NEW c \in CPU, lse_suspend(c) PROVE ClockInv'
  BY <1>21 DEF lse_suspend
<1>22. QED
  BY <1>1, <1>2, <1>3, <1>4, <1>5, <1>6, <1>7, <1>8, <1>9, <1>10, <1>11,
     <1>12, <1>13, <1>14, <1>15, <1>16, <1>17, <1>18, <1>19, <1>20, <1>21 DEF
     Next, CpuNext

\* Every step keeps what is known while the first windows are opened.
LEMMA InitNext ==
  IInv /\ [Next]_vars => InitInv'
<1> SUFFICES ASSUME IInv, [Next]_vars PROVE InitInv'
  OBVIOUS
<1> USE DEF IInv, TypeOK, InitInv,
           Goto, vars, rqVars, sizeVars, initVars, rollVars, pmVars
<1>1. CASE UNCHANGED vars
  BY <1>1
<1>2. CASE Tick
  <2>1. \A d \in CPU : pc[d] = "init" => clock' <= rq_clock[d] + MaxHold
    BY <1>2, TimeAssumption DEF Tick, Sampled
  <2> QED BY <1>2, <2>1 DEF Tick
<1>3. CASE sched_ravg_window_change
  BY <1>3 DEF sched_ravg_window_change
<1>4. CASE lse_resume
  BY <1>4 DEF lse_resume
<1>5. ASSUME NEW c \in CPU, RqLock(c) PROVE InitInv'
  BY <1>5 DEF RqLock
<1>6. ASSUME NEW c \in CPU, RqRelock(c) PROVE InitInv'
  BY <1>6 DEF RqRelock
<1>7. ASSUME NEW c \in CPU, RqUnlock(c) PROVE InitInv'
  BY <1>7 DEF RqUnlock
<1>8. ASSUME NEW c \in CPU, UpdateTaskRavg(c) PROVE InitInv'
  <2>1. ASSUME NEW d \in CPU, pc[d] = "init" PROVE window_start' = window_start
    <3>1. window_start[c] # 0 /\ window_start[c] = tick_sched_clock
      BY <1>8, <2>1 DEF UpdateTaskRavg, Hooking
    <3>2. clock < window_start[c] + lse_sched_ravg_window
      BY <2>1, <3>1, WindowIsLong, TimeAssumption, WindowAssumption
    <3>3. window_start'[c] = window_start[c]
      BY <1>8, <3>2, UpdateLemma, WindowAssumption DEF ClockInv
    <3> QED BY <1>8, <3>3 DEF UpdateTaskRavg
  <2>2. tick_sched_clock # 0
    BY <1>8 DEF UpdateTaskRavg, Hooking
  <2>3. \A d \in CPU : pc'[d] = "init" <=> pc[d] = "init"
    BY <1>8 DEF UpdateTaskRavg, Hooking
  <2> QED BY <1>8, <2>1, <2>2, <2>3 DEF UpdateTaskRavg
<1>9. ASSUME NEW c \in CPU, UpdateWindowStartBug(c) PROVE InitInv'
  BY <1>9 DEF UpdateWindowStartBug
<1>10. ASSUME NEW c \in CPU, RavgDone(c) PROVE InitInv'
  <2>1. tick_sched_clock # 0
    BY <1>10 DEF RavgDone, RavgInv, InRavg
  <2>2. ASSUME NEW d \in CPU, pc[d] = "init" PROVE UNCHANGED rollVars
    BY <1>10, <2>2 DEF RavgDone, lse_window_rollover_run_once, RavgInv, InRavg
  <2>3. \A d \in CPU : pc'[d] = "init" <=> pc[d] = "init"
    BY <1>10 DEF RavgDone
  <2> QED BY <1>10, <2>1, <2>2, <2>3 DEF RavgDone
<1>11. ASSUME NEW c \in CPU, RavgBug(c) PROVE InitInv'
  BY <1>11 DEF RavgBug
<1>12. ASSUME NEW c \in CPU, IrqWork(c) PROVE InitInv'
  BY <1>12 DEF IrqWork
<1>13. ASSUME NEW c \in CPU, IrqNoUpdate(c) PROVE InitInv'
  BY <1>13 DEF IrqNoUpdate
<1>14. ASSUME NEW c \in CPU, IrqWindow(c) PROVE InitInv'
  BY <1>14 DEF IrqWindow
<1>15. ASSUME NEW c \in CPU, TickFirst(c) PROVE InitInv'
  <2>1. \A d \in CPU : pc'[d] = "init" => d = c
    BY <1>15 DEF TickFirst
  <2>2. tick_sched_clock' > 0 /\ rq_clock[c] = tick_sched_clock' + TickLead
    BY <1>15, TimeAssumption DEF TickFirst
  <2>3. \A d \in CPU : ~(d < init_cpu') /\ window_start[d] = 0
    BY <1>15 DEF TickFirst, CPU
  <2>4. /\ lse_run_rollover_lastq_ws' = 0
        /\ rq_clock' = rq_clock /\ clock' = clock
        /\ clock <= rq_clock[c] + MaxHold
        /\ window_start' = window_start
    BY <1>15 DEF TickFirst
  <2>5. tick_sched_clock' # 0
    BY <2>2, <1>15 DEF TickFirst
  <2> QED BY <2>1, <2>2, <2>3, <2>4, <2>5
<1>16. ASSUME NEW c \in CPU, TickInitWindow(c) PROVE InitInv'
  <2>1. \A d \in CPU : window_start'[d] =
                           IF d < init_cpu' THEN tick_sched_clock ELSE 0
    BY <1>16 DEF TickInitWindow, CPU
  <2> QED BY <1>16, <2>1 DEF TickInitWindow
<1>17. ASSUME NEW c \in CPU, TickInitRollover(c) PROVE InitInv'
  BY <1>17 DEF TickInitRollover
<1>18. ASSUME NEW c \in CPU, CpuDying(c) PROVE InitInv'
  BY <1>18 DEF CpuDying
<1>19. ASSUME NEW c \in CPU, CpuDead(c) PROVE InitInv'
  BY <1>19 DEF CpuDead
<1>20. ASSUME NEW c \in CPU, CpuUp(c) PROVE InitInv'
  BY <1>20 DEF CpuUp
<1>21. ASSUME NEW c \in CPU, lse_suspend(c) PROVE InitInv'
  BY <1>21 DEF lse_suspend
<1>22. QED
  BY <1>1, <1>2, <1>3, <1>4, <1>5, <1>6, <1>7, <1>8, <1>9, <1>10, <1>11,
     <1>12, <1>13, <1>14, <1>15, <1>16, <1>17, <1>18, <1>19, <1>20, <1>21 DEF
     Next, CpuNext

\* Every step keeps windows in progress moving forward.
LEMMA RavgNext ==
  IInv /\ [Next]_vars => RavgInv'
<1> SUFFICES ASSUME IInv, [Next]_vars PROVE RavgInv'
  OBVIOUS
<1> USE DEF IInv, TypeOK, RavgInv, InRavg,
           Goto, vars, rqVars, sizeVars, initVars, rollVars, pmVars
<1>1. CASE UNCHANGED vars
  BY <1>1
<1>2. CASE Tick
  BY <1>2 DEF Tick
<1>3. CASE sched_ravg_window_change
  BY <1>3 DEF sched_ravg_window_change
<1>4. CASE lse_resume
  BY <1>4 DEF lse_resume
<1>5. ASSUME NEW c \in CPU, RqLock(c) PROVE RavgInv'
  BY <1>5 DEF RqLock
<1>6. ASSUME NEW c \in CPU, RqRelock(c) PROVE RavgInv'
  BY <1>6 DEF RqRelock
<1>7. ASSUME NEW c \in CPU, RqUnlock(c) PROVE RavgInv'
  BY <1>7 DEF RqUnlock
<1>8. ASSUME NEW c \in CPU, UpdateTaskRavg(c) PROVE RavgInv'
  <2>1. window_start[c] <= window_start'[c]
        /\ \A d \in CPU \ {c} : window_start'[d] = window_start[d]
    BY <1>8, UpdateLemma
  <2>2. 0 < window_start[c]
    BY <1>8 DEF UpdateTaskRavg, Hooking
  <2> QED BY <1>8, <2>1, <2>2 DEF UpdateTaskRavg
<1>9. ASSUME NEW c \in CPU, UpdateWindowStartBug(c) PROVE RavgInv'
  BY <1>9 DEF UpdateWindowStartBug
<1>10. ASSUME NEW c \in CPU, RavgDone(c) PROVE RavgInv'
  BY <1>10 DEF RavgDone
<1>11. ASSUME NEW c \in CPU, RavgBug(c) PROVE RavgInv'
  BY <1>11 DEF RavgBug
<1>12. ASSUME NEW c \in CPU, IrqWork(c) PROVE RavgInv'
  BY <1>12 DEF IrqWork
<1>13. ASSUME NEW c \in CPU, IrqNoUpdate(c) PROVE RavgInv'
  BY <1>13 DEF IrqNoUpdate
<1>14. ASSUME NEW c \in CPU, IrqWindow(c) PROVE RavgInv'
  BY <1>14 DEF IrqWindow
<1>15. ASSUME NEW c \in CPU, TickFirst(c) PROVE RavgInv'
  BY <1>15 DEF TickFirst
<1>16. ASSUME NEW c \in CPU, TickInitWindow(c) PROVE RavgInv'
  <2>1. \A d \in CPU : InRavg(d) => d # init_cpu
    BY <1>16 DEF TickInitWindow, InitInv
  <2> QED BY <1>16, <2>1 DEF TickInitWindow
<1>17. ASSUME NEW c \in CPU, TickInitRollover(c) PROVE RavgInv'
  BY <1>17 DEF TickInitRollover
<1>18. ASSUME NEW c \in CPU, CpuDying(c) PROVE RavgInv'
  BY <1>18 DEF CpuDying
<1>19. ASSUME NEW c \in CPU, CpuDead(c) PROVE RavgInv'
  BY <1>19 DEF CpuDead
<1>20. ASSUME NEW c \in CPU, CpuUp(c) PROVE RavgInv'
  BY <1>20 DEF CpuUp
<1>21. ASSUME NEW c \in CPU, lse_suspend(c) PROVE RavgInv'
  BY <1>21 DEF lse_suspend
<1>22. QED
  BY <1>1, <1>2, <1>3, <1>4, <1>5, <1>6, <1>7, <1>8, <1>9, <1>10, <1>11,
     <1>12, <1>13, <1>14, <1>15, <1>16, <1>17, <1>18, <1>19, <1>20, <1>21 DEF
     Next, CpuNext

\* Every step leaves the token with some CPU.
LEMMA TokenNext ==
  IInv /\ [Next]_vars => TokenHeld'
<1> SUFFICES ASSUME IInv, [Next]_vars PROVE TokenHeld'
  OBVIOUS
<1> USE DEF IInv, TypeOK, TokenHeld, InRavg,
           Goto, vars, rqVars, sizeVars, initVars, rollVars, pmVars
<1>1. CASE UNCHANGED vars
  BY <1>1
<1>2. CASE Tick
  BY <1>2 DEF Tick
<1>3. CASE sched_ravg_window_change
  BY <1>3 DEF sched_ravg_window_change
<1>4. CASE lse_resume
  BY <1>4 DEF lse_resume
<1>5. ASSUME NEW c \in CPU, RqLock(c) PROVE TokenHeld'
  BY <1>5 DEF RqLock
<1>6. ASSUME NEW c \in CPU, RqRelock(c) PROVE TokenHeld'
  BY <1>6 DEF RqRelock
<1>7. ASSUME NEW c \in CPU, RqUnlock(c) PROVE TokenHeld'
  BY <1>7 DEF RqUnlock
<1>8. ASSUME NEW c \in CPU, UpdateTaskRavg(c) PROVE TokenHeld'
  <2>1. \A d \in CPU \ {c} : window_start'[d] = window_start[d]
    BY <1>8, UpdateLemma
  <2>2. /\ pc'[c] \in {"ravg", "irq_ravg"}
        /\ old_window_start'[c] = window_start[c]
    BY <1>8 DEF UpdateTaskRavg
  <2>3. ~InRavg(c)
    BY <1>8 DEF UpdateTaskRavg, Hooking
  <2>4. \A d \in CPU \ {c} : pc'[d] = pc[d]
                             /\ old_window_start'[d] = old_window_start[d]
    BY <1>8 DEF UpdateTaskRavg
  <2> QED BY <1>8, <2>1, <2>2, <2>3, <2>4 DEF UpdateTaskRavg
<1>9. ASSUME NEW c \in CPU, UpdateWindowStartBug(c) PROVE TokenHeld'
  BY <1>9 DEF UpdateWindowStartBug
<1>10. ASSUME NEW c \in CPU, RavgDone(c) PROVE TokenHeld'
  <2>1. CASE lse_run_rollover_lastq_ws' = window_start[c]
    BY <1>10, <2>1 DEF RavgDone
  <2>2. CASE lse_run_rollover_lastq_ws' # window_start[c]
    <3>1. lse_run_rollover_lastq_ws' = lse_run_rollover_lastq_ws
      BY <1>10, <2>2 DEF RavgDone, lse_window_rollover_run_once, rollVars
    <3>2. old_window_start[c] # lse_run_rollover_lastq_ws
      BY <1>10, <2>2, <3>1 DEF RavgDone, lse_window_rollover_run_once, rollVars
    <3> QED BY <1>10, <3>1, <3>2 DEF RavgDone
  <2> QED BY <2>1, <2>2
<1>11. ASSUME NEW c \in CPU, RavgBug(c) PROVE TokenHeld'
  BY <1>11 DEF RavgBug
<1>12. ASSUME NEW c \in CPU, IrqWork(c) PROVE TokenHeld'
  BY <1>12 DEF IrqWork
<1>13. ASSUME NEW c \in CPU, IrqNoUpdate(c) PROVE TokenHeld'
  BY <1>13 DEF IrqNoUpdate
<1>14. ASSUME NEW c \in CPU, IrqWindow(c) PROVE TokenHeld'
  BY <1>14 DEF IrqWindow
<1>15. ASSUME NEW c \in CPU, TickFirst(c) PROVE TokenHeld'
  BY <1>15 DEF TickFirst
<1>16. ASSUME NEW c \in CPU, TickInitWindow(c) PROVE TokenHeld'
  BY <1>16 DEF TickInitWindow, InitInv
<1>17. ASSUME NEW c \in CPU, TickInitRollover(c) PROVE TokenHeld'
  <2>1. 0 \in CPU /\ 0 < init_cpu
    BY <1>17, NAssumption DEF TickInitRollover, CPU
  <2>2. window_start[0] = tick_sched_clock
    BY <1>17, <2>1 DEF TickInitRollover, InitInv
  <2> QED BY <1>17, <2>1, <2>2 DEF TickInitRollover
<1>18. ASSUME NEW c \in CPU, CpuDying(c) PROVE TokenHeld'
  BY <1>18 DEF CpuDying
<1>19. ASSUME NEW c \in CPU, CpuDead(c) PROVE TokenHeld'
  BY <1>19 DEF CpuDead
<1>20. ASSUME NEW c \in CPU, CpuUp(c) PROVE TokenHeld'
  BY <1>20 DEF CpuUp
<1>21. ASSUME NEW c \in CPU, lse_suspend(c) PROVE TokenHeld'
  BY <1>21 DEF lse_suspend
<1>22. QED
  BY <1>1, <1>2, <1>3, <1>4, <1>5, <1>6, <1>7, <1>8, <1>9, <1>10, <1>11,
     <1>12, <1>13, <1>14, <1>15, <1>16, <1>17, <1>18, <1>19, <1>20, <1>21 DEF
     Next, CpuNext


\* The invariant holds initially.
LEMMA InitHolds == Init => IInv
<1> SUFFICES ASSUME Init PROVE IInv
  OBVIOUS
<1>1. TypeOK
  <2>1. init_cpu \in 0 .. N
    BY NAssumption DEF Init
  <2>2. irq_work \in CPU \cup {NoCpu}
    BY DEF Init
  <2>3. lse_clock_suspended \in BOOLEAN /\ lse_bug \in BOOLEAN
    BY DEF Init
  <2>4. rq_clock \in [CPU -> Nat] /\ wc \in [CPU -> Nat]
        /\ old_window_start \in [CPU -> Nat] /\ window_start \in [CPU -> Nat]
        /\ latest_clock \in [CPU -> Nat] /\ pc \in [CPU -> PC]
        /\ cpu_state \in [CPU -> {"up", "dying", "dead"}]
    BY DEF Init, PC
  <2> QED BY <2>1, <2>2, <2>3, <2>4, WindowAssumption DEF Init, TypeOK
<1>2. ClockInv /\ RavgInv /\ TokenHeld
  BY DEF Init, ClockInv, RavgInv, InRavg, TokenHeld
<1>3. InitInv
  BY DEF Init, InitInv
<1> QED BY <1>1, <1>2, <1>3 DEF IInv

\* The invariant is inductive, so it holds in every reachable state.
THEOREM Invariance == Spec => []IInv
<1>1. IInv /\ [Next]_vars => IInv'
  BY TypeNext, ClockNext, InitNext, RavgNext, TokenNext DEF IInv
<1> QED BY <1>1, InitHolds, PTL DEF Spec

\* Type correctness of the window protocol.
THEOREM TypeCorrect == Spec => []TypeOK
<1>1. IInv => TypeOK
  BY DEF IInv
<1> QED BY <1>1, Invariance, PTL

\* For any number of CPUs, with window sizes changing and CPUs coming and
\* going: once the windows run, some CPU can always run the next rollover.
THEOREM TokenNeverLost == Spec => []TokenHeld
<1>1. IInv => TokenHeld
  BY DEF IInv
<1> QED BY <1>1, Invariance, PTL

\* The shared window start only moves forward: no window is rolled over by
\* lse_window_rollover_run_once twice.
THEOREM RolledOverOnce == Spec => LastqAdvances
<1>1. IInv /\ [Next]_vars =>
        [lse_run_rollover_lastq_ws' > lse_run_rollover_lastq_ws]_
          lse_run_rollover_lastq_ws
  <2> SUFFICES ASSUME IInv, [Next]_vars,
                      lse_run_rollover_lastq_ws' # lse_run_rollover_lastq_ws
               PROVE  lse_run_rollover_lastq_ws' > lse_run_rollover_lastq_ws
    OBVIOUS
  <2> USE DEF IInv, TypeOK
  <2>1. \E c \in CPU : RavgDone(c) \/ TickInitRollover(c)
    BY DEF Next, CpuNext, Tick, sched_ravg_window_change, lse_resume, RqLock,
           RqRelock, RqUnlock, UpdateTaskRavg, UpdateWindowStartBug, RavgBug,
           IrqWork, IrqNoUpdate, IrqWindow, TickFirst, TickInitWindow,
           CpuDying, CpuDead, CpuUp, lse_suspend, vars, rollVars
  <2>2. ASSUME NEW c \in CPU, RavgDone(c)
        PROVE  lse_run_rollover_lastq_ws' > lse_run_rollover_lastq_ws
    BY <2>2 DEF RavgDone, RavgInv, InRavg, lse_window_rollover_run_once,
                rollVars
  <2>3. ASSUME NEW c \in CPU, TickInitRollover(c)
        PROVE  lse_run_rollover_lastq_ws' > lse_run_rollover_lastq_ws
    BY <2>3 DEF TickInitRollover, Goto, InitInv
  <2> QED BY <2>1, <2>2, <2>3
<1> QED BY <1>1, Invariance, PTL DEF Spec, LastqAdvances

\* The CPUs implement the abstract rollover clock: every step claims a later
\* window and leaves the irq_work pending, runs the work, opens the first
\* window, or changes neither lse_run_rollover_lastq_ws nor whether it is
\* pending.
THEOREM Refinement == Spec => ImplementsClock
<1>1. Init => Clock!Init
  BY DEF Init, Clock!Init
<1>2. IInv /\ [Next]_vars => [Clock!Next]_Clock!vars
  <2> SUFFICES ASSUME IInv, [Next]_vars PROVE [Clock!Next]_Clock!vars
    OBVIOUS
  <2>1. CASE UNCHANGED rollVars
    BY <2>1 DEF rollVars, Clock!vars
  <2>2. ASSUME NEW c \in CPU, RavgDone(c), ~UNCHANGED rollVars
        PROVE  Clock!Claim
    <3>1. /\ lse_run_rollover_lastq_ws = old_window_start[c]
          /\ lse_run_rollover_lastq_ws' = window_start[c]
          /\ old_window_start[c] # window_start[c]
          /\ IrqWorkQueue(c)
      BY <2>2 DEF RavgDone, lse_window_rollover_run_once
    <3>2. /\ 0 < old_window_start[c] /\ old_window_start[c] <= window_start[c]
          /\ old_window_start[c] \in Nat /\ window_start[c] \in Nat
      BY <2>2 DEF IInv, TypeOK, RavgInv, InRavg, RavgDone
    <3>3. irq_work' \in CPU
      BY <3>1 DEF IrqWorkQueue, IInv, TypeOK
    <3>4. (irq_work # NoCpu)' = TRUE
      BY <3>3 DEF CPU, NoCpu
    <3> QED BY <3>1, <3>2, <3>4 DEF Clock!Claim
  <2>3. ASSUME NEW c \in CPU, TickInitRollover(c) PROVE Clock!Open
    BY <2>3 DEF TickInitRollover, Goto, IInv, InitInv, TypeOK, Clock!Open
  <2>4. ASSUME NEW c \in CPU, IrqWork(c) PROVE Clock!Run
    BY <2>4 DEF IrqWork, CPU, NoCpu, Clock!Run
  <2>5. \/ UNCHANGED rollVars
        \/ \E c \in CPU : RavgDone(c) \/ TickInitRollover(c) \/ IrqWork(c)
    BY DEF Next, CpuNext, Tick, sched_ravg_window_change, lse_resume, RqLock,
           RqRelock, RqUnlock, UpdateTaskRavg, UpdateWindowStartBug, RavgBug,
           IrqNoUpdate, IrqWindow, TickFirst, TickInitWindow,
           CpuDying, CpuDead, CpuUp, lse_suspend, vars, rollVars
  <2> QED BY <2>1, <2>2, <2>3, <2>4, <2>5 DEF Clock!Next
<1> QED BY <1>1, <1>2, Invariance, PTL DEF Spec, ImplementsClock, Clock!Spec

-----------------------------------------------------------------------------
\* No assertion fails while the size is not changed and no lock section is
\* longer than the lead of the first window.

FixedWindow == Windows = {InitWindow} /\ MaxHold <= TickLead

\* What the clock samples of a CPU are worth when it uses them.
SampleInv ==
  /\ tick_sched_clock # 0 => tick_sched_clock + TickLead <= clock
  /\ \A c \in CPU :
       /\ pc[c] \in {"locked", "ravg"} => clock <= rq_clock[c] + MaxHold
       /\ window_start[c] <= latest_clock[c]
            \/ window_start[c] = tick_sched_clock
       /\ pc[c] = "irq" => latest_clock[c] <= wc[c] /\ window_start[c] <= wc[c]
       /\ InRavg(c) => wc[c] < window_start[c] + lse_sched_ravg_window

\* The work is queued only after the windows were opened, and on a CPU that
\* is up; a dead CPU runs nothing.
IrqInv ==
  /\ lse_run_rollover_lastq_ws = 0 =>
       irq_work = NoCpu /\ \A c \in CPU : pc[c] \notin IrqPC
  /\ \A c \in CPU : irq_work = c => cpu_state[c] = "up"
  /\ \A c \in CPU : cpu_state[c] = "dead" => pc[c] = "out"

\* While the clock is suspended nobody is ahead of the value it stopped at.
SuspendInv ==
  lse_clock_suspended =>
    \A c \in CPU : /\ latest_clock[c] <= lse_clock_last
                   /\ window_start[c] <= lse_clock_last
                   /\ wc[c] <= lse_clock_last
                   /\ pc[c] # "init"

SafeInv == SampleInv /\ IrqInv /\ SuspendInv /\ NoLseBug

\* Every step keeps the samples good.
LEMMA SampleNext ==
  FixedWindow /\ IInv /\ SafeInv /\ [Next]_vars => SampleInv'
<1> SUFFICES ASSUME FixedWindow /\ IInv /\ SafeInv, [Next]_vars PROVE SampleInv'
  OBVIOUS
<1> USE DEF FixedWindow, IInv, TypeOK, SafeInv, SampleInv, InRavg,
           Goto, vars, rqVars, sizeVars, initVars, rollVars, pmVars
<1>1. CASE UNCHANGED vars
  BY <1>1
<1>2. CASE Tick
  BY <1>2, TimeAssumption DEF Tick, Sampled
<1>3. CASE sched_ravg_window_change
  BY <1>3 DEF sched_ravg_window_change
<1>4. CASE lse_resume
  BY <1>4 DEF lse_resume
<1>5. ASSUME NEW c \in CPU, RqLock(c) PROVE SampleInv'
  BY <1>5, TimeAssumption DEF RqLock
<1>6. ASSUME NEW c \in CPU, RqRelock(c) PROVE SampleInv'
  BY <1>6 DEF RqRelock
<1>7. ASSUME NEW c \in CPU, RqUnlock(c) PROVE SampleInv'
  BY <1>7 DEF RqUnlock
<1>8. ASSUME NEW c \in CPU, UpdateTaskRavg(c) PROVE SampleInv'
  <2>1. /\ Wallclock(c) \in Nat /\ window_start'[c] \in Nat
        /\ window_start'[c] <= Wallclock(c)
        /\ Wallclock(c) < window_start'[c] + lse_sched_ravg_window
        /\ \A d \in CPU \ {c} : window_start'[d] = window_start[d]
    BY <1>8, UpdateLemma
  <2> QED BY <1>8, <2>1
    DEF UpdateTaskRavg, Hooking
<1>9. ASSUME NEW c \in CPU, UpdateWindowStartBug(c) PROVE SampleInv'
  BY <1>9 DEF UpdateWindowStartBug
<1>10. ASSUME NEW c \in CPU, RavgDone(c) PROVE SampleInv'
  BY <1>10 DEF RavgDone
<1>11. ASSUME NEW c \in CPU, RavgBug(c) PROVE SampleInv'
  BY <1>11 DEF RavgBug
<1>12. ASSUME NEW c \in CPU, IrqWork(c) PROVE SampleInv'
  BY <1>12 DEF IrqWork, lse_sched_clock, ClockInv, SuspendInv
<1>13. ASSUME NEW c \in CPU, IrqNoUpdate(c) PROVE SampleInv'
  BY <1>13 DEF IrqNoUpdate
<1>14. ASSUME NEW c \in CPU, IrqWindow(c) PROVE SampleInv'
  BY <1>14 DEF IrqWindow
<1>15. ASSUME NEW c \in CPU, TickFirst(c) PROVE SampleInv'
  <2>1. tick_sched_clock' + TickLead <= clock
    BY <1>15, TimeAssumption DEF TickFirst, ClockInv
  <2>2. \A d \in CPU : window_start[d] = 0
    BY <1>15 DEF TickFirst, InitInv
  <2> QED BY <1>15, <2>1, <2>2 DEF TickFirst
<1>16. ASSUME NEW c \in CPU, TickInitWindow(c) PROVE SampleInv'
  <2>1. \A d \in CPU : InRavg(d) => d # init_cpu
    BY <1>16 DEF TickInitWindow, InitInv, RavgInv
  <2>2. \A d \in CPU : pc[d] # "irq"
    BY <1>16 DEF TickInitWindow, InitInv, IrqInv, IrqPC
  <2> QED BY <1>16, <2>1, <2>2 DEF TickInitWindow
<1>17. ASSUME NEW c \in CPU, TickInitRollover(c) PROVE SampleInv'
  BY <1>17 DEF TickInitRollover
<1>18. ASSUME NEW c \in CPU, CpuDying(c) PROVE SampleInv'
  BY <1>18 DEF CpuDying
<1>19. ASSUME NEW c \in CPU, CpuDead(c) PROVE SampleInv'
  BY <1>19 DEF CpuDead
<1>20. ASSUME NEW c \in CPU, CpuUp(c) PROVE SampleInv'
  BY <1>20 DEF CpuUp
<1>21. ASSUME NEW c \in CPU, lse_suspend(c) PROVE SampleInv'
  BY <1>21 DEF lse_suspend
<1>22. QED
  BY <1>1, <1>2, <1>3, <1>4, <1>5, <1>6, <1>7, <1>8, <1>9, <1>10, <1>11,
     <1>12, <1>13, <1>14, <1>15, <1>16, <1>17, <1>18, <1>19, <1>20, <1>21 DEF
     Next, CpuNext

\* Every step keeps the work on a CPU that can run it.
LEMMA IrqNext ==
  IInv /\ SafeInv /\ [Next]_vars => IrqInv'
<1> SUFFICES ASSUME IInv /\ SafeInv, [Next]_vars PROVE IrqInv'
  OBVIOUS
<1> USE DEF IInv, TypeOK, SafeInv, IrqInv, IrqPC, NoCpu,
           Goto, vars, rqVars, sizeVars, initVars, rollVars, pmVars
<1>1. CASE UNCHANGED vars
  BY <1>1
<1>2. CASE Tick
  BY <1>2 DEF Tick
<1>3. CASE sched_ravg_window_change
  BY <1>3 DEF sched_ravg_window_change
<1>4. CASE lse_resume
  BY <1>4 DEF lse_resume
<1>5. ASSUME NEW c \in CPU, RqLock(c) PROVE IrqInv'
  BY <1>5 DEF RqLock
<1>6. ASSUME NEW c \in CPU, RqRelock(c) PROVE IrqInv'
  BY <1>6 DEF RqRelock
<1>7. ASSUME NEW c \in CPU, RqUnlock(c) PROVE IrqInv'
  BY <1>7 DEF RqUnlock
<1>8. ASSUME NEW c \in CPU, UpdateTaskRavg(c) PROVE IrqInv'
  BY <1>8 DEF UpdateTaskRavg, Hooking
<1>9. ASSUME NEW c \in CPU, UpdateWindowStartBug(c) PROVE IrqInv'
  BY <1>9 DEF UpdateWindowStartBug
<1>10. ASSUME NEW c \in CPU, RavgDone(c) PROVE IrqInv'
  BY <1>10 DEF RavgDone, lse_window_rollover_run_once, IrqWorkQueue,
               RavgInv, InRavg
<1>11. ASSUME NEW c \in CPU, RavgBug(c) PROVE IrqInv'
  BY <1>11 DEF RavgBug
<1>12. ASSUME NEW c \in CPU, IrqWork(c) PROVE IrqInv'
  BY <1>12 DEF IrqWork, CPU
<1>13. ASSUME NEW c \in CPU, IrqNoUpdate(c) PROVE IrqInv'
  BY <1>13 DEF IrqNoUpdate
<1>14. ASSUME NEW c \in CPU, IrqWindow(c) PROVE IrqInv'
  BY <1>14 DEF IrqWindow
<1>15. ASSUME NEW c \in CPU, TickFirst(c) PROVE IrqInv'
  BY <1>15 DEF TickFirst
<1>16. ASSUME NEW c \in CPU, TickInitWindow(c) PROVE IrqInv'
  BY <1>16 DEF TickInitWindow
<1>17. ASSUME NEW c \in CPU, TickInitRollover(c) PROVE IrqInv'
  BY <1>17 DEF TickInitRollover, InitInv
<1>18. ASSUME NEW c \in CPU, CpuDying(c) PROVE IrqInv'
  BY <1>18 DEF CpuDying
<1>19. ASSUME NEW c \in CPU, CpuDead(c) PROVE IrqInv'
  BY <1>19 DEF CpuDead
<1>20. ASSUME NEW c \in CPU, CpuUp(c) PROVE IrqInv'
  BY <1>20 DEF CpuUp
<1>21. ASSUME NEW c \in CPU, lse_suspend(c) PROVE IrqInv'
  BY <1>21 DEF lse_suspend
<1>22. QED
  BY <1>1, <1>2, <1>3, <1>4, <1>5, <1>6, <1>7, <1>8, <1>9, <1>10, <1>11,
     <1>12, <1>13, <1>14, <1>15, <1>16, <1>17, <1>18, <1>19, <1>20, <1>21 DEF
     Next, CpuNext

\* Every step respects the suspended clock.
LEMMA SuspendNext ==
  IInv /\ SafeInv /\ [Next]_vars => SuspendInv'
<1> SUFFICES ASSUME IInv /\ SafeInv, [Next]_vars PROVE SuspendInv'
  OBVIOUS
<1> USE DEF IInv, TypeOK, SafeInv, SuspendInv,
           Goto, vars, rqVars, sizeVars, initVars, rollVars, pmVars
<1>1. CASE UNCHANGED vars
  BY <1>1
<1>2. CASE Tick
  BY <1>2 DEF Tick
<1>3. CASE sched_ravg_window_change
  BY <1>3 DEF sched_ravg_window_change
<1>4. CASE lse_resume
  BY <1>4 DEF lse_resume
<1>5. ASSUME NEW c \in CPU, RqLock(c) PROVE SuspendInv'
  BY <1>5 DEF RqLock
<1>6. ASSUME NEW c \in CPU, RqRelock(c) PROVE SuspendInv'
  BY <1>6 DEF RqRelock
<1>7. ASSUME NEW c \in CPU, RqUnlock(c) PROVE SuspendInv'
  BY <1>7 DEF RqUnlock
<1>8. ASSUME NEW c \in CPU, UpdateTaskRavg(c) PROVE SuspendInv'
  <2>1. /\ window_start'[c] <= Wallclock(c) /\ window_start'[c] \in Nat
        /\ \A d \in CPU \ {c} : window_start'[d] = window_start[d]
    BY <1>8, UpdateLemma
  <2>2. lse_clock_suspended => Wallclock(c) <= lse_clock_last
    BY <1>8 DEF Wallclock, lse_rq_clock
  <2>3. Wallclock(c) \in Nat
    BY <1>8, UpdateLemma
  <2> QED BY <1>8, <2>1, <2>2, <2>3 DEF UpdateTaskRavg
<1>9. ASSUME NEW c \in CPU, UpdateWindowStartBug(c) PROVE SuspendInv'
  BY <1>9 DEF UpdateWindowStartBug
<1>10. ASSUME NEW c \in CPU, RavgDone(c) PROVE SuspendInv'
  BY <1>10 DEF RavgDone
<1>11. ASSUME NEW c \in CPU, RavgBug(c) PROVE SuspendInv'
  BY <1>11 DEF RavgBug
<1>12. ASSUME NEW c \in CPU, IrqWork(c) PROVE SuspendInv'
  BY <1>12 DEF IrqWork, lse_sched_clock
<1>13. ASSUME NEW c \in CPU, IrqNoUpdate(c) PROVE SuspendInv'
  BY <1>13 DEF IrqNoUpdate
<1>14. ASSUME NEW c \in CPU, IrqWindow(c) PROVE SuspendInv'
  BY <1>14 DEF IrqWindow
<1>15. ASSUME NEW c \in CPU, TickFirst(c) PROVE SuspendInv'
  BY <1>15 DEF TickFirst
<1>16. ASSUME NEW c \in CPU, TickInitWindow(c) PROVE SuspendInv'
  BY <1>16 DEF TickInitWindow
<1>17. ASSUME NEW c \in CPU, TickInitRollover(c) PROVE SuspendInv'
  BY <1>17 DEF TickInitRollover
<1>18. ASSUME NEW c \in CPU, CpuDying(c) PROVE SuspendInv'
  BY <1>18 DEF CpuDying
<1>19. ASSUME NEW c \in CPU, CpuDead(c) PROVE SuspendInv'
  BY <1>19 DEF CpuDead
<1>20. ASSUME NEW c \in CPU, CpuUp(c) PROVE SuspendInv'
  BY <1>20 DEF CpuUp
<1>21. ASSUME NEW c \in CPU, lse_suspend(c) PROVE SuspendInv'
  <2>1. \A d \in CPU : pc[d] = "out"
    BY <1>21 DEF lse_suspend, IrqInv
  <2> QED BY <1>21, <2>1 DEF lse_suspend, ClockInv
<1>22. QED
  BY <1>1, <1>2, <1>3, <1>4, <1>5, <1>6, <1>7, <1>8, <1>9, <1>10, <1>11,
     <1>12, <1>13, <1>14, <1>15, <1>16, <1>17, <1>18, <1>19, <1>20, <1>21 DEF
     Next, CpuNext

\* No step fails an assertion.
LEMMA BugNext ==
  FixedWindow /\ IInv /\ SafeInv /\ [Next]_vars => NoLseBug'
<1> SUFFICES ASSUME FixedWindow /\ IInv /\ SafeInv, [Next]_vars PROVE NoLseBug'
  OBVIOUS
<1> USE DEF SafeInv, NoLseBug,
           Goto, vars, rqVars, sizeVars, initVars, rollVars, pmVars
<1>1. CASE UNCHANGED vars
  BY <1>1
<1>2. CASE Tick
  BY <1>2 DEF Tick
<1>3. CASE sched_ravg_window_change
  BY <1>3 DEF sched_ravg_window_change
<1>4. CASE lse_resume
  BY <1>4 DEF lse_resume
<1>5. ASSUME NEW c \in CPU, RqLock(c) PROVE NoLseBug'
  BY <1>5 DEF RqLock
<1>6. ASSUME NEW c \in CPU, RqRelock(c) PROVE NoLseBug'
  BY <1>6 DEF RqRelock
<1>7. ASSUME NEW c \in CPU, RqUnlock(c) PROVE NoLseBug'
  BY <1>7 DEF RqUnlock
<1>8. ASSUME NEW c \in CPU, UpdateTaskRavg(c) PROVE NoLseBug'
  BY <1>8 DEF UpdateTaskRavg
<1>9. ASSUME NEW c \in CPU, UpdateWindowStartBug(c) PROVE NoLseBug'
  <2>1. ~ClockBehind(c)
    <3> USE DEF UpdateWindowStartBug, Hooking, ClockBehind, Wallclock, IInv,
                TypeOK
    <3>1. CASE pc[c] = "irq"
      BY <1>9, <3>1 DEF SampleInv
    <3>2. CASE pc[c] = "locked" /\ lse_clock_suspended
      BY <1>9, <3>2 DEF SuspendInv, lse_rq_clock
    <3>3. CASE pc[c] = "locked" /\ ~lse_clock_suspended
      <4>1. window_start[c] <= latest_clock[c] \/ window_start[c] <= rq_clock[c]
        BY <1>9, <3>3, TimeAssumption DEF SampleInv, FixedWindow
      <4> QED BY <1>9, <3>3, <4>1 DEF lse_rq_clock, Max2
    <3> QED BY <1>9, <3>1, <3>2, <3>3
  <2> QED BY <1>9, <2>1 DEF UpdateWindowStartBug
<1>10. ASSUME NEW c \in CPU, RavgDone(c) PROVE NoLseBug'
  BY <1>10 DEF RavgDone
<1>11. ASSUME NEW c \in CPU, RavgBug(c) PROVE NoLseBug'
  BY <1>11, WindowAssumption
     DEF RavgBug, MarkAhead, SampleInv, InRavg, IInv, TypeOK
<1>12. ASSUME NEW c \in CPU, IrqWork(c) PROVE NoLseBug'
  BY <1>12 DEF IrqWork
<1>13. ASSUME NEW c \in CPU, IrqNoUpdate(c) PROVE NoLseBug'
  BY <1>13 DEF IrqNoUpdate
<1>14. ASSUME NEW c \in CPU, IrqWindow(c) PROVE NoLseBug'
  BY <1>14 DEF IrqWindow
<1>15. ASSUME NEW c \in CPU, TickFirst(c) PROVE NoLseBug'
  BY <1>15 DEF TickFirst
<1>16. ASSUME NEW c \in CPU, TickInitWindow(c) PROVE NoLseBug'
  BY <1>16 DEF TickInitWindow
<1>17. ASSUME NEW c \in CPU, TickInitRollover(c) PROVE NoLseBug'
  BY <1>17 DEF TickInitRollover
<1>18. ASSUME NEW c \in CPU, CpuDying(c) PROVE NoLseBug'
  BY <1>18 DEF CpuDying
<1>19. ASSUME NEW c \in CPU, CpuDead(c) PROVE NoLseBug'
  BY <1>19 DEF CpuDead
<1>20. ASSUME NEW c \in CPU, CpuUp(c) PROVE NoLseBug'
  BY <1>20 DEF CpuUp
<1>21. ASSUME NEW c \in CPU, lse_suspend(c) PROVE NoLseBug'
  BY <1>21 DEF lse_suspend
<1>22. QED
  BY <1>1, <1>2, <1>3, <1>4, <1>5, <1>6, <1>7, <1>8, <1>9, <1>10, <1>11,
     <1>12, <1>13, <1>14, <1>15, <1>16, <1>17, <1>18, <1>19, <1>20, <1>21 DEF
     Next, CpuNext


\* For any number of CPUs: if the window size is never changed and no lock
\* section is longer than the 20us by which the first window precedes the
\* tick, no LSE_BUG of update_window_start or lse_update_task_ravg is hit,
\* across CPU hotplug, suspend and resume.
THEOREM NoPanic == ASSUME FixedWindow PROVE Spec => []NoLseBug
<1>1. Init => SafeInv
  BY DEF Init, SafeInv, SampleInv, IrqInv, IrqPC, SuspendInv, NoLseBug, InRavg,
         NoCpu, CPU
<1>2. IInv /\ SafeInv /\ [Next]_vars => SafeInv'
  BY FixedWindow, SampleNext, IrqNext, SuspendNext, BugNext DEF SafeInv
<1>3. SafeInv => NoLseBug
  BY DEF SafeInv
<1> QED BY <1>1, <1>2, <1>3, Invariance, PTL DEF Spec


-----------------------------------------------------------------------------
\* With one window size, the windows of all CPUs are on one grid.

\* A window start that has been set is a number of windows after the first.
\* Unlike WindowsAligned, this says that it does not lie before it.
Grid(x) == x # 0 => \E k \in Nat : x = tick_sched_clock + k * InitWindow
GridInv == Grid(lse_run_rollover_lastq_ws) /\ \A c \in CPU : Grid(window_start[c])

\* A number of windows is divided by the window without rest.
LEMMA Multiple ==
  ASSUME NEW k \in Nat, NEW w \in Nat \ {0}
  PROVE  (k * w) % w = 0
<1> DEFINE p == k * w
           q == p \div w
<1>1. p \in Nat
  OBVIOUS
<1>2. p % w = p - w * q
  <2> HIDE DEF p
  <2> QED BY <1>1
<1>3. q \in Nat /\ w * q <= p /\ p < w * q + w
  <2> HIDE DEF p
  <2> QED BY <1>1
<1> HIDE DEF q
<1>4. w * q \in Nat
  BY <1>3
<1>5. ~(q + 1 <= k)
  <2> SUFFICES ASSUME q + 1 <= k PROVE FALSE
    OBVIOUS
  <2>1. w * (q + 1) <= w * k /\ w * (q + 1) = w * q + w /\ w * k = p
    BY <1>3
  <2> HIDE DEF p
  <2> QED BY <1>1, <1>3, <1>4, <2>1
<1>6. ~(q >= k + 1)
  <2> SUFFICES ASSUME q >= k + 1 PROVE FALSE
    OBVIOUS
  <2>1. w * (k + 1) <= w * q /\ w * (k + 1) = p + w
    BY <1>3
  <2> HIDE DEF p
  <2> QED BY <1>1, <1>3, <1>4, <2>1
<1>7. q = k /\ w * q = p
  BY <1>3, <1>5, <1>6
<1> QED BY <1>1, <1>2, <1>7

\* Every step keeps the windows on the grid.
LEMMA GridNext ==
  ASSUME Windows = {InitWindow}, IInv, GridInv, [Next]_vars
  PROVE  GridInv'
<1> USE DEF Goto, vars, rqVars, sizeVars, initVars, rollVars, pmVars
<1>0. /\ TypeOK /\ InitInv /\ lse_sched_ravg_window = InitWindow
      /\ InitWindow \in Nat \ {0}
  BY WindowAssumption DEF IInv, TypeOK
<1>1. ASSUME UNCHANGED <<tick_sched_clock, window_start>>,
             lse_run_rollover_lastq_ws' \in
               {lse_run_rollover_lastq_ws, tick_sched_clock}
                 \cup {window_start[c] : c \in CPU}
      PROVE  GridInv'
  <2>1. \A x : Grid(x)' <=> Grid(x)
    BY <1>1 DEF Grid
  <2>2. Grid(tick_sched_clock)
    BY <1>0 DEF Grid, TypeOK
  <2>3. Grid(lse_run_rollover_lastq_ws')
    BY <1>1, <2>2 DEF GridInv
  <2> QED BY <1>1, <2>1, <2>3 DEF GridInv, Grid
<1>2. ASSUME NEW c \in CPU, UpdateTaskRavg(c) PROVE GridInv'
  <2> DEFINE n == (Wallclock(c) - window_start[c]) \div lse_sched_ravg_window
             W == InitWindow
  <2>1. /\ UNCHANGED <<tick_sched_clock, lse_run_rollover_lastq_ws>>
        /\ window_start[c] \in Nat /\ window_start[c] # 0
        /\ window_start' = [window_start EXCEPT ![c] = window_start[c] + n * W]
    BY <1>0, <1>2 DEF UpdateTaskRavg, Hooking, update_window_start, TypeOK
  <2>2. n \in Nat
    <3> DEFINE d == Wallclock(c) - window_start[c]
    <3>1. Wallclock(c) \in Nat /\ ~(Wallclock(c) < window_start[c])
      BY <1>0, <1>2, UpdateLemma DEF IInv, UpdateTaskRavg, ClockBehind
    <3>2. d \in Nat
      BY <2>1, <3>1
    <3> HIDE DEF d
    <3>3. d \div InitWindow \in Nat
      BY <1>0, <3>2
    <3> QED BY <1>0, <3>3 DEF d
  <2> HIDE DEF n
  <2>3. PICK k \in Nat : window_start[c] = tick_sched_clock + k * W
    BY <2>1 DEF GridInv, Grid
  <2>4. window_start[c] + n * W = tick_sched_clock + (k + n) * W
    BY <1>0, <2>2, <2>3 DEF TypeOK
  <2>5. k + n \in Nat /\ window_start \in [CPU -> Nat]
    BY <1>0, <2>2 DEF TypeOK
  <2>6. Grid(window_start[c] + n * W)
    BY <2>4, <2>5 DEF Grid
  <2>7. ASSUME NEW d \in CPU PROVE Grid(window_start'[d])
    BY <2>1, <2>5, <2>6 DEF GridInv
  <2> QED BY <2>1, <2>7 DEF GridInv, Grid
<1>3. ASSUME NEW c \in CPU, TickFirst(c) PROVE GridInv'
  <2>1. /\ tick_sched_clock = 0 /\ window_start' = window_start
        /\ lse_run_rollover_lastq_ws' = lse_run_rollover_lastq_ws
    BY <1>3 DEF TickFirst
  <2> QED BY <1>0, <2>1 DEF InitInv, GridInv, Grid
<1>4. ASSUME NEW c \in CPU, TickInitWindow(c) PROVE GridInv'
  <2>1. /\ UNCHANGED <<tick_sched_clock, lse_run_rollover_lastq_ws>>
        /\ \A d \in CPU : window_start'[d] \in {window_start[d], tick_sched_clock}
    BY <1>0, <1>4 DEF TickInitWindow, TypeOK
  <2>2. Grid(tick_sched_clock)
    BY <1>0 DEF Grid, TypeOK
  <2>3. \A d \in CPU : Grid(window_start'[d])
    BY <2>1, <2>2 DEF GridInv
  <2> QED BY <2>1, <2>3 DEF GridInv, Grid
<1>5. ASSUME NEW c \in CPU, RavgDone(c) \/ TickInitRollover(c) PROVE GridInv'
  BY <1>1, <1>5 DEF RavgDone, TickInitRollover, lse_window_rollover_run_once
<1>6. CASE UNCHANGED vars \/ Tick \/ sched_ravg_window_change \/ lse_resume
  BY <1>1, <1>6 DEF Tick, sched_ravg_window_change, lse_resume
<1>7. ASSUME NEW c \in CPU,
             \/ RqLock(c) \/ RqRelock(c) \/ RqUnlock(c)
             \/ UpdateWindowStartBug(c) \/ RavgBug(c)
             \/ IrqWork(c) \/ IrqNoUpdate(c) \/ IrqWindow(c)
             \/ CpuDying(c) \/ CpuDead(c) \/ CpuUp(c) \/ lse_suspend(c)
      PROVE  GridInv'
  <2>1. UNCHANGED <<tick_sched_clock, window_start, lse_run_rollover_lastq_ws>>
    BY <1>7 DEF RqLock, RqRelock, RqUnlock, UpdateWindowStartBug, RavgBug,
                IrqWork, IrqNoUpdate, IrqWindow, CpuDying, CpuDead, CpuUp,
                lse_suspend
  <2> QED BY <1>1, <2>1
<1> QED BY <1>2, <1>3, <1>4, <1>5, <1>6, <1>7 DEF Next, CpuNext

\* With one window size every CPU stays on the grid of windows that the first
\* tick fixed, however late it notices the end of a window.
THEOREM OneGrid ==
  ASSUME Windows = {InitWindow}
  PROVE  Spec => []WindowsAligned
<1>1. Init => GridInv
  BY DEF Init, GridInv, Grid
<1>2. IInv /\ GridInv /\ [Next]_vars => GridInv'
  BY GridNext
<1>3. IInv /\ GridInv => WindowsAligned
  <2> SUFFICES ASSUME IInv, GridInv PROVE WindowsAligned
    OBVIOUS
  <2>1. /\ lse_sched_ravg_window = InitWindow /\ InitWindow \in Nat \ {0}
        /\ tick_sched_clock \in Nat
    BY WindowAssumption DEF IInv, TypeOK
  <2>2. ASSUME NEW x, Grid(x) PROVE OnGrid(x)
    <3> SUFFICES ASSUME x # 0
                 PROVE  (x - tick_sched_clock) % InitWindow = 0
      BY <2>1 DEF OnGrid
    <3>1. PICK k \in Nat : x = tick_sched_clock + k * InitWindow
      BY <2>2 DEF Grid
    <3>2. k * InitWindow \in Nat
      BY <2>1
    <3>3. x - tick_sched_clock = k * InitWindow
      BY <2>1, <3>1, <3>2
    <3>4. (k * InitWindow) % InitWindow = 0
      BY <2>1, Multiple
    <3> QED BY <3>3, <3>4
  <2> QED BY <2>2 DEF GridInv, WindowsAligned
<1> QED BY <1>1, <1>2, <1>3, Invariance, PTL DEF Spec
=============================================================================
