----------------------------- MODULE ShadowTick -----------------------------
(***************************************************************************)
(* The shadow tick (lse_shadow_tick.c): one hrtimer per CPU that updates   *)
(* the running task every millisecond while the CPU is busy.  The schedule *)
(* hook starts and cancels the timer of its own CPU; the sysctl            *)
(* scx_shadow_tick_enable does so for every CPU, from the CPU it runs on.  *)
(*                                                                         *)
(* The hook decides on rq->curr, which is still prev while it runs (see    *)
(* lse_util_track.c:152-157); rq->curr becomes next when it has returned.  *)
(*                                                                         *)
(* A hook and a callback run with interrupts off, so a CPU runs one of     *)
(* them at a time; the sysctl is a task that any of them may interrupt.    *)
(* HRTIMER_MODE_REL_PINNED puts the timer on the CPU that starts it.       *)
(***************************************************************************)
EXTENDS Integers

CONSTANTS
  ShadowCpus,   \* the online CPUs
  NoCpu,        \* no CPU
  Sysctl        \* the task that writes the sysctl

ASSUME ShadowAssumption ==
  NoCpu \notin ShadowCpus /\ Sysctl \notin ShadowCpus

VARIABLES
  highres_tick_ctrl, slim_walt_ctrl,
  curr_idle,  \* per CPU: rq->curr = rq->idle
  armed,      \* lse_shadow_tick_armed
  queued,     \* per timer: the CPU on whose base it is queued
  running,    \* per timer: the CPU that runs its callback
  shadow_pc,  \* of each CPU's hook or callback, and of the sysctl's loop
  todo,       \* the CPUs lse_shadow_tick_sync_all has still to visit
  target,     \* the CPU it is visiting
  own         \* history, per CPU: "hook" while a hook runs that may be the
              \* first to cancel its timer since the last sysctl write was
              \* complete; once one has, what its last hook took the CPU for:
              \* "busy" or "idle"

shadowVars == <<highres_tick_ctrl, slim_walt_ctrl, curr_idle, armed,
                queued, running, shadow_pc, todo, target, own>>

Threads == ShadowCpus \cup {Sysctl}

\* The CPU whose timer a thread is working on.
TimerOf(p) == IF p = Sysctl THEN target ELSE p

\* A CPU on which thread p can be running now.
RunsOn(p, c) == IF p = Sysctl THEN shadow_pc[c] = "out" ELSE c = p

ShadowGoto(p, from, to) ==
  shadow_pc[p] = from /\ shadow_pc' = [shadow_pc EXCEPT ![p] = to]

Seen(c) == IF curr_idle[c] THEN "idle" ELSE "busy"

Return(p) == IF p = Sysctl THEN "next" ELSE "out"

\* When the hook of thread p returns, rq->curr becomes next, which it ignores.
HookReturns(p) ==
  IF shadow_pc'[p] = "out"
  THEN /\ \E i \in BOOLEAN : curr_idle' = [curr_idle EXCEPT ![p] = i]
       /\ own' = [own EXCEPT ![p] =
                    IF @ # "hook" THEN @
                    ELSE IF shadow_pc[p] = "cancelled" THEN Seen(p) ELSE "no"]
  ELSE UNCHANGED <<curr_idle, own>>

-----------------------------------------------------------------------------
\* lse_shadow_tick_update_cpu, lse_shadow_tick_start_cpu and
\* lse_shadow_tick_stop_cpu, run by thread p.

WantsTick(c) == highres_tick_ctrl /\ ~curr_idle[c]

\* The checks of update_cpu, start_cpu and stop_cpu for CPU t.
Decide(t, done) ==
  IF WantsTick(t) THEN (IF armed[t] THEN done ELSE "arm")
                  ELSE (IF armed[t] THEN "cancel" ELSE done)

UpdateCpu(c) ==
  /\ ShadowGoto(c, "update", Decide(c, "out"))
  /\ HookReturns(c)
  /\ UNCHANGED <<highres_tick_ctrl, slim_walt_ctrl, armed, queued, running,
                 todo, target>>

\* While its callback runs, a timer that is started stays on that CPU.
hrtimer_start(p) ==
  LET t == TimerOf(p) IN
  /\ ShadowGoto(p, "arm", "armed")
  /\ \E c \in ShadowCpus :
       /\ RunsOn(p, c)
       /\ queued' = [queued EXCEPT ![t] =
                       IF running[t] = NoCpu THEN c ELSE running[t]]
  /\ UNCHANGED <<highres_tick_ctrl, slim_walt_ctrl, curr_idle, armed, running,
                 todo, target, own>>

StartDone(p) ==
  /\ ShadowGoto(p, "armed", Return(p))
  /\ armed' = [armed EXCEPT ![TimerOf(p)] = TRUE]
  /\ HookReturns(p)
  /\ UNCHANGED <<highres_tick_ctrl, slim_walt_ctrl, queued, running, todo,
                 target>>

\* hrtimer_cancel waits until the callback has returned.
hrtimer_cancel(p) ==
  LET t == TimerOf(p) IN
  /\ ShadowGoto(p, "cancel", "cancelled")
  /\ running[t] = NoCpu
  /\ queued' = [queued EXCEPT ![t] = NoCpu]
  /\ UNCHANGED <<highres_tick_ctrl, slim_walt_ctrl, curr_idle, armed, running,
                 todo, target, own>>

\* Mutant: armed is left set.
StopDone_armed(p) ==
  /\ ShadowGoto(p, "cancelled", Return(p))
  /\ HookReturns(p)
  /\ UNCHANGED <<highres_tick_ctrl, slim_walt_ctrl, armed, queued, running,
                 todo, target>>

StopDone(p) ==
  /\ ShadowGoto(p, "cancelled", Return(p))
  /\ armed' = [armed EXCEPT ![TimerOf(p)] = FALSE]
  /\ HookReturns(p)
  /\ UNCHANGED <<highres_tick_ctrl, slim_walt_ctrl, queued, running, todo,
                 target>>

-----------------------------------------------------------------------------
\* lse_shadow_tick_cb, for timer t on CPU c, which need not be t: the code
\* clears the flag of the CPU it runs on.

\* Mutant: the callback does not look at its switch.
CallbackStops_walt == ~slim_walt_ctrl

CallbackStops == ~highres_tick_ctrl \/ ~slim_walt_ctrl

Callback(c, t) ==
  /\ queued[t] = c
  /\ ShadowGoto(c, "out", IF CallbackStops THEN "norestart" ELSE "restart")
  /\ queued' = [queued EXCEPT ![t] = NoCpu]
  /\ running' = [running EXCEPT ![t] = c]
  /\ armed' = [armed EXCEPT ![c] = @ /\ ~CallbackStops]
  /\ UNCHANGED <<highres_tick_ctrl, slim_walt_ctrl, curr_idle, todo, target,
                 own>>

\* HRTIMER_RESTART queues the timer again; it may have been started already.
CallbackReturn(c) ==
  \E t \in ShadowCpus :
    /\ running[t] = c
    /\ running' = [running EXCEPT ![t] = NoCpu]
    /\ queued' = [queued EXCEPT ![t] =
                    IF shadow_pc[c] = "restart" THEN c ELSE @]
    /\ shadow_pc' = [shadow_pc EXCEPT ![c] = "out"]
    /\ UNCHANGED <<highres_tick_ctrl, slim_walt_ctrl, curr_idle, armed, todo,
                   target, own>>

-----------------------------------------------------------------------------
\* lse_schedule: a context switch, with the hook while tracking is on.
Schedule(c) ==
  /\ ShadowGoto(c, "out", IF slim_walt_ctrl THEN "update" ELSE "out")
  /\ \E i \in BOOLEAN : curr_idle' = IF slim_walt_ctrl THEN curr_idle
                                     ELSE [curr_idle EXCEPT ![c] = i]
  /\ own' = [own EXCEPT ![c] = IF ~slim_walt_ctrl THEN "no"
                               ELSE IF @ \in {"busy", "idle"} THEN Seen(c)
                               ELSE IF shadow_pc[Sysctl] = "out" THEN "hook"
                               ELSE "no"]
  /\ UNCHANGED <<highres_tick_ctrl, slim_walt_ctrl, armed, queued, running,
                 todo, target>>

\* lse_proc_shadow_tick_update: under a mutex, only if the value changes.
WriteShadowTick ==
  /\ ShadowGoto(Sysctl, "out", "next")
  /\ highres_tick_ctrl' = ~highres_tick_ctrl
  /\ todo' = ShadowCpus
  /\ own' = [c \in ShadowCpus |-> "no"]
  /\ UNCHANGED <<slim_walt_ctrl, curr_idle, armed, queued, running, target>>

\* lse_shadow_tick_sync_all: the loop over the online CPUs, in any order.
SyncNext ==
  /\ \E t \in todo : /\ ShadowGoto(Sysctl, "next", Decide(t, "next"))
                     /\ target' = t
                     /\ todo' = todo \ {t}
  /\ UNCHANGED <<highres_tick_ctrl, slim_walt_ctrl, curr_idle, armed, queued,
                 running, own>>

SyncEnd ==
  /\ todo = {}
  /\ ShadowGoto(Sysctl, "next", "out")
  /\ target' = NoCpu
  /\ UNCHANGED <<highres_tick_ctrl, slim_walt_ctrl, curr_idle, armed, queued,
                 running, todo, own>>

\* The sysctl slim_walt_ctrl is a plain store.
WriteWaltCtrl ==
  /\ slim_walt_ctrl' = ~slim_walt_ctrl
  /\ own' = [c \in ShadowCpus |-> "no"]
  /\ UNCHANGED <<highres_tick_ctrl, curr_idle, armed, queued, running,
                 shadow_pc, todo, target>>

ShadowInit ==
  /\ highres_tick_ctrl = FALSE /\ slim_walt_ctrl = TRUE
  /\ curr_idle = [c \in ShadowCpus |-> TRUE]
  /\ armed = [c \in ShadowCpus |-> FALSE]
  /\ queued = [c \in ShadowCpus |-> NoCpu]
  /\ running = [c \in ShadowCpus |-> NoCpu]
  /\ shadow_pc = [p \in Threads |-> "out"]
  /\ todo = {} /\ target = NoCpu
  /\ own = [c \in ShadowCpus |-> "no"]

TimerStep(p) ==
  hrtimer_start(p) \/ StartDone(p) \/ hrtimer_cancel(p) \/ StopDone(p)

\* What a CPU does with interrupts off.
IrqOffStep(c) == UpdateCpu(c) \/ TimerStep(c) \/ CallbackReturn(c)

TimerFires(t) == \E c \in ShadowCpus : Callback(c, t)

ShadowNext ==
  \/ \E c \in ShadowCpus : IrqOffStep(c) \/ TimerFires(c) \/ Schedule(c)
  \/ TimerStep(Sysctl)
  \/ WriteShadowTick \/ SyncNext \/ SyncEnd \/ WriteWaltCtrl

ShadowSpec == ShadowInit /\ [][ShadowNext]_shadowVars

-----------------------------------------------------------------------------
\* Properties.

ShadowTypeOK ==
  /\ {highres_tick_ctrl, slim_walt_ctrl} \subseteq BOOLEAN
  /\ curr_idle \in [ShadowCpus -> BOOLEAN]
  /\ armed \in [ShadowCpus -> BOOLEAN]
  /\ queued \in [ShadowCpus -> ShadowCpus \cup {NoCpu}]
  /\ running \in [ShadowCpus -> ShadowCpus \cup {NoCpu}]
  /\ shadow_pc \in [Threads -> {"out", "next", "update", "arm", "armed",
                                "cancel", "cancelled", "restart",
                                "norestart"}]
  /\ todo \subseteq ShadowCpus
  /\ target \in ShadowCpus \cup {NoCpu}
  /\ own \in [ShadowCpus -> {"no", "hook", "busy", "idle"}]

\* A sysctl write can leave the timer of a CPU on another CPU, or armed wrong.
\* The CPU repairs it: from the first time its own hook has cancelled the
\* timer, it has one on its own base exactly while the hook of its last switch
\* took the CPU for busy, and armed says so, whatever the timers of other CPUs
\* on its base still do.  (What the hook looks at is the task switched out.)
TimerFollowsPrev ==
  \A c \in ShadowCpus :
    own[c] \in {"busy", "idle"} /\ shadow_pc[c] \in {"out", "restart"}
                                /\ shadow_pc[Sysctl] = "out" =>
      /\ armed[c] = (highres_tick_ctrl /\ own[c] = "busy")
      /\ armed[c] = (queued[c] # NoCpu \/ running[c] # NoCpu)
      /\ {queued[c], running[c]} \subseteq {c, NoCpu}

\* After the shadow tick has been switched off for good, every timer dies out,
\* including those started by a hook or a sysctl that had read the old value.
ShadowTickEnds ==
  <>[](~highres_tick_ctrl) =>
    <>[](\A t \in ShadowCpus : queued[t] = NoCpu /\ running[t] = NoCpu)
=============================================================================
