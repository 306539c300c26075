---------------------------- MODULE GovLifecycle ----------------------------
(***************************************************************************)
(* What the governor of cpufreq_lse.c allocates for a cpufreq policy, and  *)
(* who uses it while the core starts and stops the governor.  Governor     *)
(* models the frequencies; here only the life of the memory counts.        *)
(*                                                                         *)
(* Operations on one policy are serialised by the cpufreq core; those of   *)
(* different policies, the rollover callback, the ticks, a sysfs store and *)
(* the kthread workers interleave.  A policy is a cluster: gov_flag, which *)
(* the code indexes by cluster id, is a set of policies.  Tunables are     *)
(* named after the policy that allocated them.                             *)
(***************************************************************************)
EXTENDS Naturals, FiniteSets

CONSTANTS
  Policies,
  NoPolicy          \* NULL, and nobody

Done == "done"     \* roll: between two policies of the callback's loop

ASSUME LifecycleAssumption ==
  NoPolicy \notin Policies /\ Done \notin Policies \cup {NoPolicy}

VARIABLES
  per_policy,       \* have_governor_per_policy()
  fast,             \* the policies whose driver switches fast
  op,               \* where the core's operation on a policy is
  allocated,        \* the policies whose lg_policy exists
  governor_data,    \* the policies whose governor_data is not NULL
  tunables,         \* lg_policy->tunables
  lock,             \* the policy whose operation holds global_tunables_lock
  global_tunables,
  live_tunables,    \* the tunables that exist
  policy_list,      \* the policies on the list of an attr_set
  in_sysfs,         \* the tunables whose kobject was added
  hooks, gov_flag,
  thread, work,     \* the worker of a policy; is its work queued?
  roll, roll_left,  \* the policy lsegov_update_freq is at; those ahead of it
  tick, tick_while_started,   \* the policy a tick is at; ghost
  store,            \* the tunables a sysfs store works on
  grace             \* the readers synchronize_rcu waits for

memory == <<allocated, governor_data, tunables>>
tunableVars == <<global_tunables, live_tunables, policy_list, in_sysfs>>
gates == <<hooks, gov_flag>>
workers == <<thread, work>>
readers == <<roll, roll_left, tick, tick_while_started, store>>
fixed == <<per_policy, fast>>
lifecycleVars == <<fixed, op, memory, lock, tunableVars, gates, workers,
                   readers, grace>>

Goto(p, s) == op' = [op EXCEPT ![p] = s]

-----------------------------------------------------------------------------
\* lse_gov_init.

\* A worker is needed for the slow path only.
lse_gov_kthread_create(p) ==
  thread' = [thread EXCEPT ![p] = IF p \in fast THEN "none" ELSE "idle"]

\* lse_gov_policy_alloc and lse_gov_kthread_create.  Either may fail, and
\* then nothing is left.
lse_gov_init(p) ==
  /\ op[p] = "down" /\ p \notin governor_data
  /\ Goto(p, "init_lock")
  /\ allocated' = allocated \cup {p}
  /\ lse_gov_kthread_create(p)
  /\ UNCHANGED <<fixed, governor_data, tunables, lock, tunableVars, gates, work,
                 readers, grace>>

\* Under global_tunables_lock: governor_data is published, with the tunables
\* that exist or with new ones, whose list then holds this policy.
InitPublish(p) ==
  /\ op[p] = "init_lock" /\ lock = NoPolicy
  /\ lock' = p
  /\ \/ /\ global_tunables # NoPolicy
        /\ Goto(p, "init_share")
        /\ governor_data' = governor_data \cup {p}
        /\ UNCHANGED tunableVars
     \/ /\ global_tunables = NoPolicy
        /\ Goto(p, "init_own")
        /\ governor_data' = governor_data \cup {p}
        /\ live_tunables' = live_tunables \cup {p}
        /\ policy_list' = [policy_list EXCEPT ![p] = {p}]
        /\ global_tunables' = IF per_policy THEN NoPolicy ELSE p
        /\ UNCHANGED in_sysfs
     \/ /\ global_tunables = NoPolicy       \* lse_gov_tunables_alloc fails
        /\ Goto(p, "init_fail")
        /\ UNCHANGED <<governor_data, tunableVars>>
  /\ UNCHANGED <<fixed, allocated, tunables, gates, workers, readers, grace>>

\* The tunables are stored after governor_data.
InitTunables(p) ==
  /\ op[p] \in {"init_share", "init_own"}
  /\ tunables' = [tunables EXCEPT ![p] =
                    IF op[p] = "init_own" THEN p ELSE global_tunables]
  /\ Goto(p, IF op[p] = "init_own" THEN "init_kobject" ELSE "init_get")
  /\ UNCHANGED <<fixed, allocated, governor_data, lock, tunableVars, gates,
                 workers, readers, grace>>

\* gov_attr_set_get waits for a store on the set.
InitGet(p) ==
  /\ op[p] = "init_get" /\ store # tunables[p]
  /\ policy_list' = [policy_list EXCEPT ![tunables[p]] = @ \cup {p}]
  /\ lock' = NoPolicy
  /\ Goto(p, "up")
  /\ UNCHANGED <<fixed, memory, global_tunables, live_tunables, in_sysfs, gates,
                 workers, readers, grace>>

\* A mutant: the pointer to shared tunables is kept.
FreeTunables_dangling(t) ==
  /\ live_tunables' = live_tunables \ {t}
  /\ in_sysfs' = in_sysfs \ {t}
  /\ UNCHANGED global_tunables

\* lse_gov_tunables_free.
FreeTunables(t) ==
  /\ live_tunables' = live_tunables \ {t}
  /\ global_tunables' = IF per_policy THEN global_tunables ELSE NoPolicy
  /\ in_sysfs' = in_sysfs \ {t}

\* A mutant: governor_data is left behind.
KobjectFails_published(p) ==
  /\ Goto(p, "init_fail")
  /\ FreeTunables(p)
  /\ policy_list' = [policy_list EXCEPT ![p] = {}]
  /\ UNCHANGED <<governor_data, lock>>

\* The path from "fail" up to stop_kthread.
KobjectFails(p) ==
  /\ Goto(p, "init_fail")
  /\ governor_data' = governor_data \ {p}
  /\ FreeTunables(p)
  /\ policy_list' = [policy_list EXCEPT ![p] = {}]
  /\ UNCHANGED lock

KobjectAdded(p) ==
  /\ Goto(p, "up")
  /\ in_sysfs' = in_sysfs \cup {p}
  /\ lock' = NoPolicy
  /\ UNCHANGED <<governor_data, global_tunables, live_tunables, policy_list>>

InitKobject(p) ==
  /\ op[p] = "init_kobject"
  /\ KobjectAdded(p) \/ KobjectFails(p)
  /\ UNCHANGED <<fixed, allocated, tunables, gates, workers, readers, grace>>

\* lse_gov_kthread_stop returns: the queue was flushed and the thread is gone.
WorkerStopped(p) == thread[p] # "running" /\ ~work[p]

\* A mutant: global_tunables_lock is kept.
InitFail_locked(p) ==
  /\ op[p] = "init_fail" /\ WorkerStopped(p)
  /\ thread' = [thread EXCEPT ![p] = "none"]
  /\ allocated' = allocated \ {p}
  /\ tunables' = [tunables EXCEPT ![p] = NoPolicy]
  /\ Goto(p, "down")
  /\ UNCHANGED <<fixed, governor_data, lock, tunableVars, gates, work, readers,
                 grace>>

\* The labels stop_kthread and free_lg_policy.
InitFail(p) ==
  /\ op[p] = "init_fail" /\ WorkerStopped(p)
  /\ thread' = [thread EXCEPT ![p] = "none"]
  /\ lock' = NoPolicy
  /\ allocated' = allocated \ {p}
  /\ tunables' = [tunables EXCEPT ![p] = NoPolicy]
  /\ Goto(p, "down")
  /\ UNCHANGED <<fixed, governor_data, tunableVars, gates, work, readers, grace>>

-----------------------------------------------------------------------------
\* lse_gov_start and lse_gov_stop.

lse_gov_start(p) ==
  /\ op[p] = "up"
  /\ hooks' = hooks \cup {p}
  /\ Goto(p, "start_flag")
  /\ UNCHANGED <<fixed, memory, lock, tunableVars, gov_flag, workers, readers,
                 grace>>

StartFlag(p) ==
  /\ op[p] = "start_flag"
  /\ gov_flag' = gov_flag \cup {p}
  /\ Goto(p, "started")
  /\ UNCHANGED <<fixed, memory, lock, tunableVars, hooks, workers, readers, grace>>

lse_gov_stop(p) ==
  /\ op[p] = "started"
  /\ hooks' = hooks \ {p}
  /\ Goto(p, "stop_cancel")
  /\ UNCHANGED <<fixed, memory, lock, tunableVars, gov_flag, workers, readers,
                 grace>>

\* kthread_cancel_work_sync, for a policy with a worker.
StopCancel(p) ==
  /\ op[p] = "stop_cancel" /\ thread[p] # "running"
  /\ work' = [work EXCEPT ![p] = FALSE]
  /\ Goto(p, "stop_flag")
  /\ UNCHANGED <<fixed, memory, lock, tunableVars, gates, thread, readers, grace>>

\* A mutant: stop does not wait for a grace period.
Readers_none == {}

\* A mutant: stop waits for the callbacks of the hook only.
Readers_hooked == IF roll # NoPolicy THEN {"roll"} ELSE {}

\* The code that runs with interrupts off, which synchronize_rcu waits for.
Readers == (IF roll # NoPolicy THEN {"roll"} ELSE {}) \cup
           (IF tick # NoPolicy THEN {"tick"} ELSE {})

StopFlag(p) ==
  /\ op[p] = "stop_flag"
  /\ gov_flag' = gov_flag \ {p}
  /\ grace' = [grace EXCEPT ![p] = Readers]
  /\ Goto(p, "stop_sync")
  /\ UNCHANGED <<fixed, memory, lock, tunableVars, hooks, workers, readers>>

StopSync(p) ==
  /\ op[p] = "stop_sync" /\ grace[p] = {}
  /\ Goto(p, "up")
  /\ UNCHANGED <<fixed, memory, lock, tunableVars, gates, workers, readers, grace>>

-----------------------------------------------------------------------------
\* lse_gov_exit.

\* gov_attr_set_put waits for a store on the set.
lse_gov_exit(p) ==
  /\ op[p] = "up" /\ lock = NoPolicy /\ store # tunables[p]
  /\ lock' = p
  /\ policy_list' = [policy_list EXCEPT ![tunables[p]] = @ \ {p}]
  /\ Goto(p, "exit_clear")
  /\ UNCHANGED <<fixed, memory, global_tunables, live_tunables, in_sysfs, gates,
                 workers, readers, grace>>

\* A mutant: the tunables go with the first policy that leaves.
LastUser_any(t) == TRUE

\* gov_attr_set_put returned 0.
LastUser(t) == policy_list[t] = {}

ExitClear(p) ==
  /\ op[p] = "exit_clear"
  /\ governor_data' = governor_data \ {p}
  /\ IF LastUser(tunables[p])
     THEN FreeTunables(tunables[p]) /\ UNCHANGED policy_list
     ELSE UNCHANGED tunableVars
  /\ lock' = NoPolicy
  /\ Goto(p, "exit_kthread")
  /\ UNCHANGED <<fixed, allocated, tunables, gates, workers, readers, grace>>

\* lse_gov_kthread_stop and lse_gov_policy_free.
ExitFree(p) ==
  /\ op[p] = "exit_kthread" /\ WorkerStopped(p)
  /\ thread' = [thread EXCEPT ![p] = "none"]
  /\ allocated' = allocated \ {p}
  /\ tunables' = [tunables EXCEPT ![p] = NoPolicy]
  /\ Goto(p, "down")
  /\ UNCHANGED <<fixed, governor_data, lock, tunableVars, gates, work, readers,
                 grace>>

-----------------------------------------------------------------------------
\* The users.

\* kthread_queue_work, if the new frequency differs and is not set directly.
\* Work queued for a thread that is gone is never run.
MayQueueWork(p) ==
  \/ UNCHANGED work
  \/ thread[p] # "none" /\ work' = [work EXCEPT ![p] = TRUE]

Leave(reader) == grace' = [p \in Policies |-> grace[p] \ {reader}]

\* lsegov_update_freq is called from a window rollover on a CPU with the hook.
RollBegin ==
  /\ roll = NoPolicy /\ hooks # {}
  /\ roll' = Done /\ roll_left' = Policies
  /\ UNCHANGED <<fixed, op, memory, lock, tunableVars, gates, workers, tick,
                 tick_while_started, store, grace>>

\* The next cluster of the list.
RollCluster ==
  \E p \in roll_left :
    /\ roll = Done
    /\ roll_left' = roll_left \ {p}
    /\ roll' = IF p \in gov_flag THEN p ELSE Done
    /\ UNCHANGED <<fixed, op, memory, lock, tunableVars, gates, workers, tick,
                   tick_while_started, store, grace>>

\* lse_gov_update_cpufreq is done with the policy.
RollUpdate ==
  /\ roll \in Policies
  /\ MayQueueWork(roll)
  /\ roll' = Done
  /\ UNCHANGED <<fixed, op, memory, lock, tunableVars, gates, thread, roll_left,
                 tick, tick_while_started, store, grace>>

RollEnd ==
  /\ roll = Done /\ roll_left = {}
  /\ roll' = NoPolicy
  /\ Leave("roll")
  /\ UNCHANGED <<fixed, op, memory, lock, tunableVars, gates, workers, roll_left,
                 tick, tick_while_started, store>>

\* lse_gov_tick_update finds governor_data set.  gov_flag is not looked at.
lse_gov_tick_update(p) ==
  /\ tick = NoPolicy /\ p \in governor_data
  /\ tick' = p
  /\ tick_while_started' = (p \in gov_flag)
  /\ UNCHANGED <<fixed, op, memory, lock, tunableVars, gates, workers, roll,
                 roll_left, store, grace>>

TickEnd ==
  /\ tick # NoPolicy
  /\ MayQueueWork(tick)
  /\ tick' = NoPolicy /\ tick_while_started' = FALSE
  /\ Leave("tick")
  /\ UNCHANGED <<fixed, op, memory, lock, tunableVars, gates, thread, roll,
                 roll_left, store>>

\* A store of a soft limit: sysfs keeps the tunables, and the attr_set's
\* update_lock its list, until it returns.
StoreBegin(t) ==
  /\ store = NoPolicy /\ t \in in_sysfs /\ policy_list[t] # {}
  /\ store' = t
  /\ UNCHANGED <<fixed, op, memory, lock, tunableVars, gates, workers, roll,
                 roll_left, tick, tick_while_started, grace>>

\* It is applied to the first policy of the list.
StoreEnd ==
  \E p \in policy_list[store] :
    /\ MayQueueWork(p)
    /\ store' = NoPolicy
    /\ UNCHANGED <<fixed, op, memory, lock, tunableVars, gates, thread, roll,
                   roll_left, tick, tick_while_started, grace>>

\* The worker runs lse_gov_work.
WorkBegin(p) ==
  /\ thread[p] = "idle" /\ work[p]
  /\ thread' = [thread EXCEPT ![p] = "running"]
  /\ work' = [work EXCEPT ![p] = FALSE]
  /\ UNCHANGED <<fixed, op, memory, lock, tunableVars, gates, readers, grace>>

lse_gov_work(p) ==
  /\ thread[p] = "running"
  /\ thread' = [thread EXCEPT ![p] = "idle"]
  /\ UNCHANGED <<fixed, op, memory, lock, tunableVars, gates, work, readers, grace>>

-----------------------------------------------------------------------------
LifecycleInit ==
  /\ per_policy \in BOOLEAN
  /\ fast \in SUBSET Policies
  /\ op = [p \in Policies |-> "down"]
  /\ allocated = {} /\ governor_data = {}
  /\ tunables = [p \in Policies |-> NoPolicy]
  /\ lock = NoPolicy /\ global_tunables = NoPolicy
  /\ live_tunables = {} /\ in_sysfs = {}
  /\ policy_list = [p \in Policies |-> {}]
  /\ hooks = {} /\ gov_flag = {}
  /\ thread = [p \in Policies |-> "none"]
  /\ work = [p \in Policies |-> FALSE]
  /\ roll = NoPolicy /\ roll_left = {}
  /\ tick = NoPolicy /\ tick_while_started = FALSE
  /\ store = NoPolicy
  /\ grace = [p \in Policies |-> {}]

\* What the core begins, and what then goes on by itself.
CoreBegins(p) == lse_gov_init(p) \/ lse_gov_start(p) \/ lse_gov_stop(p)
                 \/ lse_gov_exit(p)
CoreGoesOn(p) == \/ InitPublish(p) \/ InitTunables(p) \/ InitGet(p)
                 \/ InitKobject(p) \/ InitFail(p) \/ StartFlag(p)
                 \/ StopCancel(p) \/ StopFlag(p) \/ StopSync(p)
                 \/ ExitClear(p) \/ ExitFree(p)
RollStep == RollCluster \/ RollUpdate \/ RollEnd
UserBegins == \/ RollBegin
              \/ \E p \in Policies : lse_gov_tick_update(p) \/ StoreBegin(p)
StoreStep == store # NoPolicy /\ StoreEnd
WorkStep(p) == WorkBegin(p) \/ lse_gov_work(p)

LifecycleNext ==
  \/ \E p \in Policies : CoreBegins(p) \/ CoreGoesOn(p) \/ WorkStep(p)
  \/ RollStep \/ TickEnd \/ StoreStep \/ UserBegins

LifecycleSpec == LifecycleInit /\ [][LifecycleNext]_lifecycleVars

-----------------------------------------------------------------------------
LifecycleTypeOK ==
  /\ per_policy \in BOOLEAN /\ fast \subseteq Policies
  /\ op \in [Policies -> {"down", "init_lock", "init_share", "init_own",
             "init_get", "init_kobject", "init_fail", "up", "start_flag",
             "started", "stop_cancel", "stop_flag", "stop_sync", "exit_clear",
             "exit_kthread"}]
  /\ allocated \subseteq Policies /\ governor_data \subseteq allocated
  /\ tunables \in [Policies -> Policies \cup {NoPolicy}]
  /\ lock \in Policies \cup {NoPolicy}
  /\ global_tunables \in live_tunables \cup {NoPolicy}
  /\ live_tunables \subseteq Policies /\ in_sysfs \subseteq live_tunables
  /\ policy_list \in [Policies -> SUBSET Policies]
  /\ hooks \subseteq Policies /\ gov_flag \subseteq Policies
  /\ thread \in [Policies -> {"none", "idle", "running"}]
  /\ work \in [Policies -> BOOLEAN]
  /\ roll \in Policies \cup {NoPolicy, Done}
  /\ roll_left \subseteq Policies
  /\ tick \in Policies \cup {NoPolicy}
  /\ tick_while_started \in BOOLEAN
  /\ store \in Policies \cup {NoPolicy}
  /\ grace \in [Policies -> SUBSET {"roll", "tick"}]

\* What a user of policy p needs: its lg_policy, and tunables that exist.
Usable(p) == p \in allocated /\ tunables[p] \in live_tunables

\* A window rollover works on clusters of which it knows only gov_flag
\* (lsegov_update_freq), while another CPU stops their governor and frees its
\* data: what it uses is never freed or half initialised.
RolloverUsesLive == roll \in Policies => roll \in governor_data /\ Usable(roll)

\* A tick that found the governor started is waited for by lse_gov_stop before
\* lse_gov_exit frees what the tick uses.  A tick that comes later, or before
\* lse_gov_start, has no such protection.
TickUsesLive == tick_while_started => Usable(tick)

\* The worker is gone before the lg_policy it belongs to, and a store of a
\* soft limit finds the first policy of its list and its own tunables in
\* memory, while other policies that share them come and go.
WorkAndStoreUseLive ==
  /\ \A p \in Policies : thread[p] = "running" => p \in allocated
  /\ store # NoPolicy =>
       /\ store \in live_tunables /\ policy_list[store] # {}
       /\ \A p \in policy_list[store] : p \in allocated

\* However lse_gov_init failed, and after lse_gov_exit, nothing is left of the
\* governor: "State should be equivalent to EXIT" is what lse_gov_init demands
\* of governor_data.  Tunables remain exactly while a policy uses them.
DownIsClean ==
  /\ \A p \in Policies : op[p] = "down" =>
       /\ p \notin allocated \cup governor_data \cup hooks \cup gov_flag
       /\ thread[p] = "none"
       /\ \A t \in Policies : p \notin policy_list[t]
  /\ \A t \in Policies : lock = NoPolicy =>
       (t \in live_tunables <=> policy_list[t] # {})

\* Every call of the core into the governor returns: global_tunables_lock,
\* kthread_stop, kthread_cancel_work_sync and synchronize_rcu end each wait.
OperationsFinish ==
  \A p \in Policies :
    op[p] \notin {"down", "up", "started"} ~> op[p] \in {"down", "up", "started"}
=============================================================================
