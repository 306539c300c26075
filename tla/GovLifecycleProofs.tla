------------------------- MODULE GovLifecycleProofs -------------------------
(***************************************************************************)
(* Proofs about GovLifecycle, for any set of policies, with shared or      *)
(* separate tunables, and any of the policies fast.                        *)
(***************************************************************************)
EXTENDS GovLifecycle, TLAPS

-----------------------------------------------------------------------------
\* The inductive invariant.  Where the core's operation on a policy is decides
\* what exists of it.

Flagged == {"started", "stop_cancel", "stop_flag"}
Started == Flagged \cup {"stop_sync"}
Listed == Started \cup {"init_kobject", "up", "start_flag"}
Tuned == Listed \cup {"init_get", "exit_clear"}
Published == Tuned \cup {"init_share", "init_own"}
Locking == {"init_share", "init_own", "init_get", "init_kobject", "init_fail",
            "exit_clear"}

\* The policy's own memory, its gates and its worker.
OpInv ==
  \A p \in Policies :
    /\ p \in allocated <=> op[p] # "down"
    /\ p \in governor_data <=> op[p] \in Published
    /\ p \in hooks <=> op[p] \in {"start_flag", "started"}
    /\ p \in gov_flag <=> op[p] \in Flagged
    /\ op[p] = "down" => thread[p] = "none"

\* global_tunables_lock is a mutex.
LockInv == \A p \in Policies : op[p] \in Locking <=> lock = p

\* Policy p is on the list of the tunables t.
OnList(p, t) == \/ op[p] \in Listed /\ tunables[p] = t
                \/ op[p] = "init_own" /\ t = p

\* The lists name the users of each tunables.
ListInv == \A p, t \in Policies : p \in policy_list[t] <=> OnList(p, t)

\* Tunables live while they have users, and until the last of them has dropped
\* the lock.
LiveInv ==
  \A t \in Policies :
    t \in live_tunables <=> \/ policy_list[t] # {}
                            \/ \E p \in Policies : /\ op[p] = "exit_clear"
                                                   /\ tunables[p] = t

\* Who has which tunables.
TunedInv ==
  \A p \in Policies :
    /\ op[p] \in Tuned => tunables[p] \in live_tunables
    /\ op[p] = "init_share" => global_tunables \in live_tunables
    /\ op[p] = "init_kobject" => tunables[p] = p
    /\ op[p] \in {"init_own", "init_kobject"} =>
         policy_list[p] = {p} /\ p \notin in_sysfs

\* Shared tunables are the only ones; tunables of its own a policy names after
\* itself.
ShareInv ==
  IF per_policy
  THEN /\ global_tunables = NoPolicy
       /\ \A p \in Policies : tunables[p] \in {p, NoPolicy}
  ELSE live_tunables = {global_tunables} \ {NoPolicy}

\* A reader that saw the flag of p is waited for.
Protected(p, reader) ==
  op[p] \in Flagged \/ (op[p] = "stop_sync" /\ reader \in grace[p])

ReaderInv ==
  /\ roll \in Policies => Protected(roll, "roll")
  /\ tick_while_started => tick \in Policies /\ Protected(tick, "tick")

\* A store works on tunables in sysfs that have a user.
StoreInv ==
  store # NoPolicy => store \in in_sysfs /\ policy_list[store] # {}

IInv == /\ LifecycleTypeOK /\ OpInv /\ LockInv /\ ListInv /\ LiveInv /\ TunedInv
        /\ ShareInv /\ ReaderInv /\ StoreInv

\* LifecycleInit satisfies it: nothing exists, and nobody reads.
LEMMA IInvInit == LifecycleInit => IInv
<1> SUFFICES ASSUME LifecycleInit PROVE IInv
  OBVIOUS
<1> USE DEF LifecycleInit
<1>1. LifecycleTypeOK
  BY DEF LifecycleTypeOK
<1>2. OpInv /\ LockInv
  BY LifecycleAssumption
  DEF OpInv, LockInv, Flagged, Started, Listed, Tuned, Published, Locking
<1>3. ListInv /\ LiveInv /\ TunedInv /\ ShareInv
  BY DEF OnList, ListInv, LiveInv, TunedInv, ShareInv, Flagged, Started, Listed,
         Tuned
<1>4. ReaderInv /\ StoreInv
  BY LifecycleAssumption DEF ReaderInv, StoreInv
<1> QED BY <1>1, <1>2, <1>3, <1>4 DEF IInv

-----------------------------------------------------------------------------
\* lse_gov_init, with its failure paths.
LEMMA InitPreserves ==
  ASSUME IInv, NEW p \in Policies,
         lse_gov_init(p) \/ InitPublish(p) \/ InitTunables(p) \/ InitGet(p)
         \/ InitKobject(p) \/ InitFail(p)
  PROVE  IInv'
<1> USE LifecycleAssumption
    DEF IInv, LifecycleTypeOK, OpInv, LockInv, OnList, ListInv, LiveInv,
        TunedInv, ShareInv, Protected, ReaderInv, StoreInv, Flagged, Started,
        Listed, Tuned, Published, Locking, Goto, fixed, memory, tunableVars,
        gates, workers, readers
<1>1. CASE lse_gov_init(p)
  BY <1>1 DEF lse_gov_init, lse_gov_kthread_create
\* New tunables are nobody else's: with shared tunables none exist, and with
\* separate ones no other policy is ever given this name.
<1>2. CASE InitPublish(p)
  <2>1. LifecycleTypeOK'
    BY <1>2 DEF InitPublish
  <2>2. (OpInv /\ LockInv)'
    BY <1>2 DEF InitPublish
  <2>3. (ListInv /\ LiveInv)'
    BY <1>2 DEF InitPublish
  <2>4. (TunedInv /\ ShareInv)'
    BY <1>2 DEF InitPublish
  <2>5. (ReaderInv /\ StoreInv)'
    BY <1>2 DEF InitPublish
  <2> QED BY <2>1, <2>2, <2>3, <2>4, <2>5
<1>3. CASE InitTunables(p)
  <2>1. LifecycleTypeOK'
    BY <1>3 DEF InitTunables
  <2>2. (OpInv /\ LockInv)'
    BY <1>3 DEF InitTunables
  <2>3. (ListInv /\ LiveInv)'
    BY <1>3 DEF InitTunables
  <2>4. (TunedInv /\ ShareInv)'
    BY <1>3 DEF InitTunables
  <2>5. (ReaderInv /\ StoreInv)'
    BY <1>3 DEF InitTunables
  <2> QED BY <2>1, <2>2, <2>3, <2>4, <2>5
<1>4. CASE InitGet(p)
  <2>1. LifecycleTypeOK'
    BY <1>4 DEF InitGet
  <2>2. (OpInv /\ LockInv)'
    BY <1>4 DEF InitGet
  <2>3. (ListInv /\ LiveInv)'
    BY <1>4 DEF InitGet
  <2>4. (TunedInv /\ ShareInv)'
    BY <1>4 DEF InitGet
  <2>5. (ReaderInv /\ StoreInv)'
    BY <1>4 DEF InitGet
  <2> QED BY <2>1, <2>2, <2>3, <2>4, <2>5
\* On the failure path the tunables that are freed have this one user.
<1>5. CASE InitKobject(p)
  <2>1. LifecycleTypeOK'
    BY <1>5 DEF InitKobject, KobjectAdded, KobjectFails, FreeTunables
  <2>2. (OpInv /\ LockInv)'
    BY <1>5 DEF InitKobject, KobjectAdded, KobjectFails, FreeTunables
  <2>3. (ListInv /\ LiveInv)'
    BY <1>5 DEF InitKobject, KobjectAdded, KobjectFails, FreeTunables
  <2>4. (TunedInv /\ ShareInv)'
    BY <1>5 DEF InitKobject, KobjectAdded, KobjectFails, FreeTunables
  <2>5. (ReaderInv /\ StoreInv)'
    BY <1>5 DEF InitKobject, KobjectAdded, KobjectFails, FreeTunables
  <2> QED BY <2>1, <2>2, <2>3, <2>4, <2>5
<1>6. CASE InitFail(p)
  BY <1>6 DEF InitFail, WorkerStopped
<1> QED BY <1>1, <1>2, <1>3, <1>4, <1>5, <1>6

\* lse_gov_start and lse_gov_stop.
LEMMA StartStopPreserves ==
  ASSUME IInv, NEW p \in Policies,
         lse_gov_start(p) \/ StartFlag(p) \/ lse_gov_stop(p) \/ StopCancel(p)
         \/ StopFlag(p) \/ StopSync(p)
  PROVE  IInv'
<1> USE LifecycleAssumption
    DEF IInv, LifecycleTypeOK, OpInv, LockInv, OnList, ListInv, LiveInv,
        TunedInv, ShareInv, Protected, ReaderInv, StoreInv, Flagged, Started,
        Listed, Tuned, Published, Locking, Goto, fixed, memory, tunableVars,
        gates, workers, readers
<1>1. CASE lse_gov_start(p)
  BY <1>1 DEF lse_gov_start
<1>2. CASE StartFlag(p)
  BY <1>2 DEF StartFlag
<1>3. CASE lse_gov_stop(p)
  BY <1>3 DEF lse_gov_stop
<1>4. CASE StopCancel(p)
  BY <1>4 DEF StopCancel
\* The flag is cleared: the readers that saw it are in the grace period.
<1>5. CASE StopFlag(p)
  BY <1>5 DEF StopFlag, Readers
\* The grace period is over: none of them is left.
<1>6. CASE StopSync(p)
  BY <1>6 DEF StopSync
<1> QED BY <1>1, <1>2, <1>3, <1>4, <1>5, <1>6

\* lse_gov_exit.
LEMMA ExitPreserves ==
  ASSUME IInv, NEW p \in Policies,
         lse_gov_exit(p) \/ ExitClear(p) \/ ExitFree(p)
  PROVE  IInv'
<1> USE LifecycleAssumption
    DEF IInv, LifecycleTypeOK, OpInv, LockInv, OnList, ListInv, LiveInv,
        TunedInv, ShareInv, Protected, ReaderInv, StoreInv, Flagged, Started,
        Listed, Tuned, Published, Locking, Goto, fixed, memory, tunableVars,
        gates, workers, readers
\* The tunables outlive their list, as long as this policy holds the lock.
<1>1. CASE lse_gov_exit(p)
  <2>1. LifecycleTypeOK'
    BY <1>1 DEF lse_gov_exit
  <2>2. (OpInv /\ LockInv)'
    BY <1>1 DEF lse_gov_exit
  <2>3. (ListInv /\ LiveInv)'
    BY <1>1 DEF lse_gov_exit
  <2>4. (TunedInv /\ ShareInv)'
    BY <1>1 DEF lse_gov_exit
  <2>5. (ReaderInv /\ StoreInv)'
    BY <1>1 DEF lse_gov_exit
  <2> QED BY <2>1, <2>2, <2>3, <2>4, <2>5
\* The other users of the tunables, if any, are on their list.
<1>2. CASE ExitClear(p)
  <2>1. LifecycleTypeOK'
    BY <1>2 DEF ExitClear, LastUser, FreeTunables
  <2>2. (OpInv /\ LockInv)'
    BY <1>2 DEF ExitClear, LastUser, FreeTunables
  <2>3. (ListInv /\ LiveInv)'
    BY <1>2 DEF ExitClear, LastUser, FreeTunables
  <2>4. (TunedInv /\ ShareInv)'
    BY <1>2 DEF ExitClear, LastUser, FreeTunables
  <2>5. (ReaderInv /\ StoreInv)'
    BY <1>2 DEF ExitClear, LastUser, FreeTunables
  <2> QED BY <2>1, <2>2, <2>3, <2>4, <2>5
<1>3. CASE ExitFree(p)
  BY <1>3 DEF ExitFree, WorkerStopped
<1> QED BY <1>1, <1>2, <1>3

\* kthread_queue_work, called by every user of a policy.
LEMMA WorkType ==
  ASSUME NEW p \in Policies, work \in [Policies -> BOOLEAN], MayQueueWork(p)
  PROVE  work' \in [Policies -> BOOLEAN]
  BY DEF MayQueueWork

\* The users change nothing the core looks at but the threads, the queued work
\* and the grace periods they leave.
LEMMA UsersPreserve ==
  ASSUME IInv,
         \/ \E p \in Policies : WorkStep(p)
         \/ RollStep \/ TickEnd \/ StoreStep \/ UserBegins
  PROVE  IInv'
<1> USE LifecycleAssumption
    DEF IInv, LifecycleTypeOK, OpInv, LockInv, OnList, ListInv, LiveInv,
        TunedInv, ShareInv, Protected, ReaderInv, StoreInv, Flagged, Started,
        Listed, Tuned, Published, Locking, Goto, fixed, memory, tunableVars,
        gates, workers, readers
<1>1. ASSUME NEW p \in Policies, WorkBegin(p) PROVE IInv'
  BY <1>1 DEF WorkBegin
<1>2. ASSUME NEW p \in Policies, lse_gov_work(p) PROVE IInv'
  BY <1>2 DEF lse_gov_work
<1>3. ASSUME RollBegin PROVE IInv'
  BY <1>3 DEF RollBegin
<1>4. ASSUME RollCluster PROVE IInv'
  BY <1>4 DEF RollCluster
<1>5. ASSUME RollUpdate PROVE IInv'
  <2>1. roll \in Policies /\ MayQueueWork(roll)
    BY <1>5 DEF RollUpdate
  <2>2. work' \in [Policies -> BOOLEAN]
    BY <2>1, WorkType
  <2> QED BY <1>5, <2>2 DEF RollUpdate
<1>6. ASSUME RollEnd PROVE IInv'
  BY <1>6 DEF RollEnd, Leave
<1>7. ASSUME NEW p \in Policies, lse_gov_tick_update(p) PROVE IInv'
  BY <1>7 DEF lse_gov_tick_update
<1>8. ASSUME TickEnd PROVE IInv'
  <2>1. tick \in Policies /\ MayQueueWork(tick)
    BY <1>8 DEF TickEnd
  <2>2. work' \in [Policies -> BOOLEAN]
    BY <2>1, WorkType
  <2>3. LifecycleTypeOK'
    BY <1>8, <2>2 DEF TickEnd, Leave
  <2>4. (OpInv /\ LockInv /\ ListInv /\ LiveInv /\ TunedInv /\ ShareInv)'
    BY <1>8 DEF TickEnd
  <2>5. (ReaderInv /\ StoreInv)'
    BY <1>8 DEF TickEnd, Leave
  <2> QED BY <2>3, <2>4, <2>5
<1>9. ASSUME NEW p \in Policies, StoreBegin(p) PROVE IInv'
  BY <1>9 DEF StoreBegin
<1>10. ASSUME StoreStep PROVE IInv'
  <2>1. PICK p \in policy_list[store] : MayQueueWork(p)
    BY <1>10 DEF StoreStep, StoreEnd
  <2>2. p \in Policies
    BY <1>10 DEF StoreStep
  <2>3. work' \in [Policies -> BOOLEAN]
    BY <2>1, <2>2, WorkType
  <2> QED BY <1>10, <2>3 DEF StoreStep, StoreEnd
<1> QED
  BY <1>1, <1>2, <1>3, <1>4, <1>5, <1>6, <1>7, <1>8, <1>9, <1>10
  DEF WorkStep, RollStep, UserBegins

-----------------------------------------------------------------------------
\* The inductive invariant holds in every reachable state.
THEOREM LifecycleInvariance == LifecycleSpec => []IInv
<1>1. IInv /\ [LifecycleNext]_lifecycleVars => IInv'
  <2>1. ASSUME IInv, UNCHANGED lifecycleVars PROVE IInv'
    BY <2>1
    DEF lifecycleVars, IInv, LifecycleTypeOK, OpInv, LockInv, OnList, ListInv,
        LiveInv, TunedInv, ShareInv, Protected, ReaderInv, StoreInv, fixed,
        memory, tunableVars, gates, workers, readers
  <2> QED
    BY <2>1, InitPreserves, StartStopPreserves, ExitPreserves, UsersPreserve
    DEF LifecycleNext, CoreBegins, CoreGoesOn
<1> QED BY <1>1, IInvInit, PTL DEF LifecycleSpec

\* Type correctness of the governor's life cycle (cpufreq_lse.c).
THEOREM LifecycleTypeCorrect == LifecycleSpec => []LifecycleTypeOK
<1>1. IInv => LifecycleTypeOK
  BY DEF IInv
<1> QED BY <1>1, LifecycleInvariance, PTL

\* lsegov_update_freq never works on a policy whose lg_policy or tunables are
\* freed or not yet there.  It saw the policy's gov_flag, so lse_gov_stop has
\* either not cleared the flag yet or waits for it in synchronize_rcu.
THEOREM RolloverSafe == LifecycleSpec => []RolloverUsesLive
<1>1. IInv => RolloverUsesLive
  BY DEF IInv, LifecycleTypeOK, RolloverUsesLive, Usable, OpInv, TunedInv,
         ReaderInv, Protected, Flagged, Started, Listed, Tuned, Published
<1> QED BY <1>1, LifecycleInvariance, PTL

\* A tick that began while the governor was started (lse_gov_tick_update) is
\* waited for in the same way.
THEOREM TickSafe == LifecycleSpec => []TickUsesLive
<1>1. IInv => TickUsesLive
  BY DEF IInv, LifecycleTypeOK, TickUsesLive, Usable, OpInv, TunedInv,
         ReaderInv, Protected, Flagged, Started, Listed, Tuned, Published
<1> QED BY <1>1, LifecycleInvariance, PTL

\* lse_gov_work and a store of a soft limit use memory that exists: the worker
\* is stopped before lse_gov_policy_free, and gov_attr_set_put waits for the
\* store.
THEOREM WorkAndStoreSafe == LifecycleSpec => []WorkAndStoreUseLive
<1>1. IInv => WorkAndStoreUseLive
  BY DEF IInv, LifecycleTypeOK, WorkAndStoreUseLive, OpInv, ListInv, OnList,
         StoreInv, Started, Flagged, Listed
<1> QED BY <1>1, LifecycleInvariance, PTL

\* After lse_gov_exit and after every failure of lse_gov_init nothing is left,
\* and the tunables live exactly as long as a policy uses them.
THEOREM ExitLeavesNothing == LifecycleSpec => []DownIsClean
<1>1. IInv => DownIsClean
  BY LifecycleAssumption
  DEF IInv, LifecycleTypeOK, DownIsClean, OpInv, LockInv, ListInv, LiveInv,
      OnList, Flagged, Started, Listed, Tuned, Published, Locking
<1> QED BY <1>1, LifecycleInvariance, PTL
=============================================================================
