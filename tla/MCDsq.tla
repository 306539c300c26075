------------------------------- MODULE MCDsq -------------------------------
(***************************************************************************)
(* Small instances of Dsq: two CPUs and up to three tasks.                 *)
(***************************************************************************)
EXTENDS Dsq, TLC

CONSTANTS t1, t2, t3     \* tasks

Three == {t1, t2, t3}
Pair == {t2, t3}
Symmetry == Permutations(Pair)

Pinned == [pin |-> 0, sched |-> "fair", class |-> "normal"]
Background == [pin |-> NoPin, sched |-> "fair", class |-> "background"]
Normal == [pin |-> NoPin, sched |-> "fair", class |-> "normal"]
AllBackground == [t \in Tasks |-> Background]

\* lse_dsq_deadlines and lse_pcp_dsq_deadline_ms, scaled to less than a jiffy.
MCDeadline == [q \in Queues |-> 0]

\* A sysctl is written; two tasks share a queue, or one is pinned to CPU 0.
Toggled(switch) ==
  [tasks |-> Pair, kinds |-> {Pinned, Background}, mutable |-> {},
   start |-> {AllBackground, [AllBackground EXCEPT ![t2] = Pinned],
              [AllBackground EXCEPT ![t3] = Pinned]},
   forks |-> FALSE, switches |-> {switch}, until |-> 1, hook |-> "after"]

\* Tasks come and go, and their nice value changes; no time for a timeout.
Relabelled ==
  [tasks |-> Pair, kinds |-> {Normal, Background}, mutable |-> Pair,
   start |-> {AllBackground}, forks |-> TRUE, switches |-> {}, until |-> 0,
   hook |-> "after"]

\* Three tasks stay, and the nice value of one changes.
Reniced ==
  [tasks |-> Three, kinds |-> {Normal, Background}, mutable |-> {t1},
   start |-> {AllBackground}, forks |-> FALSE, switches |-> {}, until |-> 1,
   hook |-> "after"]

\* The hook runs while prev is still the current task.
BeforeSwitch(s) == [s EXCEPT !.hook = "before"]

ToggledOrRelabelled ==
  LET after == {Toggled("dsq_enable"), Toggled("slim_stats"), Relabelled}
  IN after \cup {BeforeSwitch(s) : s \in after}
OnlyReniced == {Reniced}
=============================================================================
