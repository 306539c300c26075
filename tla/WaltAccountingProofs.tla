------------------------ MODULE WaltAccountingProofs ------------------------
(***************************************************************************)
(* Proofs about WaltAccounting, for any number of CPUs and tasks, any      *)
(* window sizes, frequencies and history length.                           *)
(***************************************************************************)
EXTENDS WaltAccounting, FiniteNats, SequenceTheorems

Scale == SCHED_CAPACITY_SCALE
MaxWindow == Max(Windows)

\* What is always true of the counters of a CPU and of a task at time t.
QueueOK(q, t) ==
  /\ q \in LseRq
  /\ 1 <= q.window_start /\ q.window_start <= t
  /\ q.latest_clock <= t
  /\ q.latest_clock = 0 \/ q.window_start <= q.latest_clock
  /\ q.task_exec_scale \in 1 .. Scale
  /\ q.prev_window_size \in Windows

TaskOK(l, t) ==
  /\ l \in LseTask
  /\ l.mark_start <= t
  /\ l.sum <= MaxWindow
  /\ \A i \in HistIdx : l.sum_history[i] <= MaxWindow
  /\ \E i \in HistIdx : l.demand <= l.sum_history[i]

\* What is true of those of a CPU while it is tracked with windows of size W.
BusyOK(q, W) ==
  /\ q.latest_clock < q.window_start + W
  /\ q.prev_runnable_sum <= q.prev_window_size
  /\ q.curr_runnable_sum <= Max2(q.latest_clock - q.window_start, 0)

-----------------------------------------------------------------------------
\* The operators.

\* The constants are numbers; MaxWindow is the largest size.
LEMMA Sizes ==
  /\ Scale \in Nat /\ Scale >= 1
  /\ RAVG_HIST_SIZE \in Nat /\ RAVG_HIST_SIZE >= 1 /\ 0 \in HistIdx
  /\ HistIdx \subseteq Nat
  /\ \A w \in Windows : w \in Nat /\ w >= 1
  /\ MaxWindow \in Windows
  /\ \A w \in Windows : w <= MaxWindow
  /\ lse_scale_demand_divisor \in Nat \ {0}
<1>1. \A w \in Windows : w \in Nat /\ w >= 1
  BY SizeAssumption
<1>2. MaxWindow \in Windows /\ \A w \in Windows : MaxWindow >= w
  <2>1. Windows \in SUBSET Nat /\ Windows # {} /\ IsFiniteSet(Windows)
    BY SizeAssumption
  <2> QED BY <2>1, MaxOfNats DEF MaxWindow
<1>3. lse_scale_demand_divisor \in Nat \ {0}
  <2>1. /\ InitWindow \in Nat /\ SCHED_CAPACITY_SCALE \in Nat \ {0}
        /\ InitWindow >= SCHED_CAPACITY_SCALE
    BY SizeAssumption
  <2> QED BY <2>1, Division DEF lse_scale_demand_divisor
<1> QED BY <1>1, <1>2, <1>3, SizeAssumption DEF Scale, HistIdx

\* Busy time is scaled down, never up.
LEMMA ScaleExec ==
  ASSUME NEW q, q.task_exec_scale \in 1 .. Scale, NEW delta \in Nat
  PROVE  /\ scale_exec_time(delta, q) \in Nat
         /\ scale_exec_time(delta, q) <= delta
<1> DEFINE e == q.task_exec_scale
           p == delta * e
<1>1. Scale \in Nat \ {0} /\ e \in Nat /\ e <= Scale
  BY Sizes
<1>2. p \in Nat /\ p <= delta * Scale
  BY <1>1, ProductBound
<1>3. p \div Scale \in Nat /\ Scale * (p \div Scale) <= p
  BY <1>1, <1>2, Division
<1> HIDE DEF p
<1>4. ASSUME NEW d \in Nat, Scale * d <= delta * Scale PROVE d <= delta
  <2>1. SUFFICES ASSUME d >= delta + 1 PROVE FALSE
    BY <1>4
  <2>2. Scale * (delta + 1) <= Scale * d
    BY <1>1, <2>1, ProductBound
  <2>3. Scale * (delta + 1) = delta * Scale + Scale /\ Scale * d \in Nat
        /\ delta * Scale \in Nat
    BY <1>1
  <2> QED BY <1>1, <1>4, <2>2, <2>3
<1>5. p \div Scale <= delta
  <2> DEFINE d == p \div Scale
  <2>1. d \in Nat /\ Scale * d <= delta * Scale
    <3>1. Scale * d \in Nat /\ delta * Scale \in Nat
      BY <1>1, <1>3
    <3> QED BY <1>2, <1>3, <3>1
  <2> HIDE DEF d
  <2> QED BY <1>4, <2>1 DEF d
<1> QED BY <1>3, <1>5 DEF scale_exec_time, Scale, p

\* The scale that the frequency gives is at most the full one.
LEMMA CyclesScale ==
  ASSUME cur_freq \in [CPU -> Freqs], NEW c \in CPU
  PROVE  Max2(1, CeilDiv(cur_freq[c] * SCHED_CAPACITY_SCALE, MaxFreq))
           \in 1 .. Scale
<1> DEFINE f == cur_freq[c]
           a == f * Scale + MaxFreq - 1
<1>1. /\ Scale \in Nat \ {0} /\ f \in Nat \ {0} /\ MaxFreq \in Nat \ {0}
      /\ f <= MaxFreq
  <2>1. f \in 1 .. MaxFreq /\ MaxFreq \in 1 .. MaxFreq
    BY SizeAssumption
  <2>2. MaxFreq \in Int
    BY SizeAssumption
  <2> QED BY <2>1, <2>2, Sizes
<1> HIDE DEF f
<1>2. f * Scale \in Nat /\ f * Scale <= MaxFreq * Scale
  BY <1>1, ProductBound
<1>3. a \in Nat /\ a < MaxFreq * Scale + MaxFreq
  <2>1. MaxFreq * Scale \in Nat
    BY <1>1
  <2> QED BY <1>1, <1>2, <2>1
<1> HIDE DEF a
<1> DEFINE d == a \div MaxFreq
<1>4. d \in Nat /\ MaxFreq * d <= a
  BY <1>1, <1>3, Division
<1> HIDE DEF d
<1>5. d <= Scale
  <2> SUFFICES ASSUME d >= Scale + 1 PROVE FALSE
    BY <1>1, <1>4
  <2>1. MaxFreq * (Scale + 1) <= MaxFreq * d
    BY <1>1, <1>4, ProductBound
  <2>2. MaxFreq * (Scale + 1) = MaxFreq * Scale + MaxFreq
    BY <1>1
  <2>3. MaxFreq * Scale \in Nat /\ MaxFreq * d \in Nat
    BY <1>1, <1>4
  <2> QED BY <1>1, <1>3, <1>4, <2>1, <2>2, <2>3
<1>6. Max2(1, d) \in 1 .. Scale
  BY <1>1, <1>4, <1>5 DEF Max2
<1> QED BY <1>6 DEF CeilDiv, d, a, f, Scale

\* The sum over the ring, unfolded.
LEMMA SumUnfolds ==
  ASSUME NEW hist
  PROVE  /\ HistSum(hist)[0] = 0
         /\ \A n \in 0 .. RAVG_HIST_SIZE - 1 :
              HistSum(hist)[n + 1] = HistSum(hist)[n] + hist[n]
<1> DEFINE Body(g, n) == IF n = 0 THEN 0 ELSE g[n - 1] + hist[n - 1]
           P == {k \in Nat : \E g : g = [n \in 0 .. k |-> Body(g, n)]}
<1>1. 0 \in P
  <2> DEFINE g == [n \in 0 .. 0 |-> 0]
  <2>1. g = [n \in 0 .. 0 |-> Body(g, n)]
    OBVIOUS
  <2> QED BY <2>1
<1>2. ASSUME NEW k \in P PROVE k + 1 \in P
  <2>1. PICK g : g = [n \in 0 .. k |-> Body(g, n)]
    OBVIOUS
  <2> DEFINE h == [n \in 0 .. k + 1 |->
                     IF n = k + 1 THEN g[k] + hist[k] ELSE g[n]]
  <2>2. \A n \in 0 .. k + 1 : h[n] = Body(h, n)
    <3> SUFFICES ASSUME NEW n \in 0 .. k + 1 PROVE h[n] = Body(h, n)
      OBVIOUS
    <3>1. CASE n = k + 1
      BY <3>1
    <3>2. CASE n # k + 1
      BY <3>2, <2>1
    <3> QED BY <3>1, <3>2
  <2>3. h = [n \in 0 .. k + 1 |-> Body(h, n)]
    BY <2>2
  <2> HIDE DEF h
  <2>4. \E f : f = [n \in 0 .. k + 1 |-> Body(f, n)]
    BY <2>3
  <2> QED BY <2>4
<1>3. P = Nat
  <2>1. P \in SUBSET Nat
    OBVIOUS
  <2> HIDE DEF P
  <2> QED BY <1>1, <1>2, <2>1, SetInduction
<1>4. PICK g : g = [n \in 0 .. RAVG_HIST_SIZE |-> Body(g, n)]
  BY <1>3, Sizes
<1> DEFINE sum == CHOOSE f : f = [n \in 0 .. RAVG_HIST_SIZE |-> Body(f, n)]
<1>5. sum = [n \in 0 .. RAVG_HIST_SIZE |-> Body(sum, n)]
  BY <1>4
<1>6. HistSum(hist) = sum
  BY DEF HistSum
<1> HIDE DEF sum
<1>7. sum[0] = 0
  BY <1>5, Sizes
<1>8. ASSUME NEW n \in 0 .. RAVG_HIST_SIZE - 1
      PROVE  sum[n + 1] = sum[n] + hist[n]
  <2>1. n + 1 \in 0 .. RAVG_HIST_SIZE /\ n + 1 # 0 /\ (n + 1) - 1 = n
    BY Sizes
  <2>2. sum[n + 1] = Body(sum, n + 1)
    BY <1>5, <2>1
  <2> QED BY <2>1, <2>2
<1> QED BY <1>6, <1>7, <1>8

\* The average over the ring is at most its largest value.
LEMMA AverageBound ==
  ASSUME NEW hist \in [HistIdx -> Nat], NEW M \in Nat,
         \A i \in HistIdx : hist[i] <= M
  PROVE  LET avg == HistSum(hist)[RAVG_HIST_SIZE] \div RAVG_HIST_SIZE
         IN  avg \in Nat /\ avg <= M
<1> DEFINE s == HistSum(hist)
           P == {n \in Nat : n <= RAVG_HIST_SIZE => s[n] \in Nat /\ s[n] <= n * M}
           R == RAVG_HIST_SIZE
<1>0. R \in Nat /\ R \in Nat \ {0}
  BY Sizes
<1>1. s[0] = 0 /\ \A n \in 0 .. R - 1 : s[n + 1] = s[n] + hist[n]
  BY SumUnfolds
<1> HIDE DEF s
<1>2. 0 \in P
  BY <1>1
<1>3. ASSUME NEW n \in P PROVE n + 1 \in P
  <2> SUFFICES ASSUME n + 1 <= R
               PROVE  s[n + 1] \in Nat /\ s[n + 1] <= (n + 1) * M
    OBVIOUS
  <2>1. n \in Nat /\ n \in 0 .. R - 1 /\ n \in HistIdx /\ n <= R
    BY <1>0 DEF HistIdx
  <2>2. s[n] \in Nat /\ s[n] <= n * M
    BY <2>1
  <2>3. s[n + 1] = s[n] + hist[n] /\ hist[n] \in Nat /\ hist[n] <= M
    BY <1>1, <2>1
  <2> HIDE DEF P
  <2>4. (n + 1) * M = n * M + M /\ n * M \in Nat
    BY <2>1
  <2> QED BY <2>2, <2>3, <2>4
<1>4. P = Nat
  <2>1. P \in SUBSET Nat
    OBVIOUS
  <2> HIDE DEF P
  <2> QED BY <1>2, <1>3, <2>1, SetInduction
<1>5. s[R] \in Nat /\ s[R] <= R * M
  BY <1>0, <1>4
<1> HIDE DEF P, R
<1> DEFINE d == s[R] \div R
<1>6. d \in Nat /\ R * d <= s[R]
  BY <1>0, <1>5, Division
<1> HIDE DEF d
<1>7. d <= M
  <2> SUFFICES ASSUME d >= M + 1 PROVE FALSE
    BY <1>6
  <2>1. R * (M + 1) <= R * d
    BY <1>0, <1>6, ProductBound
  <2>2. R * (M + 1) = R * M + R /\ R * M \in Nat /\ R * d \in Nat
    BY <1>0, <1>6
  <2> QED BY <1>0, <1>5, <1>6, <2>1, <2>2
<1> QED BY <1>6, <1>7 DEF d, s, R

\* No policy reports more than the largest window of the ring, which runtime
\* is one of.
LEMMA DemandBound ==
  ASSUME NEW hist \in [HistIdx -> Nat], NEW k \in HistIdx
  PROVE  /\ Demand(hist[k], hist) \in Nat
         /\ \E i \in HistIdx : Demand(hist[k], hist) <= hist[i]
<1> DEFINE S == {hist[i] : i \in HistIdx}
<1>1. S \in SUBSET Nat /\ S # {}
  BY Sizes
<1>2. IsFiniteSet(S)
  <2>1. IsFiniteSet(HistIdx)
    BY FS_Interval, Sizes DEF HistIdx
  <2> QED BY <2>1, FiniteRange
<1>3. Max(S) \in S /\ \A x \in S : Max(S) >= x
  BY <1>1, <1>2, MaxOfNats
<1>4. PICK j \in HistIdx : Max(S) = hist[j]
  BY <1>3
<1>5. hist[j] \in Nat /\ hist[k] \in Nat /\ \A i \in HistIdx : hist[i] <= hist[j]
  BY <1>3, <1>4
<1> DEFINE avg == HistSum(hist)[RAVG_HIST_SIZE] \div RAVG_HIST_SIZE
<1>6. avg \in Nat /\ avg <= hist[j]
  BY <1>5, AverageBound
<1> HIDE DEF avg, S
<1>7. Demand(hist[k], hist) \in {hist[k], hist[j], avg, Max2(avg, hist[k])}
  BY <1>4 DEF Demand, avg, S
<1>8. hist[k] <= hist[j]
  BY <1>5
<1>9. Demand(hist[k], hist) \in Nat /\ Demand(hist[k], hist) <= hist[j]
  BY <1>5, <1>6, <1>7, <1>8 DEF Max2
<1> QED BY <1>9

\* A push of windows onto the ring leaves a task in order.
LEMMA HistoryKeeps ==
  ASSUME NEW t \in Nat, NEW l, TaskOK(l, t), NEW p, NEW runtime \in Nat,
         runtime <= MaxWindow, NEW samples \in Nat
  PROVE  LET r == update_history(l, p, runtime, samples)
         IN  TaskOK(r, t) /\ r.mark_start = l.mark_start
<1>1. CASE runtime = 0 \/ p \in IdleTasks \/ samples = 0
  BY <1>1 DEF update_history
<1>2. CASE ~(runtime = 0 \/ p \in IdleTasks \/ samples = 0)
  <2> DEFINE hist == [i \in HistIdx |->
                        IF (i - l.cidx) % RAVG_HIST_SIZE < samples
                          THEN runtime ELSE l.sum_history[i]]
             demand == Demand(runtime, hist)
             cidx == (l.cidx + samples) % RAVG_HIST_SIZE
             scaled == lse_scale_time_to_util(demand)
             r == update_history(l, p, runtime, samples)
  <2>0. l \in LseTask /\ l.cidx \in HistIdx /\ l.sum_history \in [HistIdx -> Nat]
        /\ l.mark_start \in Nat /\ l.mark_start <= t
        /\ \A i \in HistIdx : l.sum_history[i] <= MaxWindow
    BY DEF TaskOK, LseTask
  <2>1. r = [l EXCEPT !.sum_history = hist, !.cidx = cidx, !.sum = 0,
                      !.demand = demand, !.demand_scaled = scaled]
    BY <1>2 DEF update_history
  <2>2. /\ hist \in [HistIdx -> Nat]
        /\ \A i \in HistIdx : hist[i] <= MaxWindow
    BY <2>0
  <2>3. hist[l.cidx] = runtime
    <3>1. l.cidx \in Int /\ (l.cidx - l.cidx) % RAVG_HIST_SIZE = 0
      BY <2>0, Sizes DEF HistIdx
    <3> QED BY <2>0, <3>1, <1>2
  <2>4. cidx \in HistIdx
    <3>0. RAVG_HIST_SIZE \in Nat \ {0} /\ l.cidx \in Nat
      <4>1. RAVG_HIST_SIZE \in Nat \ {0} /\ HistIdx \subseteq Nat
        BY Sizes
      <4> QED BY <2>0, <4>1
    <3>1. l.cidx + samples \in Int
      BY <3>0
    <3>2. cidx \in 0 .. RAVG_HIST_SIZE - 1
      BY <3>0, <3>1, Remainder, Zenon
    <3> QED BY <3>2 DEF HistIdx
  <2> HIDE DEF hist, cidx
  <2>5. demand \in Nat /\ \E i \in HistIdx : demand <= hist[i]
    BY <2>0, <2>2, <2>3, DemandBound
  <2> HIDE DEF demand
  <2>6. scaled \in Nat
    BY <2>5, Sizes, Division DEF lse_scale_time_to_util
  <2> HIDE DEF scaled, r
  <2>7. r \in LseTask
    BY <2>0, <2>1, <2>2, <2>4, <2>5, <2>6 DEF LseTask
  <2>8. /\ r.mark_start = l.mark_start /\ r.sum = 0 /\ r.sum_history = hist
        /\ r.demand = demand
    BY <2>0, <2>1 DEF LseTask
  <2>9. 0 <= MaxWindow
    BY Sizes
  <2> QED BY <2>0, <2>2, <2>5, <2>7, <2>8, <2>9 DEF TaskOK, r
<1> QED BY <1>1, <1>2

\* So does adding to the running sum, which is cut at the window size.
LEMMA AddKeeps ==
  ASSUME lse_sched_ravg_window \in Windows, NEW t \in Nat, NEW l, TaskOK(l, t),
         NEW q, q.task_exec_scale \in 1 .. Scale, NEW delta \in Nat
  PROVE  LET r == add_to_task_demand(l, q, delta)
         IN  /\ TaskOK(r, t) /\ r.mark_start = l.mark_start
             /\ r.sum \in Nat /\ r.sum <= MaxWindow
<1> DEFINE s == Min2(l.sum + scale_exec_time(delta, q), lse_sched_ravg_window)
           r == add_to_task_demand(l, q, delta)
<1>1. s \in Nat /\ s <= MaxWindow
  <2>1. l.sum \in Nat /\ scale_exec_time(delta, q) \in Nat
    BY ScaleExec DEF TaskOK, LseTask
  <2>2. /\ lse_sched_ravg_window \in Nat /\ MaxWindow \in Nat
        /\ lse_sched_ravg_window <= MaxWindow
    BY Sizes
  <2> QED BY <2>1, <2>2 DEF Min2
<1>2. r = [l EXCEPT !.sum = s]
  BY DEF add_to_task_demand
<1> HIDE DEF s, r
<1>3. l \in LseTask
  BY DEF TaskOK
<1>4. r \in LseTask /\ r.sum = s /\ r.mark_start = l.mark_start
      /\ r.sum_history = l.sum_history /\ r.demand = l.demand
  BY <1>1, <1>2, <1>3 DEF LseTask
<1> QED BY <1>1, <1>4 DEF TaskOK, r

\* Cutting a stretch of time into windows leaves a task in order.
LEMMA TaskDemandKeeps ==
  ASSUME lse_sched_ravg_window \in Windows, NEW t \in Nat, NEW l, TaskOK(l, t),
         NEW q, QueueOK(q, t), NEW c, NEW p, NEW event
  PROVE  LET r == update_task_demand(l, q, c, p, event, t)
         IN  TaskOK(r, t) /\ r.mark_start = l.mark_start
<1> DEFINE W == lse_sched_ravg_window
           ms == l.mark_start
           ws == q.window_start
           nr == (ws - ms) \div W
           first == ws - nr * W
           l1 == add_to_task_demand(l, q, first - ms)
           closed == update_history(l1, p, l1.sum, 1)
           filled == update_history(closed, p, scale_exec_time(W, q), nr)
<1>1. /\ ms \in Nat /\ ms <= t /\ ws \in Nat /\ ws <= t
      /\ W \in Nat /\ W \in Nat \ {0} /\ W <= MaxWindow /\ MaxWindow \in Nat
      /\ l.sum \in Nat /\ l.sum <= MaxWindow
      /\ q.task_exec_scale \in 1 .. Scale
  BY Sizes DEF TaskOK, QueueOK, LseTask, LseRq
<1>2. CASE ~account_busy_for_task_demand(c, p, event)
  <2>1. LET r == update_history(l, p, l.sum, 1)
        IN  TaskOK(r, t) /\ r.mark_start = ms
    BY <1>1, HistoryKeeps
  <2> QED BY <1>2, <2>1 DEF update_task_demand
<1>3. CASE account_busy_for_task_demand(c, p, event) /\ ~(ms < ws)
  <2>0. t - ms \in Nat
    BY <1>1
  <2>1. LET r == add_to_task_demand(l, q, t - ms)
        IN  TaskOK(r, t) /\ r.mark_start = ms
    BY <1>1, <2>0, AddKeeps
  <2> QED BY <1>3, <2>1 DEF update_task_demand
<1>4. CASE account_busy_for_task_demand(c, p, event) /\ ms < ws
  <2>1. nr \in Nat /\ first - ms \in Nat
    <3> DEFINE d == ws - ms
    <3>1. d \in Nat
      BY <1>1, <1>4
    <3>2. nr \in Nat /\ W * nr <= d
      BY <1>1, <3>1, Division
    <3> HIDE DEF nr
    <3>3. nr * W = W * nr /\ nr * W \in Nat
      BY <1>1, <3>2
    <3> QED BY <1>1, <3>2, <3>3
  <2> HIDE DEF nr, first
  <2>2. TaskOK(l1, t) /\ l1.mark_start = ms /\ l1.sum \in Nat /\ l1.sum <= MaxWindow
    <3>1. first - ms \in Nat
      BY <1>1, <2>1
    <3>2. lse_sched_ravg_window \in Windows /\ q.task_exec_scale \in 1 .. Scale
      BY <1>1
    <3> QED BY <3>1, <3>2, AddKeeps
  <2> HIDE DEF l1
  <2>3. TaskOK(closed, t) /\ closed.mark_start = ms
    BY <2>2, HistoryKeeps
  <2> HIDE DEF closed
  <2>4. scale_exec_time(W, q) \in Nat /\ scale_exec_time(W, q) <= MaxWindow
    <3>1. scale_exec_time(W, q) \in Nat /\ scale_exec_time(W, q) <= W
      BY <1>1, ScaleExec
    <3> QED BY <1>1, <3>1
  <2>5. TaskOK(filled, t) /\ filled.mark_start = ms
    BY <2>1, <2>3, <2>4, HistoryKeeps
  <2> HIDE DEF filled
  <2> DEFINE delta == t - ws
             r == add_to_task_demand(filled, q, delta)
  <2>6. TaskOK(r, t) /\ r.mark_start = ms
    <3>1. delta \in Nat
      BY <1>1
    <3>2. lse_sched_ravg_window \in Windows /\ q.task_exec_scale \in 1 .. Scale
      BY <1>1
    <3> HIDE DEF delta, ms, ws, W
    <3> QED BY <2>5, <3>1, <3>2, AddKeeps
  <2>7. update_task_demand(l, q, c, p, event, t) = r
    BY <1>4 DEF update_task_demand, filled, closed, l1, first, nr
  <2> QED BY <2>6, <2>7
<1> QED BY <1>2, <1>3, <1>4

\* update_window_start: the window that contains t becomes the current one; a
\* window that goes on keeps its sums, one that has ended is the previous one
\* or, if others have ended since, is forgotten.
LEMMA WindowStart ==
  ASSUME lse_sched_ravg_window \in Windows, NEW t \in Nat, NEW q, QueueOK(q, t)
  PROVE  LET W == lse_sched_ravg_window
             r == update_window_start(q, t)
         IN  /\ QueueOK(r, t)
             /\ r.latest_clock = t /\ t < r.window_start + W
             /\ r.task_exec_scale = q.task_exec_scale
             /\ t < q.window_start + W => r = [q EXCEPT !.latest_clock = t]
             /\ t >= q.window_start + W =>
                  /\ q.window_start + W <= r.window_start
                  /\ r.prev_window_size = W
                  /\ r.curr_runnable_sum = 0
                  /\ r.prev_runnable_sum =
                       IF r.window_start = q.window_start + W
                         THEN q.curr_runnable_sum ELSE 0
                  /\ \E n \in Nat : r.window_start = q.window_start + n * W
<1> DEFINE W == lse_sched_ravg_window
           ws == q.window_start
           nr == (t - ws) \div W
           r == update_window_start(q, t)
<1>1. /\ q \in LseRq /\ W \in Nat /\ W \in Nat \ {0} /\ W \in Windows
      /\ ws \in Nat /\ 1 <= ws /\ ws <= t
      /\ q.curr_runnable_sum \in Nat
  BY Sizes DEF QueueOK, LseRq
<1>2. /\ nr \in Nat
      /\ W * nr <= t - ws /\ t - ws < W * nr + W
  <2>1. t - ws \in Nat
    BY <1>1
  <2> QED BY <1>1, <2>1, Division
<1>3. CASE nr = 0
  <2>1. r = [q EXCEPT !.latest_clock = t]
    BY <1>3 DEF update_window_start
  <2> HIDE DEF r, nr
  <2>2. t < ws + W
    <3>1. W * nr = 0
      BY <1>1, <1>3
    <3> QED BY <1>1, <1>2, <3>1
  <2>3. /\ r \in LseRq /\ r.latest_clock = t /\ r.window_start = ws
        /\ r.task_exec_scale = q.task_exec_scale
        /\ r.prev_window_size = q.prev_window_size
    BY <1>1, <2>1 DEF LseRq
  <2>4. QueueOK(r, t)
    BY <1>1, <2>3 DEF QueueOK
  <2> QED BY <1>1, <2>1, <2>2, <2>3, <2>4 DEF r
<1>4. CASE nr # 0
  <2> DEFINE new == ws + nr * W
             prev == IF nr > 1 THEN 0 ELSE q.curr_runnable_sum
  <2> HIDE DEF nr
  <2>1. /\ new \in Nat /\ ws + W <= new /\ new <= t /\ t < new + W
        /\ ~(nr > 1) => new = ws + W
        /\ nr > 1 => new # ws + W
        /\ \E n \in Nat : new = ws + n * W
    <3>1. nr * W = W * nr /\ nr * W \in Nat /\ W <= nr * W
      BY <1>1, <1>2, <1>4
    <3>2. ~(nr > 1) => nr = 1
      BY <1>2, <1>4
    <3>3. nr = 1 => nr * W = W
      BY <1>1
    <3>4. nr > 1 => nr * W >= W + W
      <4> SUFFICES ASSUME nr > 1 PROVE nr * W >= 2 * W
        BY <1>1
      <4> QED BY <1>1, <1>2, ProductBound
    <3>5. \E n \in Nat : new = ws + n * W
      BY <1>2
    <3>6. new \in Nat /\ ws + W <= new /\ new <= t /\ t < new + W
      BY <1>1, <1>2, <3>1
    <3>7. ~(nr > 1) => new = ws + W
      BY <3>2, <3>3
    <3>8. nr > 1 => new # ws + W
      BY <1>1, <3>1, <3>4
    <3> QED BY <3>5, <3>6, <3>7, <3>8
  <2>2. /\ prev \in Nat
        /\ prev = IF new = ws + W THEN q.curr_runnable_sum ELSE 0
    BY <1>1, <2>1
  <2>3. r = [q EXCEPT !.latest_clock = t, !.window_start = new,
                      !.prev_window_size = W, !.prev_runnable_sum = prev,
                      !.curr_runnable_sum = 0]
    <3>1. r = rollover_cpu_window(
                [[q EXCEPT !.latest_clock = t]
                   EXCEPT !.window_start = @ + nr * W, !.prev_window_size = W],
                nr > 1)
      BY <1>4 DEF update_window_start, nr
    <3> QED BY <1>1, <3>1 DEF rollover_cpu_window, LseRq
  <2> HIDE DEF r, new, prev
  <2>4. /\ r \in LseRq /\ r.latest_clock = t /\ r.window_start = new
        /\ r.task_exec_scale = q.task_exec_scale /\ r.prev_window_size = W
        /\ r.prev_runnable_sum = prev /\ r.curr_runnable_sum = 0
    BY <1>1, <2>1, <2>2, <2>3 DEF LseRq
  <2>5. QueueOK(r, t)
    BY <1>1, <2>1, <2>4 DEF QueueOK
  <2>6. t >= ws + W
    BY <1>1, <2>1
  <2>7. ~(t < ws + W)
    BY <1>1, <2>6
  <2> QED BY <1>1, <2>1, <2>2, <2>4, <2>5, <2>7 DEF r
<1> QED BY <1>3, <1>4

\* Neither the frequency nor the busy time disturb the window of a CPU.
LEMMA CyclesKeep ==
  ASSUME cur_freq \in [CPU -> Freqs], NEW c \in CPU, NEW t \in Nat, NEW q,
         QueueOK(q, t)
  PROVE  LET r == update_task_rq_cpu_cycles(q, c)
         IN  /\ QueueOK(r, t)
             /\ \A W : BusyOK(r, W) <=> BusyOK(q, W)
             /\ r.window_start = q.window_start /\ r.latest_clock = q.latest_clock
             /\ r.prev_window_size = q.prev_window_size
             /\ r.prev_runnable_sum = q.prev_runnable_sum
             /\ r.curr_runnable_sum = q.curr_runnable_sum
<1> DEFINE e == Max2(1, CeilDiv(cur_freq[c] * SCHED_CAPACITY_SCALE, MaxFreq))
           r == update_task_rq_cpu_cycles(q, c)
<1>1. e \in 1 .. Scale /\ e \in Nat
  BY CyclesScale, Sizes
<1>2. r = [q EXCEPT !.task_exec_scale = e]
  BY DEF update_task_rq_cpu_cycles
<1>3. q \in LseRq
  BY DEF QueueOK
<1> HIDE DEF e, r
<1>4. /\ r \in LseRq /\ r.task_exec_scale = e
      /\ r.window_start = q.window_start /\ r.latest_clock = q.latest_clock
      /\ r.prev_window_size = q.prev_window_size
      /\ r.prev_runnable_sum = q.prev_runnable_sum
      /\ r.curr_runnable_sum = q.curr_runnable_sum
  BY <1>1, <1>2, <1>3 DEF LseRq
<1>5. QueueOK(r, t)
  BY <1>1, <1>4 DEF QueueOK
<1>6. \A W : BusyOK(r, W) <=> BusyOK(q, W)
  BY <1>4 DEF BusyOK
<1> QED BY <1>4, <1>5, <1>6 DEF r

\* What update_cpu_busy_time adds: to the current window at most the time since
\* the later of mark_start and window_start, to the previous one at most what
\* lies before window_start.
LEMMA BusyTime ==
  ASSUME NEW t \in Nat, NEW q, QueueOK(q, t), NEW l, TaskOK(l, t), NEW p, NEW event
  PROVE  LET r == update_cpu_busy_time(l, q, p, event, t)
             ms == l.mark_start
             ws == q.window_start
         IN  /\ QueueOK(r, t)
             /\ r.window_start = ws /\ r.latest_clock = q.latest_clock
             /\ r.prev_window_size = q.prev_window_size
             /\ ms >= ws => /\ r.curr_runnable_sum <= q.curr_runnable_sum + (t - ms)
                            /\ r.prev_runnable_sum = q.prev_runnable_sum
             /\ ms < ws =>
                  /\ r.curr_runnable_sum <= q.curr_runnable_sum + (t - ws)
                  /\ r.prev_runnable_sum <=
                       q.prev_runnable_sum + Min2(ws - ms, q.prev_window_size)
<1> DEFINE ms == l.mark_start
           ws == q.window_start
           r == update_cpu_busy_time(l, q, p, event, t)
           before == Min2(ws - ms, q.prev_window_size)
<1>1. /\ q \in LseRq /\ ms \in Nat /\ ms <= t /\ ws \in Nat /\ ws <= t
      /\ q.curr_runnable_sum \in Nat /\ q.prev_runnable_sum \in Nat
      /\ q.prev_window_size \in Nat /\ q.task_exec_scale \in 1 .. Scale
  BY DEF QueueOK, TaskOK, LseRq, LseTask
<1>2. CASE ~account_busy_for_cpu_time(p, event)
  <2>1. r = q
    BY <1>2 DEF update_cpu_busy_time
  <2>2. /\ ms >= ws => t - ms \in Nat
        /\ ms < ws => t - ws \in Nat /\ before \in Nat
    BY <1>1 DEF Min2
  <2> QED BY <1>1, <2>1, <2>2
<1>3. CASE account_busy_for_cpu_time(p, event) /\ ms >= ws
  <2> DEFINE d == t - ms
             s == scale_exec_time(d, q)
  <2>1. s \in Nat /\ s <= d
    <3>1. d \in Nat
      BY <1>1
    <3> HIDE DEF d
    <3> QED BY <1>1, <3>1, ScaleExec
  <2>2. r = [q EXCEPT !.curr_runnable_sum = q.curr_runnable_sum + s]
    BY <1>1, <1>3 DEF update_cpu_busy_time, LseRq
  <2> HIDE DEF s, r
  <2>3. /\ r \in LseRq /\ r.window_start = ws /\ r.latest_clock = q.latest_clock
        /\ r.prev_window_size = q.prev_window_size
        /\ r.task_exec_scale = q.task_exec_scale
        /\ r.prev_runnable_sum = q.prev_runnable_sum
        /\ r.curr_runnable_sum = q.curr_runnable_sum + s
    BY <1>1, <2>1, <2>2 DEF LseRq
  <2>4. QueueOK(r, t)
    BY <2>3 DEF QueueOK
  <2>5. ~(ms < ws)
    BY <1>1, <1>3
  <2> QED BY <1>1, <2>1, <2>3, <2>4, <2>5 DEF r
<1>4. CASE account_busy_for_cpu_time(p, event) /\ ~(ms >= ws)
  <2> DEFINE d == t - ws
             s == scale_exec_time(d, q)
             b == scale_exec_time(before, q)
  <2>1. s \in Nat /\ s <= d
    <3>1. d \in Nat
      BY <1>1
    <3> HIDE DEF d
    <3> QED BY <1>1, <3>1, ScaleExec
  <2>2. b \in Nat /\ b <= before
    <3>1. before \in Nat
      BY <1>1, <1>4 DEF Min2
    <3> HIDE DEF before
    <3> QED BY <1>1, <3>1, ScaleExec
  <2> DEFINE pr == q.prev_runnable_sum + b
             cr == q.curr_runnable_sum + s
  <2>3. r = [q EXCEPT !.prev_runnable_sum = pr, !.curr_runnable_sum = cr]
    BY <1>1, <1>4 DEF update_cpu_busy_time, LseRq
  <2>0. before \in Nat
    BY <1>1, <1>4 DEF Min2
  <2> HIDE DEF s, b, r, before
  <2>4. /\ r \in LseRq /\ r.window_start = ws /\ r.latest_clock = q.latest_clock
        /\ r.prev_window_size = q.prev_window_size
        /\ r.task_exec_scale = q.task_exec_scale
        /\ r.prev_runnable_sum = pr /\ r.curr_runnable_sum = cr
    <3>1. pr \in Nat /\ cr \in Nat
      BY <1>1, <2>1, <2>2
    <3> HIDE DEF pr, cr
    <3> QED BY <1>1, <2>3, <3>1 DEF LseRq
  <2>5. QueueOK(r, t)
    BY <2>4 DEF QueueOK
  <2>6. r.prev_runnable_sum <= q.prev_runnable_sum + before
    BY <1>1, <2>0, <2>2, <2>4
  <2>7. r.curr_runnable_sum <= q.curr_runnable_sum + (t - ws)
    BY <1>1, <2>1, <2>4
  <2> QED BY <1>1, <1>4, <2>4, <2>5, <2>6, <2>7 DEF r, before
<1> QED BY <1>2, <1>3, <1>4

-----------------------------------------------------------------------------
\* lse_update_task_ravg.

\* What the hooks rely on: the clock and the tunables have their types.
Context == /\ cur_freq \in [CPU -> Freqs]
           /\ lse_sched_ravg_window \in Windows

\* Its result in the three cases: nothing to do, the first update of a task,
\* a later one.
LEMMA RavgCases ==
  ASSUME NEW l, NEW q, NEW c, NEW p, NEW event, NEW t
  PROVE  LET r == lse_update_task_ravg(l, q, c, p, event, t)
             q1 == update_window_start(q, t)
             q2 == update_task_rq_cpu_cycles(q1, c)
             q3 == update_cpu_busy_time(l, q2, p, event, t)
             l2 == update_task_demand(l, q2, c, p, event, t)
             Idling == ~slim_walt_ctrl \/ q.window_start = 0 \/ l.mark_start = t
         IN  /\ Idling => r = <<q, l>>
             /\ ~Idling /\ l.mark_start = 0 =>
                  r = <<q1, [l EXCEPT !.mark_start = t,
                                      !.window_start = q1.window_start]>>
             /\ ~Idling /\ l.mark_start # 0 =>
                  r = <<q3, [l2 EXCEPT !.mark_start = t,
                                       !.window_start = q1.window_start]>>
  BY DEF lse_update_task_ravg

\* Moving mark_start to the present leaves a task in order.
LEMMA MarkKeeps ==
  ASSUME NEW t \in Nat, NEW l, TaskOK(l, t), NEW w \in Nat
  PROVE  LET r == [l EXCEPT !.mark_start = t, !.window_start = w]
         IN  TaskOK(r, t) /\ r.mark_start = t
<1> DEFINE r == [l EXCEPT !.mark_start = t, !.window_start = w]
<1>1. l \in LseTask
  BY DEF TaskOK
<1>2. r \in LseTask /\ r.mark_start = t /\ r.sum = l.sum
      /\ r.sum_history = l.sum_history /\ r.demand = l.demand
  BY <1>1 DEF LseTask
<1> HIDE DEF r
<1> QED BY <1>2 DEF TaskOK, r

\* It leaves the counters of both in order.
LEMMA RavgKeeps ==
  ASSUME Context, NEW t \in Nat, NEW l, TaskOK(l, t), NEW q, QueueOK(q, t),
         NEW c \in CPU, NEW p, NEW event
  PROVE  LET r == lse_update_task_ravg(l, q, c, p, event, t)
         IN  QueueOK(r[1], t) /\ TaskOK(r[2], t)
<1> DEFINE q1 == update_window_start(q, t)
           q2 == update_task_rq_cpu_cycles(q1, c)
           q3 == update_cpu_busy_time(l, q2, p, event, t)
           l2 == update_task_demand(l, q2, c, p, event, t)
           r == lse_update_task_ravg(l, q, c, p, event, t)
<1>1. QueueOK(q1, t) /\ q1.window_start \in Nat
  <2>1. QueueOK(q1, t)
    BY WindowStart DEF Context
  <2> QED BY <2>1 DEF QueueOK, LseRq
<1> HIDE DEF q1
<1>2. QueueOK(q2, t)
  BY <1>1, CyclesKeep DEF Context
<1> HIDE DEF q2
<1>3. QueueOK(q3, t)
  BY <1>2, BusyTime
<1>4. TaskOK(l2, t)
  BY <1>2, TaskDemandKeeps DEF Context
<1> HIDE DEF q3, l2
<1>5. /\ TaskOK([l EXCEPT !.mark_start = t, !.window_start = q1.window_start], t)
      /\ TaskOK([l2 EXCEPT !.mark_start = t, !.window_start = q1.window_start], t)
  BY <1>1, <1>4, MarkKeeps
<1>6. \/ r = <<q, l>>
      \/ r = <<q1, [l EXCEPT !.mark_start = t, !.window_start = q1.window_start]>>
      \/ r = <<q3, [l2 EXCEPT !.mark_start = t, !.window_start = q1.window_start]>>
  BY DEF lse_update_task_ravg, q1, q2, q3, l2
<1> HIDE DEF r
<1> QED BY <1>1, <1>3, <1>5, <1>6 DEF r

\* It keeps a tracked CPU tracked: no time is counted twice, because the task
\* it accounts for was last updated when the CPU was, or is only picked.
LEMMA RavgTracks ==
  ASSUME Context, slim_walt_ctrl, NEW t \in Nat, NEW l, TaskOK(l, t),
         NEW q, QueueOK(q, t), BusyOK(q, lse_sched_ravg_window),
         NEW c \in CPU, NEW p, NEW event,
         \/ l.mark_start = q.latest_clock
         \/ event = "PICK_NEXT_TASK" /\ q.latest_clock = t
  PROVE  LET r == lse_update_task_ravg(l, q, c, p, event, t)
         IN  /\ BusyOK(r[1], lse_sched_ravg_window)
             /\ r[1].latest_clock = t /\ r[2].mark_start = t
<1> DEFINE W == lse_sched_ravg_window
           ms == l.mark_start
           ws == q.window_start
           q1 == update_window_start(q, t)
           q2 == update_task_rq_cpu_cycles(q1, c)
           q3 == update_cpu_busy_time(l, q2, p, event, t)
           l2 == update_task_demand(l, q2, c, p, event, t)
           r == lse_update_task_ravg(l, q, c, p, event, t)
           Goal == BusyOK(r[1], W) /\ r[1].latest_clock = t /\ r[2].mark_start = t
<1>0. /\ W \in Nat /\ W >= 1 /\ ws \in Nat /\ 1 <= ws /\ ws <= t /\ ms \in Nat
      /\ q \in LseRq /\ l \in LseTask
      /\ q.latest_clock \in Nat /\ q.latest_clock <= t
      /\ q.curr_runnable_sum \in Nat /\ q.prev_runnable_sum \in Nat
      /\ q.prev_window_size \in Nat
      /\ q.latest_clock = 0 \/ ws <= q.latest_clock
      /\ q.latest_clock < ws + W
      /\ q.prev_runnable_sum <= q.prev_window_size
      /\ q.curr_runnable_sum <= Max2(q.latest_clock - ws, 0)
  BY Sizes DEF Context, QueueOK, TaskOK, LseRq, LseTask, BusyOK
<1>1. /\ QueueOK(q1, t) /\ q1.latest_clock = t /\ t < q1.window_start + W
      /\ t < ws + W => q1 = [q EXCEPT !.latest_clock = t]
      /\ t >= ws + W =>
           /\ ws + W <= q1.window_start
           /\ q1.prev_window_size = W
           /\ q1.curr_runnable_sum = 0
           /\ q1.prev_runnable_sum = IF q1.window_start = ws + W
                                      THEN q.curr_runnable_sum ELSE 0
  BY WindowStart DEF Context
<1> HIDE DEF q1
<1>2. /\ t < ws + W => /\ q1.window_start = ws
                       /\ q1.prev_window_size = q.prev_window_size
                       /\ q1.prev_runnable_sum = q.prev_runnable_sum
                       /\ q1.curr_runnable_sum = q.curr_runnable_sum
      /\ q1.window_start \in Nat /\ q1.window_start <= t
      /\ q1.prev_window_size \in Nat
      /\ q1.prev_runnable_sum \in Nat /\ q1.curr_runnable_sum \in Nat
  BY <1>0, <1>1 DEF LseRq, QueueOK
<1>3. BusyOK(q1, W) \/ t >= ws + W
  <2> SUFFICES ASSUME t < ws + W PROVE BusyOK(q1, W)
    BY <1>0
  <2>1. q.curr_runnable_sum <= t - ws
    BY <1>0 DEF Max2
  <2> QED BY <1>0, <1>1, <1>2, <2>1 DEF BusyOK, Max2
<1>4. CASE ms = t
  <2>1. r = <<q, l>> /\ q.latest_clock = t
    BY <1>4 DEF lse_update_task_ravg
  <2> HIDE DEF r
  <2> QED BY <1>4, <2>1 DEF r
<1>5. CASE ms # t /\ ms = 0
  <2>1. r = <<q1, [l EXCEPT !.mark_start = t, !.window_start = q1.window_start]>>
    BY <1>0, <1>5 DEF lse_update_task_ravg, q1
  <2>2. [l EXCEPT !.mark_start = t, !.window_start = q1.window_start].mark_start = t
    BY <1>0 DEF LseTask
  <2>3. BusyOK(q1, W)
    <3>1. CASE t >= ws + W
      <4>1. q.latest_clock = 0
        BY <1>0, <1>5, <3>1
      <4>2. q.curr_runnable_sum = 0
        BY <1>0, <4>1 DEF Max2
      <4> QED BY <1>0, <1>1, <1>2, <3>1, <4>2 DEF BusyOK, Max2
    <3> QED BY <1>3, <3>1
  <2> HIDE DEF r
  <2>4. r[1] = q1 /\ r[2].mark_start = t
    BY <2>1, <2>2
  <2> QED BY <1>1, <2>3, <2>4 DEF r
<1>6. CASE ms # t /\ ms # 0
  <2>1. /\ QueueOK(q2, t) /\ (BusyOK(q2, W) <=> BusyOK(q1, W))
        /\ q2.window_start = q1.window_start /\ q2.latest_clock = q1.latest_clock
        /\ q2.prev_window_size = q1.prev_window_size
        /\ q2.prev_runnable_sum = q1.prev_runnable_sum
        /\ q2.curr_runnable_sum = q1.curr_runnable_sum
    BY <1>1, CyclesKeep DEF Context
  <2> HIDE DEF q2
  <2>2. r = <<q3, [l2 EXCEPT !.mark_start = t, !.window_start = q1.window_start]>>
    BY <1>0, <1>6 DEF lse_update_task_ravg, q1, q2
  <2>3. [l2 EXCEPT !.mark_start = t, !.window_start = q1.window_start].mark_start = t
    <3>1. TaskOK(l2, t)
      BY <2>1, TaskDemandKeeps DEF Context
    <3> HIDE DEF l2
    <3> QED BY <1>2, <3>1, MarkKeeps
  <2> HIDE DEF l2
  <2>4. BusyOK(q3, W) /\ q3.latest_clock = t
    <3>1. CASE event = "PICK_NEXT_TASK" /\ q.latest_clock = t
      <4>1. q3 = q2
        BY <3>1 DEF update_cpu_busy_time, account_busy_for_cpu_time
      <4>2. ~(t >= ws + W)
        BY <1>0, <3>1
      <4> QED BY <1>1, <1>3, <2>1, <4>1, <4>2
    <3>2. CASE ms = q.latest_clock
      <4>0. /\ QueueOK(q3, t)
            /\ q3.window_start = q1.window_start /\ q3.latest_clock = t
            /\ q3.prev_window_size = q1.prev_window_size
            /\ ms >= q1.window_start =>
                 /\ q3.curr_runnable_sum <= q1.curr_runnable_sum + (t - ms)
                 /\ q3.prev_runnable_sum = q1.prev_runnable_sum
            /\ ms < q1.window_start =>
                 /\ q3.curr_runnable_sum <=
                      q1.curr_runnable_sum + (t - q1.window_start)
                 /\ q3.prev_runnable_sum <=
                      q1.prev_runnable_sum
                        + Min2(q1.window_start - ms, q1.prev_window_size)
        BY <1>1, <2>1, BusyTime
      <4>1. q3.curr_runnable_sum \in Nat /\ q3.prev_runnable_sum \in Nat
        BY <4>0 DEF QueueOK, LseRq
      <4> HIDE DEF q3
      <4>2. CASE t < ws + W
        <5>1. ws <= ms
          BY <1>0, <1>6, <3>2
        <5> QED BY <1>0, <1>1, <1>2, <3>2, <4>0, <4>1, <4>2, <5>1 DEF BusyOK, Max2
      <4>3. CASE t >= ws + W
        <5>1. ms < q1.window_start /\ ws <= ms
          BY <1>0, <1>1, <1>2, <1>6, <3>2, <4>3
        <5>2. q.curr_runnable_sum <= ms - ws
          BY <1>0, <3>2, <5>1 DEF Max2
        <5>3. q3.prev_runnable_sum <= W
          BY <1>0, <1>1, <1>2, <4>0, <4>1, <4>3, <5>1, <5>2 DEF Min2
        <5> QED BY <1>0, <1>1, <1>2, <4>0, <4>1, <4>3, <5>1, <5>3 DEF BusyOK, Max2
      <4> QED BY <1>0, <4>2, <4>3
    <3> QED BY <3>1, <3>2
  <2> HIDE DEF r, q3
  <2>5. r[1] = q3 /\ r[2].mark_start = t
    BY <2>2, <2>3
  <2> QED BY <2>4, <2>5 DEF r
<1> QED BY <1>4, <1>5, <1>6

-----------------------------------------------------------------------------
\* The inductive invariant.

CountersInv == /\ \A c \in CPU : QueueOK(lrq[c], clock)
               /\ \A p \in AllTasks : TaskOK(lts[p], clock)

\* A task runs on one CPU at a time.
CurrInv == \A c, d \in CPU : curr[c] = curr[d] => c = d

\* While tracking is not interrupted, the running task was last updated when
\* its CPU was, so that the two agree on what has been accounted for.
TrackInv ==
  tracked => /\ slim_walt_ctrl
             /\ \A c \in CPU : /\ BusyOK(lrq[c], lse_sched_ravg_window)
                               /\ lts[curr[c]].mark_start = lrq[c].latest_clock

IInv == TypeOK /\ CountersInv /\ CurrInv /\ TrackInv

\* The facts of the invariant that every hook needs.
LEMMA HookFacts ==
  ASSUME IInv
  PROVE  /\ Context /\ clock \in Nat /\ clock >= 1
         /\ lrq \in [CPU -> LseRq] /\ lts \in [AllTasks -> LseTask]
         /\ curr \in [CPU -> AllTasks]
  BY SizeAssumption DEF IInv, TypeOK, Context, FirstWindow

\* The state in which the first tick leaves the runqueues satisfies the invariant.
LEMMA InitIInv == Init => IInv
<1> SUFFICES ASSUME Init PROVE IInv
  OBVIOUS
<1> USE DEF Init
<1>1. /\ InitWindow \in Nat \ {0} /\ MaxFreq \in Freqs /\ 0 \in HistIdx
      /\ SCHED_CAPACITY_SCALE \in 1 .. Scale /\ SCHED_CAPACITY_SCALE \in Nat
      /\ InitWindow \in Windows /\ MaxWindow \in Nat
      /\ clock = 1 /\ clock \in Nat /\ clock \in FirstWindow .. MaxClock
  BY SizeAssumption, Sizes DEF FirstWindow, Scale
<1> DEFINE q0 == [window_start |-> FirstWindow, latest_clock |-> 0,
                  prev_window_size |-> InitWindow,
                  task_exec_scale |-> SCHED_CAPACITY_SCALE,
                  prev_runnable_sum |-> 0, curr_runnable_sum |-> 0]
           l0 == [mark_start |-> 0, window_start |-> 0, sum |-> 0,
                  sum_history |-> [i \in HistIdx |-> 0], cidx |-> 0,
                  demand |-> 0, demand_scaled |-> 0]
<1>2. lrq = [c \in CPU |-> q0] /\ lts = [p \in AllTasks |-> l0]
  OBVIOUS
<1>3. q0 \in LseRq /\ QueueOK(q0, clock)
  BY <1>1 DEF QueueOK, LseRq, FirstWindow
<1>4. l0 \in LseTask /\ TaskOK(l0, clock)
  <2>1. l0 \in LseTask
    BY <1>1 DEF LseTask
  <2>2. \A i \in HistIdx : l0.sum_history[i] = 0
    OBVIOUS
  <2>3. l0.mark_start = 0 /\ l0.sum = 0 /\ l0.demand = 0
    OBVIOUS
  <2> HIDE DEF l0, Init
  <2>4. /\ 0 <= clock /\ 0 <= MaxWindow
        /\ \E i \in HistIdx : l0.demand <= l0.sum_history[i]
    BY <1>1, <2>2, <2>3
  <2> QED BY <2>1, <2>2, <2>3, <2>4 DEF TaskOK
<1>5. BusyOK(q0, InitWindow)
  BY <1>1 DEF BusyOK, Max2, FirstWindow
<1>6. \A c \in CPU : q0.latest_clock = 0 /\ curr[c] \in AllTasks
                     /\ l0.mark_start = 0
  OBVIOUS
<1> HIDE DEF q0, l0
<1>7. TypeOK
  <2>1. lrq \in [CPU -> LseRq] /\ lts \in [AllTasks -> LseTask]
    BY <1>2, <1>3, <1>4
  <2> QED BY <1>1, <2>1, ChoiceAssumption DEF TypeOK
<1>8. CountersInv
  BY <1>2, <1>3, <1>4 DEF CountersInv
<1>9. CurrInv
  BY DEF CurrInv
<1>10. TrackInv
  BY <1>2, <1>5, <1>6 DEF TrackInv
<1> QED BY <1>7, <1>8, <1>9, <1>10 DEF IInv

\* An update of one CPU and of the tasks t1 and t2, of which the second is the
\* one that runs there afterwards and nowhere else.
LEMMA OneCpu ==
  ASSUME IInv, NEW c \in CPU, NEW q, QueueOK(q, clock),
         NEW t1 \in AllTasks, NEW l1, TaskOK(l1, clock),
         NEW t2 \in AllTasks, NEW l2, TaskOK(l2, clock),
         t1 = curr[c], \A d \in CPU \ {c} : curr[d] # t2,
         lrq' = [lrq EXCEPT ![c] = q],
         lts' = [lts EXCEPT ![t1] = l1, ![t2] = l2],
         clock' = clock, curr' = [curr EXCEPT ![c] = t2],
         tracked => /\ BusyOK(q, lse_sched_ravg_window)
                    /\ l2.mark_start = q.latest_clock
  PROVE  /\ lrq' \in [CPU -> LseRq] /\ lts' \in [AllTasks -> LseTask]
         /\ curr' \in [CPU -> AllTasks]
         /\ CountersInv' /\ CurrInv'
         /\ tracked => \A d \in CPU :
              /\ BusyOK(lrq'[d], lse_sched_ravg_window)
              /\ lts'[curr'[d]].mark_start = lrq'[d].latest_clock
<1>1. /\ lrq \in [CPU -> LseRq] /\ lts \in [AllTasks -> LseTask]
      /\ curr \in [CPU -> AllTasks]
  BY HookFacts
<1>2. q \in LseRq /\ l1 \in LseTask /\ l2 \in LseTask
  BY DEF QueueOK, TaskOK
<1>3. /\ lrq' \in [CPU -> LseRq] /\ lts' \in [AllTasks -> LseTask]
      /\ curr' \in [CPU -> AllTasks]
  BY <1>1, <1>2
<1>4. CountersInv'
  <2>1. \A d \in CPU : lrq'[d] \in {lrq[d], q}
    BY <1>1
  <2>2. \A p \in AllTasks : lts'[p] \in {lts[p], l1, l2}
    BY <1>1
  <2> QED BY <2>1, <2>2 DEF IInv, CountersInv
<1>5. CurrInv'
  <2>1. curr'[c] = t2 /\ \A d \in CPU \ {c} : curr'[d] = curr[d]
    BY <1>1
  <2> QED BY <2>1 DEF IInv, CurrInv
<1>6. ASSUME tracked, NEW d \in CPU
      PROVE  /\ BusyOK(lrq'[d], lse_sched_ravg_window)
             /\ lts'[curr'[d]].mark_start = lrq'[d].latest_clock
  <2>1. CASE d = c
    <3>1. lrq'[d] = q /\ curr'[d] = t2 /\ lts'[t2] = l2
      BY <1>1, <2>1
    <3> QED BY <1>6, <3>1
  <2>2. CASE d # c
    <3>1. lrq'[d] = lrq[d] /\ curr'[d] = curr[d] /\ curr[d] # t2 /\ curr[d] # t1
          /\ curr[d] \in AllTasks
      BY <1>1, <2>2 DEF IInv, CurrInv
    <3>2. lts'[curr[d]] = lts[curr[d]]
      BY <1>1, <3>1
    <3> QED BY <1>6, <3>1, <3>2 DEF IInv, TrackInv
  <2> QED BY <2>1, <2>2
<1> QED BY <1>3, <1>4, <1>5, <1>6

\* An update of the running task.
LEMMA UpdateCurrKeeps ==
  ASSUME IInv, NEW c \in CPU, UpdateCurr(c), clock' = clock, curr' = curr
  PROVE  /\ lrq' \in [CPU -> LseRq] /\ lts' \in [AllTasks -> LseTask]
         /\ CountersInv' /\ CurrInv'
         /\ tracked => \A d \in CPU :
              /\ BusyOK(lrq'[d], lse_sched_ravg_window)
              /\ lts'[curr'[d]].mark_start = lrq'[d].latest_clock
<1> DEFINE p == curr[c]
           r == lse_update_task_ravg(lts[p], lrq[c], c, p, "TASK_UPDATE", clock)
<1>1. /\ Context /\ clock \in Nat /\ p \in AllTasks
      /\ lts \in [AllTasks -> LseTask] /\ curr \in [CPU -> AllTasks]
  BY HookFacts
<1>2. TaskOK(lts[p], clock) /\ QueueOK(lrq[c], clock)
  BY <1>1 DEF IInv, CountersInv
<1>3. QueueOK(r[1], clock) /\ TaskOK(r[2], clock)
  BY <1>1, <1>2, RavgKeeps
<1>4. tracked => /\ BusyOK(r[1], lse_sched_ravg_window)
                 /\ r[2].mark_start = r[1].latest_clock
  <2> SUFFICES ASSUME tracked
               PROVE  /\ BusyOK(r[1], lse_sched_ravg_window)
                      /\ r[2].mark_start = r[1].latest_clock
    OBVIOUS
  <2>1. slim_walt_ctrl /\ BusyOK(lrq[c], lse_sched_ravg_window)
        /\ lts[p].mark_start = lrq[c].latest_clock
    BY DEF IInv, TrackInv
  <2> QED BY <1>1, <1>2, <2>1, RavgTracks
<1>5. lrq' = [lrq EXCEPT ![c] = r[1]] /\ lts' = [lts EXCEPT ![p] = r[2]]
  BY DEF UpdateCurr
<1> HIDE DEF r
<1>6. PICK q, l, t2 : q = r[1] /\ l = r[2] /\ t2 = p
  OBVIOUS
<1>7. /\ t2 \in AllTasks /\ t2 = curr[c] /\ \A d \in CPU \ {c} : curr[d] # t2
      /\ curr' = [curr EXCEPT ![c] = t2]
  BY <1>1, <1>6 DEF IInv, CurrInv
<1>8. QueueOK(q, clock) /\ TaskOK(l, clock)
  BY <1>3, <1>6
<1>9. lrq' = [lrq EXCEPT ![c] = q] /\ lts' = [lts EXCEPT ![t2] = l, ![t2] = l]
  BY <1>1, <1>5, <1>6
<1>10. tracked => /\ BusyOK(q, lse_sched_ravg_window)
                  /\ l.mark_start = q.latest_clock
  BY <1>4, <1>6
<1> HIDE DEF p
<1> QED BY <1>7, <1>8, <1>9, <1>10, OneCpu

\* lse_schedule: an update of the task that leaves the CPU, then one of the
\* task that comes, in the window the first has left.
LEMMA ScheduleKeeps ==
  ASSUME IInv, NEW c \in CPU, NEW next \in AllTasks, lse_schedule(c, next)
  PROVE  IInv'
<1> DEFINE prev == curr[c]
           put == lse_update_task_ravg(lts[prev], lrq[c], c, prev,
                                       "PUT_PREV_TASK", clock)
           pick == lse_update_task_ravg(lts[next], put[1], c, next,
                                        "PICK_NEXT_TASK", clock)
           same == lse_update_task_ravg(lts[prev], lrq[c], c, prev,
                                        "TASK_UPDATE", clock)
           W == lse_sched_ravg_window
           Tracks(q, l) == BusyOK(q, W) /\ l.mark_start = q.latest_clock
<1>1. /\ Context /\ clock \in Nat /\ prev \in AllTasks
      /\ lts \in [AllTasks -> LseTask] /\ curr \in [CPU -> AllTasks]
  BY HookFacts
<1>2. TaskOK(lts[prev], clock) /\ QueueOK(lrq[c], clock) /\ TaskOK(lts[next], clock)
  BY <1>1 DEF IInv, CountersInv
<1>3. tracked => /\ slim_walt_ctrl /\ BusyOK(lrq[c], W)
                 /\ lts[prev].mark_start = lrq[c].latest_clock
  BY DEF IInv, TrackInv
<1>4. /\ clock' = clock /\ curr' = [curr EXCEPT ![c] = next]
      /\ \A d \in CPU \ {c} : curr[d] # next
      /\ cur_freq' = cur_freq /\ tracked' = tracked
      /\ lse_sched_ravg_window' = lse_sched_ravg_window
      /\ sched_window_stats_policy' = sched_window_stats_policy
      /\ slim_walt_ctrl' = slim_walt_ctrl
  BY DEF lse_schedule, tunables, truth
<1>5. PICK q, l1, l2, t1 :
        /\ QueueOK(q, clock) /\ TaskOK(l1, clock) /\ TaskOK(l2, clock)
        /\ t1 \in AllTasks /\ t1 = curr[c]
        /\ lrq' = [lrq EXCEPT ![c] = q]
        /\ lts' = [lts EXCEPT ![t1] = l1, ![next] = l2]
        /\ tracked => Tracks(q, l2)
  <2>1. CASE prev # next
    <3>1. QueueOK(put[1], clock) /\ TaskOK(put[2], clock)
      BY <1>1, <1>2, RavgKeeps
    <3>2. tracked => BusyOK(put[1], W) /\ put[1].latest_clock = clock
      BY <1>1, <1>2, <1>3, RavgTracks
    <3>3. /\ lrq' = [lrq EXCEPT ![c] = pick[1]]
          /\ lts' = [lts EXCEPT ![prev] = put[2], ![next] = pick[2]]
      BY <2>1 DEF lse_schedule
    <3> HIDE DEF put
    <3>4. QueueOK(pick[1], clock) /\ TaskOK(pick[2], clock)
      BY <1>1, <1>2, <3>1, RavgKeeps
    <3>5. tracked => Tracks(pick[1], pick[2])
      <4> SUFFICES ASSUME tracked PROVE Tracks(pick[1], pick[2])
        OBVIOUS
      <4> QED BY <1>1, <1>2, <1>3, <3>1, <3>2, RavgTracks
    <3> HIDE DEF pick, Tracks, prev
    <3>6. prev = curr[c] /\ prev \in AllTasks
      BY <1>1 DEF prev
    <3> QED BY <3>1, <3>3, <3>4, <3>5, <3>6
  <2>2. CASE prev = next
    <3>1. QueueOK(same[1], clock) /\ TaskOK(same[2], clock)
      BY <1>1, <1>2, RavgKeeps
    <3>2. tracked => Tracks(same[1], same[2])
      <4> SUFFICES ASSUME tracked PROVE Tracks(same[1], same[2])
        OBVIOUS
      <4> QED BY <1>1, <1>2, <1>3, RavgTracks
    <3>3. lrq' = [lrq EXCEPT ![c] = same[1]] /\ lts' = [lts EXCEPT ![prev] = same[2]]
      BY <2>2 DEF lse_schedule
    <3> HIDE DEF same, Tracks, prev
    <3>4. lts' = [lts EXCEPT ![prev] = same[2], ![next] = same[2]]
      BY <1>1, <2>2, <3>3
    <3>5. prev = curr[c] /\ prev \in AllTasks
      BY <1>1 DEF prev
    <3> QED BY <3>1, <3>2, <3>3, <3>4, <3>5
  <2> QED BY <2>1, <2>2
<1>6. /\ lrq' \in [CPU -> LseRq] /\ lts' \in [AllTasks -> LseTask]
      /\ curr' \in [CPU -> AllTasks]
      /\ CountersInv' /\ CurrInv'
      /\ tracked => \A d \in CPU :
           /\ BusyOK(lrq'[d], lse_sched_ravg_window)
           /\ lts'[curr'[d]].mark_start = lrq'[d].latest_clock
  BY <1>4, <1>5, OneCpu
<1>7. TypeOK'
  BY <1>4, <1>6 DEF IInv, TypeOK
<1>8. TrackInv'
  BY <1>4, <1>6 DEF IInv, TrackInv
<1> QED BY <1>6, <1>7, <1>8 DEF IInv

\* The tick and the shadow tick.
LEMMA CurrentKeeps ==
  ASSUME IInv, NEW c \in CPU, UpdateCurr(c),
         UNCHANGED <<clock, curr, cur_freq, tunables, truth>>
  PROVE  IInv'
<1>1. /\ clock' = clock /\ curr' = curr
      /\ cur_freq' = cur_freq /\ tracked' = tracked
      /\ lse_sched_ravg_window' = lse_sched_ravg_window
      /\ sched_window_stats_policy' = sched_window_stats_policy
      /\ slim_walt_ctrl' = slim_walt_ctrl
  BY DEF tunables, truth
<1>2. /\ lrq' \in [CPU -> LseRq] /\ lts' \in [AllTasks -> LseTask]
      /\ CountersInv' /\ CurrInv'
      /\ tracked => \A d \in CPU :
           /\ BusyOK(lrq'[d], lse_sched_ravg_window)
           /\ lts'[curr'[d]].mark_start = lrq'[d].latest_clock
  BY <1>1, UpdateCurrKeeps
<1>3. TypeOK'
  BY <1>1, <1>2 DEF IInv, TypeOK
<1>4. TrackInv'
  BY <1>1, <1>2 DEF IInv, TrackInv
<1> QED BY <1>2, <1>3, <1>4 DEF IInv

\* lse_irq_work: the window of a single CPU is not cut short by a new size.
LEMMA IrqWorkKeeps ==
  ASSUME IInv, NEW c \in CPU, NEW w \in Windows, lse_irq_work(c, w)
  PROVE  IInv'
<1>1. /\ UpdateCurr(c) /\ clock' = clock /\ curr' = curr
      /\ cur_freq' = cur_freq
      /\ sched_window_stats_policy' = sched_window_stats_policy
      /\ slim_walt_ctrl' = slim_walt_ctrl
      /\ lse_sched_ravg_window' =
           IF clock < lrq'[c].window_start + w THEN w ELSE lse_sched_ravg_window
      /\ tracked' = tracked
  BY DEF lse_irq_work, truth
<1>2. /\ lrq' \in [CPU -> LseRq] /\ lts' \in [AllTasks -> LseTask]
      /\ CountersInv' /\ CurrInv'
      /\ tracked => \A d \in CPU :
           /\ BusyOK(lrq'[d], lse_sched_ravg_window)
           /\ lts'[curr'[d]].mark_start = lrq'[d].latest_clock
  BY <1>1, UpdateCurrKeeps
<1>3. TypeOK'
  BY <1>1, <1>2 DEF IInv, TypeOK
<1>4. TrackInv'
  <2> SUFFICES ASSUME tracked'
               PROVE  /\ slim_walt_ctrl'
                      /\ \A d \in CPU :
                           /\ BusyOK(lrq'[d], lse_sched_ravg_window')
                           /\ lts'[curr'[d]].mark_start = lrq'[d].latest_clock
    BY DEF TrackInv, BusyOK
  <2>1. tracked /\ slim_walt_ctrl'
    BY <1>1 DEF IInv, TrackInv
  <2>2. ASSUME NEW d \in CPU PROVE BusyOK(lrq'[d], lse_sched_ravg_window')
    <3>1. CASE lse_sched_ravg_window' = lse_sched_ravg_window
      BY <1>2, <2>1, <3>1
    <3>2. CASE lse_sched_ravg_window' # lse_sched_ravg_window
      <4>1. Windows # {InitWindow}
        BY <1>3, <3>2 DEF IInv, TypeOK
      <4>2. c = 0 /\ d = 0
        BY <4>1, ResizeAssumption DEF CPU
      <4>3. clock < lrq'[d].window_start + w /\ lse_sched_ravg_window' = w
        BY <1>1, <3>2, <4>2
      <4>4. /\ lrq'[d] \in LseRq /\ lrq'[d].latest_clock <= clock
            /\ clock \in Nat /\ w \in Nat
        BY <1>1, <1>2, HookFacts, Sizes DEF CountersInv, QueueOK
      <4>5. BusyOK(lrq'[d], lse_sched_ravg_window)
        BY <1>2, <2>1
      <4> QED BY <4>3, <4>4, <4>5 DEF BusyOK, LseRq
    <3> QED BY <3>1, <3>2
  <2> QED BY <1>2, <2>1, <2>2
<1> QED BY <1>2, <1>3, <1>4 DEF IInv

\* The other steps leave the counters alone.
LEMMA RestKeeps ==
  ASSUME IInv,
         \/ Tick
         \/ \E c \in CPU, f \in Freqs : SetFreq(c, f)
         \/ \E s \in Policies : SetPolicy(s)
         \/ \E b \in Controls : SetControl(b)
         \/ UNCHANGED vars
  PROVE  IInv'
<1>1. /\ lrq' = lrq /\ lts' = lts /\ curr' = curr
      /\ lse_sched_ravg_window' = lse_sched_ravg_window
      /\ clock' \in FirstWindow .. MaxClock /\ clock <= clock'
      /\ tracked' => tracked
      /\ tracked' => slim_walt_ctrl'
      /\ slim_walt_ctrl' \in Controls
      /\ cur_freq' \in [CPU -> Freqs]
      /\ sched_window_stats_policy' \in Policies
  <2>0. TypeOK /\ TrackInv /\ clock \in Nat /\ MaxClock \in Nat
    BY HookFacts, SizeAssumption DEF IInv
  <2>1. CASE Tick
    BY <2>0, <2>1 DEF Tick, codeVars, tunables, TypeOK, TrackInv, FirstWindow
  <2>2. ASSUME NEW c \in CPU, NEW f \in Freqs, SetFreq(c, f)
        PROVE  <1>1!:
    BY <2>0, <2>2 DEF SetFreq, codeVars, tunables, truth, TypeOK, TrackInv, FirstWindow
  <2>3. ASSUME NEW s \in Policies, SetPolicy(s) PROVE <1>1!:
    BY <2>0, <2>3 DEF SetPolicy, codeVars, tunables, truth, TypeOK, TrackInv, FirstWindow
  <2>4. ASSUME NEW b \in Controls, SetControl(b) PROVE <1>1!:
    <3>1. (tracked' => tracked) /\ (tracked' => slim_walt_ctrl')
          /\ slim_walt_ctrl' \in Controls
      BY <2>4, ChoiceAssumption, Zenon DEF SetControl
    <3> QED BY <2>0, <2>4, <3>1 DEF SetControl, codeVars, TypeOK, FirstWindow
  <2>5. CASE UNCHANGED vars
    BY <2>0, <2>5 DEF vars, codeVars, tunables, truth, TypeOK, TrackInv, FirstWindow
  <2> QED BY <2>1, <2>2, <2>3, <2>4, <2>5
<1>2. TypeOK'
  BY <1>1 DEF IInv, TypeOK
<1>3. CountersInv'
  <2>1. clock \in Nat /\ clock' \in Nat /\ clock <= clock'
        /\ lrq \in [CPU -> LseRq] /\ lts \in [AllTasks -> LseTask]
    BY <1>1, HookFacts DEF FirstWindow
  <2>2. \A q \in LseRq : QueueOK(q, clock) => QueueOK(q, clock')
    BY <2>1 DEF QueueOK, LseRq
  <2>3. \A l \in LseTask : TaskOK(l, clock) => TaskOK(l, clock')
    BY <2>1 DEF TaskOK, LseTask
  <2> QED BY <1>1, <2>1, <2>2, <2>3 DEF IInv, CountersInv
<1>4. CurrInv' /\ TrackInv'
  BY <1>1 DEF IInv, CurrInv, TrackInv
<1> QED BY <1>2, <1>3, <1>4 DEF IInv

-----------------------------------------------------------------------------
\* Theorems.

\* The inductive invariant holds in every reachable state.
THEOREM Invariance == Spec => []IInv
<1>1. IInv /\ [Next]_vars => IInv'
  <2> SUFFICES ASSUME IInv, [Next]_vars PROVE IInv'
    OBVIOUS
  <2>1. ASSUME NEW c \in CPU, NEW next \in Tasks \cup {Idle(c)}, lse_schedule(c, next)
        PROVE  IInv'
    <3>1. next \in AllTasks
      BY DEF AllTasks, IdleTasks
    <3> QED BY <2>1, <3>1, ScheduleKeeps
  <2>2. ASSUME NEW c \in CPU, lse_tick_entry(c) \/ lse_shadow_tick_cb(c)
        PROVE  IInv'
    BY <2>2, CurrentKeeps DEF lse_tick_entry, lse_shadow_tick_cb
  <2>3. ASSUME NEW c \in CPU, NEW w \in Windows, lse_irq_work(c, w) PROVE IInv'
    BY <2>3, IrqWorkKeeps
  <2> QED BY <2>1, <2>2, <2>3, RestKeeps DEF Next
<1> QED BY <1>1, InitIInv, PTL DEF Spec

\* Every counter keeps its type: no unsigned difference wraps, the ring index
\* stays in the ring.
THEOREM TypeCorrect == Spec => []TypeOK
<1>1. IInv => TypeOK
  BY DEF IInv
<1> QED BY <1>1, Invariance, PTL

\* While tracking is not interrupted, a CPU is never busier than time allows,
\* at any frequency; a single CPU also across changes of the window size.
THEOREM BusyBounded == Spec => []BusyWithinWindow
<1>1. IInv => BusyWithinWindow
  BY DEF IInv, TrackInv, BusyOK, BusyWithinWindow
<1> QED BY <1>1, Invariance, PTL

\* Whatever is switched, no window of a task holds more than the largest
\* window size, and its demand no more than one of its windows.
THEOREM DemandBounded == Spec => []DemandWithinWindow
<1>1. IInv => DemandWithinWindow
  <2> SUFFICES ASSUME IInv, NEW p \in Tasks
               PROVE  LET l == lts[p]
                          hist == {l.sum_history[i] : i \in HistIdx}
                      IN /\ l.sum <= Max(Windows)
                         /\ l.demand <= Max(hist)
                         /\ Max(hist) <= Max(Windows)
    BY DEF DemandWithinWindow
  <2> DEFINE l == lts[p]
             h == l.sum_history
             hist == {h[i] : i \in HistIdx}
  <2>1. TaskOK(l, clock)
    BY DEF IInv, CountersInv, AllTasks
  <2>2. h \in [HistIdx -> Nat] /\ l.demand \in Nat
    BY <2>1 DEF TaskOK, LseTask
  <2> HIDE DEF h
  <2>3. Max(hist) \in hist /\ \A x \in hist : Max(hist) >= x
    <3>1. hist \in SUBSET Nat /\ hist # {}
      BY <2>2, Sizes
    <3>2. IsFiniteSet(HistIdx)
      BY FS_Interval, Sizes DEF HistIdx
    <3>3. IsFiniteSet(hist)
      BY <3>2, FiniteRange
    <3> HIDE DEF hist
    <3> QED BY <3>1, <3>3, MaxOfNats
  <2>4. PICK i \in HistIdx : l.demand <= h[i]
    BY <2>1 DEF TaskOK, h
  <2>5. Max(hist) \in Nat /\ h[i] \in Nat /\ h[i] <= Max(hist)
    BY <2>2, <2>3
  <2>6. Max(hist) <= MaxWindow
    BY <2>1, <2>3 DEF TaskOK, h
  <2>7. l.demand <= Max(hist)
    BY <2>2, <2>4, <2>5
  <2>8. l.sum <= MaxWindow
    BY <2>1 DEF TaskOK
  <2> QED BY <2>6, <2>7, <2>8 DEF MaxWindow, h
<1> QED BY <1>1, Invariance, PTL

\* The utilisation is a quotient by prev_window_size >> SCHED_CAPACITY_SHIFT,
\* which is rounded down.  That does not matter if the window is a multiple of
\* SCHED_CAPACITY_SCALE, as the default of 16 ms is, or not shorter than its
\* square, which is 1.05 ms.
RoundSizes == \A w \in Windows : \/ Scale * (w \div Scale) = w
                                 \/ Scale <= w \div Scale

\* With such windows, lse_cpu_util never exceeds the full capacity while
\* tracking is not interrupted.
THEOREM UtilBounded ==
  ASSUME RoundSizes
  PROVE  Spec => []UtilWithinCapacity
<1>1. IInv => UtilWithinCapacity
  <2> SUFFICES ASSUME IInv, tracked, NEW c \in CPU
               PROVE  lse_cpu_util(c) <= Scale
    BY DEF UtilWithinCapacity, Scale
  <2> DEFINE w == lrq[c].prev_window_size
             sum == lrq[c].prev_runnable_sum
             k == w \div Scale
             d == sum \div k
  <2>1. /\ w \in Windows /\ w \in Nat /\ w >= 1 /\ Scale \in Nat \ {0}
        /\ sum \in Nat /\ sum <= w
    BY Sizes DEF IInv, CountersInv, QueueOK, LseRq, TrackInv, BusyOK
  <2>2. lse_cpu_util(c) = IF k = 0 THEN 0 ELSE d
    <3>1. Max2(w, 1) = w
      BY <2>1 DEF Max2
    <3> QED BY <3>1 DEF lse_cpu_util, Scale
  <2>3. Scale * k = w \/ Scale <= k
    BY <2>1 DEF RoundSizes
  <2> HIDE DEF w, sum
  <2>4. k \in Nat /\ w < Scale * k + Scale
    BY <2>1, Division
  <2> HIDE DEF k
  <2>5. CASE k = 0
    BY <2>1, <2>2, <2>5
  <2>6. CASE k # 0
    <3>1. d \in Nat /\ k * d <= sum
      BY <2>1, <2>4, <2>6, Division
    <3> HIDE DEF d
    <3>2. d <= Scale
      <4> SUFFICES ASSUME d >= Scale + 1 PROVE FALSE
        BY <2>1, <3>1
      <4>1. k * (Scale + 1) <= k * d
        BY <2>1, <2>4, <3>1, ProductBound
      <4>2. k * (Scale + 1) = Scale * k + k /\ Scale * k \in Nat /\ k * d \in Nat
        BY <2>1, <2>4, <3>1
      <4> QED BY <2>1, <2>3, <2>4, <2>6, <3>1, <4>1, <4>2
    <3> QED BY <2>2, <2>6, <3>2
  <2> QED BY <2>5, <2>6
<1> QED BY <1>1, Invariance, PTL

-----------------------------------------------------------------------------
\* Exactness.  With one window size, full frequency and tracking on, the busy
\* time of a CPU is what really ran there.

FixedRate == /\ Windows = {InitWindow}
             /\ Freqs = {MaxFreq}
             /\ Controls = {TRUE}

\* The times at which windows begin; the one that is open at time t.
OnGrid(x) == \E k \in 0 .. x : x = FirstWindow + k * InitWindow
OpenAt(t) == t - ((t - FirstWindow) % InitWindow)

\* The running task of c has run since its last update, if it counts.
RunsOn(c) == curr[c] \in Tasks /\ lts[curr[c]].mark_start # 0
Since(c, x) == IF RunsOn(c) THEN x ELSE 0

\* The true busy times are the sums and what has passed since the last update,
\* which was in the open window, in the one before it, or earlier.
BusyExact(c) ==
  LET W == InitWindow
      q == lrq[c]
      ms == lts[curr[c]].mark_start
      open == OpenAt(clock)
  IN  /\ OnGrid(q.window_start)
      /\ q.window_start = open =>
           /\ busy_curr[c] = q.curr_runnable_sum + Since(c, clock - ms)
           /\ busy_prev[c] = q.prev_runnable_sum
      /\ q.window_start < open => busy_curr[c] = Since(c, clock - open)
      /\ q.window_start + W = open =>
           busy_prev[c] = q.curr_runnable_sum + Since(c, open - ms)
      /\ q.window_start + W < open => busy_prev[c] = Since(c, W)

ExactInv == /\ tracked
            /\ busy_curr \in [CPU -> Nat] /\ busy_prev \in [CPU -> Nat]
            /\ \A c \in CPU : BusyExact(c)

\* Two window starts are at least a window apart.
LEMMA GridSteps ==
  /\ \A x : OnGrid(x) => x \in Nat
  /\ \A x, n : OnGrid(x) /\ n \in Nat => OnGrid(x + n * InitWindow)
  /\ \A x, y : OnGrid(x) /\ OnGrid(y) /\ x < y => x + InitWindow <= y
<1> DEFINE W == InitWindow
<1>0. W \in Nat /\ W >= 1
  BY SizeAssumption, Sizes
<1> HIDE DEF W
<1>1. ASSUME NEW x, OnGrid(x) PROVE x \in Nat
  <2>1. PICK k \in 0 .. x : x = 1 + k * W
    BY <1>1 DEF OnGrid, FirstWindow, W
  <2>2. k \in Int /\ k >= 0
    OBVIOUS
  <2>3. k * W \in Nat
    BY <1>0, <2>2
  <2> QED BY <2>1, <2>3
<1>2. ASSUME NEW x, OnGrid(x), NEW n \in Nat PROVE OnGrid(x + n * W)
  <2>1. PICK k \in 0 .. x : x = 1 + k * W
    BY <1>2 DEF OnGrid, FirstWindow, W
  <2>2. x \in Nat /\ k \in Nat /\ k <= x
    BY <1>1, <1>2
  <2>3. (k + n) * W = k * W + n * W /\ k * W \in Nat /\ n * W \in Nat /\ n <= n * W
    BY <1>0, <2>2
  <2>4. k + n \in 0 .. x + n * W /\ x + n * W = 1 + (k + n) * W
    BY <2>1, <2>2, <2>3
  <2> QED BY <2>4 DEF OnGrid, FirstWindow, W
<1>3. ASSUME NEW x, NEW y, OnGrid(x), OnGrid(y), x < y PROVE x + W <= y
  <2>1. PICK k \in 0 .. x : x = 1 + k * W
    BY <1>3 DEF OnGrid, FirstWindow, W
  <2>2. PICK j \in 0 .. y : y = 1 + j * W
    BY <1>3 DEF OnGrid, FirstWindow, W
  <2>3. x \in Nat /\ k \in Nat /\ y \in Nat /\ j \in Nat
    BY <1>1, <1>3
  <2>4. ~(j <= k)
    <3> SUFFICES ASSUME j <= k PROVE FALSE
      OBVIOUS
    <3>1. j * W <= k * W /\ j * W \in Nat /\ k * W \in Nat
      BY <1>0, <2>3, ProductBound
    <3> QED BY <1>3, <2>1, <2>2, <2>3, <3>1
  <2>5. (k + 1) * W <= j * W /\ (k + 1) * W = k * W + W
        /\ j * W \in Nat /\ k * W \in Nat
    <3>1. k + 1 <= j /\ k + 1 \in Nat
      BY <2>3, <2>4
    <3> QED BY <1>0, <2>3, <3>1, ProductBound
  <2> QED BY <1>0, <2>1, <2>2, <2>3, <2>5
<1> QED BY <1>1, <1>2, <1>3 DEF W

\* The open window is the one that contains t.
LEMMA OpenWindow ==
  ASSUME NEW t \in Nat, t >= 1
  PROVE  /\ OnGrid(OpenAt(t)) /\ OpenAt(t) \in Nat
         /\ OpenAt(t) <= t /\ t < OpenAt(t) + InitWindow
         /\ \A x : OnGrid(x) /\ x <= t /\ t < x + InitWindow => x = OpenAt(t)
<1> DEFINE W == InitWindow
           k == (t - 1) \div W
           g == OpenAt(t)
<1>0. W \in Nat \ {0} /\ t - 1 \in Nat
  BY SizeAssumption, Sizes
<1>1. g = t - ((t - 1) % W)
  BY DEF OpenAt, FirstWindow
<1>2. (t - 1) % W = (t - 1) - W * k
  BY <1>0
<1>3. k \in Nat /\ W * k <= t - 1 /\ t - 1 < W * k + W
  BY <1>0, Division
<1> HIDE DEF k, g
<1>4. W * k = k * W /\ k * W \in Nat /\ k <= k * W
  BY <1>0, <1>3
<1>5. g = 1 + k * W
  BY <1>1, <1>2, <1>4
<1>6. /\ g \in Nat /\ g <= t /\ t < g + W /\ k \in 0 .. g
  BY <1>0, <1>3, <1>4, <1>5
<1>7. OnGrid(g)
  BY <1>5, <1>6 DEF OnGrid, FirstWindow
<1>8. ASSUME NEW x, OnGrid(x), x <= t, t < x + W PROVE x = g
  <2>1. x \in Nat
    BY <1>8, GridSteps
  <2>2. x < g => x + W <= g
    BY <1>7, <1>8, GridSteps
  <2>3. g < x => g + W <= x
    BY <1>7, <1>8, GridSteps
  <2> QED BY <1>0, <1>6, <1>8, <2>1, <2>2, <2>3
<1> QED BY <1>6, <1>7, <1>8 DEF g

\* A tick either stays in the open window or opens the next one.
LEMMA NextWindow ==
  ASSUME NEW t \in Nat, t >= 1
  PROVE  LET boundary == (t + 1 - FirstWindow) % InitWindow = 0
         IN  /\ boundary => /\ OpenAt(t + 1) = t + 1
                            /\ OpenAt(t + 1) = OpenAt(t) + InitWindow
             /\ ~boundary => OpenAt(t + 1) = OpenAt(t)
<1> DEFINE W == InitWindow
           g == OpenAt(t)
           h == OpenAt(t + 1)
           rest == (t + 1 - FirstWindow) % W
<1>0. W \in Nat /\ W >= 1 /\ t + 1 \in Nat /\ t + 1 >= 1
  BY SizeAssumption, Sizes
<1>1. OnGrid(g) /\ g \in Nat /\ g <= t /\ t < g + W
  BY OpenWindow
<1>2. /\ h \in Nat /\ h <= t + 1
      /\ \A x : OnGrid(x) /\ x <= t + 1 /\ t + 1 < x + W => x = h
  BY <1>0, OpenWindow
<1>3. h = (t + 1) - rest
  <2>1. t + 1 - FirstWindow = (t + 1) - FirstWindow
    BY DEF FirstWindow
  <2> QED BY <2>1, Zenon DEF OpenAt
<1>4. OnGrid(g + W)
  <2>1. OnGrid(g + 1 * W)
    BY <1>1, GridSteps
  <2>2. 1 * W = W
    BY <1>0
  <2> QED BY <2>1, <2>2
<1> HIDE DEF g, h
<1>5. rest = (t + 1) - h
  <2>1. rest \in Int
    BY <1>0 DEF FirstWindow
  <2> HIDE DEF rest
  <2> QED BY <1>2, <1>3, <2>1
<1> HIDE DEF rest
<1>6. CASE t + 1 = g + W
  <2>1. h = g + W
    BY <1>0, <1>1, <1>2, <1>4, <1>6
  <2>2. rest = 0
    BY <1>0, <1>1, <1>5, <1>6, <2>1
  <2> QED BY <1>6, <2>1, <2>2 DEF g, h, rest
<1>7. CASE t + 1 # g + W
  <2>1. h = g
    BY <1>0, <1>1, <1>2, <1>7
  <2>2. rest # 0
    BY <1>0, <1>1, <1>5, <2>1
  <2> QED BY <2>1, <2>2 DEF g, h, rest
<1> QED BY <1>6, <1>7

\* At full frequency no time is lost in scaling.
LEMMA ExactScale ==
  ASSUME FixedRate, cur_freq \in [CPU -> Freqs], NEW c \in CPU, NEW t, NEW q,
         QueueOK(q, t)
  PROVE  LET r == update_task_rq_cpu_cycles(q, c)
         IN  \A d \in Nat : scale_exec_time(d, r) = d
<1> DEFINE F == MaxFreq
           a == F * Scale + F - 1
           e == Max2(1, CeilDiv(cur_freq[c] * SCHED_CAPACITY_SCALE, MaxFreq))
           r == update_task_rq_cpu_cycles(q, c)
<1>1. cur_freq[c] = F /\ F \in Nat \ {0} /\ Scale \in Nat \ {0}
  <2>1. F \in 1 .. F
    BY SizeAssumption
  <2> QED BY <2>1, Sizes DEF FixedRate
<1>2. CeilDiv(cur_freq[c] * SCHED_CAPACITY_SCALE, MaxFreq) = a \div F
  BY <1>1 DEF CeilDiv, Scale
<1>3. F * Scale \in Nat /\ a \in Nat
  BY <1>1
<1> HIDE DEF F
<1>4. a \div F = Scale
  <2> DEFINE k == a \div F
  <2>1. k \in Nat /\ F * k <= a /\ a < F * k + F
    BY <1>1, <1>3, Division
  <2> HIDE DEF k
  <2>2. ~(k <= Scale - 1)
    <3> SUFFICES ASSUME k + 1 <= Scale PROVE FALSE
      BY <1>1, <2>1
    <3>1. F * (k + 1) <= F * Scale /\ F * (k + 1) = F * k + F /\ F * k \in Nat
      BY <1>1, <2>1, ProductBound
    <3> QED BY <1>1, <1>3, <2>1, <3>1
  <2>3. ~(k >= Scale + 1)
    <3> SUFFICES ASSUME k >= Scale + 1 PROVE FALSE
      OBVIOUS
    <3>1. F * (Scale + 1) <= F * k /\ F * (Scale + 1) = F * Scale + F /\ F * k \in Nat
      BY <1>1, <2>1, ProductBound
    <3> QED BY <1>1, <1>3, <2>1, <3>1
  <2> QED BY <1>1, <2>1, <2>2, <2>3 DEF k
<1>5. e = Scale
  BY <1>1, <1>2, <1>4 DEF Max2
<1> HIDE DEF e
<1>6. r.task_exec_scale = Scale
  BY <1>5 DEF update_task_rq_cpu_cycles, QueueOK, LseRq, e
<1> HIDE DEF r
<1>7. ASSUME NEW d \in Nat PROVE (d * Scale) \div Scale = d
  <2> DEFINE k == (d * Scale) \div Scale
             p == d * Scale
  <2>0. p \in Nat
    BY <1>1
  <2>1. k \in Nat /\ Scale * k <= p /\ p < Scale * k + Scale
    BY <1>1, <2>0, Division
  <2> HIDE DEF k, p
  <2>2. ~(k <= d - 1)
    <3> SUFFICES ASSUME k + 1 <= d PROVE FALSE
      BY <2>1
    <3>1. Scale * (k + 1) <= Scale * d /\ Scale * (k + 1) = Scale * k + Scale
          /\ Scale * k \in Nat /\ Scale * d = p
      BY <1>1, <2>1, ProductBound DEF p
    <3> QED BY <1>1, <2>0, <2>1, <3>1
  <2>3. ~(k >= d + 1)
    <3> SUFFICES ASSUME k >= d + 1 PROVE FALSE
      OBVIOUS
    <3>1. Scale * (d + 1) <= Scale * k /\ Scale * (d + 1) = p + Scale
          /\ Scale * k \in Nat
      BY <1>1, <2>1, ProductBound DEF p
    <3> QED BY <1>1, <2>0, <2>1, <3>1
  <2> QED BY <2>1, <2>2, <2>3 DEF k
<1> QED BY <1>6, <1>7 DEF scale_exec_time, Scale, r

\* An update of the running task at time t, for a CPU whose sums are right up
\* to its last update: what they are made to be.
LEMMA RavgExact ==
  ASSUME FixedRate, Context, slim_walt_ctrl, NEW t \in Nat, NEW l, TaskOK(l, t),
         NEW q, QueueOK(q, t), BusyOK(q, InitWindow), OnGrid(q.window_start),
         l.mark_start = q.latest_clock,
         NEW c \in CPU, NEW p \in AllTasks,
         NEW event \in {"PUT_PREV_TASK", "TASK_UPDATE"}
  PROVE  LET r == lse_update_task_ravg(l, q, c, p, event, t)
             open == OpenAt(t)
             ms == l.mark_start
             Spent(x) == IF p \in Tasks /\ ms # 0 THEN x ELSE 0
         IN  /\ r[1].window_start = open
             /\ q.window_start = open =>
                  /\ r[1].curr_runnable_sum = q.curr_runnable_sum + Spent(t - ms)
                  /\ r[1].prev_runnable_sum = q.prev_runnable_sum
             /\ q.window_start # open =>
                  /\ q.window_start + InitWindow <= open
                  /\ r[1].curr_runnable_sum = Spent(t - open)
             /\ q.window_start + InitWindow = open =>
                  r[1].prev_runnable_sum = q.curr_runnable_sum + Spent(open - ms)
             /\ q.window_start + InitWindow < open =>
                  r[1].prev_runnable_sum = Spent(InitWindow)
<1> DEFINE W == lse_sched_ravg_window
           ms == l.mark_start
           ws == q.window_start
           open == OpenAt(t)
           Spent(x) == IF p \in Tasks /\ ms # 0 THEN x ELSE 0
           q1 == update_window_start(q, t)
           q2 == update_task_rq_cpu_cycles(q1, c)
           q3 == update_cpu_busy_time(l, q2, p, event, t)
           r == lse_update_task_ravg(l, q, c, p, event, t)
           Goal(s) ==
             /\ s.window_start = open
             /\ ws = open => /\ s.curr_runnable_sum = q.curr_runnable_sum + Spent(t - ms)
                             /\ s.prev_runnable_sum = q.prev_runnable_sum
             /\ ws # open => /\ ws + W <= open
                             /\ s.curr_runnable_sum = Spent(t - open)
             /\ ws + W = open =>
                  s.prev_runnable_sum = q.curr_runnable_sum + Spent(open - ms)
             /\ ws + W < open => s.prev_runnable_sum = Spent(W)
<1>w. W = InitWindow
  BY DEF Context, FixedRate
<1>0. /\ W \in Nat /\ W >= 1 /\ ws \in Nat /\ 1 <= ws /\ ws <= t /\ t >= 1
      /\ ms \in Nat /\ ms <= t
      /\ q \in LseRq /\ q.curr_runnable_sum \in Nat /\ q.prev_runnable_sum \in Nat
      /\ ms < ws + W /\ (ms = 0 \/ ws <= ms)
      /\ q.curr_runnable_sum <= Max2(ms - ws, 0)
  BY <1>w, Sizes DEF Context, QueueOK, TaskOK, LseRq, LseTask, BusyOK
<1>1. /\ QueueOK(q1, t) /\ q1.latest_clock = t /\ t < q1.window_start + W
      /\ t < ws + W => q1 = [q EXCEPT !.latest_clock = t]
      /\ t >= ws + W =>
           /\ ws + W <= q1.window_start
           /\ q1.prev_window_size = W
           /\ q1.curr_runnable_sum = 0
           /\ q1.prev_runnable_sum = IF q1.window_start = ws + W
                                      THEN q.curr_runnable_sum ELSE 0
           /\ \E n \in Nat : q1.window_start = ws + n * W
  BY WindowStart DEF Context
<1> HIDE DEF q1
<1>2. /\ q1 \in LseRq /\ q1.window_start \in Nat /\ q1.window_start <= t
      /\ q1.prev_runnable_sum \in Nat /\ q1.curr_runnable_sum \in Nat
      /\ t < ws + W => /\ q1.window_start = ws
                       /\ q1.prev_runnable_sum = q.prev_runnable_sum
                       /\ q1.curr_runnable_sum = q.curr_runnable_sum
  BY <1>0, <1>1 DEF LseRq, QueueOK
<1>3. q1.window_start = open /\ open \in Nat
  <2>1. CASE t < ws + W
    BY <1>0, <1>2, <1>w, <2>1, OpenWindow
  <2>2. CASE t >= ws + W
    <3>1. PICK n \in Nat : q1.window_start = ws + n * W
      BY <1>1, <2>2
    <3>2. OnGrid(q1.window_start)
      BY <1>w, <3>1, GridSteps
    <3> QED BY <1>0, <1>1, <1>2, <1>w, <3>2, OpenWindow
  <2> QED BY <1>0, <2>1, <2>2
<1> HIDE DEF open
<1>4. \/ ws = open /\ t < ws + W
      \/ ws + W <= open /\ t >= ws + W
  BY <1>0, <1>1, <1>2, <1>3
<1>5. CASE ~(p \in Tasks /\ ms # 0)
  <2>1. Goal(q1)
    BY <1>0, <1>1, <1>2, <1>3, <1>4, <1>5
  <2>2. ms = t => /\ r[1] = q /\ Goal(q)
    <3> SUFFICES ASSUME ms = t PROVE r[1] = q /\ Goal(q)
      OBVIOUS
    <3>1. r = <<q, l>>
      BY DEF lse_update_task_ravg
    <3>2. ws = open
      BY <1>0, <1>4
    <3> HIDE DEF r
    <3> QED BY <1>0, <1>5, <3>1, <3>2
  <2>3. ms # t => Goal(r[1])
    <3> SUFFICES ASSUME ms # t PROVE Goal(r[1])
      OBVIOUS
    <3>1. CASE ms = 0
      <4>1. r[1] = q1
        BY <1>0, <3>1 DEF lse_update_task_ravg, q1
      <4> HIDE DEF r
      <4> QED BY <2>1, <4>1
    <3>2. CASE ms # 0
      <4>1. r[1] = q3
        BY <1>0, <3>2 DEF lse_update_task_ravg, q1
      <4>2. p \in IdleTasks
        BY <1>5, <3>2 DEF AllTasks
      <4>3. q3 = q2
        BY <4>2 DEF update_cpu_busy_time, account_busy_for_cpu_time
      <4>4. /\ q2.window_start = q1.window_start
            /\ q2.prev_runnable_sum = q1.prev_runnable_sum
            /\ q2.curr_runnable_sum = q1.curr_runnable_sum
        BY <1>1, CyclesKeep DEF Context
      <4> HIDE DEF r, q2, q3
      <4> QED BY <2>1, <4>1, <4>3, <4>4
    <3> QED BY <3>1, <3>2
  <2> HIDE DEF r
  <2> QED BY <1>w, <2>2, <2>3 DEF r, open
<1>6. CASE p \in Tasks /\ ms # 0
  <2>1. CASE ms = t
    <3>1. r[1] = q
      BY <2>1 DEF lse_update_task_ravg
    <3>2. ws = open
      BY <1>0, <1>4, <2>1
    <3> HIDE DEF r
    <3>3. Goal(r[1])
      BY <1>0, <1>6, <2>1, <3>1, <3>2
    <3> QED BY <1>w, <3>3 DEF r, open
  <2>2. CASE ms # t
    <3>1. r[1] = q3
      BY <1>0, <1>6, <2>2 DEF lse_update_task_ravg, q1
    <3>2. account_busy_for_cpu_time(p, event)
      BY <1>6, ChoiceAssumption DEF account_busy_for_cpu_time
    <3>3. /\ QueueOK(q2, t)
          /\ q2.window_start = open
          /\ q2.prev_window_size = q1.prev_window_size
          /\ q2.prev_runnable_sum = q1.prev_runnable_sum
          /\ q2.curr_runnable_sum = q1.curr_runnable_sum
      BY <1>1, <1>3, CyclesKeep DEF Context
    <3>4. \A d \in Nat : scale_exec_time(d, q2) = d
      BY <1>1, ExactScale DEF Context
    <3>5. q2 \in LseRq
      BY <3>3 DEF QueueOK
    <3> HIDE DEF q2, r
    <3>6. CASE ms >= open
      <4>1. ws = open
        BY <1>0, <1>3, <1>4, <3>6
      <4>2. scale_exec_time(t - ms, q2) = t - ms
        BY <1>0, <3>4
      <4>3. q3 = [q2 EXCEPT !.curr_runnable_sum =
                    q2.curr_runnable_sum + scale_exec_time(t - ms, q2)]
        BY <3>2, <3>3, <3>5, <3>6 DEF update_cpu_busy_time, LseRq
      <4> HIDE DEF q3
      <4>4. /\ q3.window_start = open
            /\ q3.prev_runnable_sum = q1.prev_runnable_sum
            /\ q3.curr_runnable_sum = q1.curr_runnable_sum + (t - ms)
        BY <3>3, <3>5, <4>2, <4>3 DEF LseRq
      <4>5. Goal(q3)
        BY <1>0, <1>2, <1>4, <1>6, <4>1, <4>4
      <4> QED BY <1>w, <3>1, <4>5 DEF r, open
    <3>7. CASE ~(ms >= open)
      <4> DEFINE before == Min2(open - ms, q2.prev_window_size)
      <4>1. ws + W <= open /\ t >= ws + W /\ ms < open /\ ws <= ms
        BY <1>0, <1>3, <1>4, <1>6, <3>7
      <4>2. q2.prev_window_size = W /\ q2.curr_runnable_sum = 0
        BY <1>1, <3>3, <4>1
      <4>3. /\ before \in Nat
            /\ ws + W = open => before = open - ms
            /\ ws + W < open => before = W
        <5>1. ws + W < open => (ws + W) + W <= open
          <6>0. OnGrid(ws + 1 * InitWindow)
            BY GridSteps
          <6>1. OnGrid(ws + 1 * W) /\ 1 * W = W
            BY <1>0, <1>w, <6>0
          <6>2. OnGrid(open)
            BY <1>0, OpenWindow DEF open
          <6> QED BY <1>w, <6>1, <6>2, GridSteps
        <5> QED BY <1>0, <1>3, <4>1, <4>2, <5>1 DEF Min2
      <4>4. /\ scale_exec_time(t - open, q2) = t - open
            /\ scale_exec_time(before, q2) = before
        <5>1. t - open \in Nat
          BY <1>0, <1>2, <1>3
        <5> QED BY <3>4, <4>3, <5>1
      <4>5. q3 = [q2 EXCEPT !.prev_runnable_sum =
                              q2.prev_runnable_sum + scale_exec_time(before, q2),
                            !.curr_runnable_sum =
                              q2.curr_runnable_sum + scale_exec_time(t - open, q2)]
        BY <3>2, <3>3, <3>5, <3>7 DEF update_cpu_busy_time, LseRq
      <4> HIDE DEF q3, before
      <4>6. /\ q3.window_start = open
            /\ q3.prev_runnable_sum = q1.prev_runnable_sum + before
            /\ q3.curr_runnable_sum = 0 + (t - open)
        BY <3>3, <3>5, <4>2, <4>4, <4>5 DEF LseRq
      <4>7. q1.prev_runnable_sum = IF open = ws + W THEN q.curr_runnable_sum ELSE 0
        BY <1>1, <1>3, <4>1
      <4>8. Goal(q3)
        BY <1>0, <1>2, <1>3, <1>6, <4>1, <4>3, <4>6, <4>7
      <4> QED BY <1>w, <3>1, <4>8 DEF r, open
    <3> QED BY <3>6, <3>7
  <2> QED BY <2>1, <2>2
<1> QED BY <1>5, <1>6

\* A pick leaves the sums of the CPU alone.
LEMMA PickExact ==
  ASSUME Context, NEW t \in Nat, NEW l, NEW q, QueueOK(q, t),
         BusyOK(q, lse_sched_ravg_window), q.latest_clock = t,
         NEW c \in CPU, NEW p
  PROVE  LET r == lse_update_task_ravg(l, q, c, p, "PICK_NEXT_TASK", t)
         IN  /\ r[1].window_start = q.window_start
             /\ r[1].curr_runnable_sum = q.curr_runnable_sum
             /\ r[1].prev_runnable_sum = q.prev_runnable_sum
<1> DEFINE W == lse_sched_ravg_window
           q1 == update_window_start(q, t)
           q2 == update_task_rq_cpu_cycles(q1, c)
           q3 == update_cpu_busy_time(l, q2, p, "PICK_NEXT_TASK", t)
           r == lse_update_task_ravg(l, q, c, p, "PICK_NEXT_TASK", t)
           Same(s) == /\ s.window_start = q.window_start
                      /\ s.curr_runnable_sum = q.curr_runnable_sum
                      /\ s.prev_runnable_sum = q.prev_runnable_sum
<1>1. t < q.window_start + W /\ q \in LseRq
  BY DEF BusyOK, QueueOK
<1>2. QueueOK(q1, t) /\ q1 = [q EXCEPT !.latest_clock = t]
  BY <1>1, WindowStart DEF Context
<1> HIDE DEF q1
<1>3. Same(q1)
  BY <1>1, <1>2 DEF LseRq
<1>4. Same(q2)
  BY <1>2, <1>3, CyclesKeep DEF Context
<1> HIDE DEF q2
<1>5. q3 = q2
  BY DEF update_cpu_busy_time, account_busy_for_cpu_time
<1>6. r[1] \in {q, q1, q3}
  BY DEF lse_update_task_ravg, q1, q2
<1> HIDE DEF r, q3
<1>7. Same(r[1])
  BY <1>3, <1>4, <1>5, <1>6
<1> QED BY <1>7 DEF r

\* What a state with the invariants says of a CPU and its running task.
LEMMA ExactFacts ==
  ASSUME FixedRate, IInv, ExactInv, NEW c \in CPU
  PROVE  /\ lse_sched_ravg_window = InitWindow /\ slim_walt_ctrl
         /\ InitWindow \in Nat /\ InitWindow >= 1
         /\ curr[c] \in AllTasks /\ TaskOK(lts[curr[c]], clock)
         /\ QueueOK(lrq[c], clock) /\ BusyOK(lrq[c], InitWindow)
         /\ OnGrid(lrq[c].window_start)
         /\ lts[curr[c]].mark_start = lrq[c].latest_clock
<1>1. lse_sched_ravg_window = InitWindow /\ slim_walt_ctrl
      /\ InitWindow \in Nat /\ InitWindow >= 1
  BY Sizes DEF FixedRate, IInv, TypeOK, TrackInv, ExactInv
<1>2. curr[c] \in AllTasks
  BY HookFacts
<1> QED BY <1>1, <1>2 DEF IInv, CountersInv, TrackInv, ExactInv, BusyExact

\* An update of the running task makes the sums of its CPU the true ones.
LEMMA UpdateExact ==
  ASSUME FixedRate, IInv, ExactInv, NEW c \in CPU,
         NEW event \in {"PUT_PREV_TASK", "TASK_UPDATE"}
  PROVE  LET r == lse_update_task_ravg(lts[curr[c]], lrq[c], c, curr[c], event, clock)
         IN  /\ r[1].window_start = OpenAt(clock)
             /\ r[1].curr_runnable_sum = busy_curr[c]
             /\ r[1].prev_runnable_sum = busy_prev[c]
             /\ r[1].latest_clock = clock /\ r[2].mark_start = clock
             /\ BusyOK(r[1], InitWindow) /\ QueueOK(r[1], clock)
<1> DEFINE p == curr[c]
           l == lts[p]
           q == lrq[c]
           ms == l.mark_start
           ws == q.window_start
           open == OpenAt(clock)
           W == InitWindow
           r == lse_update_task_ravg(l, q, c, p, event, clock)
           Spent(x) == IF p \in Tasks /\ ms # 0 THEN x ELSE 0
<1>1. /\ lse_sched_ravg_window = W /\ slim_walt_ctrl /\ W \in Nat /\ W >= 1
      /\ p \in AllTasks /\ TaskOK(l, clock) /\ QueueOK(q, clock) /\ BusyOK(q, W)
      /\ OnGrid(ws) /\ ms = q.latest_clock
  BY ExactFacts
<1>2. Context /\ clock \in Nat /\ clock >= 1
  BY HookFacts
<1>3. /\ r[1].latest_clock = clock /\ r[2].mark_start = clock
      /\ BusyOK(r[1], W) /\ QueueOK(r[1], clock)
  BY <1>1, <1>2, RavgTracks, RavgKeeps
<1>4. /\ r[1].window_start = open
      /\ ws = open => /\ r[1].curr_runnable_sum = q.curr_runnable_sum + Spent(clock - ms)
                      /\ r[1].prev_runnable_sum = q.prev_runnable_sum
      /\ ws # open => /\ ws + W <= open
                      /\ r[1].curr_runnable_sum = Spent(clock - open)
      /\ ws + W = open =>
           r[1].prev_runnable_sum = q.curr_runnable_sum + Spent(open - ms)
      /\ ws + W < open => r[1].prev_runnable_sum = Spent(W)
  BY <1>1, <1>2, RavgExact
<1>5. /\ ws = open => /\ busy_curr[c] = q.curr_runnable_sum + Spent(clock - ms)
                      /\ busy_prev[c] = q.prev_runnable_sum
      /\ ws < open => busy_curr[c] = Spent(clock - open)
      /\ ws + W = open => busy_prev[c] = q.curr_runnable_sum + Spent(open - ms)
      /\ ws + W < open => busy_prev[c] = Spent(W)
  BY DEF ExactInv, BusyExact, Since, RunsOn
<1>6. ws \in Nat /\ open \in Nat
  BY <1>1, <1>2, OpenWindow, GridSteps
<1> HIDE DEF r, Spent, open
<1>7. r[1].curr_runnable_sum = busy_curr[c]
  BY <1>1, <1>4, <1>5, <1>6
<1>8. r[1].prev_runnable_sum = busy_prev[c]
  BY <1>1, <1>4, <1>5, <1>6
<1> QED BY <1>3, <1>4, <1>7, <1>8 DEF r, open

\* A step that updates one CPU and the task that runs there afterwards.
LEMMA OneCpuExact ==
  ASSUME FixedRate, IInv, ExactInv, NEW c \in CPU,
         \A d \in CPU \ {c} : /\ lrq'[d] = lrq[d] /\ curr'[d] = curr[d]
                              /\ lts'[curr[d]] = lts[curr[d]],
         clock' = clock, busy_curr' = busy_curr, busy_prev' = busy_prev,
         lrq'[c].window_start = OpenAt(clock),
         lrq'[c].curr_runnable_sum = busy_curr[c],
         lrq'[c].prev_runnable_sum = busy_prev[c],
         lts'[curr'[c]].mark_start = clock
  PROVE  \A d \in CPU : BusyExact(d)'
<1>1. clock \in Nat /\ clock >= 1 /\ InitWindow \in Nat /\ InitWindow >= 1
  BY HookFacts, SizeAssumption, Sizes
<1> SUFFICES ASSUME NEW d \in CPU PROVE BusyExact(d)'
  OBVIOUS
<1>2. CASE d = c
  <2> DEFINE open == OpenAt(clock)
  <2>1. OnGrid(open) /\ open \in Nat
    BY <1>1, OpenWindow
  <2>2. OpenAt(clock)' = open
    BY DEF OpenAt
  <2>3. OnGrid(lrq[d].window_start)'
    BY <1>2, <2>1 DEF OnGrid
  <2>4. busy_curr[c] \in Nat /\ Since(d, clock - lts[curr[d]].mark_start)' = 0
    <3>1. clock' - lts'[curr'[c]].mark_start = 0
      BY <1>1
    <3> QED BY <1>2, <3>1 DEF ExactInv, Since
  <2> HIDE DEF open
  <2> QED BY <1>1, <1>2, <2>1, <2>2, <2>3, <2>4 DEF BusyExact, open
<1>3. CASE d # c
  <2>1. lrq'[d] = lrq[d] /\ curr'[d] = curr[d] /\ lts'[curr[d]] = lts[curr[d]]
    BY <1>3
  <2>2. BusyExact(d)
    BY DEF ExactInv
  <2> QED BY <2>1, <2>2 DEF BusyExact, OnGrid, OpenAt, Since, RunsOn
<1> QED BY <1>2, <1>3

\* lse_schedule keeps the busy times exact.
LEMMA ScheduleExact ==
  ASSUME FixedRate, IInv, ExactInv, NEW c \in CPU, NEW next \in AllTasks,
         lse_schedule(c, next)
  PROVE  \A d \in CPU : BusyExact(d)'
<1> DEFINE prev == curr[c]
           put == lse_update_task_ravg(lts[prev], lrq[c], c, prev,
                                       "PUT_PREV_TASK", clock)
           pick == lse_update_task_ravg(lts[next], put[1], c, next,
                                        "PICK_NEXT_TASK", clock)
           same == lse_update_task_ravg(lts[prev], lrq[c], c, prev,
                                        "TASK_UPDATE", clock)
           True(q) == /\ q.window_start = OpenAt(clock)
                      /\ q.curr_runnable_sum = busy_curr[c]
                      /\ q.prev_runnable_sum = busy_prev[c]
<1>1. /\ Context /\ clock \in Nat /\ prev \in AllTasks
      /\ lts \in [AllTasks -> LseTask] /\ curr \in [CPU -> AllTasks]
      /\ lse_sched_ravg_window = InitWindow /\ slim_walt_ctrl
      /\ TaskOK(lts[next], clock)
  BY HookFacts, ExactFacts DEF IInv, CountersInv
<1>2. /\ clock' = clock /\ curr' = [curr EXCEPT ![c] = next]
      /\ \A d \in CPU \ {c} : curr[d] # next
      /\ busy_curr' = busy_curr /\ busy_prev' = busy_prev
  BY DEF lse_schedule, truth
<1>3. PICK q, l1, l2, t1 :
        /\ t1 \in AllTasks /\ t1 = curr[c]
        /\ lrq' = [lrq EXCEPT ![c] = q]
        /\ lts' = [lts EXCEPT ![t1] = l1, ![next] = l2]
        /\ True(q) /\ l2.mark_start = clock
  <2>1. CASE prev # next
    <3>1. /\ True(put[1]) /\ put[1].latest_clock = clock
          /\ BusyOK(put[1], InitWindow) /\ QueueOK(put[1], clock)
      BY UpdateExact
    <3>3. /\ lrq' = [lrq EXCEPT ![c] = pick[1]]
          /\ lts' = [lts EXCEPT ![prev] = put[2], ![next] = pick[2]]
      BY <2>1 DEF lse_schedule
    <3> HIDE DEF put
    <3>4. True(pick[1])
      BY <1>1, <3>1, PickExact
    <3>5. pick[2].mark_start = clock
      BY <1>1, <3>1, RavgTracks
    <3> HIDE DEF pick, True, prev
    <3>6. prev = curr[c] /\ prev \in AllTasks
      BY <1>1 DEF prev
    <3> QED BY <3>3, <3>4, <3>5, <3>6
  <2>2. CASE prev = next
    <3>1. True(same[1]) /\ same[2].mark_start = clock
      BY UpdateExact
    <3>3. lrq' = [lrq EXCEPT ![c] = same[1]] /\ lts' = [lts EXCEPT ![prev] = same[2]]
      BY <2>2 DEF lse_schedule
    <3> HIDE DEF same, True, prev
    <3>4. lts' = [lts EXCEPT ![prev] = same[2], ![next] = same[2]]
      BY <1>1, <2>2, <3>3
    <3>5. prev = curr[c] /\ prev \in AllTasks
      BY <1>1 DEF prev
    <3> QED BY <3>1, <3>3, <3>4, <3>5
  <2> QED BY <2>1, <2>2
<1>4. /\ lrq'[c] = q /\ curr'[c] = next /\ lts'[next] = l2
      /\ \A d \in CPU \ {c} : /\ lrq'[d] = lrq[d] /\ curr'[d] = curr[d]
                              /\ lts'[curr[d]] = lts[curr[d]]
  <2>1. lrq \in [CPU -> LseRq]
    BY HookFacts
  <2>2. \A d \in CPU \ {c} : curr[d] # t1 /\ curr[d] # next /\ curr[d] \in AllTasks
    BY <1>1, <1>2, <1>3 DEF IInv, CurrInv
  <2> QED BY <1>1, <1>2, <1>3, <2>1, <2>2
<1> QED BY <1>2, <1>3, <1>4, OneCpuExact

\* So does an update of the running task.
LEMMA UpdateCurrExact ==
  ASSUME FixedRate, IInv, ExactInv, NEW c \in CPU, UpdateCurr(c),
         clock' = clock, curr' = curr,
         busy_curr' = busy_curr, busy_prev' = busy_prev
  PROVE  \A d \in CPU : BusyExact(d)'
<1> DEFINE p == curr[c]
           r == lse_update_task_ravg(lts[p], lrq[c], c, p, "TASK_UPDATE", clock)
<1>1. /\ p \in AllTasks /\ curr \in [CPU -> AllTasks]
      /\ lts \in [AllTasks -> LseTask]
  BY HookFacts
<1>2. /\ r[1].window_start = OpenAt(clock)
      /\ r[1].curr_runnable_sum = busy_curr[c]
      /\ r[1].prev_runnable_sum = busy_prev[c]
      /\ r[2].mark_start = clock
  BY UpdateExact
<1>3. lrq' = [lrq EXCEPT ![c] = r[1]] /\ lts' = [lts EXCEPT ![p] = r[2]]
  BY DEF UpdateCurr
<1> HIDE DEF r
<1>4. /\ lrq'[c] = r[1] /\ lts'[curr'[c]] = r[2]
      /\ \A d \in CPU \ {c} : /\ lrq'[d] = lrq[d] /\ curr'[d] = curr[d]
                              /\ lts'[curr[d]] = lts[curr[d]]
  <2>1. lrq \in [CPU -> LseRq]
    BY HookFacts
  <2>2. \A d \in CPU \ {c} : curr[d] # p /\ curr[d] \in AllTasks
    BY <1>1 DEF IInv, CurrInv
  <2> QED BY <1>1, <1>3, <2>1, <2>2
<1> QED BY <1>2, <1>4, OneCpuExact

\* So does time: what a CPU has not accounted for yet grows with it.
LEMMA TickExact ==
  ASSUME FixedRate, IInv, ExactInv, Tick
  PROVE  /\ busy_curr' \in [CPU -> Nat] /\ busy_prev' \in [CPU -> Nat]
         /\ \A c \in CPU : BusyExact(c)'
<1> DEFINE W == InitWindow
           open == OpenAt(clock)
           boundary == (clock + 1 - FirstWindow) % InitWindow = 0
<1>1. /\ clock' = clock + 1 /\ lrq' = lrq /\ lts' = lts /\ curr' = curr
      /\ clock \in Nat /\ clock >= 1 /\ W \in Nat /\ W >= 1
      /\ busy_curr \in [CPU -> Nat] /\ busy_prev \in [CPU -> Nat]
  BY HookFacts, SizeAssumption, Sizes DEF Tick, codeVars, ExactInv
<1>2. /\ OnGrid(open) /\ open \in Nat /\ open <= clock /\ clock < open + W
      /\ boundary => OpenAt(clock') = clock + 1 /\ OpenAt(clock') = open + W
      /\ ~boundary => OpenAt(clock') = open
  BY <1>1, OpenWindow, NextWindow
<1>3. \A c \in CPU : Busy(c) = RunsOn(c)
  BY DEF Busy, Runs, RunsOn
<1> DEFINE b == [c \in CPU |-> busy_curr[c] + Since(c, 1)]
<1>4. /\ boundary => busy_prev' = b /\ busy_curr' = [c \in CPU |-> 0]
      /\ ~boundary => busy_curr' = b /\ busy_prev' = busy_prev
  <2>1. [c \in CPU |-> busy_curr[c] + One(Busy(c))] = b
    BY <1>3 DEF One, Since
  <2> QED BY <2>1 DEF Tick
<1>5. b \in [CPU -> Nat]
  BY <1>1 DEF Since
<1>6. busy_curr' \in [CPU -> Nat] /\ busy_prev' \in [CPU -> Nat]
  BY <1>1, <1>4, <1>5
<1>7. ASSUME NEW c \in CPU PROVE BusyExact(c)'
  <2> DEFINE q == lrq[c]
             ws == q.window_start
             ms == lts[curr[c]].mark_start
             Spent(x) == IF RunsOn(c) THEN x ELSE 0
  <2>1. /\ OnGrid(ws) /\ ms = q.latest_clock /\ QueueOK(q, clock) /\ BusyOK(q, W)
    BY ExactFacts
  <2>2. /\ ws \in Nat /\ ms \in Nat /\ ws <= clock /\ ms <= clock /\ ms < ws + W
        /\ ms = 0 \/ ws <= ms
        /\ q.curr_runnable_sum \in Nat
    BY <2>1 DEF QueueOK, BusyOK, LseRq
  <2>3. ws = open \/ ws + W <= open
    <3>1. ws < open => ws + W <= open
      BY <1>2, <2>1, GridSteps
    <3>2. open < ws => open + W <= ws
      BY <1>2, <2>1, GridSteps
    <3> QED BY <1>1, <1>2, <2>2, <3>1, <3>2
  <2>4. /\ ws = open => /\ busy_curr[c] = q.curr_runnable_sum + Spent(clock - ms)
                        /\ busy_prev[c] = q.prev_runnable_sum
        /\ ws < open => busy_curr[c] = Spent(clock - open)
        /\ ws + W = open => busy_prev[c] = q.curr_runnable_sum + Spent(open - ms)
        /\ ws + W < open => busy_prev[c] = Spent(W)
    BY DEF ExactInv, BusyExact, Since
  <2>5. b[c] = busy_curr[c] + Spent(1) /\ busy_curr[c] \in Nat
    BY <1>1 DEF Since
  <2>7. RunsOn(c)' = RunsOn(c)
    BY <1>1 DEF RunsOn
  <2> DEFINE new == OpenAt(clock')
             cc == busy_curr'[c]
             pp == busy_prev'[c]
             New == /\ ws = new => /\ cc = q.curr_runnable_sum + Spent(clock + 1 - ms)
                                   /\ pp = q.prev_runnable_sum
                    /\ ws < new => cc = Spent(clock + 1 - new)
                    /\ ws + W = new => pp = q.curr_runnable_sum + Spent(new - ms)
                    /\ ws + W < new => pp = Spent(W)
  <2>8. New
    <3>1. CASE boundary
      <4>1. cc = 0 /\ pp = busy_curr[c] + Spent(1)
            /\ new = clock + 1 /\ new = open + W
        BY <1>2, <1>4, <2>5, <3>1
      <4> HIDE DEF cc, pp, new, open, boundary, b
      <4>2. CASE RunsOn(c)
        BY <1>1, <1>2, <2>2, <2>3, <2>4, <2>5, <4>1, <4>2
      <4>3. CASE ~RunsOn(c)
        BY <1>1, <1>2, <2>2, <2>3, <2>4, <2>5, <4>1, <4>3
      <4> QED BY <4>2, <4>3
    <3>2. CASE ~boundary
      <4>1. cc = busy_curr[c] + Spent(1) /\ pp = busy_prev[c] /\ new = open
        BY <1>2, <1>4, <2>5, <3>2
      <4> HIDE DEF cc, pp, new, open, boundary, b
      <4>2. CASE RunsOn(c)
        BY <1>1, <1>2, <2>2, <2>3, <2>4, <2>5, <4>1, <4>2
      <4>3. CASE ~RunsOn(c)
        BY <1>1, <1>2, <2>2, <2>3, <2>4, <2>5, <4>1, <4>3
      <4> QED BY <4>2, <4>3
    <3> QED BY <3>1, <3>2
  <2>9. OpenAt(clock)' = new
    BY DEF OpenAt
  <2>10. OnGrid(lrq[c].window_start)'
    BY <1>1, <2>1 DEF OnGrid
  <2>11. clock' - ms = clock + 1 - ms
    BY <1>1, <2>2
  <2>12. clock' - new = clock + 1 - new
    BY <1>1, <1>2
  <2> HIDE DEF new
  <2> QED BY <1>1, <2>7, <2>8, <2>9, <2>10, <2>11, <2>12 DEF BusyExact, Since
<1> QED BY <1>6, <1>7

\* At the start no busy time has been counted and none has been spent.
LEMMA ExactInit ==
  ASSUME FixedRate, Init
  PROVE  ExactInv
<1>1. IInv /\ clock = 1 /\ tracked
  BY InitIInv DEF Init, FirstWindow
<1>2. busy_curr = [c \in CPU |-> 0] /\ busy_prev = [c \in CPU |-> 0]
  BY DEF Init
<1>3. ASSUME NEW c \in CPU PROVE BusyExact(c)
  <2>1. lrq[c].window_start = 1 /\ lrq[c].curr_runnable_sum = 0
        /\ lrq[c].prev_runnable_sum = 0 /\ lts[curr[c]].mark_start = 0
    BY DEF Init, FirstWindow
  <2>2. OnGrid(1)
    BY SizeAssumption, Sizes DEF OnGrid, FirstWindow
  <2>3. OpenAt(1) = 1
    BY SizeAssumption, Sizes, OpenWindow, <2>2
  <2>4. \A x : Since(c, x) = 0
    BY <2>1 DEF Since, RunsOn
  <2>5. InitWindow \in Nat /\ InitWindow >= 1
    BY SizeAssumption, Sizes
  <2> QED BY <1>1, <1>2, <2>1, <2>2, <2>3, <2>4, <2>5 DEF BusyExact
<1> QED BY <1>1, <1>2, <1>3 DEF ExactInv

\* Every hook and every tick of the clock keeps the sums equal to the time spent.
LEMMA ExactNext ==
  ASSUME FixedRate, IInv, IInv', ExactInv, [Next]_vars
  PROVE  ExactInv'
<1>1. ASSUME NEW c \in CPU, NEW next \in Tasks \cup {Idle(c)}, lse_schedule(c, next)
      PROVE  ExactInv'
  <2>1. next \in AllTasks
    BY DEF AllTasks, IdleTasks
  <2>2. \A d \in CPU : BusyExact(d)'
    BY <1>1, <2>1, ScheduleExact
  <2> QED BY <1>1, <2>2 DEF ExactInv, lse_schedule, truth
<1>2. ASSUME NEW c \in CPU, lse_tick_entry(c) \/ lse_shadow_tick_cb(c)
      PROVE  ExactInv'
  <2>1. /\ UpdateCurr(c) /\ clock' = clock /\ curr' = curr /\ tracked' = tracked
        /\ busy_curr' = busy_curr /\ busy_prev' = busy_prev
    BY <1>2 DEF lse_tick_entry, lse_shadow_tick_cb, truth
  <2>2. \A d \in CPU : BusyExact(d)'
    BY <2>1, UpdateCurrExact
  <2> QED BY <2>1, <2>2 DEF ExactInv
<1>3. ASSUME NEW c \in CPU, NEW w \in Windows, lse_irq_work(c, w)
      PROVE  ExactInv'
  <2>1. /\ UpdateCurr(c) /\ clock' = clock /\ curr' = curr /\ tracked' = tracked
        /\ busy_curr' = busy_curr /\ busy_prev' = busy_prev
    BY <1>3 DEF lse_irq_work, truth
  <2>2. \A d \in CPU : BusyExact(d)'
    BY <2>1, UpdateCurrExact
  <2> QED BY <2>1, <2>2 DEF ExactInv
<1>4. CASE Tick
  <2>1. /\ busy_curr' \in [CPU -> Nat] /\ busy_prev' \in [CPU -> Nat]
        /\ \A c \in CPU : BusyExact(c)'
    BY <1>4, TickExact
  <2> QED BY <1>4, <2>1 DEF ExactInv, Tick
<1>5. ASSUME \/ \E c \in CPU, f \in Freqs : SetFreq(c, f)
             \/ \E s \in Policies : SetPolicy(s)
             \/ \E b \in Controls : SetControl(b)
             \/ UNCHANGED vars
      PROVE  ExactInv'
  <2>1. /\ clock' = clock /\ curr' = curr /\ lrq' = lrq /\ lts' = lts
        /\ busy_curr' = busy_curr /\ busy_prev' = busy_prev
    BY <1>5 DEF SetFreq, SetPolicy, SetControl, vars, codeVars, truth
  <2>2. tracked'
    <3>1. ASSUME NEW b \in Controls, SetControl(b) PROVE tracked'
      BY <3>1 DEF FixedRate, ExactInv, SetControl
    <3> QED BY <1>5, <3>1 DEF ExactInv, SetFreq, SetPolicy, vars, truth
  <2>3. ASSUME NEW c \in CPU PROVE BusyExact(c)'
    <3>1. BusyExact(c)
      BY DEF ExactInv
    <3> QED BY <2>1, <3>1 DEF BusyExact, OnGrid, OpenAt, Since, RunsOn
  <2> QED BY <2>1, <2>2, <2>3 DEF ExactInv
<1> QED BY <1>1, <1>2, <1>3, <1>4, <1>5 DEF Next

\* With one window size, full frequency and tracking on, the two sums of a CPU
\* are the time it really was busy, whichever hooks ran or were missed.
THEOREM BusyTimesExact ==
  ASSUME FixedRate
  PROVE  Spec => []CpuBusyExact
<1>1. IInv /\ ExactInv => CpuBusyExact
  <2> SUFFICES ASSUME IInv, ExactInv, NEW c \in CPU,
                      lrq[c].latest_clock = clock, lts[curr[c]].mark_start = clock
               PROVE  /\ lrq[c].curr_runnable_sum = busy_curr[c]
                      /\ lrq[c].prev_runnable_sum = busy_prev[c]
    BY DEF CpuBusyExact
  <2> DEFINE q == lrq[c]
  <2>1. OnGrid(q.window_start) /\ QueueOK(q, clock) /\ BusyOK(q, InitWindow)
    BY ExactFacts
  <2>2. clock \in Nat /\ clock >= 1
    BY HookFacts
  <2>3. q.window_start = OpenAt(clock)
    BY <2>1, <2>2, OpenWindow DEF QueueOK, BusyOK
  <2>4. Since(c, clock - lts[curr[c]].mark_start) = 0
        /\ q.curr_runnable_sum \in Nat
    BY <2>1, <2>2 DEF Since, QueueOK, LseRq
  <2> QED BY <2>3, <2>4 DEF ExactInv, BusyExact
<1>2. Init => ExactInv
  BY ExactInit
<1>3. IInv /\ IInv' /\ ExactInv /\ [Next]_vars => ExactInv'
  BY ExactNext
<1> QED BY <1>1, <1>2, <1>3, Invariance, PTL DEF Spec

-----------------------------------------------------------------------------
\* The times of the tasks: the ring of update_history as a sequence.

\* A history with n more windows of length x.
Shift(h, x, n) ==
  [i \in 1 .. RAVG_HIST_SIZE |-> IF i + n <= RAVG_HIST_SIZE THEN h[i + n] ELSE x]
Histories == [1 .. RAVG_HIST_SIZE -> Nat]

\* The ghost's Push is a shift by one.
LEMMA PushShift ==
  ASSUME NEW h \in Histories, NEW x \in Nat
  PROVE  /\ Push(h, x) = IF x = 0 THEN h ELSE Shift(h, x, 1)
         /\ Push(h, x) \in Histories
<1> DEFINE R == RAVG_HIST_SIZE
<1>0. R \in Nat /\ R >= 1
  BY Sizes
<1> HIDE DEF R
<1>1. h \in [1 .. R -> Nat]
  BY DEF Histories, R
<1>2. h \in Seq(Nat) /\ Len(h) = R
  BY <1>0, <1>1
<1>3. /\ Tail(h) \in Seq(Nat) /\ Len(Tail(h)) = R - 1
      /\ \A i \in 1 .. R - 1 : Tail(h)[i] = h[i + 1]
  BY <1>0, <1>2
<1>4. Append(Tail(h), x) = [i \in 1 .. R |-> IF i + 1 <= R THEN h[i + 1] ELSE x]
  <2> DEFINE s == Append(Tail(h), x)
             f == [i \in 1 .. R |-> IF i + 1 <= R THEN h[i + 1] ELSE x]
  <2>1. s \in Seq(Nat) /\ Len(s) = R
    BY <1>0, <1>3
  <2>2. s = [i \in 1 .. R |-> s[i]]
    <3> HIDE DEF s
    <3>1. s \in [1 .. Len(s) -> Nat]
      BY <2>1, LenProperties
    <3> QED BY <2>1, <3>1
  <2>3. \A i \in 1 .. R : s[i] = f[i]
    BY <1>0, <1>3
  <2> HIDE DEF s
  <2> QED BY <2>2, <2>3 DEF s
<1>5. \A i \in 1 .. R : i + 1 <= R => h[i + 1] \in Nat
  BY <1>0, <1>1
<1> QED BY <1>1, <1>4, <1>5 DEF Push, Shift, Histories, R

\* Shifts add up.
LEMMA ShiftShift ==
  ASSUME NEW h \in Histories, NEW x \in Nat, NEW m \in Nat, NEW n \in Nat
  PROVE  /\ Shift(h, x, n) \in Histories
         /\ Shift(h, x, 0) = h
         /\ Shift(Shift(h, x, m), x, n) = Shift(h, x, m + n)
<1> DEFINE R == RAVG_HIST_SIZE
<1>0. R \in Nat /\ R >= 1 /\ h \in [1 .. R -> Nat]
  BY Sizes DEF Histories
<1>1. Shift(h, x, n) \in [1 .. R -> Nat]
  BY <1>0 DEF Shift
<1>2. Shift(h, x, 0) = h
  BY <1>0 DEF Shift
<1>3. ASSUME NEW i \in 1 .. R
      PROVE  Shift(Shift(h, x, m), x, n)[i] = Shift(h, x, m + n)[i]
  <2>1. /\ Shift(Shift(h, x, m), x, n)[i] =
             IF i + n <= R THEN Shift(h, x, m)[i + n] ELSE x
        /\ Shift(h, x, m + n)[i] = IF i + (m + n) <= R THEN h[i + (m + n)] ELSE x
    BY <1>0 DEF Shift
  <2>2. i + n <= R => Shift(h, x, m)[i + n] =
                        IF (i + n) + m <= R THEN h[(i + n) + m] ELSE x
    BY <1>0 DEF Shift
  <2>3. (i + n) + m = i + (m + n)
    BY <1>0
  <2> QED BY <1>0, <2>1, <2>2, <2>3
<1>4. Shift(Shift(h, x, m), x, n) = Shift(h, x, m + n)
  <2>1. /\ Shift(Shift(h, x, m), x, n) =
             [i \in 1 .. R |-> Shift(Shift(h, x, m), x, n)[i]]
        /\ Shift(h, x, m + n) = [i \in 1 .. R |-> Shift(h, x, m + n)[i]]
    BY DEF Shift
  <2> QED BY <1>3, <2>1
<1> QED BY <1>1, <1>2, <1>4 DEF Histories

\* The ring of a task is a history.
LEMMA HistoryType ==
  ASSUME NEW l \in LseTask PROVE History(l) \in Histories
<1> DEFINE R == RAVG_HIST_SIZE
<1>0. /\ R \in Nat \ {0} /\ HistIdx = 0 .. R - 1
      /\ l.cidx \in HistIdx /\ l.sum_history \in [HistIdx -> Nat]
  BY Sizes DEF LseTask, HistIdx
<1>1. ASSUME NEW i \in 1 .. R PROVE (l.cidx + i - 1) % R \in HistIdx
  <2>1. l.cidx + i - 1 \in Int
    BY <1>0
  <2> QED BY <1>0, <2>1, Remainder
<1> QED BY <1>0, <1>1 DEF History, Histories

\* The place of the i-th oldest entry of the ring, after n entries were written
\* from c on: it is an old one, n places on, or one of the new ones.
LEMMA RingPlaces ==
  ASSUME NEW m \in Nat \ {0}, NEW c \in 0 .. m - 1, NEW n \in Nat \ {0},
         NEW i \in 1 .. m
  PROVE  LET d == (c + n) % m
             j == (d + i - 1) % m
         IN  /\ j \in 0 .. m - 1
             /\ i + n <= m => ~((j - c) % m < n) /\ (c + (i + n) - 1) % m = j
             /\ ~(i + n <= m) => (j - c) % m < n
<1> DEFINE d == (c + n) % m
           j == (d + i - 1) % m
           e == (j - c) % m
           f == (c + (i + n) - 1) % m
<1>0. m \in Nat /\ m >= 1 /\ c \in Nat /\ c < m /\ n >= 1 /\ i >= 1 /\ i <= m
      /\ i \in Nat /\ n \in Nat
  OBVIOUS
<1> DEFINE Turn(a, x) == /\ x \in 0 .. m - 1
                         /\ 0 <= a /\ a < m => x = a
                         /\ m <= a /\ a < m + m => x = a - m
                         /\ 0 - m <= a /\ a < 0 => x = a + m
<1>t. \A a \in Int : Turn(a, a % m)
  BY Remainder
<1> HIDE DEF Turn
<1>1. Turn(c + n, d) /\ d \in 0 .. m - 1
  <2>1. c + n \in Int
    BY <1>0
  <2>2. Turn(c + n, d)
    BY <1>t, <2>1, Zenon
  <2> QED BY <2>2 DEF Turn
<1> HIDE DEF d
<1>2. Turn(d + i - 1, j) /\ j \in 0 .. m - 1
  <2>1. d + i - 1 \in Int
    BY <1>0, <1>1
  <2>2. Turn(d + i - 1, j)
    BY <1>t, <2>1, Zenon
  <2> QED BY <2>2 DEF Turn
<1> HIDE DEF j
<1>3. Turn(j - c, e)
  <2>1. j - c \in Int
    BY <1>0, <1>2
  <2> QED BY <1>t, <2>1, Zenon
<1>4. Turn(c + (i + n) - 1, f)
  <2>1. c + (i + n) - 1 \in Int
    BY <1>0
  <2> QED BY <1>t, <2>1, Zenon
<1> HIDE DEF e, f
<1>5. CASE n >= m
  <2>1. e < n /\ ~(i + n <= m)
    BY <1>0, <1>3, <1>5 DEF Turn
  <2> QED BY <1>2, <2>1 DEF d, j, e, f
<1>6. CASE n < m
  <2>1. i + n <= m => ~(e < n) /\ f = j
    BY <1>0, <1>1, <1>2, <1>3, <1>4, <1>6 DEF Turn
  <2>2. ~(i + n <= m) => e < n
    BY <1>0, <1>1, <1>2, <1>3, <1>6 DEF Turn
  <2> QED BY <1>2, <2>1, <2>2 DEF d, j, e, f
<1> QED BY <1>0, <1>5, <1>6

\* update_history pushes samples windows of the given length onto the ring.
LEMMA RingShift ==
  ASSUME NEW l \in LseTask, NEW p, p \notin IdleTasks, NEW runtime \in Nat \ {0},
         NEW samples \in Nat
  PROVE  LET r == update_history(l, p, runtime, samples)
         IN  /\ History(r) = Shift(History(l), runtime, samples)
             /\ r.sum = IF samples = 0 THEN l.sum ELSE 0
<1> DEFINE R == RAVG_HIST_SIZE
           r == update_history(l, p, runtime, samples)
           n == samples
           c == l.cidx
           old == l.sum_history
           H == History(l)
<1>0. /\ R \in Nat \ {0} /\ HistIdx = 0 .. R - 1
      /\ c \in HistIdx /\ old \in [HistIdx -> Nat]
  BY Sizes DEF LseTask, HistIdx
<1>1. H = [i \in 1 .. R |-> old[(c + i - 1) % R]]
  BY DEF History
<1>2. H \in Histories
  BY HistoryType
<1>3. CASE n = 0
  <2>1. r = l
    BY <1>3 DEF update_history
  <2>2. Shift(H, runtime, 0) = H
    BY <1>2, ShiftShift
  <2> HIDE DEF r, H
  <2> QED BY <1>3, <2>1, <2>2 DEF r, H
<1>4. CASE n # 0
  <2> DEFINE hist == [i \in HistIdx |->
                        IF (i - c) % R < n THEN runtime ELSE old[i]]
             d == (c + n) % R
  <2>1. r = [l EXCEPT !.sum_history = hist, !.cidx = d, !.sum = 0,
                      !.demand = Demand(runtime, hist),
                      !.demand_scaled = lse_scale_time_to_util(Demand(runtime, hist))]
    BY <1>4 DEF update_history
  <2> HIDE DEF r, hist, d
  <2>2. r.sum_history = hist /\ r.cidx = d /\ r.sum = 0
    BY <2>1 DEF LseTask
  <2>3. History(r) = [i \in 1 .. R |-> hist[(d + i - 1) % R]]
    BY <2>2 DEF History
  <2>4. ASSUME NEW i \in 1 .. R
        PROVE  hist[(d + i - 1) % R] = IF i + n <= R THEN H[i + n] ELSE runtime
    <3> DEFINE j == (d + i - 1) % R
    <3>0. R \in Nat \ {0} /\ c \in 0 .. R - 1 /\ n \in Nat \ {0}
      BY <1>0, <1>4
    <3>1. /\ j \in 0 .. R - 1
          /\ i + n <= R => ~((j - c) % R < n) /\ (c + (i + n) - 1) % R = j
          /\ ~(i + n <= R) => (j - c) % R < n
      BY <2>4, <3>0, RingPlaces, Zenon DEF d
    <3> HIDE DEF j
    <3>2. hist[j] = IF (j - c) % R < n THEN runtime ELSE old[j]
      BY <1>0, <3>1 DEF hist
    <3>3. CASE i + n <= R
      <4>1. i + n \in 1 .. R
        BY <1>0, <3>3
      <4>2. H[i + n] = old[(c + (i + n) - 1) % R]
        BY <1>1, <4>1, Zenon
      <4> HIDE DEF H, R
      <4> QED BY <3>1, <3>2, <3>3, <4>2 DEF j
    <3>4. CASE ~(i + n <= R)
      BY <3>1, <3>2, <3>4 DEF j
    <3> QED BY <3>3, <3>4
  <2> HIDE DEF H
  <2>5. History(r) = Shift(H, runtime, n)
    BY <2>3, <2>4 DEF Shift
  <2> QED BY <1>4, <2>2, <2>5 DEF r, H
<1> QED BY <1>3, <1>4

\* One window pushed onto the ring, or none if nothing ran in it.
LEMMA RingPush ==
  ASSUME NEW l \in LseTask, NEW p, p \notin IdleTasks, NEW runtime \in Nat
  PROVE  LET r == update_history(l, p, runtime, 1)
         IN  /\ History(r) = Push(History(l), runtime)
             /\ r.sum = IF runtime = 0 THEN l.sum ELSE 0
<1> DEFINE r == update_history(l, p, runtime, 1)
<1>0. History(l) \in Histories
  BY HistoryType
<1>1. CASE runtime = 0
  <2>1. r = l
    BY <1>1 DEF update_history
  <2> HIDE DEF r
  <2> QED BY <1>0, <1>1, <2>1, PushShift DEF r
<1>2. CASE runtime # 0
  <2>1. /\ History(r) = Shift(History(l), runtime, 1) /\ r.sum = 0
    BY <1>2, RingShift
  <2> HIDE DEF r
  <2> QED BY <1>0, <1>2, <2>1, PushShift DEF r
<1> QED BY <1>1, <1>2

-----------------------------------------------------------------------------
\* The history rh is h, then a window of length x that ends at the time from,
\* then the full windows up to the one that begins at open.
FilledUp(h, x, from, open, rh) ==
  \E k \in Nat : /\ open = from + k * InitWindow
                 /\ rh = Shift(Push(h, x), InitWindow, k)

\* What the counters l of a task say of the time r it really ran in the window
\* that is open at time t, and of its true history rh.  on: it is running.
Counted(l, t, on, r, rh) ==
  LET W == InitWindow
      h == History(l)
      ms == l.mark_start
      mw == OpenAt(ms)
      open == OpenAt(t)
  IN  /\ ms = 0 => l.sum = 0 /\ r = 0 /\ rh = h
      /\ ms # 0 => l.sum <= ms - mw
      /\ ms # 0 /\ mw = open =>
           /\ r = l.sum + (IF on THEN t - ms ELSE 0)
           /\ rh = h
      /\ ms # 0 /\ mw < open =>
           /\ r = IF on THEN t - open ELSE 0
           /\ ~on => rh = Push(h, l.sum)
           /\ on => FilledUp(h, l.sum + (mw + W - ms), mw + W, open, rh)

\* The counters right after an update at time t.
Settled(l, t, r, rh) ==
  l.mark_start = t /\ l.sum = r /\ r <= t - OpenAt(t) /\ History(l) = rh

\* They count the time, whether the task goes on or stops.
LEMMA SettledCounts ==
  ASSUME NEW t \in Nat, t >= 1, NEW l, NEW on \in BOOLEAN, NEW r \in Nat, NEW rh,
         Settled(l, t, r, rh)
  PROVE  Counted(l, t, on, r, rh)
<1>1. OpenAt(t) \in Nat /\ t - t = 0 /\ r + 0 = r
  BY OpenWindow
<1> QED BY <1>1 DEF Settled, Counted

\* The window of the last update is the open one or an earlier one.
LEMMA MarkedWindow ==
  ASSUME NEW t \in Nat, t >= 1, NEW m \in Nat, m >= 1, m <= t
  PROVE  LET W == InitWindow
             mw == OpenAt(m)
             open == OpenAt(t)
         IN  /\ W \in Nat /\ W >= 1
             /\ OnGrid(mw) /\ mw \in Nat /\ mw <= m /\ m < mw + W
             /\ OnGrid(open) /\ open \in Nat /\ open <= t /\ t < open + W
             /\ mw = open \/ mw + W <= open
             /\ m < open <=> mw < open
<1> DEFINE W == InitWindow
           mw == OpenAt(m)
           open == OpenAt(t)
<1>0. W \in Nat /\ W >= 1
  BY SizeAssumption, Sizes
<1>1. /\ OnGrid(mw) /\ mw \in Nat /\ mw <= m /\ m < mw + W
      /\ OnGrid(open) /\ open \in Nat /\ open <= t /\ t < open + W
  BY OpenWindow
<1>2. (mw < open => mw + W <= open) /\ (open < mw => open + W <= mw)
  BY <1>1, GridSteps
<1> HIDE DEF mw, open
<1>3. (mw = open \/ mw + W <= open) /\ (m < open <=> mw < open)
  BY <1>0, <1>1, <1>2
<1> QED BY <1>0, <1>1, <1>3 DEF mw, open


\* add_to_task_demand does not reach the window size here, so nothing is cut,
\* and it leaves the ring alone.
LEMMA AddExact ==
  ASSUME lse_sched_ravg_window \in Windows, NEW t \in Nat, NEW l, TaskOK(l, t),
         NEW q, q.task_exec_scale \in 1 .. Scale, NEW delta \in Nat,
         scale_exec_time(delta, q) = delta,
         l.sum + delta <= lse_sched_ravg_window
  PROVE  LET r == add_to_task_demand(l, q, delta)
         IN  /\ TaskOK(r, t) /\ r \in LseTask
             /\ r.sum = l.sum + delta /\ History(r) = History(l)
<1> DEFINE r == add_to_task_demand(l, q, delta)
<1>1. l \in LseTask /\ l.sum \in Nat
  BY DEF TaskOK, LseTask
<1>2. r = [l EXCEPT !.sum = l.sum + delta]
  BY <1>1, Sizes DEF add_to_task_demand, Min2
<1>3. TaskOK(r, t)
  BY AddKeeps
<1> HIDE DEF r
<1>4. r.sum = l.sum + delta /\ r.cidx = l.cidx /\ r.sum_history = l.sum_history
  BY <1>1, <1>2 DEF LseTask
<1> QED BY <1>3, <1>4 DEF History, TaskOK, r

\* An update of a running task adds the time since the last one, cut at the
\* ends of the windows.
LEMMA RunningDemand ==
  ASSUME FixedRate, Context, NEW t \in Nat, t >= 1, NEW l, TaskOK(l, t),
         l.mark_start # 0, NEW q, QueueOK(q, t), q.window_start = OpenAt(t),
         \A d \in Nat : scale_exec_time(d, q) = d,
         NEW c, NEW p, NEW event, account_busy_for_task_demand(c, p, event),
         NEW r, NEW rh, Counted(l, t, TRUE, r, rh)
  PROVE  LET s == update_task_demand(l, q, c, p, event, t)
         IN  s \in LseTask /\ s.sum = r /\ History(s) = rh /\ r <= t - OpenAt(t)
<1> DEFINE W == InitWindow
           ms == l.mark_start
           mw == OpenAt(ms)
           open == OpenAt(t)
           h == History(l)
           s == update_task_demand(l, q, c, p, event, t)
<1>0. /\ lse_sched_ravg_window = W /\ lse_sched_ravg_window \in Windows
      /\ l \in LseTask /\ l.sum \in Nat
      /\ ms \in Nat /\ ms >= 1 /\ ms <= t
      /\ q.task_exec_scale \in 1 .. Scale
      /\ p \notin IdleTasks
      /\ MaxWindow = W
  BY Sizes DEF FixedRate, Context, TaskOK, LseTask, QueueOK,
               account_busy_for_task_demand
<1>1. /\ W \in Nat /\ W >= 1
      /\ mw \in Nat /\ mw <= ms /\ ms < mw + W
      /\ open \in Nat /\ open <= t /\ t < open + W
      /\ mw = open \/ mw + W <= open
      /\ ms < open <=> mw < open
  BY <1>0, MarkedWindow
<1>2. l.sum <= ms - mw
  BY <1>0 DEF Counted
<1>3. CASE mw = open
  <2>1. r = l.sum + (t - ms) /\ rh = h
    BY <1>0, <1>3 DEF Counted
  <2>2. s = add_to_task_demand(l, q, t - ms)
    BY <1>1, <1>3 DEF update_task_demand
  <2> HIDE DEF mw, open, s, h
  <2>3. t - ms \in Nat /\ l.sum + (t - ms) <= W
    BY <1>0, <1>1, <1>2, <1>3
  <2>4. scale_exec_time(t - ms, q) = t - ms
    BY <2>3
  <2>5. s \in LseTask /\ s.sum = l.sum + (t - ms) /\ History(s) = h
    BY <1>0, <2>2, <2>3, <2>4, AddExact DEF h
  <2> QED BY <1>0, <1>1, <1>2, <1>3, <2>1, <2>5 DEF s, open
<1>4. CASE mw # open
  <2> DEFINE x == l.sum + (mw + W - ms)
             nr == (open - ms) \div W
             first == open - nr * W
             l1 == add_to_task_demand(l, q, first - ms)
             closed == update_history(l1, p, l1.sum, 1)
             filled == update_history(closed, p, W, nr)
  <2>0. mw < open /\ ms < open
    BY <1>1, <1>4
  <2>1. /\ r = t - open
        /\ FilledUp(h, x, mw + W, open, rh)
    BY <1>0, <2>0 DEF Counted
  <2>2. PICK k \in Nat : open = mw + W + k * W /\ rh = Shift(Push(h, x), W, k)
    BY <2>1 DEF FilledUp
  <2>3. scale_exec_time(W, q) = W
    BY <1>1
  <2>4. s = add_to_task_demand(filled, q, t - open)
    BY <1>0, <2>0, <2>3 DEF update_task_demand
  <2>5. h \in Histories
    BY <1>0, HistoryType
  <2> HIDE DEF mw, open, s, h
  <2>6. TaskOK(filled, t) /\ filled.sum = 0 /\ History(filled) = rh
    <3>1. CASE ms = mw
      <4>1. l.sum = 0 /\ x = W
        BY <1>0, <1>1, <1>2, <3>1
      <4>2. open - ms = (k + 1) * W + 0 /\ (k + 1) * W = W + k * W /\ k * W \in Nat
        BY <1>0, <1>1, <2>2, <3>1
      <4>3. nr = k + 1
        BY <1>1, <4>2, Quotient
      <4> HIDE DEF nr
      <4>4. first - ms = 0
        BY <1>0, <1>1, <2>2, <3>1, <4>2, <4>3
      <4> HIDE DEF first
      <4>5. scale_exec_time(0, q) = 0
        OBVIOUS
      <4>6. TaskOK(l1, t) /\ l1 \in LseTask /\ l1.sum = 0 /\ History(l1) = h
        BY <1>0, <1>1, <4>1, <4>4, <4>5, AddExact DEF h
      <4> HIDE DEF l1
      <4>7. closed = l1
        BY <4>6 DEF update_history
      <4> HIDE DEF closed
      <4>8. TaskOK(filled, t)
        BY <1>0, <1>1, <4>3, <4>6, <4>7, HistoryKeeps
      <4>9. filled.sum = 0 /\ History(filled) = Shift(h, W, k + 1)
        BY <1>0, <1>1, <4>3, <4>6, <4>7, RingShift
      <4>10. rh = Shift(h, W, k + 1)
        <5>1. Push(h, x) = Shift(h, W, 1)
          BY <1>1, <2>5, <4>1, PushShift
        <5>2. Shift(Shift(h, W, 1), W, k) = Shift(h, W, 1 + k)
          BY <1>1, <2>5, ShiftShift
        <5> QED BY <2>2, <5>1, <5>2
      <4> HIDE DEF filled
      <4> QED BY <4>8, <4>9, <4>10
    <3>2. CASE ms # mw
      <4>1. /\ mw + W - ms \in 0 .. W - 1 /\ mw + W - ms \in Nat
            /\ x \in Nat /\ x # 0 /\ x <= W
        BY <1>0, <1>1, <1>2, <3>2
      <4>2. open - ms = k * W + (mw + W - ms) /\ k * W \in Nat
        BY <1>0, <1>1, <2>2
      <4>3. nr = k
        <5> DEFINE b == mw + W - ms
        <5>1. W \in Nat \ {0} /\ b \in 0 .. W - 1
          BY <1>1, <4>1
        <5> HIDE DEF b
        <5>2. (k * W + b) \div W = k
          BY <5>1, Quotient
        <5> QED BY <4>2, <5>2 DEF b
      <4> HIDE DEF nr
      <4>4. first - ms = mw + W - ms
        BY <1>0, <1>1, <2>2, <4>2, <4>3
      <4> HIDE DEF first
      <4>5. scale_exec_time(first - ms, q) = first - ms
        BY <4>1, <4>4
      <4>6. TaskOK(l1, t) /\ l1 \in LseTask /\ l1.sum = x /\ History(l1) = h
        BY <1>0, <4>1, <4>4, <4>5, AddExact DEF h
      <4> HIDE DEF l1, x
      <4>7. TaskOK(closed, t) /\ closed \in LseTask
        <5>1. 1 \in Nat /\ x <= MaxWindow
          BY <1>0, <4>1
        <5>2. TaskOK(closed, t)
          BY <4>1, <4>6, <5>1, HistoryKeeps
        <5> QED BY <5>2 DEF TaskOK
      <4>8. closed.sum = 0 /\ History(closed) = Push(h, x)
        BY <1>0, <4>1, <4>6, RingPush
      <4> HIDE DEF closed
      <4>9. TaskOK(filled, t)
        BY <1>0, <1>1, <4>3, <4>7, HistoryKeeps
      <4>10. filled.sum = 0 /\ History(filled) = Shift(Push(h, x), W, k)
        BY <1>0, <1>1, <4>3, <4>7, <4>8, RingShift
      <4> HIDE DEF filled
      <4> QED BY <2>2, <4>9, <4>10
    <3> QED BY <3>1, <3>2
  <2> HIDE DEF filled
  <2>7. t - open \in Nat /\ filled.sum + (t - open) <= W
    BY <1>0, <1>1, <2>6
  <2>8. scale_exec_time(t - open, q) = t - open
    BY <2>7
  <2>9. s \in LseTask /\ s.sum = 0 + (t - open) /\ History(s) = rh
    BY <1>0, <2>4, <2>6, <2>7, <2>8, AddExact
  <2> QED BY <1>1, <2>1, <2>7, <2>9 DEF s, open
<1> QED BY <1>3, <1>4

\* The update that ends a sleep closes the window in which it began.
LEMMA SleepingDemand ==
  ASSUME FixedRate, Context, NEW t \in Nat, t >= 1, NEW l, TaskOK(l, t),
         l.mark_start # 0, NEW q, q.window_start = OpenAt(t),
         NEW c, NEW p, p \notin IdleTasks,
         NEW r, NEW rh, Counted(l, t, FALSE, r, rh)
  PROVE  LET s == update_task_demand(l, q, c, p, "PICK_NEXT_TASK", t)
         IN  s \in LseTask /\ s.sum = r /\ History(s) = rh /\ r <= t - OpenAt(t)
<1> DEFINE ms == l.mark_start
           mw == OpenAt(ms)
           open == OpenAt(t)
           s == update_task_demand(l, q, c, p, "PICK_NEXT_TASK", t)
<1>0. /\ l \in LseTask /\ l.sum \in Nat /\ ms \in Nat /\ ms >= 1 /\ ms <= t
      /\ l.sum <= MaxWindow
  BY DEF TaskOK, LseTask
<1>1. /\ mw \in Nat /\ mw <= ms /\ open \in Nat /\ open <= t
      /\ mw = open \/ mw < open
      /\ ms < open <=> mw < open
  <2> DEFINE W == InitWindow
  <2>1. /\ W \in Nat /\ W >= 1
        /\ mw \in Nat /\ mw <= ms /\ open \in Nat /\ open <= t
        /\ mw = open \/ mw + W <= open
        /\ ms < open <=> mw < open
    BY <1>0, MarkedWindow
  <2> HIDE DEF mw, open, W
  <2> QED BY <2>1
<1>2. l.sum <= ms - mw
  BY DEF Counted
<1>3. s = IF ms < open THEN update_history(l, p, l.sum, 1) ELSE l
  BY DEF update_task_demand, account_busy_for_task_demand
<1>4. CASE mw = open
  <2>1. r = l.sum + 0 /\ rh = History(l)
    BY <1>4 DEF Counted
  <2> HIDE DEF s, mw, open
  <2> QED BY <1>0, <1>1, <1>2, <1>3, <1>4, <2>1 DEF s, open
<1>5. CASE mw < open
  <2>1. r = 0 /\ rh = Push(History(l), l.sum)
    BY <1>5 DEF Counted
  <2> HIDE DEF mw, open
  <2>2. s = update_history(l, p, l.sum, 1)
    BY <1>1, <1>3, <1>5
  <2> HIDE DEF s
  <2>3. s \in LseTask
    <3>1. TaskOK(s, t)
      BY <1>0, <2>2, HistoryKeeps
    <3> QED BY <3>1 DEF TaskOK
  <2>4. History(s) = rh /\ s.sum = 0
    BY <1>0, <2>1, <2>2, RingPush
  <2> QED BY <1>1, <2>1, <2>3, <2>4 DEF s, open
<1> QED BY <1>1, <1>4, <1>5

\* update_window_start opens the window of the present.
LEMMA WindowOpens ==
  ASSUME FixedRate, Context, NEW t \in Nat, t >= 1, NEW q, QueueOK(q, t),
         OnGrid(q.window_start)
  PROVE  update_window_start(q, t).window_start = OpenAt(t)
<1> DEFINE W == lse_sched_ravg_window
           ws == q.window_start
           r == update_window_start(q, t)
<1>0. W = InitWindow /\ ws \in Nat /\ ws <= t /\ W \in Nat /\ q \in LseRq
  BY Sizes DEF Context, FixedRate, QueueOK, LseRq
<1>1. /\ QueueOK(r, t) /\ t < r.window_start + W
      /\ t < ws + W => r = [q EXCEPT !.latest_clock = t]
      /\ t >= ws + W => \E n \in Nat : r.window_start = ws + n * W
  BY WindowStart DEF Context
<1> HIDE DEF r
<1>2. r.window_start <= t
  BY <1>1 DEF QueueOK
<1>3. OnGrid(r.window_start)
  <2>1. CASE t < ws + W
    <3>1. r.window_start = ws
      BY <1>0, <1>1, <2>1 DEF LseRq
    <3> QED BY <3>1
  <2>2. CASE t >= ws + W
    <3>1. PICK n \in Nat : r.window_start = ws + n * W
      BY <1>1, <2>2
    <3>2. OnGrid(ws + n * InitWindow)
      BY GridSteps
    <3> QED BY <1>0, <3>1, <3>2
  <2> QED BY <1>0, <2>1, <2>2
<1> QED BY <1>0, <1>1, <1>2, <1>3, OpenWindow DEF r

\* An update of a task that runs, or the pick of one that does not, makes its
\* counters the time it really ran.
LEMMA RavgSettles ==
  ASSUME FixedRate, Context, slim_walt_ctrl, NEW t \in Nat, t >= 1,
         NEW l, TaskOK(l, t), NEW q, QueueOK(q, t), OnGrid(q.window_start),
         NEW c \in CPU, NEW p, p \notin IdleTasks, NEW event, NEW r, NEW rh,
         \/ Counted(l, t, TRUE, r, rh) /\ account_busy_for_task_demand(c, p, event)
         \/ Counted(l, t, FALSE, r, rh) /\ event = "PICK_NEXT_TASK"
  PROVE  Settled(lse_update_task_ravg(l, q, c, p, event, t)[2], t, r, rh)
<1> DEFINE ms == l.mark_start
           q1 == update_window_start(q, t)
           q2 == update_task_rq_cpu_cycles(q1, c)
           q3 == update_cpu_busy_time(l, q2, p, event, t)
           l2 == update_task_demand(l, q2, c, p, event, t)
           res == lse_update_task_ravg(l, q, c, p, event, t)
           Mark(s) == [s EXCEPT !.mark_start = t, !.window_start = q1.window_start]
<1>0. /\ l \in LseTask /\ ms \in Nat /\ l.sum \in Nat /\ q.window_start # 0
      /\ OpenAt(t) \in Nat /\ OpenAt(t) <= t
  BY OpenWindow DEF TaskOK, LseTask, QueueOK
<1>1. /\ ms = t => res = <<q, l>>
      /\ ms # t /\ ms = 0 => res = <<q1, Mark(l)>>
      /\ ms # t /\ ms # 0 => res = <<q3, Mark(l2)>>
  BY <1>0 DEF lse_update_task_ravg
<1>2. ASSUME NEW s \in LseTask
      PROVE  /\ Mark(s).mark_start = t /\ Mark(s).sum = s.sum
             /\ History(Mark(s)) = History(s)
  <2>1. /\ Mark(s).mark_start = t /\ Mark(s).sum = s.sum
        /\ Mark(s).cidx = s.cidx /\ Mark(s).sum_history = s.sum_history
    BY DEF LseTask
  <2> HIDE DEF Mark
  <2> QED BY <2>1 DEF History
<1>3. CASE ms = t
  <2>1. res[2] = l
    BY <1>1, <1>3
  <2>2. r = l.sum + 0 /\ rh = History(l) /\ l.sum <= t - OpenAt(t)
    <3>1. t # 0 /\ t - t = 0
      OBVIOUS
    <3> QED BY <1>3, <3>1 DEF Counted
  <2> HIDE DEF res
  <2> QED BY <1>0, <1>3, <2>1, <2>2 DEF Settled, res
<1>4. CASE ms # t /\ ms = 0
  <2>1. res[2] = Mark(l)
    BY <1>1, <1>4
  <2>2. r = 0 /\ l.sum = 0 /\ rh = History(l)
    BY <1>4 DEF Counted
  <2> HIDE DEF res, Mark
  <2> QED BY <1>0, <1>2, <2>1, <2>2 DEF Settled, res
<1>5. CASE ms # t /\ ms # 0
  <2>1. res[2] = Mark(l2)
    BY <1>1, <1>5
  <2>2. QueueOK(q1, t) /\ q1.window_start = OpenAt(t)
    BY WindowOpens, WindowStart DEF Context
  <2> HIDE DEF q1
  <2>3. QueueOK(q2, t) /\ q2.window_start = OpenAt(t)
    BY <2>2, CyclesKeep DEF Context
  <2>4. \A d \in Nat : scale_exec_time(d, q2) = d
    BY <2>2, ExactScale DEF Context
  <2> HIDE DEF q2
  <2>5. l2 \in LseTask /\ l2.sum = r /\ History(l2) = rh /\ r <= t - OpenAt(t)
    <3>1. CASE Counted(l, t, TRUE, r, rh) /\ account_busy_for_task_demand(c, p, event)
      BY <1>5, <2>3, <2>4, <3>1, RunningDemand
    <3>2. CASE Counted(l, t, FALSE, r, rh) /\ event = "PICK_NEXT_TASK"
      BY <1>5, <2>3, <3>2, SleepingDemand
    <3> QED BY <3>1, <3>2
  <2> HIDE DEF l2, res, Mark
  <2> QED BY <1>2, <2>1, <2>5 DEF Settled, res
<1> QED BY <1>3, <1>4, <1>5

\* A tick of the clock: what the counters say of a task goes on being true of
\* the time it ran and of its history.
LEMMA TickCounts ==
  ASSUME NEW t \in Nat, t >= 1, NEW l, TaskOK(l, t), NEW on \in BOOLEAN,
         NEW r \in Nat, NEW rh \in Histories, Counted(l, t, on, r, rh)
  PROVE  LET more == IF on /\ l.mark_start # 0 THEN r + 1 ELSE r
             boundary == (t + 1 - FirstWindow) % InitWindow = 0
         IN  /\ boundary => Counted(l, t + 1, on, 0, Push(rh, more))
             /\ ~boundary => Counted(l, t + 1, on, more, rh)
<1> DEFINE W == InitWindow
           h == History(l)
           ms == l.mark_start
           mw == OpenAt(ms)
           open == OpenAt(t)
           new == OpenAt(t + 1)
           more == IF on /\ ms # 0 THEN r + 1 ELSE r
           boundary == (t + 1 - FirstWindow) % InitWindow = 0
<1>0. ms \in Nat /\ ms <= t /\ l.sum \in Nat /\ h \in Histories
  BY HistoryType DEF TaskOK, LseTask
<1>1. /\ boundary => new = t + 1 /\ new = open + W
      /\ ~boundary => new = open
  BY NextWindow
<1>2. CASE ms = 0
  <2>1. more = 0 /\ l.sum = 0 /\ rh = h /\ r = 0
    BY <1>2 DEF Counted
  <2>2. Push(rh, 0) = rh
    BY DEF Push
  <2> QED BY <1>2, <2>1, <2>2 DEF Counted
<1>3. CASE ms # 0
  <2>0. /\ W \in Nat /\ W >= 1
        /\ mw \in Nat /\ mw <= ms /\ ms < mw + W
        /\ open \in Nat /\ open <= t /\ t < open + W
        /\ mw = open \/ mw + W <= open
    BY <1>0, <1>3, MarkedWindow
  <2>1. /\ l.sum <= ms - mw
        /\ mw = open => r = l.sum + (IF on THEN t - ms ELSE 0) /\ rh = h
        /\ mw < open => r = IF on THEN t - open ELSE 0
        /\ mw < open /\ ~on => rh = Push(h, l.sum)
        /\ mw < open /\ on => FilledUp(h, l.sum + (mw + W - ms), mw + W, open, rh)
    BY <1>3 DEF Counted
  <2>2. more = IF on THEN r + 1 ELSE r
    BY <1>3
  <2> HIDE DEF mw, open, new, more, boundary, h
  <2>3. CASE ~boundary
    <3>1. new = open
      BY <1>1, <2>3
    <3>2. mw = open => more = l.sum + (IF on THEN t + 1 - ms ELSE 0)
      BY <1>0, <2>0, <2>1, <2>2
    <3>3. mw < open => more = IF on THEN t + 1 - open ELSE 0
      BY <1>0, <2>0, <2>1, <2>2
    <3>4. Counted(l, t + 1, on, more, rh)
      BY <1>0, <1>3, <2>0, <2>1, <3>1, <3>2, <3>3 DEF Counted, mw, new, h
    <3> QED BY <2>3, <3>4 DEF more, boundary
  <2>4. CASE boundary
    <3> DEFINE x == l.sum + (mw + W - ms)
               to == Push(rh, more)
    <3>1. /\ new = t + 1 /\ new = open + W /\ mw < new /\ mw # new
          /\ 0 = IF on THEN t + 1 - new ELSE 0
      BY <1>1, <2>0, <2>4
    <3>2. x \in Nat
      BY <1>0, <2>0
    <3>3. ~on => to = Push(h, l.sum)
      <4> SUFFICES ASSUME ~on PROVE to = Push(h, l.sum)
        OBVIOUS
      <4>1. CASE mw = open
        BY <1>0, <2>1, <2>2, <4>1
      <4>2. CASE mw # open
        <5>1. mw < open
          BY <2>0, <4>2
        <5>2. more = 0 /\ rh = Push(h, l.sum)
          BY <2>1, <2>2, <5>1
        <5> QED BY <5>2 DEF Push
      <4> QED BY <4>1, <4>2
    <3>4. on => FilledUp(h, x, mw + W, new, to)
      <4> SUFFICES ASSUME on PROVE FilledUp(h, x, mw + W, new, to)
        OBVIOUS
      <4>0. Push(h, x) \in Histories
        BY <1>0, <3>2, PushShift
      <4>1. CASE mw = open
        <5>1. more = x /\ rh = h
          BY <1>0, <2>0, <2>1, <2>2, <3>1, <4>1
        <5>2. Shift(Push(h, x), W, 0) = Push(h, x)
          BY <2>0, <4>0, ShiftShift
        <5>3. new = mw + W + 0 * W
          BY <2>0, <3>1, <4>1
        <5> HIDE DEF x
        <5> QED BY <5>1, <5>2, <5>3 DEF FilledUp
      <4>2. CASE mw # open
        <5>1. mw < open
          BY <2>0, <4>2
        <5>2. PICK k \in Nat : /\ open = mw + W + k * W
                               /\ rh = Shift(Push(h, x), W, k)
          BY <2>1, <5>1 DEF FilledUp
        <5>3. more = W
          BY <2>0, <2>1, <2>2, <3>1, <5>1
        <5> HIDE DEF x
        <5>4. to = Shift(Push(h, x), W, k + 1)
          <6>1. to = Shift(rh, W, 1)
            BY <2>0, <5>3, PushShift
          <6>2. Shift(Shift(Push(h, x), W, k), W, 1) = Shift(Push(h, x), W, k + 1)
            BY <2>0, <4>0, ShiftShift
          <6> QED BY <5>2, <6>1, <6>2
        <5>5. new = mw + W + (k + 1) * W
          <6>1. (k + 1) * W = k * W + W /\ k * W \in Nat
            BY <2>0
          <6> QED BY <2>0, <3>1, <5>2, <6>1
        <5> HIDE DEF to
        <5> QED BY <5>4, <5>5 DEF FilledUp
      <4> QED BY <4>1, <4>2
    <3> HIDE DEF to
    <3>5. Counted(l, t + 1, on, 0, to)
      BY <1>3, <2>1, <3>1, <3>3, <3>4 DEF Counted, mw, new, h
    <3> QED BY <2>4, <3>5 DEF more, boundary, to
  <2> QED BY <2>3, <2>4
<1> QED BY <1>2, <1>3

-----------------------------------------------------------------------------
\* The inductive invariant of the times of the tasks.
OnCpu(p) == \E c \in CPU : curr[c] = p
TaskExact(p) == Counted(lts[p], clock, OnCpu(p), ran[p], ran_hist[p])
HistInv == /\ ran \in [Tasks -> Nat]
           /\ ran_hist \in [Tasks -> Histories]
           /\ \A p \in Tasks : TaskExact(p)

\* A task that is not idle has counters, in order.
LEMMA TaskFacts ==
  ASSUME IInv, HistInv, NEW p \in Tasks
  PROVE  /\ p \in AllTasks /\ p \notin IdleTasks /\ TaskOK(lts[p], clock)
         /\ ran[p] \in Nat /\ ran_hist[p] \in Histories
         /\ OnCpu(p) \in BOOLEAN
         /\ OnCpu(p) => Counted(lts[p], clock, TRUE, ran[p], ran_hist[p])
         /\ ~OnCpu(p) => Counted(lts[p], clock, FALSE, ran[p], ran_hist[p])
<1>1. p \in AllTasks /\ p \notin IdleTasks
  BY ChoiceAssumption DEF AllTasks
<1>2. Counted(lts[p], clock, OnCpu(p), ran[p], ran_hist[p])
  BY DEF HistInv, TaskExact
<1>3. OnCpu(p) \in BOOLEAN
  BY DEF OnCpu
<1>4. OnCpu(p) => Counted(lts[p], clock, TRUE, ran[p], ran_hist[p])
  BY <1>2 DEF Counted
<1>5. ~OnCpu(p) => Counted(lts[p], clock, FALSE, ran[p], ran_hist[p])
  BY <1>2 DEF Counted
<1> QED BY <1>1, <1>3, <1>4, <1>5 DEF IInv, CountersInv, HistInv

\* A step that takes no time: each task is left alone or its counters are made
\* the true ones.
LEMMA HookCounts ==
  ASSUME IInv, HistInv, clock' = clock, ran' = ran, ran_hist' = ran_hist,
         \A p \in Tasks :
           \/ lts'[p] = lts[p] /\ OnCpu(p)' = OnCpu(p)
           \/ Settled(lts'[p], clock, ran[p], ran_hist[p])
  PROVE  HistInv'
<1>1. ASSUME NEW p \in Tasks PROVE TaskExact(p)'
  <2>1. CASE lts'[p] = lts[p] /\ OnCpu(p)' = OnCpu(p)
    <3>1. TaskExact(p)
      BY DEF HistInv
    <3> QED BY <2>1, <3>1 DEF TaskExact
  <2>2. CASE Settled(lts'[p], clock, ran[p], ran_hist[p])
    <3>1. clock \in Nat /\ clock >= 1 /\ ran[p] \in Nat
      BY HookFacts, TaskFacts
    <3>2. OnCpu(p)' \in BOOLEAN
      BY DEF OnCpu
    <3>3. Counted(lts'[p], clock, OnCpu(p)', ran[p], ran_hist[p])
      BY <2>2, <3>1, <3>2, SettledCounts
    <3> QED BY <3>3 DEF TaskExact
  <2> QED BY <1>1, <2>1, <2>2
<1> QED BY <1>1 DEF HistInv, Histories

\* An update of the running task.
LEMMA CurrSettles ==
  ASSUME FixedRate, IInv, ExactInv, HistInv, NEW c \in CPU, curr[c] \in Tasks,
         NEW event \in {"PUT_PREV_TASK", "TASK_UPDATE"}
  PROVE  LET p == curr[c]
             r == lse_update_task_ravg(lts[p], lrq[c], c, p, event, clock)
         IN  Settled(r[2], clock, ran[p], ran_hist[p])
<1> DEFINE p == curr[c]
<1>1. /\ Context /\ slim_walt_ctrl /\ clock \in Nat /\ clock >= 1
      /\ QueueOK(lrq[c], clock) /\ OnGrid(lrq[c].window_start)
  BY HookFacts, ExactFacts
<1>2. OnCpu(p)
  BY DEF OnCpu
<1>3. /\ p \notin IdleTasks /\ TaskOK(lts[p], clock)
      /\ Counted(lts[p], clock, TRUE, ran[p], ran_hist[p])
  BY <1>2, TaskFacts
<1>4. account_busy_for_task_demand(c, p, event)
  BY <1>3 DEF account_busy_for_task_demand
<1> QED BY <1>1, <1>3, <1>4, RavgSettles

\* lse_schedule settles the task that stops and the one that starts.
LEMMA ScheduleCounts ==
  ASSUME FixedRate, IInv, ExactInv, HistInv, NEW c \in CPU, NEW next \in AllTasks,
         lse_schedule(c, next)
  PROVE  HistInv'
<1> DEFINE prev == curr[c]
           put == lse_update_task_ravg(lts[prev], lrq[c], c, prev,
                                       "PUT_PREV_TASK", clock)
           pick == lse_update_task_ravg(lts[next], put[1], c, next,
                                        "PICK_NEXT_TASK", clock)
           same == lse_update_task_ravg(lts[prev], lrq[c], c, prev,
                                        "TASK_UPDATE", clock)
           True(l, p) == Settled(l, clock, ran[p], ran_hist[p])
<1>1. /\ Context /\ clock \in Nat /\ clock >= 1 /\ prev \in AllTasks
      /\ lts \in [AllTasks -> LseTask] /\ curr \in [CPU -> AllTasks]
      /\ slim_walt_ctrl
  BY HookFacts, ExactFacts
<1>2. /\ clock' = clock /\ ran' = ran /\ ran_hist' = ran_hist
      /\ curr' = [curr EXCEPT ![c] = next]
      /\ \A d \in CPU \ {c} : curr[d] # next
  BY DEF lse_schedule, truth
<1>3. ASSUME NEW p \in Tasks
      PROVE  \/ lts'[p] = lts[p] /\ OnCpu(p)' = OnCpu(p)
             \/ True(lts'[p], p)
  <2>0. p \in AllTasks /\ p \notin IdleTasks
    BY TaskFacts
  <2>1. CASE p # prev /\ p # next
    <3>1. lts'[p] = lts[p]
      BY <1>1, <2>0, <2>1 DEF lse_schedule
    <3>2. OnCpu(p)' = OnCpu(p)
      <4>1. \A d \in CPU : curr'[d] = p <=> curr[d] = p
        BY <1>1, <1>2, <2>1
      <4> QED BY <4>1 DEF OnCpu
    <3> QED BY <3>1, <3>2
  <2>2. CASE p = prev /\ prev = next
    <3>1. lts'[p] = same[2]
      BY <1>1, <2>2 DEF lse_schedule
    <3>2. True(same[2], p)
      BY <2>2, CurrSettles
    <3> HIDE DEF same, True
    <3> QED BY <3>1, <3>2
  <2>3. CASE p = prev /\ prev # next
    <3>1. lts'[p] = put[2]
      BY <1>1, <2>3 DEF lse_schedule
    <3>2. True(put[2], p)
      BY <2>3, CurrSettles
    <3> HIDE DEF put, True
    <3> QED BY <3>1, <3>2
  <2>4. CASE p = next /\ prev # next
    <3>1. lts'[p] = pick[2]
      BY <1>1, <2>4 DEF lse_schedule
    <3>2. QueueOK(put[1], clock) /\ put[1].window_start = OpenAt(clock)
      BY UpdateExact
    <3>3. OnGrid(OpenAt(clock))
      BY <1>1, OpenWindow
    <3>4. ~OnCpu(next)
      BY <1>2, <2>4 DEF OnCpu
    <3>5. /\ TaskOK(lts[next], clock)
          /\ Counted(lts[next], clock, FALSE, ran[next], ran_hist[next])
      BY <2>4, <3>4, TaskFacts
    <3> HIDE DEF put
    <3>6. True(pick[2], next)
      BY <1>1, <2>0, <2>4, <3>2, <3>3, <3>5, RavgSettles
    <3> HIDE DEF pick, True
    <3> QED BY <2>4, <3>1, <3>6
  <2> QED BY <2>1, <2>2, <2>3, <2>4
<1> QED BY <1>2, <1>3, HookCounts

\* So does an update of the running task.
LEMMA UpdateCurrCounts ==
  ASSUME FixedRate, IInv, ExactInv, HistInv, NEW c \in CPU, UpdateCurr(c),
         clock' = clock, curr' = curr, ran' = ran, ran_hist' = ran_hist
  PROVE  HistInv'
<1> DEFINE cp == curr[c]
           r == lse_update_task_ravg(lts[cp], lrq[c], c, cp, "TASK_UPDATE", clock)
<1>1. cp \in AllTasks /\ lts \in [AllTasks -> LseTask]
  BY HookFacts
<1>2. lts' = [lts EXCEPT ![cp] = r[2]]
  BY DEF UpdateCurr
<1>3. ASSUME NEW p \in Tasks
      PROVE  \/ lts'[p] = lts[p] /\ OnCpu(p)' = OnCpu(p)
             \/ Settled(lts'[p], clock, ran[p], ran_hist[p])
  <2>0. p \in AllTasks
    BY TaskFacts
  <2>1. CASE p # cp
    <3>1. lts'[p] = lts[p]
      BY <1>1, <1>2, <2>0, <2>1
    <3> QED BY <3>1 DEF OnCpu
  <2>2. CASE p = cp
    <3>1. Settled(r[2], clock, ran[p], ran_hist[p])
      BY <2>2, CurrSettles
    <3> HIDE DEF r
    <3>2. lts'[p] = r[2]
      BY <1>1, <1>2, <2>2
    <3> QED BY <3>1, <3>2
  <2> QED BY <2>1, <2>2
<1> QED BY <1>3, HookCounts

\* A tick of the clock.
LEMMA TickTimes ==
  ASSUME IInv, HistInv, Tick
  PROVE  HistInv'
<1> DEFINE boundary == (clock + 1 - FirstWindow) % InitWindow = 0
           r == [p \in Tasks |-> ran[p] + One(Runs(p))]
<1>1. /\ clock' = clock + 1 /\ lts' = lts /\ curr' = curr
      /\ clock \in Nat /\ clock >= 1
      /\ boundary => /\ ran_hist' = [p \in Tasks |-> Push(ran_hist[p], r[p])]
                     /\ ran' = [p \in Tasks |-> 0]
      /\ ~boundary => ran' = r /\ ran_hist' = ran_hist
  BY HookFacts DEF Tick, codeVars
<1>2. ASSUME NEW p \in Tasks
      PROVE  /\ r[p] \in Nat
             /\ r[p] = IF OnCpu(p) /\ lts[p].mark_start # 0 THEN ran[p] + 1 ELSE ran[p]
  <2>1. Runs(p) <=> OnCpu(p) /\ lts[p].mark_start # 0
    BY DEF Runs, OnCpu
  <2>2. ran[p] \in Nat
    BY TaskFacts
  <2> QED BY <2>1, <2>2 DEF One
<1> HIDE DEF r, boundary
<1>3. ran' \in [Tasks -> Nat] /\ ran_hist' \in [Tasks -> Histories]
  <2>1. \A p \in Tasks : Push(ran_hist[p], r[p]) \in Histories
    BY <1>2, TaskFacts, PushShift
  <2>2. r \in [Tasks -> Nat]
    BY <1>2 DEF r
  <2> QED BY <1>1, <2>1, <2>2 DEF HistInv
<1>4. ASSUME NEW p \in Tasks PROVE TaskExact(p)'
  <2> DEFINE l == lts[p]
  <2>1. /\ TaskOK(l, clock) /\ ran[p] \in Nat /\ ran_hist[p] \in Histories
        /\ OnCpu(p) \in BOOLEAN
        /\ Counted(l, clock, OnCpu(p), ran[p], ran_hist[p])
    BY TaskFacts DEF HistInv, TaskExact
  <2>2. /\ boundary => Counted(l, clock + 1, OnCpu(p), 0, Push(ran_hist[p], r[p]))
        /\ ~boundary => Counted(l, clock + 1, OnCpu(p), r[p], ran_hist[p])
    BY <1>1, <1>2, <2>1, TickCounts DEF boundary
  <2>3. Counted(l, clock + 1, OnCpu(p), ran'[p], ran_hist'[p])
    BY <1>1, <2>2
  <2>4. OnCpu(p)' = OnCpu(p)
    BY <1>1 DEF OnCpu
  <2> QED BY <1>1, <2>3, <2>4 DEF TaskExact
<1> QED BY <1>3, <1>4 DEF HistInv, Histories

\* At the start no task has been counted and none has run.
LEMMA HistInit ==
  ASSUME Init
  PROVE  HistInv
<1>1. ran \in [Tasks -> Nat] /\ \A p \in Tasks : ran[p] = 0
  BY DEF Init
<1>2. ran_hist \in [Tasks -> Histories]
  BY DEF Init, Histories
<1>3. ASSUME NEW p \in Tasks PROVE TaskExact(p)
  <2>1. /\ lts[p].mark_start = 0 /\ lts[p].sum = 0 /\ lts[p].cidx = 0
        /\ lts[p].sum_history = [i \in HistIdx |-> 0]
    BY DEF Init, AllTasks
  <2>2. History(lts[p]) = ran_hist[p]
    <3> DEFINE R == RAVG_HIST_SIZE
    <3>1. ASSUME NEW i \in 1 .. R PROVE (0 + i - 1) % R \in HistIdx
      <4>1. R \in Nat \ {0} /\ 0 + i - 1 \in Int
        BY Sizes
      <4> QED BY <4>1, Remainder DEF HistIdx
    <3>2. ran_hist[p] = [i \in 1 .. R |-> 0]
      BY DEF Init
    <3> QED BY <2>1, <3>1, <3>2 DEF History
  <2> QED BY <1>1, <2>1, <2>2 DEF TaskExact, Counted
<1> QED BY <1>1, <1>2, <1>3 DEF HistInv

\* Every hook and every tick of the clock keeps the times of the tasks exact.
LEMMA HistNext ==
  ASSUME FixedRate, IInv, ExactInv, HistInv, [Next]_vars
  PROVE  HistInv'
<1>1. ASSUME NEW c \in CPU, NEW next \in Tasks \cup {Idle(c)}, lse_schedule(c, next)
      PROVE  HistInv'
  <2>1. next \in AllTasks
    BY DEF AllTasks, IdleTasks
  <2> QED BY <1>1, <2>1, ScheduleCounts
<1>2. ASSUME NEW c \in CPU,
             \/ lse_tick_entry(c)
             \/ lse_shadow_tick_cb(c)
             \/ \E w \in Windows : lse_irq_work(c, w)
      PROVE  HistInv'
  <2>1. /\ UpdateCurr(c) /\ clock' = clock /\ curr' = curr
        /\ ran' = ran /\ ran_hist' = ran_hist
    BY <1>2 DEF lse_tick_entry, lse_shadow_tick_cb, lse_irq_work, truth
  <2> QED BY <2>1, UpdateCurrCounts
<1>3. CASE Tick
  BY <1>3, TickTimes
<1>4. ASSUME \/ \E c \in CPU, f \in Freqs : SetFreq(c, f)
             \/ \E s \in Policies : SetPolicy(s)
             \/ \E b \in Controls : SetControl(b)
             \/ UNCHANGED vars
      PROVE  HistInv'
  <2>1. /\ clock' = clock /\ curr' = curr /\ lts' = lts
        /\ ran' = ran /\ ran_hist' = ran_hist
    BY <1>4 DEF SetFreq, SetPolicy, SetControl, vars, codeVars, truth
  <2>2. \A p \in Tasks : OnCpu(p)' = OnCpu(p)
    BY <2>1 DEF OnCpu
  <2> QED BY <2>1, <2>2, HookCounts
<1> QED BY <1>1, <1>2, <1>3, <1>4 DEF Next

\* With one window size, full frequency and tracking on, the running sum of a
\* task is the time it really ran in the open window and its ring holds its
\* last non-empty windows, on whichever CPUs it ran.
THEOREM TaskTimesExact ==
  ASSUME FixedRate
  PROVE  Spec => []TaskHistoryExact
<1>1. IInv /\ HistInv => TaskHistoryExact
  <2> SUFFICES ASSUME IInv, HistInv, NEW p \in Tasks, lts[p].mark_start = clock
               PROVE  lts[p].sum = ran[p] /\ History(lts[p]) = ran_hist[p]
    BY DEF TaskHistoryExact
  <2>1. clock \in Nat /\ clock >= 1
    BY HookFacts
  <2>2. lts[p].sum \in Nat
    BY TaskFacts DEF TaskOK, LseTask
  <2>3. Counted(lts[p], clock, OnCpu(p), ran[p], ran_hist[p])
    BY DEF HistInv, TaskExact
  <2>4. ran[p] = lts[p].sum + (IF OnCpu(p) THEN clock - clock ELSE 0)
        /\ ran_hist[p] = History(lts[p])
    BY <2>1, <2>3 DEF Counted
  <2> QED BY <2>1, <2>2, <2>4
<1>2. Init => ExactInv /\ HistInv
  BY ExactInit, HistInit
<1>3. IInv /\ IInv' /\ ExactInv /\ HistInv /\ [Next]_vars => ExactInv' /\ HistInv'
  BY ExactNext, HistNext
<1> QED BY <1>1, <1>2, <1>3, Invariance, PTL DEF Spec
=============================================================================
