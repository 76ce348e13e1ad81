------------------------------- MODULE Mlfqs -------------------------------
(* The multi-level feedback scheduler: threads/thread.c with thread_mlfqs    *)
(* set, fixed-point.h, and the timer interrupt that drives it.  Numbers are  *)
(* fixed point as in the code, with F units to one; a second, a minute and   *)
(* the range of priorities are as short as the constants say.                *)
EXTENDS Integers, KernelLists

CONSTANTS Workers,       \* threads that come and go
          Nice,          \* values given to thread_set_nice
          F,             \* fixed-point units (1 << 14)
          TIMER_FREQ,    \* ticks in a second (100)
          RECALCU_FREQ,  \* ticks between two updates of the running thread (4)
          TIME_SLICE,    \* ticks before threads of one priority take turns (4)
          Minute,        \* seconds load_avg looks back (60)
          PRI_DEFAULT, PRI_MAX

Idle == "idle"
PRI_MIN == 0

\* There are finitely many pages for threads and finitely many values of int.
ASSUME MlfqsAssumption ==
  /\ IsFiniteSet(Workers) /\ Idle \notin Workers
  /\ \A n \in {F, TIMER_FREQ, RECALCU_FREQ, TIME_SLICE, Minute} : n \in Nat \ {0}
  /\ PRI_MAX \in Nat /\ PRI_DEFAULT \in PRI_MIN..PRI_MAX
  /\ Nice \subseteq Int /\ IsFiniteSet(Nice)

VARIABLES running,       \* the running thread, Idle when there is none
          ready,         \* ready_list
          alive,         \* all_list, without the idle thread
          prio, nice, recent_cpu, load_avg,
          mticks,        \* ticks, modulo the two periods
          slice          \* thread_ticks

mlfqsVars == <<running, ready, alive, prio, nice, recent_cpu, load_avg, mticks, slice>>

MlfqsInit ==
  /\ \E main \in Workers : running = main /\ alive = {main}
  /\ ready = <<>>
  /\ prio = [t \in Workers |-> PRI_DEFAULT]
  /\ nice = [t \in Workers |-> 0]
  /\ recent_cpu = [t \in Workers |-> 0]
  /\ load_avg = 0 /\ mticks = 0 /\ slice = 0

-----------------------------------------------------------------------------
(* Arithmetic: C division truncates towards zero.                            *)

division_mixed(x, n) == IF x >= 0 THEN x \div n ELSE -((-x) \div n)
multiply_float(x, y) == division_mixed(x * y, F)
division_float(x, y) == division_mixed(x * F, y)

mlfqs_calculate_load_avg(busy) ==
  multiply_float(division_mixed((Minute - 1) * F, Minute), load_avg)
    + division_mixed(busy * F, Minute)

mlfqs_calculation_recent_cpu_no_decay(cpu, n, load) == cpu + n * F
mlfqs_calculation_recent_cpu(cpu, n, load) ==
  multiply_float(division_float(2 * load, 2 * load + F), cpu) + n * F

Clamped(p) == IF p < PRI_MIN THEN PRI_MIN ELSE IF p > PRI_MAX THEN PRI_MAX ELSE p
mlfqs_calculate_priority(cpu, n) ==
  Clamped(division_mixed(PRI_MAX * F - division_mixed(cpu, 4) - 2 * n * F, F))

-----------------------------------------------------------------------------
(* The scheduler.                                                            *)

PrioOf(t, p) == IF t = Idle THEN PRI_MIN ELSE p[t]
runs_next(queue) == /\ running' = IF queue = <<>> THEN Idle ELSE Head(queue)
                    /\ ready' = IF queue = <<>> THEN <<>> ELSE Tail(queue)
                    /\ slice' = 0
\* Slip of the next: the running thread goes on, whoever is ready.
yields_to_itself(queue, p) ==
  runs_next(IF running = Idle THEN queue ELSE <<running>> \o queue)
\* thread_yield: behind the threads of its priority, by the order of the list.
yields(queue, p) ==
  runs_next(IF running = Idle THEN queue ELSE InsertOrdered(queue, running, p))
\* iscurrent_thread_has_max_priority, outside interrupt handlers.
preempts(queue, p) ==
  IF queue # <<>> /\ PrioOf(running, p) < p[Head(queue)] THEN yields(queue, p)
  ELSE ready' = queue /\ UNCHANGED <<running, slice>>

\* Every worker enters with the priority thread_create was given.
mlfqs_create(t) ==
  /\ running # Idle /\ t \in Workers \ alive
  /\ alive' = alive \cup {t}
  /\ prio' = [prio EXCEPT ![t] = PRI_DEFAULT]
  /\ nice' = [nice EXCEPT ![t] = 0] /\ recent_cpu' = [recent_cpu EXCEPT ![t] = 0]
  /\ preempts(InsertOrdered(ready, t, prio'), prio')
  /\ UNCHANGED <<load_avg, mticks>>

mlfqs_exit ==
  /\ running # Idle
  /\ alive' = alive \ {running}
  /\ runs_next(ready)
  /\ prio' = [prio EXCEPT ![running] = PRI_DEFAULT]
  /\ nice' = [nice EXCEPT ![running] = 0]
  /\ recent_cpu' = [recent_cpu EXCEPT ![running] = 0]
  /\ UNCHANGED <<load_avg, mticks>>

mlfqs_block ==
  /\ running # Idle
  /\ runs_next(ready)
  /\ UNCHANGED <<alive, prio, nice, recent_cpu, load_avg, mticks>>

\* sema_up, by the running thread or by an interrupt handler while none runs.
Blocked == { t \in alive : t # running /\ t \notin ToSet(ready) }
mlfqs_unblock(t) ==
  /\ t \in Blocked
  /\ preempts(InsertOrdered(ready, t, prio), prio)
  /\ UNCHANGED <<alive, prio, nice, recent_cpu, load_avg, mticks>>

thread_set_nice(n) ==
  /\ running # Idle
  /\ nice' = [nice EXCEPT ![running] = n]
  /\ prio' = [prio EXCEPT ![running] = mlfqs_calculate_priority(recent_cpu[running], n)]
  /\ preempts(ready, prio')
  /\ UNCHANGED <<alive, recent_cpu, load_avg, mticks>>

\* The running thread is charged a tick; every second load_avg, then every
\* thread's recent_cpu and priority; every few ticks the running thread's
\* priority; then it yields to the front of the list, or after its slice.
mlfqs_tick ==
  LET now == (mticks + 1) % (TIMER_FREQ * RECALCU_FREQ)
      second == now % TIMER_FREQ = 0
      charged == [t \in Workers |-> recent_cpu[t] + IF t = running THEN F ELSE 0]
      busy == Len(ready) + IF running = Idle THEN 0 ELSE 1
      updated == { t \in alive : second \/ (now % RECALCU_FREQ = 0 /\ t = running) }
      rank == PrioOf(running, prio')
  IN
  /\ mticks' = now
  /\ load_avg' = IF second THEN mlfqs_calculate_load_avg(busy) ELSE load_avg
  /\ recent_cpu' = [t \in Workers |->
       IF second /\ t \in alive
       THEN mlfqs_calculation_recent_cpu(charged[t], nice[t], load_avg') ELSE charged[t]]
  /\ prio' = [t \in Workers |-> IF t \in updated
       THEN mlfqs_calculate_priority(recent_cpu'[t], nice[t]) ELSE prio[t]]
  /\ IF ready = <<>> THEN UNCHANGED <<running, ready, slice>>
     ELSE IF rank < prio'[Head(ready)]
             \/ (slice + 1 >= TIME_SLICE /\ rank = prio'[Head(ready)])
     THEN yields(ready, prio')
     ELSE /\ slice' = (IF slice < TIME_SLICE THEN slice + 1 ELSE slice)
          /\ UNCHANGED <<running, ready>>
  /\ UNCHANGED <<alive, nice>>

MlfqsNext == \/ \E t \in Workers : mlfqs_create(t) \/ mlfqs_unblock(t)
             \/ mlfqs_exit \/ mlfqs_block \/ mlfqs_tick
             \/ \E n \in Nice : thread_set_nice(n)
MlfqsSpec == MlfqsInit /\ [][MlfqsNext]_mlfqsVars
\* The timer goes on ticking.
MlfqsFairness == WF_mlfqsVars(mlfqs_tick)

-----------------------------------------------------------------------------
W == Cardinality(Workers)
LowestNice == CHOOSE n \in Nice \cup {0} : \A m \in Nice \cup {0} : n <= m
HighestNice == CHOOSE n \in Nice \cup {0} : \A m \in Nice \cup {0} : m <= n

\* Priorities stay in their range however far recent_cpu and nice go
\* (thread.c:863-883).
MlfqsTypeOK ==
  /\ running \in alive \cup {Idle} /\ alive \subseteq Workers
  /\ ready \in Seq(alive \ {running}) /\ IsInjective(ready)
  /\ prio \in [Workers -> PRI_MIN..PRI_MAX]
  /\ nice \in [Workers -> Nice \cup {0}] /\ recent_cpu \in [Workers -> Int]
  /\ mticks \in 0..TIMER_FREQ * RECALCU_FREQ - 1 /\ slice \in 0..TIME_SLICE

\* load_avg never exceeds the number of threads, and the decay of recent_cpu
\* that it governs keeps recent_cpu within what the threads can be charged: no
\* sequence of calls and ticks makes the numbers grow without bound, so that
\* int is wide enough for them (thread.c:888-914).
LoadAvgBounded == 0 <= load_avg /\ load_avg <= W * F
RecentCpuBounded == \A t \in Workers :
  /\ recent_cpu[t] <= (TIMER_FREQ + HighestNice) * (2 * W + 1) * F
  /\ recent_cpu[t] >= LowestNice * (2 * W + 1) * F

\* Priorities stay in their range and the fixed-point numbers in theirs.
MlfqsSafe ==
  /\ MlfqsTypeOK /\ LoadAvgBounded /\ RecentCpuBounded

\* Among threads of one nice value nobody starves, although the ready list is
\* not sorted again when priorities change (timer.c:204-212, thread.c:920-930).
NoStarvation == \A t \in Workers :
  t \in ToSet(ready) ~> t \notin ToSet(ready) \/ \E u \in alive : nice[u] # nice[t]
=============================================================================
