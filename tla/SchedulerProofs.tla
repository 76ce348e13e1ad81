---------------------------- MODULE SchedulerProofs ----------------------------
(***************************************************************************)
(* Proofs about what the scheduler, the sleepers' list and priority        *)
(* donation promise to threads, for any number of threads, locks and       *)
(* semaphores.                                                             *)
(***************************************************************************)
EXTENDS ThreadSync_proofs

(* The types of the variables, one by one.                                 *)
LEMMA SchedulerTypes ==
    ASSUME LockInv
    PROVE  /\ cur \in AllThreads /\ (cur # idle_thread => cur \in Threads)
           /\ priority \in [AllThreads -> Nat] /\ initial_priority \in [AllThreads -> Nat]
           /\ ready_list \in Seq(Threads) /\ IsInjective(ready_list)
           /\ sleep_list \in Seq(Threads) /\ IsInjective(sleep_list)
           /\ ticks_left \in [AllThreads -> Int]
           /\ waiters \in [AllSemas -> Seq(Threads)]
           /\ pc \in [AllThreads -> PCs]
BY DEF LockInv, TypeInv, TypeOK, Queued, QueuedIn, AllThreads
-----------------------------------------------------------------------------
(* Sleeping threads.                                                       *)

(* The list is in the order of the ticks to wait, every thread in          *)
(* timer_sleep is on it, and only inside the handler may one be due.       *)
SleepInv ==
    /\ OrderedUpTo(sleep_list, compare_timeto_wakeup_ticks(ticks_left), {})
    /\ \A t \in ToSet(sleep_list) : ticks_left[t] >= (IF in_external_intr THEN 0 ELSE 1)
    /\ \A t \in Threads : pc[t] = "sleep" => t \in ToSet(sleep_list)

(* What a step can do to the sleepers.                                     *)
SleepAside ==
    /\ UNCHANGED sleepVars
    /\ \/ in_external_intr' = in_external_intr
       \/ in_external_intr /\ ~in_external_intr' /\ ~SleeperDue
    /\ \A t \in AllThreads : pc'[t] = "sleep" => pc[t] = "sleep"

(* A step leaves the sleepers alone or is one of three.                    *)
LEMMA SleepKinds ==
    ASSUME LockInv, [Next]_vars
    PROVE  \/ SleepAside
           \/ \E n \in 1..MaxSleep : timer_sleep(n)
           \/ timer_interrupt
           \/ timer_interrupt_wake
<1> USE SchedulerTypes
<1>1. ASSUME NEW t \in Threads, NEW p \in Priorities, thread_create(t, p)
      PROVE  SleepAside
    BY <1>1 DEF thread_create, SleepAside, AllThreads
<1>2. CASE thread_created
    BY <1>2 DEF thread_created, SleepAside
<1>3. CASE UNCHANGED <<sleepVars, pc, in_external_intr>>
    BY <1>3 DEF SleepAside
<1>4. CASE thread_yield \/ thread_exit \/ idle
    BY <1>3, <1>4 DEF thread_yield, thread_exit, idle, placeVars
<1>5. CASE \E p \in Priorities : thread_set_priority(p)
    BY <1>3, <1>5 DEF thread_set_priority, placeVars
<1>6. CASE \/ \E s \in Semas : sema_up(s)
           \/ \E s \in IntrSemas : sema_up_in_interrupt(s)
    BY <1>3, <1>6 DEF sema_up, sema_up_in_interrupt, placeVars
<1>7. ASSUME NEW s, NEW wl, NEW donors, waitInDown(s, wl, donors) \/ takes(s, donors)
      PROVE  SleepAside
    <2>1. UNCHANGED <<sleepVars, in_external_intr>>
        BY <1>7 DEF waitInDown, takes
    <2>2. pc' \in { [pc EXCEPT ![cur] = "down"], [pc EXCEPT ![cur] = "run"] }
        BY <1>7 DEF waitInDown, takes
    <2> QED
        BY <2>1, <2>2 DEF SleepAside
<1>8. CASE sema_down_again \/ \E s \in Semas : sema_down(s) \/ sema_try_down(s)
    BY <1>7, <1>8 DEF sema_down_again, sema_down, sema_try_down
<1>9. ASSUME NEW l \in Locks, LockStep(l)
      PROVE  SleepAside
    <2>1. CASE lock_acquire(l) \/ lock_try_acquire(l)
        BY <1>7, <2>1 DEF lock_acquire, lock_try_acquire
    <2>2. CASE lock_release(l)
        <3>1. UNCHANGED <<sleepVars, pc, in_external_intr>>
            BY <2>2 DEF lock_release, placeVars
        <3> QED
            BY <3>1 DEF SleepAside
    <2> QED
        BY <1>9, <2>1, <2>2 DEF LockStep
<1>10. CASE timer_interrupt_return
    BY <1>10 DEF timer_interrupt_return, placeVars, SleepAside
<1>11. CASE UNCHANGED vars
    BY <1>3, <1>11 DEF vars, placeVars
<1> QED
    BY <1>1, <1>2, <1>4, <1>5, <1>6, <1>8, <1>9, <1>10, <1>11 DEF Next, TimerStep, SemaStep

(* The order of the list: the fewer ticks, the greater the key.            *)
LEMMA WakeupKeys ==
    ASSUME NEW left \in [AllThreads -> Int],
           NEW t \in AllThreads, NEW u \in AllThreads
    PROVE  /\ compare_timeto_wakeup_ticks(left)[t] \in Int
           /\ compare_timeto_wakeup_ticks(left)[t] < compare_timeto_wakeup_ticks(left)[u]
                <=> left[u] < left[t]
BY DEF compare_timeto_wakeup_ticks

(* The front of an ordered list has the fewest ticks to wait.              *)
LEMMA FrontIsFirst ==
    ASSUME LockInv, SleepInv, sleep_list # <<>>
    PROVE  \A t \in ToSet(sleep_list) : ticks_left[Head(sleep_list)] <= ticks_left[t]
<1> DEFINE key == compare_timeto_wakeup_ticks(ticks_left)
<1>0. sleep_list \in Seq(Threads) /\ ticks_left \in [AllThreads -> Int]
    BY SchedulerTypes
<1>1. \A t, u \in Threads : /\ key[t] \in Int /\ ticks_left[t] \in Int
                            /\ key[t] < key[u] <=> ticks_left[u] < ticks_left[t]
    BY <1>0, WakeupKeys DEF AllThreads
<1>2. OrderedUpTo(sleep_list, key, {})
    BY DEF SleepInv
<1>3. \A t \in Threads : key[t] \in Int
    BY <1>1
<1> HIDE DEF key
<1>4. \A t \in ToSet(sleep_list) : key[Head(sleep_list)] >= key[t]
    BY <1>0, <1>2, <1>3, FrontIsGreatest
<1>5. Head(sleep_list) \in Threads /\ \A t \in ToSet(sleep_list) : t \in Threads
    BY <1>0, ElementsOf, PopFrontFacts
<1> QED
    BY <1>1, <1>4, <1>5

(* Every step keeps the sleep list in order.                               *)
LEMMA SleepStep == LockInv /\ LockInv' /\ SleepInv /\ [Next]_vars => SleepInv'
<1> SUFFICES ASSUME LockInv, LockInv', SleepInv, [Next]_vars PROVE SleepInv'
    OBVIOUS
<1> USE SchedulerTypes
<1>0. \A t \in ToSet(sleep_list) : t \in Threads /\ t \in AllThreads /\ ticks_left[t] \in Int
    BY ElementsOf DEF AllThreads
<1>1. CASE SleepAside
    <2>1. \A t \in ToSet(sleep_list) :
            ticks_left'[t] >= (IF in_external_intr' THEN 0 ELSE 1)
        <3>1. CASE in_external_intr' = in_external_intr
            BY <1>1, <3>1 DEF SleepAside, SleepInv, sleepVars
        <3>2. CASE ~in_external_intr' /\ ~SleeperDue
            <4> SUFFICES ASSUME NEW t \in ToSet(sleep_list) PROVE ticks_left[t] >= 1
                BY <1>1, <3>2 DEF SleepAside, sleepVars
            <4>1. sleep_list # <<>>
                BY DEF ToSet
            <4>2. ticks_left[Head(sleep_list)] <= ticks_left[t] /\ Head(sleep_list) \in ToSet(sleep_list)
                BY <4>1, FrontIsFirst, PopFrontFacts
            <4> QED
                BY <1>0, <3>2, <4>1, <4>2 DEF SleeperDue
        <3> QED
            BY <1>1, <3>1, <3>2 DEF SleepAside
    <2> QED
        BY <1>1, <2>1 DEF SleepAside, SleepInv, sleepVars, AllThreads
<1>2. ASSUME NEW n \in 1..MaxSleep, timer_sleep(n)
      PROVE  SleepInv'
    <2> DEFINE key == compare_timeto_wakeup_ticks(ticks_left)
               key2 == compare_timeto_wakeup_ticks(ticks_left')
    <2>1. /\ cur \in Threads /\ ~in_external_intr /\ pc[cur] = "run"
          /\ in_external_intr' = in_external_intr
          /\ ticks_left' = [ticks_left EXCEPT ![cur] = n]
          /\ sleep_list' = InsertOrdered(sleep_list, cur, key2)
          /\ pc' = [pc EXCEPT ![cur] = "sleep"]
        BY <1>2 DEF timer_sleep, InCode, At
    <2>2. cur \notin ToSet(sleep_list)
        BY <2>1 DEF LockInv, Queued, QueuedIn
    <2>3. \A t \in AllThreads : /\ ticks_left'[t] = IF t = cur THEN n ELSE ticks_left[t]
                                /\ key[t] = -ticks_left[t] /\ key2[t] = -ticks_left'[t]
                                /\ key[t] \in Int /\ key2[t] \in Int
        BY <2>1 DEF compare_timeto_wakeup_ticks
    <2>4. ToSet(sleep_list') = ToSet(sleep_list) \cup {cur}
        BY <2>1, InsertOrderedFacts
    <2>5. OrderedUpTo(sleep_list, key, {})
        BY DEF SleepInv
    <2> HIDE DEF key, key2
    <2>6. OrderedUpTo(sleep_list, key2, {})
        <3>1. \A t, u \in ToSet(sleep_list) : key2[t] < key2[u] => key[t] < key[u]
            BY <1>0, <2>2, <2>3
        <3> QED
            BY <2>5, <3>1, RekeyKeepsOrder
    <2>7. OrderedUpTo(sleep_list', key2, {})
        <3>1. \A x \in Threads : key2[x] \in Int
            BY <2>3 DEF AllThreads
        <3> QED
            BY <2>1, <2>6, <3>1, InsertKeepsOrder
    <2>8. \A t \in ToSet(sleep_list') : ticks_left'[t] >= 1
        BY <1>0, <2>1, <2>3, <2>4 DEF SleepInv
    <2>9. \A t \in Threads : pc'[t] = "sleep" => t \in ToSet(sleep_list')
        BY <2>1, <2>4 DEF SleepInv, AllThreads
    <2> QED
        BY <2>1, <2>7, <2>8, <2>9 DEF SleepInv, key2
<1>3. CASE timer_interrupt
    <2>1. /\ ~in_external_intr /\ in_external_intr' /\ sleep_list' = sleep_list /\ pc' = pc
          /\ ticks_left' = [t \in AllThreads |->
                    IF t \in ToSet(sleep_list) THEN ticks_left[t] - 1 ELSE ticks_left[t]]
        BY <1>3 DEF timer_interrupt, placeVars
    <2>2. \A t \in ToSet(sleep_list) : ticks_left'[t] = ticks_left[t] - 1
        BY <1>0, <2>1
    <2> DEFINE key == compare_timeto_wakeup_ticks(ticks_left)
               key2 == compare_timeto_wakeup_ticks(ticks_left')
    <2>6. ticks_left' \in [AllThreads -> Int]
        BY <2>1
    <2>3. \A t, u \in AllThreads : /\ key[t] < key[u] <=> ticks_left[u] < ticks_left[t]
                                   /\ key2[t] < key2[u] <=> ticks_left'[u] < ticks_left'[t]
        BY <2>6, WakeupKeys
    <2>4. OrderedUpTo(sleep_list, key2, {})
        <3> HIDE DEF key, key2
        <3>1. \A t, u \in ToSet(sleep_list) : key2[t] < key2[u] => key[t] < key[u]
            BY <1>0, <2>2, <2>3
        <3>2. OrderedUpTo(sleep_list, key, {})
            BY DEF SleepInv, key
        <3> QED
            BY <3>1, <3>2, RekeyKeepsOrder
    <2>5. \A t \in ToSet(sleep_list) : ticks_left'[t] >= 0
        BY <1>0, <2>1, <2>2 DEF SleepInv
    <2> QED
        BY <2>1, <2>4, <2>5 DEF SleepInv
<1>4. CASE timer_interrupt_wake
    <2> DEFINE h == Head(sleep_list)
               key == compare_timeto_wakeup_ticks(ticks_left)
               key2 == compare_timeto_wakeup_ticks(ticks_left')
    <2>1. /\ sleep_list # <<>> /\ in_external_intr /\ in_external_intr'
          /\ sleep_list' = Tail(sleep_list)
          /\ ticks_left' = [ticks_left EXCEPT ![h] = 0]
          /\ pc' = [pc EXCEPT ![h] = "run"]
        BY <1>4 DEF timer_interrupt_wake, SleeperDue
    <2>2. /\ h \in ToSet(sleep_list) /\ h \in AllThreads
          /\ ToSet(Tail(sleep_list)) = ToSet(sleep_list) \ {h} /\ Tail(sleep_list) \in Seq(Threads)
        BY <1>0, <2>1, PopFrontFacts
    <2> HIDE DEF h
    <2>3. \A t \in AllThreads : /\ ticks_left'[t] = IF t = h THEN 0 ELSE ticks_left[t]
                                /\ pc'[t] = IF t = h THEN "run" ELSE pc[t]
                                /\ key[t] = -ticks_left[t] /\ key2[t] = -ticks_left'[t]
        BY <2>1 DEF compare_timeto_wakeup_ticks
    <2>4. OrderedUpTo(sleep_list, key, {})
        BY DEF SleepInv
    <2> HIDE DEF key, key2
    <2>5. OrderedUpTo(Tail(sleep_list), key, {})
        BY <2>1, <2>4, TailKeepsOrder
    <2>6. OrderedUpTo(Tail(sleep_list), key2, {})
        <3>1. \A t, u \in ToSet(Tail(sleep_list)) : key2[t] < key2[u] => key[t] < key[u]
            BY <1>0, <2>2, <2>3
        <3> QED
            BY <2>2, <2>5, <3>1, RekeyKeepsOrder
    <2>7. \A t \in ToSet(Tail(sleep_list)) : ticks_left'[t] >= 0
        BY <1>0, <2>1, <2>2, <2>3 DEF SleepInv
    <2>8. \A t \in Threads : pc'[t] = "sleep" => t \in ToSet(Tail(sleep_list))
        BY <2>2, <2>3 DEF SleepInv, AllThreads
    <2> QED
        BY <2>1, <2>6, <2>7, <2>8 DEF SleepInv, key2
<1> QED
    BY <1>1, <1>2, <1>3, <1>4, SleepKinds

(* The sleep list is in order throughout.                                  *)
LEMMA SleepInvAlways == Spec => [](LockInv /\ SleepInv)
<1>1. Init => SleepInv
    <2>1. ToSet(<<>>) = {} /\ 1..Len(<<>>) = {}
        BY DEF ToSet
    <2>2. \A key : OrderedUpTo(<<>>, key, {})
        BY <2>1 DEF OrderedUpTo
    <2>3. Init => sleep_list = <<>> /\ \A t \in Threads : pc[t] = "run"
        BY DEF Init, AllThreads
    <2> QED
        BY <2>1, <2>2, <2>3 DEF SleepInv
<1> QED
    BY <1>1, LockInvAlways, SleepStep, PTL DEF Spec

(* No sleeper is due once the handler has returned: the walk over the      *)
(* list, which stops at the first thread that is not due, misses none.     *)
THEOREM NobodyOversleeps == Spec => []NoOversleep
<1>1. LockInv /\ SleepInv => NoOversleep
    <2> SUFFICES ASSUME LockInv, SleepInv, ~in_external_intr, NEW t \in ToSet(sleep_list)
                 PROVE  ticks_left[t] > 0
        BY DEF NoOversleep
    <2>1. ticks_left[t] \in Int /\ ticks_left[t] >= 1
        BY SchedulerTypes DEF SleepInv, ToSet, AllThreads
    <2> QED
        BY <2>1
<1> QED
    BY <1>1, SleepInvAlways, PTL

(* A thread leaves timer_sleep exactly when its time is over.              *)
THEOREM NobodyWakesEarly == Spec => NoEarlyWake
<1>1. ASSUME LockInv, LockInv', SleepInv, [Next]_vars,
             NEW t \in Threads, pc[t] = "sleep", pc'[t] # "sleep"
      PROVE  ticks_left[t] = 0
    <2> USE <1>1, SchedulerTypes
    <2>1. t \in ToSet(sleep_list)
        BY <1>1 DEF SleepInv
    <2>2. t \notin ToSet(sleep_list')
        BY <1>1 DEF LockInv, Queued, QueuedIn
    <2>3. CASE SleepAside
        BY <2>1, <2>2, <2>3 DEF SleepAside, sleepVars
    <2>4. CASE \E n \in 1..MaxSleep : timer_sleep(n)
        <3>1. \E key : sleep_list' = InsertOrdered(sleep_list, cur, key)
            BY <2>4 DEF timer_sleep
        <3>2. cur \in Threads
            BY <2>4 DEF timer_sleep, InCode
        <3> QED
            BY <2>1, <2>2, <3>1, <3>2, InsertOrderedFacts
    <2>5. CASE timer_interrupt
        BY <2>1, <2>2, <2>5 DEF timer_interrupt
    <2>6. CASE timer_interrupt_wake
        <3> DEFINE h == Head(sleep_list)
        <3>1. in_external_intr /\ sleep_list # <<>> /\ ticks_left[h] <= 0 /\ sleep_list' = Tail(sleep_list)
            BY <2>6 DEF timer_interrupt_wake, SleeperDue
        <3>2. t = h
            BY <2>1, <2>2, <3>1, PopFrontFacts
        <3>4. ticks_left[t] \in Int
            BY DEF AllThreads
        <3>3. ticks_left[t] >= 0
            BY <1>1, <2>1, <3>1 DEF SleepInv
        <3> QED
            BY <3>1, <3>2, <3>3, <3>4
    <2> QED
        BY <1>1, <2>3, <2>4, <2>5, <2>6, SleepKinds
<1>2. LockInv /\ LockInv' /\ SleepInv /\ [Next]_vars =>
        [\A t \in Threads : pc[t] = "sleep" /\ pc'[t] # "sleep" => ticks_left[t] = 0]_vars
    BY <1>1
<1> QED
    BY <1>2, SleepInvAlways, PTL DEF Spec, NoEarlyWake
-----------------------------------------------------------------------------
(* Wakeups.                                                                *)

USE ThreadsAssumption, ObjectsAssumption, NumbersAssumption

(* What a step can do to semaphores: nothing, ...                          *)
SemaAside ==
    /\ UNCHANGED <<value, waiters, downing>>
    /\ \A t \in AllThreads : pc'[t] = "down" <=> pc[t] = "down"

(* ... or the current thread goes round the loop of sema_down, ...         *)
MayDown(s) ==
    /\ cur \in Threads
    /\ pc[cur] = "run" \/ (pc[cur] = "down" /\ downing[cur] = s)

Waits(s) == MayDown(s) /\ \E wl, donors : waitInDown(s, wl, donors)
Passes(s) == MayDown(s) /\ \E donors : takes(s, donors)

(* ... or ups.                                                             *)
Ups(s) == UNCHANGED placeVars /\ \E pri, intr : sema_up_body(s, pri, intr)

(* A step leaves the semaphores alone, or somebody waits for one, passes or raises it. *)
LEMMA SemaKinds ==
    ASSUME LockInv, [Next]_vars
    PROVE  SemaAside \/ \E s \in AllSemas : Waits(s) \/ Passes(s) \/ Ups(s)
<1> USE LockTypes
<1>1. ASSUME NEW t \in Threads, NEW p \in Priorities, thread_create(t, p)
      PROVE  SemaAside
    <2>1. /\ status[t] = "FREE" /\ t \in AllThreads /\ pc[cur] = "run"
          /\ pc' = [pc EXCEPT ![t] = "run", ![cur] = "created"]
          /\ UNCHANGED <<value, waiters, downing>>
        BY <1>1 DEF thread_create, InCode, At, AllThreads, semaVars
    <2>2. pc[t] # "down"
        BY <2>1 DEF LockInv, NoneDeadInDown, Dead
    <2> QED
        BY <2>1, <2>2 DEF SemaAside
<1>2. CASE thread_created
    <2>1. /\ pc[cur] = "created" /\ pc' = [pc EXCEPT ![cur] = "run"]
          /\ UNCHANGED <<value, waiters, downing>>
        BY <1>2 DEF thread_created, At, semaVars
    <2> QED
        BY <2>1 DEF SemaAside
<1>3. CASE \/ thread_yield \/ thread_exit \/ idle
           \/ \E p \in Priorities : thread_set_priority(p)
           \/ timer_interrupt \/ timer_interrupt_return \/ UNCHANGED vars
    <2>1. UNCHANGED <<value, waiters, downing, pc>>
        BY <1>3 DEF thread_yield, thread_exit, idle, thread_set_priority,
           timer_interrupt, timer_interrupt_return, vars, semaVars, placeVars
    <2> QED
        BY <2>1 DEF SemaAside
<1>4. ASSUME NEW n \in 1..MaxSleep, timer_sleep(n)
      PROVE  SemaAside
    <2>1. /\ pc[cur] = "run" /\ pc' = [pc EXCEPT ![cur] = "sleep"]
          /\ UNCHANGED <<value, waiters, downing>>
        BY <1>4 DEF timer_sleep, InCode, At, semaVars
    <2> QED
        BY <2>1 DEF SemaAside
<1>5. CASE timer_interrupt_wake
    <2> DEFINE t == Head(sleep_list)
    <2>1. /\ sleep_list # <<>> /\ pc' = [pc EXCEPT ![t] = "run"]
          /\ UNCHANGED <<value, waiters, downing>>
        BY <1>5 DEF timer_interrupt_wake, SleeperDue, semaVars
    <2>2. t \in Threads /\ t \in ToSet(sleep_list)
        BY <2>1, SchedulerTypes, PopFrontFacts
    <2> HIDE DEF t
    <2>3. pc[t] = "sleep"
        BY <2>2 DEF LockInv, Queued, QueuedIn
    <2> QED
        BY <2>1, <2>3 DEF SemaAside
<1>6. CASE sema_down_again
    <2>1. cur \in Threads /\ pc[cur] = "down" /\ downing[cur] \in AllSemas
        BY <1>6 DEF sema_down_again, At, LockInv, TypeInv, PlaceOK
    <2> QED
        BY <1>6, <2>1 DEF sema_down_again, Waits, Passes, MayDown
<1>7. ASSUME NEW s \in AllSemas,
             \/ s \in Semas /\ (sema_down(s) \/ sema_try_down(s))
             \/ s \in Locks /\ (lock_acquire(s) \/ lock_try_acquire(s))
      PROVE  Waits(s) \/ Passes(s)
    <2>1. MayDown(s)
        BY <1>7 DEF sema_down, sema_try_down, lock_acquire, lock_try_acquire, InCode, At, MayDown
    <2> QED
        BY <1>7, <2>1 DEF sema_down, sema_try_down, lock_acquire, lock_try_acquire, Waits, Passes
<1>8. ASSUME NEW s \in AllSemas,
             \/ s \in Semas /\ (sema_up(s) \/ sema_up_in_interrupt(s))
             \/ s \in Locks /\ lock_release(s)
      PROVE  Ups(s)
    <2>1. UNCHANGED placeVars
        BY <1>8 DEF sema_up, sema_up_in_interrupt, lock_release
    <2>2. \E pri, intr : sema_up_body(s, pri, intr)
        BY <1>8 DEF sema_up, sema_up_in_interrupt, lock_release
    <2> QED
        BY <2>1, <2>2 DEF Ups
<1>9. ASSUME NEW l \in Locks, LockStep(l)
      PROVE  Waits(l) \/ Passes(l) \/ Ups(l)
    BY <1>7, <1>8, <1>9 DEF LockStep, AllSemas
<1>10. ASSUME NEW s \in Semas, SemaStep(s) \/ sema_up_in_interrupt(s)
       PROVE  Waits(s) \/ Passes(s) \/ Ups(s)
    BY <1>7, <1>8, <1>10 DEF SemaStep, AllSemas
<1>11. \/ \E t \in Threads, p \in Priorities : thread_create(t, p)
       \/ thread_created
       \/ thread_yield \/ thread_exit \/ idle
       \/ \E p \in Priorities : thread_set_priority(p)
       \/ timer_interrupt \/ timer_interrupt_return \/ UNCHANGED vars
       \/ \E n \in 1..MaxSleep : timer_sleep(n)
       \/ timer_interrupt_wake
       \/ sema_down_again
       \/ \E l \in Locks : LockStep(l)
       \/ \E s \in Semas : SemaStep(s)
       \/ \E s \in IntrSemas : sema_up_in_interrupt(s)
    BY DEF Next, TimerStep
<1> QED
    BY <1>1, <1>2, <1>3, <1>4, <1>5, <1>6, <1>9, <1>10, <1>11 DEF AllSemas

(* The threads inside sema_down(s) that are not among its waiters.         *)
WokenIn(s, wts, p, d) ==
    { t \in Threads : p[t] = "down" /\ d[t] = s /\ t \notin ToSet(wts[s]) }

(* Who was woken and has yet to take the semaphore, before a step and after it. *)
LEMMA WokenAre ==
    /\ LockInv => \A s \in AllSemas : Woken(s) = WokenIn(s, waiters, pc, downing)
    /\ LockInv' => \A s \in AllSemas : Woken(s)' = WokenIn(s, waiters', pc', downing')
BY DEF LockInv, Queued, QueuedIn, Woken, WokenIn

(* Every step keeps a unit for each who was woken.                         *)
LEMMA WakeupStep == LockInv /\ LockInv' /\ NoLostWakeup /\ [Next]_vars => NoLostWakeup'
<1> SUFFICES ASSUME LockInv, LockInv', NoLostWakeup, [Next]_vars, NEW s \in AllSemas
             PROVE  (waiters[s])' # <<>> => (value[s])' <= Cardinality(Woken(s)')
    BY DEF NoLostWakeup
<1> DEFINE old == WokenIn(s, waiters, pc, downing)
           new == WokenIn(s, waiters', pc', downing')
<1>1. Woken(s) = old /\ Woken(s)' = new
    BY WokenAre
<1>2. IsFiniteSet(old) /\ IsFiniteSet(new) /\ Cardinality(old) \in Nat /\ Cardinality(new) \in Nat
    <2>1. old \in SUBSET Threads /\ new \in SUBSET Threads
        BY DEF WokenIn
    <2> HIDE DEF old, new
    <2>2. IsFiniteSet(old) /\ IsFiniteSet(new)
        BY <2>1, FS_Subset
    <2>3. Cardinality(old) \in Nat
        BY <2>2, FS_CardinalityType
    <2>4. Cardinality(new) \in Nat
        BY <2>2, FS_CardinalityType
    <2> QED
        BY <2>2, <2>3, <2>4
<1>3. waiters[s] # <<>> => value[s] <= Cardinality(old)
    BY <1>1 DEF NoLostWakeup
<1>4. value[s] \in Nat /\ waiters \in [AllSemas -> Seq(Threads)] /\ pc \in [AllThreads -> PCs]
      /\ downing \in [AllThreads -> AllSemas \cup {NULL}] /\ value \in [AllSemas -> Nat]
      /\ \A t \in Threads : t \in AllThreads
    BY LockTypes, SchedulerTypes DEF AllThreads
<1> SUFFICES ASSUME waiters'[s] # <<>> PROVE value'[s] <= Cardinality(new)
    BY <1>1
<1>5. CASE SemaAside
    <2>1. new = old /\ waiters' = waiters /\ value' = value
        BY <1>4, <1>5 DEF SemaAside, WokenIn
    <2> QED
        BY <1>3, <2>1
<1>6. ASSUME NEW r \in AllSemas, Waits(r)
      PROVE  value'[s] <= Cardinality(new)
    <2>1. PICK key : waiters' = [waiters EXCEPT ![r] = InsertOrdered(@, cur, key)]
        BY <1>6 DEF Waits, waitInDown
    <2>2. /\ value[r] = 0 /\ value' = value
          /\ pc' = [pc EXCEPT ![cur] = "down"] /\ downing' = [downing EXCEPT ![cur] = r]
          /\ cur \in Threads /\ (pc[cur] = "down" => downing[cur] = r)
        BY <1>6 DEF Waits, waitInDown, MayDown, PCs
    <2>3. CASE s = r
        BY <1>2, <2>2, <2>3
    <2>4. CASE s # r
        <3>1. waiters'[s] = waiters[s]
            BY <1>4, <2>1, <2>4
        <3>2. new = old
            BY <1>4, <2>2, <2>4, <3>1 DEF WokenIn
        <3> QED
            BY <1>3, <2>2, <3>1, <3>2
    <2> QED
        BY <2>3, <2>4
<1>7. ASSUME NEW r \in AllSemas, Passes(r)
      PROVE  value'[s] <= Cardinality(new)
    <2>1. /\ value[r] > 0 /\ value' = [value EXCEPT ![r] = @ - 1] /\ waiters' = waiters
          /\ pc' = [pc EXCEPT ![cur] = "run"] /\ downing' = [downing EXCEPT ![cur] = NULL]
          /\ cur \in Threads /\ (pc[cur] = "down" => downing[cur] = r)
        BY <1>7 DEF Passes, takes, MayDown, PCs
    <2>2. CASE s # r
        <3>1. new = old /\ value'[s] = value[s]
            BY <1>4, <2>1, <2>2 DEF WokenIn
        <3> QED
            BY <1>3, <2>1, <3>1
    <2>3. CASE s = r
        <3>1. new = old \ {cur}
            BY <1>4, <2>1 DEF WokenIn
        <3>2. value'[s] = value[s] - 1
            BY <1>4, <2>1, <2>3
        <3> HIDE DEF old, new
        <3>3. Cardinality(new) \in {Cardinality(old), Cardinality(old) - 1}
            BY <1>2, <3>1, FS_RemoveElement
        <3> QED
            BY <1>2, <1>3, <1>4, <2>1, <3>2, <3>3
    <2> QED
        BY <2>2, <2>3
<1>8. ASSUME NEW r \in AllSemas, Ups(r)
      PROVE  value'[s] <= Cardinality(new)
    <2>1. value' = [value EXCEPT ![r] = @ + 1] /\ pc' = pc /\ downing' = downing
        BY <1>8 DEF Ups, sema_up_body, placeVars
    <2>2. CASE waiters' = waiters /\ waiters[r] = <<>>
        <3>1. s # r /\ value'[s] = value[s] /\ new = old
            BY <1>4, <2>1, <2>2 DEF WokenIn
        <3> QED
            BY <1>3, <2>2, <3>1
    <2>3. ASSUME waiters[r] # <<>>, NEW key, NEW q \in Sorted(waiters[r], key),
                 waiters' = [waiters EXCEPT ![r] = Tail(q)]
          PROVE  value'[s] <= Cardinality(new)
        <3>1. CASE s # r
            <4>1. value'[s] = value[s] /\ waiters'[s] = waiters[s]
                BY <1>4, <2>1, <2>3, <3>1
            <4>2. new = old
                BY <2>1, <4>1 DEF WokenIn
            <4> QED
                BY <1>3, <4>1, <4>2
        <3>2. CASE s = r
            <4>1. /\ q \in Seq(Threads) /\ q # <<>> /\ IsInjective(q) /\ ToSet(q) = ToSet(waiters[s])
                BY <1>4, <2>3, <3>2, SortedFacts DEF LockInv, Queued, QueuedIn
            <4> DEFINE h == Head(q)
            <4>2. h \in Threads /\ h \in ToSet(waiters[s]) /\ ToSet(waiters'[s]) = ToSet(waiters[s]) \ {h}
                BY <1>4, <2>3, <3>2, <4>1, PopFrontFacts
            <4> HIDE DEF h
            <4>3. pc[h] = "down" /\ downing[h] = s
                BY <4>2 DEF LockInv, Queued, QueuedIn
            <4>4. new = old \cup {h} /\ h \notin old
                BY <2>1, <4>2, <4>3 DEF WokenIn
            <4> HIDE DEF old, new
            <4>5. Cardinality(new) = Cardinality(old) + 1
                BY <1>2, <4>4, FS_AddElement
            <4>6. value'[s] = value[s] + 1
                BY <1>4, <2>1, <3>2
            <4> QED
                BY <1>2, <1>3, <1>4, <2>3, <3>2, <4>5, <4>6
        <3> QED
            BY <3>1, <3>2
    <2>4. \/ waiters' = waiters /\ waiters[r] = <<>>
          \/ waiters[r] # <<>> /\ \E key : \E q \in Sorted(waiters[r], key) :
                waiters' = [waiters EXCEPT ![r] = Tail(q)]
        BY <1>8 DEF Ups, sema_up_body, wakes
    <2> QED
        BY <2>2, <2>3, <2>4
<1> QED
    BY <1>5, <1>6, <1>7, <1>8, SemaKinds

(* While threads wait on a semaphore, each unit of its value has a woken   *)
(* thread on its way to take it: however ups, retries and threads that     *)
(* barge in are interleaved, no wakeup is lost.                            *)
THEOREM WakeupsAreNotLost == Spec => []NoLostWakeup
<1>1. Init => NoLostWakeup
    BY DEF Init, NoLostWakeup
<1> QED
    BY <1>1, LockInvAlways, WakeupStep, PTL DEF Spec
-----------------------------------------------------------------------------
(* Donations reach holders of locks only, and end with the locks.          *)

(* f lists the first K iterates of F on x0.                                *)
IsIteration(f, K, x0, F) ==
    \A n \in 0..K : f[n] = IF n = 0 THEN x0 ELSE F[f[n - 1]]

(* A function can be iterated as often as one likes.                       *)
LEMMA IterationExists ==
    ASSUME NEW X, NEW x0 \in X, NEW F \in [X -> X], NEW K \in Nat
    PROVE  \E f \in [0..K -> X] : IsIteration(f, K, x0, F)
<1> DEFINE Iterates(k, f) == \A n \in 0..k : f[n] = IF n = 0 THEN x0 ELSE F[f[n - 1]]
           T == { k \in Nat : ~ \E f \in [0..k -> X] : Iterates(k, f) }
<1> SUFFICES ASSUME T # {} PROVE FALSE
    BY DEF IsIteration
<1>1. PICK m \in T : \A n \in T : m <= n
    <2> HIDE DEF Iterates
    <2>1. T \in SUBSET Nat
        OBVIOUS
    <2> HIDE DEF T
    <2> QED
        BY <2>1, LeastOf
<1>2. CASE m = 0
    <2> DEFINE f == [n \in 0..0 |-> x0]
    <2>1. f \in [0..0 -> X] /\ Iterates(0, f)
        OBVIOUS
    <2> QED
        BY <1>2, <2>1
<1>3. CASE m # 0
    <2>1. m - 1 \in Nat /\ m - 1 \notin T /\ m \in Nat
        <3> HIDE DEF Iterates
        <3>1. m \in Nat
            BY <1>1
        <3> HIDE DEF T
        <3> QED
            BY <1>1, <1>3, <3>1
    <2>2. PICK g \in [0..(m - 1) -> X] : Iterates(m - 1, g)
        BY <2>1
    <2>3. \A n \in 0..(m - 1) : g[n] = IF n = 0 THEN x0 ELSE F[g[n - 1]]
        BY <2>2
    <2> DEFINE f == [n \in 0..m |-> IF n = m THEN F[g[m - 1]] ELSE g[n]]
    <2>4. f \in [0..m -> X]
        BY <2>1
    <2>5. \A n \in 0..m : f[n] = IF n = 0 THEN x0 ELSE F[f[n - 1]]
        <3> SUFFICES ASSUME NEW n \in 0..m PROVE f[n] = IF n = 0 THEN x0 ELSE F[f[n - 1]]
            OBVIOUS
        <3>1. CASE n = m
            BY <1>3, <2>1, <3>1
        <3>2. CASE n # m
            BY <2>1, <2>3, <3>2
        <3> QED
            BY <3>1, <3>2
    <2>6. Iterates(m, f)
        <3> HIDE DEF f
        <3> QED
            BY <2>4, <2>5
    <2> QED
        BY <2>1, <2>4, <2>6
<1> QED
    BY <1>2, <1>3 DEF IsIteration

(* Those that a donation can raise: holders with a lower priority.         *)
Raisable == { h \in AllThreads : Holds(h) /\ priority[h] < priority[cur] }

(* Who is given a priority holds a lock.                                   *)
LEMMA DoneesRaisable ==
    ASSUME LockInv, NEW wl \in [AllThreads -> Locks \cup {NULL}]
    PROVE  Donees(wl) \subseteq Raisable
<1> DEFINE donatesTo(t) ==
               { h \in AllThreads : /\ wl[t] # NULL
                                    /\ holder[wl[t]] = h
                                    /\ priority[h] < priority[cur] }
           next(A) == A \cup UNION { donatesTo(t) : t \in A \cup {cur} }
           Reaches(f) == f = [n \in 0..LOCK_SIZE |-> IF n = 0 THEN {} ELSE next(f[n - 1])]
<1>1. Donees(wl) = (CHOOSE f : Reaches(f))[LOCK_SIZE]
    BY DEF Donees
<1>2. \A t \in AllThreads : donatesTo(t) \subseteq Raisable
    BY DEF Raisable, Holds
<1>3. \E f : Reaches(f)
    <2> DEFINE X == SUBSET AllThreads
               F == [A \in X |-> next(A)]
               none == {}
    <2>1. F \in [X -> X] /\ none \in X /\ LOCK_SIZE \in Nat
        OBVIOUS
    <2>2. \A A \in X : F[A] = next(A)
        OBVIOUS
    <2> HIDE DEF F, X, next, none
    <2>3. PICK f \in [0..LOCK_SIZE -> X] : IsIteration(f, LOCK_SIZE, none, F)
        BY <2>1, IterationExists
    <2>4. \A n \in 0..LOCK_SIZE : n # 0 => F[f[n - 1]] = next(f[n - 1])
        BY <2>1, <2>2
    <2>5. Reaches(f)
        BY <2>3, <2>4 DEF none, IsIteration
    <2> QED
        BY <2>5
<1>4. PICK f : f = (CHOOSE g : Reaches(g)) /\ Reaches(f)
    BY <1>3
<1> HIDE DEF next
<1>5. \A n \in 0..LOCK_SIZE : f[n] = IF n = 0 THEN {} ELSE next(f[n - 1])
    BY <1>4
<1>6. \A n \in 0..LOCK_SIZE : f[n] \subseteq Raisable
    <2> DEFINE T == { n \in 0..LOCK_SIZE : ~(f[n] \subseteq Raisable) }
    <2> SUFFICES ASSUME T # {} PROVE FALSE
        OBVIOUS
    <2>1. T \in SUBSET Nat
        OBVIOUS
    <2>2. PICK m \in T : \A n \in T : m <= n
        <3> HIDE DEF T
        <3> QED
            BY <2>1, LeastOf
    <2>3. m # 0
        BY <1>5
    <2>4. m - 1 \in 0..LOCK_SIZE /\ f[m - 1] \subseteq Raisable
        BY <2>2, <2>3
    <2>5. next(f[m - 1]) \subseteq Raisable
        <3>1. \A t \in f[m - 1] \cup {cur} : donatesTo(t) \subseteq Raisable
            BY <1>2, <2>4, LockTypes, ZenonT(30) DEF Raisable
        <3> HIDE DEF donatesTo
        <3> QED
            BY <2>4, <3>1 DEF next
    <2> QED
        BY <1>5, <2>2, <2>3, <2>5
<1> HIDE DEF Reaches
<1> QED
    BY <1>1, <1>4, <1>6

(* Who donates to a thread waits for a lock that thread holds.             *)
LEMMA DonorsWait ==
    ASSUME LockInv, DonationsSound, NEW h \in AllThreads, NEW t \in ToSet(list_of_donation[h])
    PROVE  waitlock[t] \in Locks /\ holder[waitlock[t]] = h
<1>1. list_of_donation[h] \in Seq(Threads)
    BY LockTypes
<1>2. t \in AllThreads
    BY <1>1, ElementsOf DEF AllThreads
<1> QED
    BY <1>2, LockTypes DEF DonationsSound

(* What a step can do to the priorities and the holders of locks: nothing, *)
(* but that a free lock may be taken, ...                                  *)
PriorityAside ==
    /\ UNCHANGED <<priority, initial_priority>>
    /\ \A l \in Locks : holder[l] # NULL => holder'[l] = holder[l]

(* ... or a new thread or one that exits gets one priority for both, ...   *)
PriorityReset ==
    /\ \E t \in AllThreads, p \in Nat :
         /\ t = cur \/ status[t] = "FREE"
         /\ priority' = [priority EXCEPT ![t] = p]
         /\ initial_priority' = [initial_priority EXCEPT ![t] = p]
    /\ holder' = holder

(* ... or the current thread donates, ...                                  *)
Donates(wl) ==
    /\ wl \in [AllThreads -> Locks \cup {NULL}]
    /\ priority' = priority_donation_solve(wl)
    /\ UNCHANGED <<initial_priority, holder>>

(* ... or it sets its priority or releases a lock, and counts its donors.  *)
Recounts(donors) ==
    /\ priority' = priority_check_from_donation_list(initial_priority', donors)
    /\ initial_priority' \in [AllThreads -> Nat]
    /\ \A t \in AllThreads : t # cur => initial_priority'[t] = initial_priority[t]
    /\ donors \in Seq(Threads) /\ ToSet(donors) \subseteq ToSet(list_of_donation[cur])
    /\ \A t \in ToSet(donors) : waitlock[t] \in Locks /\ holder'[waitlock[t]] = cur
    /\ \A l \in Locks : holder[l] # cur => holder'[l] = holder[l]

(* A step leaves priorities alone, or sets, donates or recounts them.      *)
LEMMA PriorityKinds ==
    ASSUME LockInv, DonationsSound, [Next]_vars
    PROVE  \/ PriorityAside
           \/ PriorityReset
           \/ \E wl : Donates(wl)
           \/ \E donors : Recounts(donors)
<1> USE LockTypes
<1>0. /\ initial_priority \in [AllThreads -> Nat]
      /\ \A t \in ToSet(list_of_donation[cur]) :
            waitlock[t] \in Locks /\ holder[waitlock[t]] = cur
      /\ list_of_donation[cur] \in Seq(Threads)
    BY SchedulerTypes, DonorsWait
<1>1. ASSUME NEW t \in Threads, NEW p \in Priorities, thread_create(t, p)
      PROVE  PriorityReset
    <2>1. t \in AllThreads /\ p \in Nat
        BY DEF AllThreads
    <2> QED
        BY <1>1, <2>1 DEF thread_create, PriorityReset
<1>2. CASE thread_exit
    <2>1. cur \in AllThreads /\ PRI_MIN \in Nat
        OBVIOUS
    <2> QED
        BY <1>2, <2>1 DEF thread_exit, PriorityReset
<1>3. CASE UNCHANGED <<priority, initial_priority, holder>>
    BY <1>3 DEF PriorityAside
<1>4. CASE \/ thread_created \/ thread_yield \/ idle
           \/ \E n \in 1..MaxSleep : timer_sleep(n)
           \/ timer_interrupt \/ timer_interrupt_wake \/ timer_interrupt_return
           \/ UNCHANGED vars
    BY <1>3, <1>4 DEF thread_created, thread_yield, idle, timer_sleep, timer_interrupt,
       timer_interrupt_wake, timer_interrupt_return, vars, threadVars
<1>5. CASE \/ \E s \in Semas : sema_up(s)
           \/ \E s \in IntrSemas : sema_up_in_interrupt(s)
    BY <1>3, <1>5 DEF sema_up, sema_up_in_interrupt, threadVars
<1>6. ASSUME NEW p \in Priorities, thread_set_priority(p)
      PROVE  Recounts(list_of_donation[cur])
    <2>1. /\ initial_priority' = [initial_priority EXCEPT ![cur] = p] /\ holder' = holder
          /\ priority' = priority_check_from_donation_list(initial_priority', list_of_donation[cur])
        BY <1>6 DEF thread_set_priority
    <2>2. p \in Nat
        OBVIOUS
    <2> QED
        BY <1>0, <2>1, <2>2 DEF Recounts
<1>7. ASSUME NEW l \in Locks, lock_release(l)
      PROVE  \E donors : Recounts(donors)
    <2>1. PICK donors \in remove_donation_list_waiting_lock(l) :
               priority' = priority_check_from_donation_list(initial_priority, donors)
        BY <1>7 DEF lock_release
    <2>2. /\ holder[l] = cur /\ holder' = [holder EXCEPT ![l] = NULL]
          /\ initial_priority' = initial_priority
        BY <1>7 DEF lock_release
    <2>3. /\ donors \in Seq(Threads)
          /\ ToSet(donors) = ToSet(list_of_donation[cur]) \cap { t \in AllThreads : waitlock[t] # l }
        BY <1>0, <2>1, WithoutFacts DEF remove_donation_list_waiting_lock
    <2>4. \A t \in ToSet(donors) : waitlock[t] \in Locks /\ waitlock[t] # l /\ holder[waitlock[t]] = cur
        BY <1>0, <2>3
    <2> QED
        BY <1>0, <2>1, <2>2, <2>3, <2>4 DEF Recounts
<1>8. ASSUME NEW s \in AllSemas, NEW wl \in [AllThreads -> Locks \cup {NULL}], NEW donors,
             waitInDown(s, wl, donors)
      PROVE  Donates(wl)
    BY <1>8 DEF waitInDown, Donates
<1>9. ASSUME NEW s \in AllSemas, NEW donors, takes(s, donors)
      PROVE  PriorityAside
    <2>1. /\ value[s] > 0 /\ UNCHANGED <<priority, initial_priority>>
          /\ holder' = IF s \in Locks THEN [holder EXCEPT ![s] = cur] ELSE holder
        BY <1>9 DEF takes
    <2>2. s \in Locks => holder[s] = NULL
        BY <2>1
    <2> QED
        BY <2>1, <2>2 DEF PriorityAside
<1>10. CASE sema_down_again \/ \E s \in Semas : sema_down(s) \/ sema_try_down(s)
    <2>1. sema_down_again => downing[cur] \in AllSemas
        BY DEF sema_down_again, At
    <2> QED
        BY <1>8, <1>9, <1>10, <2>1 DEF sema_down_again, sema_down, sema_try_down, AllSemas
<1>11. ASSUME NEW l \in Locks, lock_acquire(l) \/ lock_try_acquire(l)
       PROVE  PriorityAside \/ \E wl : Donates(wl)
    <2>1. l \in AllSemas
        BY DEF AllSemas
    <2>2. CASE lock_try_acquire(l)
        BY <1>9, <2>1, <2>2 DEF lock_try_acquire
    <2>3. CASE lock_acquire(l)
        <3>1. \E wl \in [AllThreads -> Locks \cup {NULL}] : \E donors :
                waitInDown(l, wl, donors) \/ takes(l, donors)
            <4>1. [waitlock EXCEPT ![cur] = l] \in [AllThreads -> Locks \cup {NULL}]
                OBVIOUS
            <4> QED
                BY <2>3, <4>1 DEF lock_acquire
        <3> QED
            BY <1>8, <1>9, <2>1, <3>1
    <2> QED
        BY <1>11, <2>2, <2>3
<1>12. \/ \E t \in Threads, p \in Priorities : thread_create(t, p)
       \/ thread_created \/ thread_yield \/ thread_exit \/ idle
       \/ \E p \in Priorities : thread_set_priority(p)
       \/ timer_interrupt \/ timer_interrupt_wake \/ timer_interrupt_return \/ UNCHANGED vars
       \/ \E n \in 1..MaxSleep : timer_sleep(n)
       \/ sema_down_again
       \/ \E l \in Locks : LockStep(l)
       \/ \E s \in Semas : SemaStep(s)
       \/ \E s \in IntrSemas : sema_up_in_interrupt(s)
    BY DEF Next, TimerStep
<1> QED
    BY <1>1, <1>2, <1>4, <1>5, <1>6, <1>7, <1>10, <1>11, <1>12 DEF LockStep, SemaStep

(* Every step keeps priorities at what the donations make of them.         *)
LEMMA ReturnStep == LockInv /\ DonationsSound /\ DonationReturned /\ [Next]_vars => DonationReturned'
<1> SUFFICES ASSUME LockInv, DonationsSound, DonationReturned, [Next]_vars, NEW t \in Threads
             PROVE  /\ priority'[t] >= initial_priority'[t]
                    /\ priority'[t] > initial_priority'[t] => Holds(t)'
    BY DEF DonationReturned
<1>0. /\ t \in AllThreads /\ t # NULL /\ cur \in AllThreads
      /\ priority \in [AllThreads -> Nat] /\ initial_priority \in [AllThreads -> Nat]
      /\ priority[t] >= initial_priority[t]
      /\ priority[t] > initial_priority[t] => \E l \in Locks : holder[l] = t
    BY SchedulerTypes DEF DonationReturned, AllThreads, Holds
<1> SUFFICES /\ priority'[t] >= initial_priority'[t]
             /\ priority'[t] > initial_priority'[t] => \E l \in Locks : holder'[l] = t
    BY DEF Holds
<1>1. CASE PriorityAside
    BY <1>0, <1>1 DEF PriorityAside
<1>2. CASE PriorityReset
    <2>1. PICK u \in AllThreads, p \in Nat :
            /\ priority' = [priority EXCEPT ![u] = p]
            /\ initial_priority' = [initial_priority EXCEPT ![u] = p]
        BY <1>2 DEF PriorityReset
    <2>2. holder' = holder
        BY <1>2 DEF PriorityReset
    <2> QED
        BY <1>0, <2>1, <2>2
<1>3. ASSUME NEW wl, Donates(wl)
      PROVE  /\ priority'[t] >= initial_priority'[t]
             /\ priority'[t] > initial_priority'[t] => \E l \in Locks : holder'[l] = t
    <2>1. /\ priority'[t] = IF t \in Donees(wl) THEN priority[cur] ELSE priority[t]
          /\ UNCHANGED <<initial_priority, holder>>
        BY <1>0, <1>3 DEF Donates, priority_donation_solve
    <2>2. t \in Donees(wl) => priority[t] < priority[cur] /\ \E l \in Locks : holder[l] = t
        BY <1>3, DoneesRaisable DEF Donates, Raisable, Holds
    <2> QED
        BY <1>0, <2>1, <2>2
<1>4. ASSUME NEW donors, Recounts(donors)
      PROVE  /\ priority'[t] >= initial_priority'[t]
             /\ priority'[t] > initial_priority'[t] => \E l \in Locks : holder'[l] = t
    <2> DEFINE top == priority[Head(donors)]
               base == initial_priority'[cur]
    <2>1. /\ priority' = [priority EXCEPT ![cur] =
                IF donors # <<>> /\ top > base THEN top ELSE base]
          /\ base \in Nat
          /\ t # cur => initial_priority'[t] = initial_priority[t]
        BY <1>0, <1>4 DEF Recounts, priority_check_from_donation_list
    <2>2. donors # <<>> => /\ Head(donors) \in ToSet(donors) /\ top \in Nat
        BY <1>0, <1>4, PopFrontFacts, ZenonT(30) DEF Recounts, AllThreads
    <2>3. CASE t = cur
        <3>1. donors # <<>> => \E l \in Locks : holder'[l] = cur
            BY <1>4, <2>2 DEF Recounts
        <3> QED
            BY <1>0, <2>1, <2>2, <2>3, <3>1
    <2>4. CASE t # cur
        <3>1. \A l \in Locks : holder[l] = t => holder'[l] = t
            BY <1>4, <2>4 DEF Recounts
        <3>2. priority'[t] = priority[t]
            BY <1>0, <2>1, <2>4
        <3> QED
            BY <1>0, <2>1, <2>4, <3>1, <3>2
    <2> QED
        BY <2>3, <2>4
<1> QED
    BY <1>1, <1>2, <1>3, <1>4, PriorityKinds

(* A thread runs above the priority it asked for only while it holds a     *)
(* lock, and never below it: a release gives back all that was donated for *)
(* the lock, whichever donors came, raised their priority or left.         *)
THEOREM DonationsAreReturned == Spec => []DonationReturned
<1>1. Init => DonationReturned
    BY DEF Init, DonationReturned, AllThreads
<1> QED
    BY <1>1, LockInvAlways, DonationsStaySound, ReturnStep, PTL DEF Spec
-----------------------------------------------------------------------------
(* The order of the ready list, and who runs.                              *)

(* The front of the list outranks the running thread only if it is in      *)
(* Raised.                                                                 *)
FrontIsBelow(c, ready, pri, Raised) ==
    ready # <<>> /\ pri[c] < pri[Head(ready)] => Head(ready) \in Raised

(* schedule takes the front of an ordered list, ...                        *)
LEMMA ScheduleOrder ==
    ASSUME NEW ready \in Seq(Threads), NEW st, NEW pri, NEW Raised,
           OrderedUpTo(ready, pri, Raised), schedule(st, ready)
    PROVE  /\ OrderedUpTo(ready_list', pri, Raised)
           /\ FrontIsBelow(cur', ready_list', pri, Raised)
<1>1. CASE ready = <<>>
    BY <1>1 DEF schedule, FrontIsBelow
<1>2. CASE ready # <<>>
    <2>1. cur' = Head(ready) /\ ready_list' = Tail(ready)
        BY <1>2 DEF schedule
    <2> QED
        BY <1>2, <2>1, TailKeepsOrder DEF FrontIsBelow
<1> QED
    BY <1>1, <1>2

(* ... thread_yield first inserts the running thread into it, ...          *)
LEMMA YieldOrder ==
    ASSUME cur \in AllThreads, NEW ready \in Seq(Threads), NEW st,
           NEW pri \in [AllThreads -> Nat], NEW Raised,
           OrderedUpTo(ready, pri, Raised), yield(st, ready, pri)
    PROVE  /\ OrderedUpTo(ready_list', pri, Raised)
           /\ FrontIsBelow(cur', ready_list', pri, Raised)
<1> DEFINE queue == IF cur = idle_thread THEN ready ELSE InsertOrdered(ready, cur, pri)
<1>1. schedule([st EXCEPT ![cur] = "READY"], queue)
    BY DEF yield
<1>2. \A t \in Threads : pri[t] \in Int
    BY DEF AllThreads
<1>3. queue \in Seq(Threads) /\ OrderedUpTo(queue, pri, Raised)
    <2>1. CASE cur = idle_thread
        BY <2>1
    <2>2. CASE cur # idle_thread
        <3>1. cur \in Threads
            BY <2>2 DEF AllThreads
        <3>2. InsertOrdered(ready, cur, pri) \in Seq(Threads)
            BY <3>1, InsertOrderedFacts
        <3>3. OrderedUpTo(InsertOrdered(ready, cur, pri), pri, Raised)
            BY <1>2, <3>1, InsertKeepsOrder
        <3> QED
            BY <2>2, <3>2, <3>3
    <2> QED
        BY <2>1, <2>2
<1> HIDE DEF queue
<1> QED
    BY <1>1, <1>3, ScheduleOrder

(* ... and the check whether another thread should run yields if one does. *)
LEMMA ReschedOrder ==
    ASSUME cur \in AllThreads, NEW ready \in Seq(Threads), NEW st,
           NEW pri \in [AllThreads -> Nat], NEW Raised, OrderedUpTo(ready, pri, Raised),
           iscurrent_thread_has_max_priority(st, ready, pri)
    PROVE  /\ OrderedUpTo(ready_list', pri, Raised)
           /\ FrontIsBelow(cur', ready_list', pri, Raised)
<1>1. CASE yield(st, ready, pri)
    BY <1>1, YieldOrder
<1>2. CASE ~(ready # <<>> /\ pri[cur] < pri[Head(ready)]) /\ keeps_running(st, ready, pri)
    <2>1. ready_list' = ready /\ cur' = cur
        BY <1>2 DEF keeps_running
    <2> QED
        BY <1>2, <2>1 DEF FrontIsBelow
<1> QED
    BY <1>1, <1>2 DEF iscurrent_thread_has_max_priority

(* sema_up keeps the order of the ready list.                              *)
LEMMA SemaUpOrder ==
    ASSUME LockInv, NEW s \in AllSemas, NEW pri \in [AllThreads -> Nat], NEW intr \in BOOLEAN,
           NEW Raised, OrderedUpTo(ready_list, pri, Raised), sema_up_body(s, pri, intr)
    PROVE  /\ OrderedUpTo(ready_list', pri, Raised)
           /\ intr \/ FrontIsBelow(cur', ready_list', pri, Raised)
<1>0. /\ cur \in AllThreads /\ ready_list \in Seq(Threads)
      /\ waiters \in [AllSemas -> Seq(Threads)]
    BY SchedulerTypes
<1>1. ASSUME NEW st, NEW ready \in Seq(Threads), OrderedUpTo(ready, pri, Raised),
             sema_up_ends(st, ready, pri, intr)
      PROVE  /\ OrderedUpTo(ready_list', pri, Raised)
             /\ intr \/ FrontIsBelow(cur', ready_list', pri, Raised)
    <2>1. CASE intr
        BY <1>1, <2>1 DEF sema_up_ends, keeps_running
    <2>2. CASE ~intr
        <3>1. iscurrent_thread_has_max_priority(st, ready, pri)
            BY <1>1, <2>2 DEF sema_up_ends
        <3> QED
            BY <1>0, <1>1, <3>1, ReschedOrder
    <2> QED
        BY <2>1, <2>2
<1>2. CASE sema_up_ends(status, ready_list, pri, intr)
    BY <1>0, <1>1, <1>2
<1>3. ASSUME waiters[s] # <<>>, NEW q \in Sorted(waiters[s], pri), NEW st,
             sema_up_ends(st, InsertOrdered(ready_list, Head(q), pri), pri, intr)
      PROVE  /\ OrderedUpTo(ready_list', pri, Raised)
             /\ intr \/ FrontIsBelow(cur', ready_list', pri, Raised)
    <2>1. q \in Seq(Threads) /\ q # <<>>
        BY <1>0, <1>3, SortedFacts
    <2>2. Head(q) \in Threads
        BY <2>1, PopFrontFacts
    <2>3. \A t \in Threads : pri[t] \in Int
        BY DEF AllThreads
    <2>4. InsertOrdered(ready_list, Head(q), pri) \in Seq(Threads)
        BY <1>0, <2>2, InsertOrderedFacts
    <2>5. OrderedUpTo(InsertOrdered(ready_list, Head(q), pri), pri, Raised)
        BY <1>0, <2>2, <2>3, InsertKeepsOrder
    <2> QED
        BY <1>1, <1>3, <2>4, <2>5
<1> QED
    BY <1>2, <1>3 DEF sema_up_body, wakes

(* A step that leaves the running thread and the ready list alone, outside *)
(* the handler.                                                            *)
KeepsRunning ==
    /\ UNCHANGED <<cur, ready_list>>
    /\ ~in_external_intr /\ pc[cur] # "created"
    /\ priority'[cur] >= priority[cur]

(* What a step does to the list, once the priorities have changed.         *)
LEMMA ReadyKinds ==
    ASSUME LockInv, Next, NEW Raised,
           priority' \in [AllThreads -> Nat], OrderedUpTo(ready_list, priority', Raised)
    PROVE  /\ OrderedUpTo(ready_list', priority', Raised)
           /\ \/ FrontIsBelow(cur', ready_list', priority', Raised)
              \/ in_external_intr' \/ pc'[cur'] = "created"
              \/ \E s \in IntrSemas : sema_up_in_interrupt(s)
              \/ KeepsRunning
<1> USE SchedulerTypes
<1> DEFINE Good == /\ OrderedUpTo(ready_list', priority', Raised)
                   /\ FrontIsBelow(cur', ready_list', priority', Raised)
<1>0. \A t \in Threads : priority'[t] \in Int
    BY DEF AllThreads
<1>1. ASSUME NEW t \in Threads, NEW p \in Priorities, thread_create(t, p)
      PROVE  OrderedUpTo(ready_list', priority', Raised) /\ pc'[cur'] = "created"
    <2>1. /\ ready_list' = InsertOrdered(ready_list, t, priority') /\ cur' = cur
          /\ pc' = [pc EXCEPT ![t] = "run", ![cur] = "created"]
        BY <1>1 DEF thread_create
    <2>2. OrderedUpTo(ready_list', priority', Raised)
        BY <1>0, <2>1, InsertKeepsOrder
    <2> QED
        BY <2>1, <2>2
<1>2. CASE thread_created
    <2>1. priority' = priority /\ iscurrent_thread_has_max_priority(status, ready_list, priority')
        BY <1>2 DEF thread_created, threadVars
    <2> QED
        BY <2>1, ReschedOrder
<1>3. CASE thread_yield
    <2>1. yield(status, ready_list, priority')
        BY <1>3 DEF thread_yield, threadVars
    <2> QED
        BY <2>1, YieldOrder
<1>4. ASSUME NEW st, schedule(st, ready_list)
      PROVE  Good
    BY <1>4, ScheduleOrder
<1>5. CASE thread_exit \/ idle \/ \E n \in 1..MaxSleep : timer_sleep(n)
    BY <1>4, <1>5 DEF thread_exit, idle, timer_sleep
<1>6. ASSUME NEW p \in Priorities, thread_set_priority(p)
      PROVE  Good \/ (OrderedUpTo(ready_list', priority', Raised) /\ KeepsRunning)
    <2>1. /\ ~in_external_intr /\ pc[cur] = "run"
          /\ IF priority'[cur] < priority[cur]
             THEN iscurrent_thread_has_max_priority(status, ready_list, priority')
             ELSE UNCHANGED schedVars
        BY <1>6 DEF thread_set_priority, InCode, At
    <2>2. CASE iscurrent_thread_has_max_priority(status, ready_list, priority')
        BY <2>2, ReschedOrder
    <2>3. CASE ~(priority'[cur] < priority[cur]) /\ UNCHANGED schedVars
        <3>1. priority'[cur] >= priority[cur]
            BY <2>3
        <3> QED
            BY <2>1, <2>3, <3>1 DEF schedVars, KeepsRunning
    <2> QED
        BY <2>1, <2>2, <2>3
<1>7. ASSUME NEW s \in AllSemas, NEW wl, NEW donors, ~in_external_intr, pc[cur] # "created",
             waitInDown(s, wl, donors) \/ takes(s, donors)
      PROVE  Good \/ (OrderedUpTo(ready_list', priority', Raised) /\ KeepsRunning)
    <2>1. CASE waitInDown(s, wl, donors)
        BY <1>4, <2>1 DEF waitInDown
    <2>2. CASE takes(s, donors)
        <3>1. UNCHANGED <<cur, ready_list, priority>>
            BY <2>2 DEF takes, schedVars
        <3> QED
            BY <1>7, <3>1 DEF KeepsRunning
    <2> QED
        BY <1>7, <2>1, <2>2
<1>8. CASE sema_down_again
    <2>1. ~in_external_intr /\ pc[cur] # "created" /\ downing[cur] \in AllSemas
        BY <1>8, LockTypes DEF sema_down_again, At
    <2> QED
        BY <1>7, <1>8, <2>1 DEF sema_down_again
<1>9. ASSUME NEW s \in AllSemas,
             \/ s \in Semas /\ (sema_down(s) \/ sema_try_down(s))
             \/ s \in Locks /\ (lock_acquire(s) \/ lock_try_acquire(s))
      PROVE  Good \/ (OrderedUpTo(ready_list', priority', Raised) /\ KeepsRunning)
    <2>1. ~in_external_intr /\ pc[cur] = "run"
        BY <1>9 DEF sema_down, sema_try_down, lock_acquire, lock_try_acquire, InCode, At
    <2>2. \E wl, donors : waitInDown(s, wl, donors) \/ takes(s, donors)
        BY <1>9 DEF sema_down, sema_try_down, lock_acquire, lock_try_acquire
    <2> QED
        BY <1>7, <2>1, <2>2
<1>10. ASSUME NEW s \in AllSemas, (s \in Semas /\ sema_up(s)) \/ (s \in Locks /\ lock_release(s))
       PROVE  Good
    <2>1. sema_up_body(s, priority', FALSE)
        BY <1>10 DEF sema_up, lock_release, threadVars
    <2> QED
        BY <2>1, SemaUpOrder
<1>11. ASSUME NEW s \in IntrSemas, sema_up_in_interrupt(s)
       PROVE  OrderedUpTo(ready_list', priority', Raised)
    <2>1. sema_up_body(s, priority', TRUE) /\ s \in AllSemas
        BY <1>11 DEF sema_up_in_interrupt, threadVars, AllSemas
    <2> QED
        BY <2>1, SemaUpOrder
<1>12. CASE timer_interrupt
    <2>1. in_external_intr' /\ ready_list' = ready_list
        BY <1>12 DEF timer_interrupt, schedVars
    <2> QED
        BY <2>1
<1>13. CASE timer_interrupt_wake
    <2>1. /\ in_external_intr' /\ sleep_list # <<>> /\ priority' = priority
          /\ ready_list' = InsertOrdered(ready_list, Head(sleep_list), priority)
        BY <1>13 DEF timer_interrupt_wake, SleeperDue, threadVars
    <2>2. Head(sleep_list) \in Threads
        BY <2>1, PopFrontFacts
    <2>3. OrderedUpTo(ready_list', priority', Raised)
        BY <1>0, <2>1, <2>2, InsertKeepsOrder
    <2> QED
        BY <2>1, <2>3
<1>14. CASE timer_interrupt_return
    <2>1. priority' = priority
        BY <1>14 DEF timer_interrupt_return, threadVars
    <2>2. CASE ready_list = <<>> /\ UNCHANGED schedVars
        BY <2>2 DEF schedVars, FrontIsBelow
    <2>3. CASE yield(status, ready_list, priority)
        BY <2>1, <2>3, YieldOrder
    <2>4. CASE /\ ~(priority[cur] < priority[Head(ready_list)])
               /\ UNCHANGED <<cur, ready_list>>
        BY <2>1, <2>4 DEF FrontIsBelow
    <2> QED
        BY <1>14, <2>2, <2>3, <2>4 DEF timer_interrupt_return, intr_yield_on_return
<1>15. \/ \E t \in Threads, p \in Priorities : thread_create(t, p)
       \/ thread_created \/ thread_yield \/ thread_exit \/ idle
       \/ \E p \in Priorities : thread_set_priority(p)
       \/ timer_interrupt \/ timer_interrupt_wake \/ timer_interrupt_return
       \/ \E n \in 1..MaxSleep : timer_sleep(n)
       \/ sema_down_again
       \/ \E l \in Locks : LockStep(l)
       \/ \E s \in Semas : SemaStep(s)
       \/ \E s \in IntrSemas : sema_up_in_interrupt(s)
    BY DEF Next, TimerStep
<1>16. ASSUME NEW l \in Locks, LockStep(l)
       PROVE  Good \/ (OrderedUpTo(ready_list', priority', Raised) /\ KeepsRunning)
    <2>1. l \in AllSemas
        BY DEF AllSemas
    <2> HIDE DEF Good
    <2>2. CASE lock_acquire(l) \/ lock_try_acquire(l)
        BY <1>9, <2>1, <2>2
    <2>3. CASE lock_release(l)
        BY <1>10, <2>1, <2>3
    <2> QED
        BY <1>16, <2>2, <2>3 DEF LockStep
<1>17. ASSUME NEW s \in Semas, SemaStep(s)
       PROVE  Good \/ (OrderedUpTo(ready_list', priority', Raised) /\ KeepsRunning)
    <2>1. s \in AllSemas
        BY DEF AllSemas
    <2> HIDE DEF Good
    <2>2. CASE sema_down(s) \/ sema_try_down(s)
        BY <1>9, <2>1, <2>2
    <2>3. CASE sema_up(s)
        BY <1>10, <2>1, <2>3
    <2> QED
        BY <1>17, <2>2, <2>3 DEF SemaStep
<1> QED
    BY <1>1, <1>2, <1>3, <1>5, <1>6, <1>8, <1>11, <1>12, <1>13, <1>14, <1>15, <1>16, <1>17

(* The threads that hold a lock.                                           *)
HolderSet == { t \in Threads : Holds(t) }

ReadyInv == OrderedUpTo(ready_list, priority, HolderSet)

(* The front of the ready list does not outrank the running thread, but    *)
(* for a donation; not claimed inside the handler, nor at the end of       *)
(* thread_create, which are about to look at the list.                     *)
RunningInv ==
    ~in_external_intr /\ pc[cur] # "created"
        => FrontIsBelow(cur, ready_list, priority, HolderSet)

(* While a thread is ready its priority only grows, when it holds a lock,  *)
(* and it keeps its locks.                                                 *)
LEMMA ReadyThreadsKeep ==
    ASSUME LockInv, DonationsSound, [Next]_vars
    PROVE  /\ priority' \in [AllThreads -> Nat]
           /\ \A t \in ToSet(ready_list) :
                /\ \/ priority'[t] = priority[t]
                   \/ priority'[t] > priority[t] /\ t \in HolderSet'
                /\ t \in HolderSet => t \in HolderSet'
<1> USE SchedulerTypes
<1>0. \A t \in ToSet(ready_list) :
        t \in Threads /\ t \in AllThreads /\ t # cur /\ status[t] # "FREE" /\ t # NULL
    <2>1. \A t \in ToSet(ready_list) : t \in Threads
        BY ElementsOf
    <2>2. \A t \in ToSet(ready_list) : status[t] = "READY"
        BY <2>1 DEF LockInv, Queued, QueuedIn
    <2>3. status[cur] = "RUNNING"
        BY LockTypes
    <2> QED
        BY <2>1, <2>2, <2>3 DEF AllThreads
<1> SUFFICES /\ priority' \in [AllThreads -> Nat]
             /\ \A t \in ToSet(ready_list) :
                  /\ \/ priority'[t] = priority[t]
                     \/ priority'[t] > priority[t] /\ \E l \in Locks : holder'[l] = t
                  /\ \A l \in Locks : holder[l] = t => holder'[l] = t
    BY <1>0 DEF HolderSet, Holds
<1>1. CASE PriorityAside
    BY <1>0, <1>1 DEF PriorityAside
<1>2. CASE PriorityReset
    <2>1. PICK u \in AllThreads, p \in Nat :
            (u = cur \/ status[u] = "FREE") /\ priority' = [priority EXCEPT ![u] = p]
        BY <1>2 DEF PriorityReset
    <2>2. holder' = holder
        BY <1>2 DEF PriorityReset
    <2> QED
        BY <1>0, <2>1, <2>2
<1>3. ASSUME NEW wl, Donates(wl)
      PROVE  /\ priority' \in [AllThreads -> Nat]
             /\ \A t \in ToSet(ready_list) :
                  /\ \/ priority'[t] = priority[t]
                     \/ priority'[t] > priority[t] /\ \E l \in Locks : holder'[l] = t
                  /\ \A l \in Locks : holder[l] = t => holder'[l] = t
    <2>1. /\ priority' = [t \in AllThreads |->
                            IF t \in Donees(wl) THEN priority[cur] ELSE priority[t]]
          /\ holder' = holder
        BY <1>3 DEF Donates, priority_donation_solve
    <2>2. \A t \in Donees(wl) : priority[t] < priority[cur] /\ \E l \in Locks : holder[l] = t
        BY <1>3, DoneesRaisable DEF Donates, Raisable, Holds
    <2> QED
        BY <1>0, <2>1, <2>2
<1>4. ASSUME NEW donors, Recounts(donors)
      PROVE  /\ priority' \in [AllThreads -> Nat]
             /\ \A t \in ToSet(ready_list) :
                  /\ \/ priority'[t] = priority[t]
                     \/ priority'[t] > priority[t] /\ \E l \in Locks : holder'[l] = t
                  /\ \A l \in Locks : holder[l] = t => holder'[l] = t
    <2>1. donors # <<>> => priority[Head(donors)] \in Nat
        <3>1. donors \in Seq(Threads)
            BY <1>4 DEF Recounts
        <3>2. donors # <<>> => Head(donors) \in AllThreads
            BY <3>1, PopFrontFacts DEF AllThreads
        <3> QED
            BY <3>2
    <2>2. /\ initial_priority'[cur] \in Nat
          /\ priority' = [priority EXCEPT ![cur] =
                IF donors # <<>> /\ priority[Head(donors)] > initial_priority'[cur]
                THEN priority[Head(donors)] ELSE initial_priority'[cur]]
        BY <1>4 DEF Recounts, priority_check_from_donation_list
    <2>3. \A l \in Locks : holder[l] # cur => holder'[l] = holder[l]
        BY <1>4 DEF Recounts
    <2> QED
        BY <1>0, <2>1, <2>2, <2>3
<1> QED
    BY <1>1, <1>2, <1>3, <1>4, PriorityKinds

(* The priorities after a step are still those of the order before it.     *)
LEMMA Reordered ==
    ASSUME LockInv, DonationsSound, ReadyInv, [Next]_vars
    PROVE  priority' \in [AllThreads -> Nat] /\ OrderedUpTo(ready_list, priority', HolderSet')
<1>1. /\ ready_list \in Seq(Threads)
      /\ \A t \in Threads : priority[t] \in Int
    BY SchedulerTypes DEF AllThreads
<1>2. /\ priority' \in [AllThreads -> Nat]
      /\ \A t \in ToSet(ready_list) :
            /\ \/ priority'[t] = priority[t]
               \/ priority'[t] > priority[t] /\ t \in HolderSet'
            /\ t \in HolderSet => t \in HolderSet'
    BY ReadyThreadsKeep
<1>3. \A t \in Threads : priority'[t] \in Int
    BY <1>2 DEF AllThreads
<1>4. OrderedUpTo(ready_list, priority, HolderSet)
    BY DEF ReadyInv
<1>5. OrderedUpTo(ready_list, priority', HolderSet')
    <2> DEFINE pri2 == priority'
               Raised2 == HolderSet'
    <2>1. /\ \A t \in Threads : pri2[t] \in Int
          /\ \A t \in ToSet(ready_list) :
                /\ pri2[t] = priority[t] \/ (pri2[t] > priority[t] /\ t \in Raised2)
                /\ t \in HolderSet => t \in Raised2
        BY <1>2, <1>3
    <2> HIDE DEF pri2, Raised2
    <2>2. RaisesOnly(ready_list, priority, pri2, HolderSet, Raised2)
        BY <2>1 DEF RaisesOnly
    <2>3. OrderedUpTo(ready_list, pri2, Raised2)
        BY <1>1, <1>4, <2>1, <2>2, RaisedKeepsOrder
    <2> QED
        BY <2>3 DEF pri2, Raised2
<1> QED
    BY <1>2, <1>5

(* Every step keeps the order of the ready list.                           *)
LEMMA ReadyStep == LockInv /\ DonationsSound /\ ReadyInv /\ [Next]_vars => ReadyInv'
<1> SUFFICES ASSUME LockInv, DonationsSound, ReadyInv, [Next]_vars PROVE ReadyInv'
    OBVIOUS
<1>1. priority' \in [AllThreads -> Nat] /\ OrderedUpTo(ready_list, priority', HolderSet')
    BY Reordered
<1>2. CASE Next
    BY <1>1, <1>2, ReadyKinds DEF ReadyInv
<1>3. CASE UNCHANGED vars
    BY <1>1, <1>3 DEF ReadyInv, vars, schedVars
<1> QED
    BY <1>2, <1>3

(* The ready list is in order throughout.                                  *)
LEMMA ReadyInvAlways == Spec => [](LockInv /\ DonationsSound /\ ReadyInv)
<1>1. Init => ReadyInv
    <2>1. 1..Len(<<>>) = {}
        OBVIOUS
    <2>2. \A key, Raised : OrderedUpTo(<<>>, key, Raised)
        BY <2>1 DEF OrderedUpTo
    <2> QED
        BY <2>2 DEF Init, ReadyInv
<1> QED
    BY <1>1, LockInvAlways, DonationsStaySound, ReadyStep, PTL DEF Spec

(* The ready list is ordered by priority, but for threads that a donation  *)
(* raised while they were on it: where it is out of order, the thread that *)
(* should be further in front holds a lock.                                *)
THEOREM ReadyListStaysOrdered == Spec => []ReadyOrderUpToDonation
<1>1. LockInv /\ ReadyInv => ReadyOrderUpToDonation
    <2> SUFFICES ASSUME LockInv, ReadyInv PROVE ReadyOrderUpToDonation
        OBVIOUS
    <2>1. DOMAIN ready_list = 1..Len(ready_list)
        BY SchedulerTypes
    <2> QED
        BY <2>1 DEF ReadyInv, OrderedUpTo, ReadyOrderUpToDonation, HolderSet
<1> QED
    BY <1>1, ReadyInvAlways, PTL

(* The only step that can leave the front of the ready list above the      *)
(* running thread is the one the code takes without looking.               *)
LEMMA RunningStep ==
    ASSUME LockInv, DonationsSound, ReadyInv, RunningInv, [Next]_vars,
           ~ \E s \in IntrSemas : sema_up_in_interrupt(s)
    PROVE  RunningInv'
<1>1. priority' \in [AllThreads -> Nat] /\ OrderedUpTo(ready_list, priority', HolderSet')
    BY Reordered
<1>2. CASE UNCHANGED vars
    <2>1. UNCHANGED <<cur, ready_list, priority, holder, in_external_intr, pc>>
        BY <1>2 DEF vars, schedVars, threadVars, placeVars
    <2> QED
        BY <2>1 DEF RunningInv, FrontIsBelow, HolderSet, Holds
<1>3. CASE KeepsRunning
    <2>1. /\ UNCHANGED <<cur, ready_list>> /\ priority'[cur] >= priority[cur]
          /\ FrontIsBelow(cur, ready_list, priority, HolderSet)
        BY <1>3 DEF KeepsRunning, RunningInv
    <2>2. \A t \in ToSet(ready_list) :
            /\ \/ priority'[t] = priority[t]
               \/ priority'[t] > priority[t] /\ t \in HolderSet'
            /\ t \in HolderSet => t \in HolderSet'
        BY ReadyThreadsKeep
    <2>3. ready_list # <<>> => /\ Head(ready_list) \in ToSet(ready_list)
                               /\ priority[Head(ready_list)] \in Nat
                               /\ priority'[Head(ready_list)] \in Nat
        <3>1. ready_list # <<>> => /\ Head(ready_list) \in ToSet(ready_list)
                                   /\ Head(ready_list) \in AllThreads
            BY SchedulerTypes, PopFrontFacts DEF AllThreads
        <3> QED
            BY <1>1, <3>1, SchedulerTypes
    <2>4. priority[cur] \in Nat /\ priority'[cur] \in Nat
        BY <1>1, SchedulerTypes
    <2>5. FrontIsBelow(cur, ready_list, priority', HolderSet')
        BY <2>1, <2>2, <2>3, <2>4 DEF FrontIsBelow
    <2> QED
        BY <2>1, <2>5 DEF RunningInv
<1>4. CASE Next /\ ~KeepsRunning
    <2>1. \/ FrontIsBelow(cur', ready_list', priority', HolderSet')
          \/ in_external_intr' \/ pc'[cur'] = "created"
        BY <1>1, <1>4, ReadyKinds
    <2> QED
        BY <2>1 DEF RunningInv
<1> QED
    BY <1>2, <1>3, <1>4

(* Initially the running thread is alone.                                  *)
LEMMA RunningInit == Init => RunningInv
BY DEF Init, RunningInv, FrontIsBelow

(* Where no interrupt handler ups a semaphore, no ready thread outranks    *)
(* the running one between two calls, unless a donation raised it while it *)
(* was ready.                                                              *)
THEOREM RunningThreadOutranks ==
    ASSUME IntrSemas = {}
    PROVE  Spec => []RunningOutranksFront
<1>1. LockInv /\ DonationsSound /\ ReadyInv /\ RunningInv /\ [Next]_vars => RunningInv'
    BY RunningStep
<1>2. RunningInv => RunningOutranksFront
    BY DEF RunningInv, RunningOutranksFront, FrontIsBelow, HolderSet, At
<1> QED
    BY <1>1, <1>2, RunningInit, ReadyInvAlways, PTL DEF Spec

(* Nothing but a sema_up in a handler breaks that.                         *)
OnlyHandlersUpset ==
    [][RunningInv /\ ~(\E s \in IntrSemas : sema_up_in_interrupt(s)) => RunningInv']_vars

(* Whatever the handlers do, nothing but their sema_up, which does not     *)
(* look whom it woke, lets a thread run below the front of the list.       *)
THEOREM OnlyHandlersLeaveFrontAbove == Spec => OnlyHandlersUpset
<1>1. LockInv /\ DonationsSound /\ ReadyInv /\ [Next]_vars =>
        [RunningInv /\ ~(\E s \in IntrSemas : sema_up_in_interrupt(s)) => RunningInv']_vars
    BY RunningStep
<1> QED
    BY <1>1, ReadyInvAlways, PTL DEF Spec, OnlyHandlersUpset

(* The tick after makes up for it: when the timer's handler returns, the   *)
(* front of the ready list does not outrank the thread that runs, unless   *)
(* it holds a lock.                                                        *)
THEOREM TicksRestoreOrder == Spec => TickRestoresOrder
<1>1. ASSUME LockInv, DonationsSound, ReadyInv, [Next]_vars,
             in_external_intr, ~in_external_intr', ready_list' # <<>>,
             priority'[cur'] < priority'[Head(ready_list')]
      PROVE  \E l \in Locks : holder[l] = Head(ready_list')
    <2>1. timer_interrupt_return
        BY <1>1 DEF Next, TimerStep, LockStep, SemaStep, thread_create, thread_created, thread_yield,
           thread_exit, idle, sema_down_again, thread_set_priority, timer_sleep, lock_acquire,
           lock_try_acquire, lock_release, sema_down, sema_try_down, sema_up, sema_up_in_interrupt,
           timer_interrupt, timer_interrupt_wake, InCode, At, vars
    <2>2. priority' = priority /\ holder' = holder
        BY <2>1 DEF timer_interrupt_return, threadVars
    <2>3. /\ ready_list \in Seq(Threads) /\ cur \in AllThreads /\ priority \in [AllThreads -> Nat]
          /\ OrderedUpTo(ready_list, priority, HolderSet)
        BY <1>1, SchedulerTypes DEF ReadyInv
    <2>4. FrontIsBelow(cur', ready_list', priority, HolderSet)
        <3>1. CASE ready_list = <<>> /\ UNCHANGED schedVars
            BY <3>1 DEF schedVars, FrontIsBelow
        <3>2. CASE yield(status, ready_list, priority)
            BY <2>3, <3>2, YieldOrder
        <3>3. CASE /\ ~(priority[cur] < priority[Head(ready_list)])
                   /\ UNCHANGED <<cur, ready_list>>
            BY <3>3 DEF FrontIsBelow
        <3> QED
            BY <2>1, <3>1, <3>2, <3>3 DEF timer_interrupt_return, intr_yield_on_return
    <2> QED
        BY <1>1, <2>2, <2>4 DEF FrontIsBelow, HolderSet, Holds
<1>2. LockInv /\ DonationsSound /\ ReadyInv /\ [Next]_vars =>
        [(in_external_intr /\ ~in_external_intr' /\ ready_list' # <<>>
            /\ priority'[cur'] < priority'[Head(ready_list')])
              => \E l \in Locks : holder[l] = Head(ready_list')]_vars
    BY <1>1
<1> QED
    BY <1>2, ReadyInvAlways, PTL DEF Spec, TickRestoresOrder
=============================================================================
