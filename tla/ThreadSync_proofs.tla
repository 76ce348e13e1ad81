--------------------------- MODULE ThreadSync_proofs ---------------------------
(***************************************************************************)
(* Proofs about ThreadSync, for any number of threads, locks, semaphores   *)
(* and priorities: its types, locks' holders and values, and the lists;    *)
(* then that donation lists name the threads that wait for the locks of    *)
(* their owner, and that locks implement the abstract lock of Mutex.       *)
(***************************************************************************)
EXTENDS ThreadSync, LockRefinement, KernelLists_proofs

Statuses == {"FREE", "RUNNING", "READY", "BLOCKED", "DYING"}

(* The part of TypeOK that a thread switch changes.                        *)
SchedTypeOK ==
    /\ cur \in AllThreads
    /\ status \in [AllThreads -> Statuses]
    /\ ready_list \in Seq(Threads)
    /\ thread_ticks \in 0..TIME_SLICE

(* The idle thread makes no calls, and a thread in sema_down is in the     *)
(* sema_down of some semaphore.                                            *)
PlaceOK ==
    /\ pc[idle_thread] = "run"
    /\ \A t \in AllThreads : pc[t] = "down" => downing[t] \in AllSemas

(* TypeOK needs HolderMatchesValue: lock_release adds one to a value that  *)
(* may not exceed one.                                                     *)
TypeInv == TypeOK /\ PlaceOK /\ HolderMatchesValue

USE ThreadsAssumption, ObjectsAssumption, NumbersAssumption
-----------------------------------------------------------------------------
(* schedule leaves the scheduler's variables well typed.                   *)
LEMMA ScheduleType ==
    ASSUME NEW st \in [AllThreads -> Statuses], NEW ready \in Seq(Threads),
           schedule(st, ready)
    PROVE  SchedTypeOK'
<1> DEFINE next == IF ready = <<>> THEN idle_thread ELSE Head(ready)
<1>1. next \in AllThreads
    BY PopFrontFacts DEF AllThreads
<1>2. cur' = next /\ status' = [Reaped(st) EXCEPT ![next] = "RUNNING"] /\ thread_ticks' = 0
      /\ ready_list' = IF ready = <<>> THEN ready ELSE Tail(ready)
    BY DEF schedule
<1> HIDE DEF next
<1>3. Reaped(st) \in [AllThreads -> Statuses]
    BY DEF Reaped, Statuses
<1>4. ready_list' \in Seq(Threads)
    BY <1>2, PopFrontFacts
<1> QED
    BY <1>1, <1>2, <1>3, <1>4 DEF SchedTypeOK, Statuses

(* So does thread_yield.                                                   *)
LEMMA YieldType ==
    ASSUME cur \in AllThreads, NEW st \in [AllThreads -> Statuses],
           NEW ready \in Seq(Threads), NEW pri,
           yield(st, ready, pri)
    PROVE  SchedTypeOK'
<1> DEFINE queue == IF cur = idle_thread THEN ready ELSE InsertOrdered(ready, cur, pri)
           st2 == [st EXCEPT ![cur] = "READY"]
<1>1. queue \in Seq(Threads)
    BY InsertOrderedFacts DEF AllThreads
<1>2. st2 \in [AllThreads -> Statuses]
    BY DEF Statuses
<1>3. schedule(st2, queue)
    BY DEF yield
<1> HIDE DEF queue, st2
<1> QED
    BY <1>1, <1>2, <1>3, ScheduleType

(* So does the check whether another thread should run.                    *)
LEMMA ReschedType ==
    ASSUME SchedTypeOK, NEW st \in [AllThreads -> Statuses],
           NEW ready \in Seq(Threads), NEW pri,
           \/ iscurrent_thread_has_max_priority(st, ready, pri)
           \/ keeps_running(st, ready, pri)
    PROVE  SchedTypeOK'
<1>1. CASE keeps_running(st, ready, pri)
    BY <1>1 DEF keeps_running, SchedTypeOK
<1>2. CASE yield(st, ready, pri)
    BY <1>2, YieldType DEF SchedTypeOK
<1> QED
    BY <1>1, <1>2 DEF iscurrent_thread_has_max_priority

(* sema_up adds one to the value and keeps the rest well typed.            *)
LEMMA SemaUpType ==
    ASSUME TypeOK, NEW s \in AllSemas, NEW pri,
           NEW intr, sema_up_body(s, pri, intr)
    PROVE  /\ SchedTypeOK'
           /\ waiters' \in [AllSemas -> Seq(Threads)]
           /\ value' = [value EXCEPT ![s] = @ + 1]
<1> DEFINE Resched(st, ready, p) ==
               \/ iscurrent_thread_has_max_priority(st, ready, p)
               \/ keeps_running(st, ready, p)
<1>1. SchedTypeOK /\ waiters \in [AllSemas -> Seq(Threads)]
    BY DEF TypeOK, SchedTypeOK, Statuses
<1>2. value' = [value EXCEPT ![s] = @ + 1]
    BY DEF sema_up_body, sema_up_ends
<1>3. CASE waiters' = waiters /\ Resched(status, ready_list, pri)
    BY <1>1, <1>2, <1>3, ReschedType DEF SchedTypeOK
<1>4. ASSUME wakes(s), NEW q \in Sorted(waiters[s], pri),
             waiters' = [waiters EXCEPT ![s] = Tail(q)],
             Resched([status EXCEPT ![Head(q)] = "READY"],
                     InsertOrdered(ready_list, Head(q), pri), pri)
      PROVE  SchedTypeOK' /\ waiters' \in [AllSemas -> Seq(Threads)]
    <2>1. waiters[s] \in Seq(Threads) /\ waiters[s] # <<>>
        BY <1>1, <1>4 DEF wakes
    <2>2. q \in Seq(Threads) /\ Len(q) = Len(waiters[s])
        BY <2>1, SortedFacts
    <2>3. q # <<>>
        BY <2>1, <2>2
    <2>4. Head(q) \in Threads /\ Tail(q) \in Seq(Threads)
        BY <2>2, <2>3, PopFrontFacts
    <2>5. [status EXCEPT ![Head(q)] = "READY"] \in [AllThreads -> Statuses]
        BY <1>1 DEF SchedTypeOK, Statuses
    <2>6. InsertOrdered(ready_list, Head(q), pri) \in Seq(Threads)
        BY <1>1, <2>4, InsertOrderedFacts DEF SchedTypeOK
    <2>7. SchedTypeOK'
        BY <1>1, <1>4, <2>5, <2>6, ReschedType
    <2> QED
        BY <1>1, <1>4, <2>4, <2>7
<1> QED
    BY <1>2, <1>3, <1>4 DEF sema_up_body, sema_up_ends

(* Waiting in sema_down, and coming out of it, keep the types.             *)
LEMMA DownType ==
    ASSUME TypeInv, cur # idle_thread, NEW s \in AllSemas,
           NEW wl \in [AllThreads -> Locks \cup {NULL}],
           NEW donors \in [AllThreads -> Seq(Threads)],
           waitInDown(s, wl, donors) \/ takes(s, donors)
    PROVE  TypeInv'
<1>1. cur \in Threads
    BY DEF TypeInv, TypeOK, AllThreads
<1>2. CASE waitInDown(s, wl, donors)
    <2>1. [status EXCEPT ![cur] = "BLOCKED"] \in [AllThreads -> Statuses]
        BY DEF TypeInv, TypeOK, Statuses
    <2>2. SchedTypeOK'
        BY <1>2, <2>1, ScheduleType DEF waitInDown, TypeInv, TypeOK
    <2>3. waiters' \in [AllSemas -> Seq(Threads)]
        BY <1>1, <1>2, InsertOrderedFacts DEF waitInDown, TypeInv, TypeOK
    <2>4. priority' \in [AllThreads -> Nat]
        BY <1>2 DEF waitInDown, priority_donation_solve, TypeInv, TypeOK
    <2>5. PlaceOK' /\ pc' \in [AllThreads -> PCs]
                   /\ downing' \in [AllThreads -> AllSemas \cup {NULL}]
        BY <1>1, <1>2 DEF waitInDown, TypeInv, TypeOK, PlaceOK, PCs, AllThreads
    <2> QED
        BY <1>2, <2>2, <2>3, <2>4, <2>5
        DEF waitInDown, sleepVars, TypeInv, TypeOK, SchedTypeOK, Statuses, HolderMatchesValue
<1>3. CASE takes(s, donors)
    <2>1. value' \in [AllSemas -> Nat] /\ \A l \in Locks : value'[l] <= 1
        BY <1>3 DEF takes, TypeInv, TypeOK, AllSemas
    <2>2. holder' \in [Locks -> Threads \cup {NULL}] /\ HolderMatchesValue'
        <3>1. /\ holder' = IF s \in Locks THEN [holder EXCEPT ![s] = cur] ELSE holder
              /\ value' = [value EXCEPT ![s] = value[s] - 1] /\ value[s] > 0
            BY <1>3 DEF takes
        <3>2. /\ holder \in [Locks -> Threads \cup {NULL}] /\ value \in [AllSemas -> Nat]
              /\ Locks \subseteq AllSemas /\ \A l \in Locks : value[l] <= 1
              /\ \A l \in Locks : holder[l] = NULL <=> value[l] = 1
            BY DEF TypeInv, TypeOK, AllSemas, HolderMatchesValue
        <3>3. holder' \in [Locks -> Threads \cup {NULL}]
            BY <1>1, <3>1, <3>2
        <3>4. ASSUME NEW l \in Locks
              PROVE  holder'[l] = NULL <=> value'[l] = 1
            <4>1. CASE l = s
                <5>1. value[l] = 1 /\ value'[l] = 0 /\ holder'[l] = cur
                    BY <3>1, <3>2, <4>1
                <5> QED
                    BY <1>1, <5>1
            <4>2. CASE l # s
                <5>1. value'[l] = value[l] /\ holder'[l] = holder[l]
                    BY <3>1, <3>2, <4>2
                <5> QED
                    BY <3>2, <5>1
            <4> QED
                BY <4>1, <4>2
        <3> QED
            BY <3>3, <3>4 DEF HolderMatchesValue
    <2>3. waitlock' \in [AllThreads -> Locks \cup {NULL}]
        BY <1>3 DEF takes, TypeInv, TypeOK
    <2>4. PlaceOK' /\ pc' \in [AllThreads -> PCs]
                   /\ downing' \in [AllThreads -> AllSemas \cup {NULL}]
        BY <1>1, <1>3 DEF takes, TypeInv, TypeOK, PlaceOK, PCs, AllThreads
    <2> QED
        BY <1>3, <2>1, <2>2, <2>3, <2>4 DEF takes, schedVars, sleepVars, TypeInv, TypeOK
<1> QED
    BY <1>2, <1>3

(* The types, and what they rest on, hold at the start ...                 *)
LEMMA TypeInit == Init => TypeInv
<1> SUFFICES ASSUME Init PROVE TypeInv
    OBVIOUS
<1>1. initial_thread \in AllThreads /\ initial_thread # idle_thread /\ PRI_DEFAULT \in Nat
    BY DEF AllThreads
<1>2. priority \in [AllThreads -> Nat]
    BY <1>1 DEF Init
<1>3. HolderMatchesValue
    BY DEF Init, HolderMatchesValue, AllSemas
<1>4. cur \in AllThreads /\ status \in [AllThreads -> Statuses] /\ thread_ticks \in 0..TIME_SLICE
    BY <1>1 DEF Init, Statuses
<1>5. value \in [AllSemas -> Nat] /\ \A l \in Locks : value[l] <= 1
    BY DEF Init, AllSemas
<1>6. /\ pc \in [AllThreads -> PCs] /\ downing \in [AllThreads -> AllSemas \cup {NULL}]
      /\ PlaceOK
    BY DEF Init, PCs, PlaceOK, AllThreads
<1>7. /\ ready_list \in Seq(Threads) /\ sleep_list \in Seq(Threads)
      /\ list_of_donation \in [AllThreads -> Seq(Threads)]
      /\ waiters \in [AllSemas -> Seq(Threads)]
    BY DEF Init
<1>8. /\ waitlock \in [AllThreads -> Locks \cup {NULL}]
      /\ ticks_left \in [AllThreads -> Int]
      /\ holder \in [Locks -> Threads \cup {NULL}]
    BY DEF Init
<1>9. in_external_intr \in BOOLEAN
    BY Zenon DEF Init
<1>10. initial_priority \in [AllThreads -> Nat]
    BY <1>2 DEF Init
<1>11. PlaceOK /\ TypeOK
    BY <1>2, <1>4, <1>5, <1>6, <1>7, <1>8, <1>9, <1>10 DEF TypeOK, Statuses
<1> QED
    BY <1>3, <1>11 DEF TypeInv

(* ... and are kept by every step.                                         *)
LEMMA TypeStep == TypeInv /\ [Next]_vars => TypeInv'
<1> SUFFICES ASSUME TypeInv, [Next]_vars PROVE TypeInv'
    OBVIOUS
<1> USE DEF TypeInv
<1>0. SchedTypeOK
    BY DEF TypeOK, SchedTypeOK, Statuses
<1>1. ASSUME NEW t \in Threads, NEW p \in Priorities, thread_create(t, p)
      PROVE  TypeInv'
    <2>1. ready_list' \in Seq(Threads)
        BY <1>1, InsertOrderedFacts DEF thread_create, TypeOK
    <2>2. t # idle_thread /\ t \in AllThreads /\ p \in Nat
        BY DEF AllThreads
    <2>3. pc' = [pc EXCEPT ![t] = "run", ![cur] = "created"] /\ cur # idle_thread
          /\ downing' = downing
        BY <1>1 DEF thread_create, InCode
    <2>4. PlaceOK' /\ pc' \in [AllThreads -> PCs]
        <3>1. pc \in [AllThreads -> PCs] /\ downing \in [AllThreads -> AllSemas \cup {NULL}]
            BY DEF TypeOK
        <3>2. pc' \in [AllThreads -> PCs]
            BY <2>3, <3>1 DEF PCs
        <3>3. pc'[idle_thread] = "run"
            BY <2>2, <2>3, <3>1 DEF PlaceOK, AllThreads
        <3>4. ASSUME NEW u \in AllThreads, pc'[u] = "down" PROVE downing'[u] \in AllSemas
            BY <2>3, <3>1, <3>4 DEF PlaceOK
        <3> QED
            BY <3>2, <3>3, <3>4 DEF PlaceOK
    <2>5. status' \in [AllThreads -> Statuses]
        <3>1. status' = [status EXCEPT ![t] = "READY"]
            BY <1>1 DEF thread_create
        <3> QED
            BY <3>1 DEF TypeOK, Statuses
    <2>6. /\ priority' \in [AllThreads -> Nat] /\ initial_priority' \in [AllThreads -> Nat]
          /\ waitlock' \in [AllThreads -> Locks \cup {NULL}]
        BY <1>1, <2>2 DEF thread_create, TypeOK
    <2>7. list_of_donation' \in [AllThreads -> Seq(Threads)]
        <3>1. list_of_donation' = [list_of_donation EXCEPT ![t] = <<>>]
            BY <1>1 DEF thread_create
        <3>2. <<>> \in Seq(Threads)
            OBVIOUS
        <3> QED
            BY <3>1, <3>2 DEF TypeOK
    <2> QED
        BY <1>1, <2>1, <2>4, <2>5, <2>6, <2>7 DEF thread_create, sleepVars, semaVars, TypeOK,
           Statuses, HolderMatchesValue
<1>2. CASE thread_created
    <2>1. SchedTypeOK'
        BY <1>0, <1>2, ReschedType DEF thread_created, SchedTypeOK
    <2>2. PlaceOK'
        BY <1>2 DEF thread_created, PlaceOK, TypeOK
    <2> QED
        BY <1>2, <2>1, <2>2 DEF thread_created, threadVars, sleepVars, semaVars, TypeOK,
           SchedTypeOK, Statuses, HolderMatchesValue, PCs
<1>3. CASE thread_yield
    <2>1. SchedTypeOK'
        BY <1>0, <1>3, YieldType DEF thread_yield, SchedTypeOK
    <2> QED
        BY <1>3, <2>1 DEF thread_yield, threadVars, sleepVars, semaVars, placeVars, TypeOK,
           SchedTypeOK, Statuses, HolderMatchesValue, PlaceOK
<1>4. CASE thread_exit
    <2>1. [status EXCEPT ![cur] = "DYING"] \in [AllThreads -> Statuses]
        BY DEF TypeOK, Statuses
    <2>2. SchedTypeOK'
        BY <1>0, <1>4, <2>1, ScheduleType DEF thread_exit, SchedTypeOK
    <2> QED
        BY <1>4, <2>2 DEF thread_exit, sleepVars, semaVars, placeVars, TypeOK,
           SchedTypeOK, Statuses, HolderMatchesValue, PlaceOK
<1>5. CASE idle
    <2>1. [status EXCEPT ![cur] = "BLOCKED"] \in [AllThreads -> Statuses]
        BY DEF TypeOK, Statuses
    <2>2. SchedTypeOK'
        BY <1>0, <1>5, <2>1, ScheduleType DEF idle, SchedTypeOK
    <2> QED
        BY <1>5, <2>2 DEF idle, threadVars, sleepVars, semaVars, placeVars, TypeOK,
           SchedTypeOK, Statuses, HolderMatchesValue, PlaceOK
<1>6. CASE sema_down_again
    <2>1. cur # idle_thread /\ downing[cur] \in AllSemas
        BY <1>6 DEF sema_down_again, At, PlaceOK, TypeOK
    <2> QED
        BY <1>6, <2>1, DownType DEF sema_down_again, TypeOK
<1>7. ASSUME NEW p \in Priorities, thread_set_priority(p)
      PROVE  TypeInv'
    <2>1. /\ initial_priority' \in [AllThreads -> Nat]
          /\ priority' = priority_check_from_donation_list(initial_priority', list_of_donation[cur])
        BY <1>7 DEF thread_set_priority, TypeOK
    <2>2. priority' \in [AllThreads -> Nat]
        <3>1. \A d \in Seq(Threads) : d # <<>> => Head(d) \in AllThreads
            BY PopFrontFacts DEF AllThreads
        <3> QED
            BY <2>1, <3>1 DEF priority_check_from_donation_list, TypeOK
    <2>3. SchedTypeOK'
        <3>1. \/ iscurrent_thread_has_max_priority(status, ready_list, priority')
              \/ UNCHANGED schedVars
            BY <1>7, <2>1 DEF thread_set_priority
        <3> QED
            BY <1>0, <3>1, ReschedType DEF SchedTypeOK, schedVars
    <2> QED
        BY <1>7, <2>1, <2>2, <2>3 DEF thread_set_priority, sleepVars, semaVars, placeVars, TypeOK,
           SchedTypeOK, Statuses, HolderMatchesValue, PlaceOK
<1>8. ASSUME NEW n \in 1..MaxSleep, timer_sleep(n)
      PROVE  TypeInv'
    <2>1. cur \in Threads
        BY <1>8 DEF timer_sleep, InCode, TypeOK, AllThreads
    <2>2. [status EXCEPT ![cur] = "BLOCKED"] \in [AllThreads -> Statuses]
        BY DEF TypeOK, Statuses
    <2>3. SchedTypeOK'
        BY <1>0, <1>8, <2>2, ScheduleType DEF timer_sleep, SchedTypeOK
    <2>4. sleep_list' \in Seq(Threads)
        BY <1>8, <2>1, InsertOrderedFacts DEF timer_sleep, TypeOK
    <2>5. PlaceOK' /\ pc' \in [AllThreads -> PCs]
        BY <1>8, <2>1 DEF timer_sleep, PlaceOK, TypeOK, PCs
    <2>6. ticks_left' \in [AllThreads -> Int]
        BY <1>8 DEF timer_sleep, TypeOK
    <2> QED
        BY <1>8, <2>3, <2>4, <2>5, <2>6 DEF timer_sleep, threadVars, semaVars, TypeOK,
           SchedTypeOK, Statuses, HolderMatchesValue
<1>9. ASSUME NEW l \in Locks, lock_acquire(l)
      PROVE  TypeInv'
    <2>1. cur # idle_thread /\ cur \in Threads /\ l \in AllSemas
        BY <1>9 DEF lock_acquire, InCode, TypeOK, AllThreads, AllSemas
    <2>2. CASE holder[l] = NULL
        BY <1>9, <2>1, <2>2, DownType DEF lock_acquire, TypeOK
    <2>3. CASE holder[l] # NULL
        <3> DEFINE wl == [waitlock EXCEPT ![cur] = l]
                   donors == [list_of_donation EXCEPT ![holder[l]] =
                                InsertOrdered(@, cur, DonationKey)]
        <3>1. wl \in [AllThreads -> Locks \cup {NULL}]
            BY DEF TypeOK
        <3>2. donors \in [AllThreads -> Seq(Threads)]
            BY <2>1, InsertOrderedFacts DEF TypeOK
        <3>3. waitInDown(l, wl, donors) \/ takes(l, donors)
            BY <1>9, <2>3 DEF lock_acquire
        <3> HIDE DEF wl, donors
        <3> QED
            BY <2>1, <3>1, <3>2, <3>3, DownType
    <2> QED
        BY <2>2, <2>3
<1>10. ASSUME NEW l \in Locks, lock_try_acquire(l)
       PROVE  TypeInv'
    BY <1>10, DownType DEF lock_try_acquire, InCode, TypeOK, AllSemas
<1>11. ASSUME NEW l \in Locks, lock_release(l)
       PROVE  TypeInv'
    <2>1. l \in AllSemas /\ holder[l] = cur /\ cur # NULL /\ cur \in AllThreads
        BY <1>11 DEF lock_release, TypeOK, AllThreads, AllSemas
    <2>2. /\ SchedTypeOK'
          /\ waiters' \in [AllSemas -> Seq(Threads)]
          /\ value' = [value EXCEPT ![l] = @ + 1]
        BY <1>11, <2>1, SemaUpType DEF lock_release
    <2>3. value[l] = 0
        BY <2>1 DEF HolderMatchesValue, TypeOK
    <2>4. value' \in [AllSemas -> Nat] /\ \A k \in Locks : value'[k] <= 1
        BY <2>1, <2>2, <2>3 DEF TypeOK, AllSemas
    <2>5. HolderMatchesValue'
        BY <1>11, <2>1, <2>2, <2>3 DEF lock_release, HolderMatchesValue, TypeOK, AllSemas
    <2>6. PICK donors \in remove_donation_list_waiting_lock(l) :
               /\ list_of_donation' = [list_of_donation EXCEPT ![cur] = donors]
               /\ priority' = priority_check_from_donation_list(initial_priority, donors)
        BY <1>11 DEF lock_release
    <2>7. donors \in Seq(Threads)
        BY <2>1, <2>6, WithoutFacts DEF remove_donation_list_waiting_lock, TypeOK
    <2>8. list_of_donation' \in [AllThreads -> Seq(Threads)]
        BY <2>6, <2>7 DEF TypeOK
    <2>9. priority' \in [AllThreads -> Nat]
        <3>1. donors # <<>> => Head(donors) \in AllThreads
            BY <2>7, PopFrontFacts DEF AllThreads
        <3> QED
            BY <2>6, <3>1 DEF priority_check_from_donation_list, TypeOK
    <2>10. holder' \in [Locks -> Threads \cup {NULL}]
        BY <1>11 DEF lock_release, TypeOK
    <2> QED
        BY <1>11, <2>2, <2>4, <2>5, <2>8, <2>9, <2>10 DEF lock_release, sleepVars, placeVars,
           TypeOK, SchedTypeOK, Statuses, PlaceOK
<1>12. ASSUME NEW s \in Semas, sema_down(s)
       PROVE  TypeInv'
    BY <1>12, DownType DEF sema_down, InCode, TypeOK, AllSemas
<1>13. ASSUME NEW s \in Semas, sema_try_down(s)
       PROVE  TypeInv'
    BY <1>13, DownType DEF sema_try_down, InCode, TypeOK, AllSemas
<1>14. ASSUME NEW s \in Semas, sema_up(s) \/ sema_up_in_interrupt(s)
       PROVE  TypeInv'
    <2>1. s \in AllSemas /\ s \notin Locks
        BY DEF AllSemas
    <2>2. /\ SchedTypeOK'
          /\ waiters' \in [AllSemas -> Seq(Threads)]
          /\ value' = [value EXCEPT ![s] = @ + 1]
        BY <1>14, <2>1, SemaUpType DEF sema_up, sema_up_in_interrupt
    <2>3. UNCHANGED <<threadVars, sleepVars, holder, in_external_intr, placeVars>>
        BY <1>14 DEF sema_up, sema_up_in_interrupt
    <2>4. value' \in [AllSemas -> Nat] /\ \A l \in Locks : value'[l] = value[l]
        BY <2>1, <2>2 DEF TypeOK, AllSemas
    <2> QED
        BY <2>2, <2>3, <2>4 DEF threadVars, sleepVars, placeVars, TypeOK, SchedTypeOK, Statuses,
           HolderMatchesValue, PlaceOK
<1>15. CASE timer_interrupt
    <2>1. ticks_left' \in [AllThreads -> Int]
        BY <1>15 DEF timer_interrupt, TypeOK
    <2> QED
        BY <1>15, <2>1 DEF timer_interrupt, schedVars, threadVars, semaVars, placeVars, TypeOK,
           HolderMatchesValue, PlaceOK
<1>16. CASE timer_interrupt_wake
    <2>1. sleep_list # <<>> /\ sleep_list \in Seq(Threads)
        BY <1>16 DEF timer_interrupt_wake, SleeperDue, TypeOK
    <2>2. Head(sleep_list) \in Threads /\ Tail(sleep_list) \in Seq(Threads)
        BY <2>1, PopFrontFacts
    <2>3. ready_list' \in Seq(Threads)
        BY <1>16, <2>2, InsertOrderedFacts DEF timer_interrupt_wake, TypeOK
    <2>4. PlaceOK'
        BY <1>16, <2>2 DEF timer_interrupt_wake, PlaceOK, TypeOK
    <2>5. /\ status' = [status EXCEPT ![Head(sleep_list)] = "READY"]
          /\ ticks_left' = [ticks_left EXCEPT ![Head(sleep_list)] = 0]
          /\ pc' = [pc EXCEPT ![Head(sleep_list)] = "run"]
        BY <1>16 DEF timer_interrupt_wake
    <2>6. status' \in [AllThreads -> Statuses]
        BY <2>5 DEF TypeOK, Statuses
    <2>7. ticks_left' \in [AllThreads -> Int]
        <3>1. ticks_left \in [AllThreads -> Int]
            BY DEF TypeOK
        <3>2. PICK t : ticks_left' = [ticks_left EXCEPT ![t] = 0]
            BY <2>5
        <3>3. 0 \in Int
            OBVIOUS
        <3> QED
            BY <3>1, <3>2, <3>3
    <2>8. pc' \in [AllThreads -> PCs]
        BY <2>5 DEF TypeOK, PCs
    <2> QED
        BY <1>16, <2>2, <2>3, <2>4, <2>6, <2>7, <2>8 DEF timer_interrupt_wake, threadVars, semaVars, TypeOK,
           Statuses, HolderMatchesValue
<1>17. CASE timer_interrupt_return
    <2>1. SchedTypeOK'
        <3>1. \/ yield(status, ready_list, priority)
              \/ /\ thread_ticks' = IF thread_ticks < TIME_SLICE THEN thread_ticks + 1 ELSE thread_ticks
                 /\ UNCHANGED <<cur, status, ready_list>>
              \/ UNCHANGED schedVars
            BY <1>17 DEF timer_interrupt_return
        <3> QED
            BY <1>0, <3>1, YieldType DEF SchedTypeOK, schedVars
    <2> QED
        BY <1>17, <2>1 DEF timer_interrupt_return, threadVars, sleepVars, semaVars, placeVars, TypeOK,
           SchedTypeOK, Statuses, HolderMatchesValue, PlaceOK
<1>18. CASE UNCHANGED vars
    BY <1>18 DEF vars, schedVars, threadVars, sleepVars, semaVars, placeVars, TypeOK, PlaceOK,
       HolderMatchesValue
<1> QED
    BY <1>1, <1>2, <1>3, <1>4, <1>5, <1>6, <1>7, <1>8, <1>9, <1>10, <1>11, <1>12, <1>13, <1>14,
       <1>15, <1>16, <1>17, <1>18 DEF Next, TimerStep, LockStep, SemaStep

(* The variables keep their types.                                         *)
THEOREM TypeCorrect == Spec => []TypeOK
<1>1. Spec => []TypeInv
    BY TypeInit, TypeStep, PTL DEF Spec
<1>2. TypeInv => TypeOK
    BY DEF TypeInv
<1> QED
    BY <1>1, <1>2, PTL

(* A lock has a holder exactly while its semaphore is down: what           *)
(* lock_acquire reads of the holder and what sema_down reads of the value  *)
(* never disagree.                                                         *)
THEOREM HolderAndValueAgree == Spec => []HolderMatchesValue
<1>1. Spec => []TypeInv
    BY TypeInit, TypeStep, PTL DEF Spec
<1>2. TypeInv => HolderMatchesValue
    BY DEF TypeInv
<1> QED
    BY <1>1, <1>2, PTL

-----------------------------------------------------------------------------
(* The kernel's lists hold each thread exactly where its status says.      *)

(* What QueuesExclusive says of the lists, for lists that a function has   *)
(* changed and is about to hand to the scheduler.                          *)
QueuedIn(st, ready, sleep, wts, p, d) ==
    /\ IsInjective(ready) /\ IsInjective(sleep)
    /\ \A s \in AllSemas : IsInjective(wts[s])
    /\ \A t \in Threads :
        /\ t \in ToSet(ready) <=> st[t] = "READY"
        /\ t \in ToSet(sleep) <=> st[t] = "BLOCKED" /\ p[t] = "sleep"
        /\ \A s \in AllSemas :
            t \in ToSet(wts[s]) <=> st[t] = "BLOCKED" /\ p[t] = "down" /\ d[t] = s
        /\ st[t] = "BLOCKED" => p[t] \in {"sleep", "down"}

(* What it says of the running thread.                                     *)
OnlyRuns(st, r) == \A t \in AllThreads : st[t] = "RUNNING" <=> t = r

(* The property is the two parts of it.                                    *)
LEMMA QueuesExclusiveParts ==
    /\ QueuesExclusive <=> /\ OnlyRuns(status, cur)
                           /\ QueuedIn(status, ready_list, sleep_list, waiters, pc, downing)
    /\ QueuesExclusive' <=> /\ OnlyRuns(status', cur')
                            /\ QueuedIn(status', ready_list', sleep_list', waiters', pc', downing')
BY DEF QueuesExclusive, QueuedIn, OnlyRuns

-----------------------------------------------------------------------------
(* What threads that are not blocked have in pc and downing does not       *)
(* matter to the lists.                                                    *)
LEMMA PlaceIrrelevant ==
    ASSUME NEW st, NEW ready, NEW sleep, NEW wts, NEW p, NEW d, NEW p2, NEW d2,
           QueuedIn(st, ready, sleep, wts, p, d),
           \A t \in Threads : st[t] = "BLOCKED" => p2[t] = p[t] /\ d2[t] = d[t]
    PROVE  QueuedIn(st, ready, sleep, wts, p2, d2)
BY DEF QueuedIn

(* A thread that is on no list can join the ready list.                    *)
LEMMA BecomesReady ==
    ASSUME NEW st \in [AllThreads -> Statuses], NEW ready \in Seq(Threads),
           NEW sleep, NEW wts, NEW p, NEW d, NEW key, NEW t \in Threads,
           QueuedIn(st, ready, sleep, wts, p, d),
           st[t] \notin {"READY", "BLOCKED"}
    PROVE  QueuedIn([st EXCEPT ![t] = "READY"], InsertOrdered(ready, t, key), sleep, wts, p, d)
<1> DEFINE st2 == [st EXCEPT ![t] = "READY"]
           ready2 == InsertOrdered(ready, t, key)
<1>1. \A u \in Threads : st2[u] = IF u = t THEN "READY" ELSE st[u]
    BY DEF AllThreads
<1>2. t \notin ToSet(ready) /\ IsInjective(ready)
    BY DEF QueuedIn
<1>3. IsInjective(ready2) /\ ToSet(ready2) = ToSet(ready) \cup {t}
    BY <1>2, InsertOrderedFacts
<1> HIDE DEF st2, ready2
<1>4. QueuedIn(st2, ready2, sleep, wts, p, d)
    BY <1>1, <1>3 DEF QueuedIn
<1> QED
    BY <1>4 DEF st2, ready2

(* A thread that is on no list can become blocked on a semaphore ...       *)
LEMMA BecomesWaiter ==
    ASSUME NEW st \in [AllThreads -> Statuses], NEW ready, NEW sleep,
           NEW wts \in [AllSemas -> Seq(Threads)],
           NEW p \in [AllThreads -> PCs], NEW d \in [AllThreads -> AllSemas \cup {NULL}],
           NEW key, NEW t \in Threads, NEW s \in AllSemas,
           QueuedIn(st, ready, sleep, wts, p, d),
           st[t] \notin {"READY", "BLOCKED"}
    PROVE  QueuedIn([st EXCEPT ![t] = "BLOCKED"], ready, sleep,
                    [wts EXCEPT ![s] = InsertOrdered(@, t, key)],
                    [p EXCEPT ![t] = "down"], [d EXCEPT ![t] = s])
<1> DEFINE st2 == [st EXCEPT ![t] = "BLOCKED"]
           q2 == InsertOrdered(wts[s], t, key)
           wts2 == [wts EXCEPT ![s] = q2]
           p2 == [p EXCEPT ![t] = "down"]
           d2 == [d EXCEPT ![t] = s]
<1>1. \A u \in Threads : /\ st2[u] = IF u = t THEN "BLOCKED" ELSE st[u]
                         /\ p2[u] = IF u = t THEN "down" ELSE p[u]
                         /\ d2[u] = IF u = t THEN s ELSE d[u]
    BY DEF AllThreads
<1>2. t \notin ToSet(wts[s]) /\ IsInjective(wts[s])
    BY DEF QueuedIn
<1>3. IsInjective(q2) /\ ToSet(q2) = ToSet(wts[s]) \cup {t}
    BY <1>2, InsertOrderedFacts
<1>4. \A r \in AllSemas : wts2[r] = IF r = s THEN q2 ELSE wts[r]
    OBVIOUS
<1> HIDE DEF st2, q2, wts2, p2, d2
<1>5. /\ IsInjective(ready) /\ IsInjective(sleep)
      /\ \A r \in AllSemas : IsInjective(wts2[r])
    BY <1>3, <1>4 DEF QueuedIn
<1>6. ASSUME NEW u \in Threads, u = t
      PROVE  /\ u \notin ToSet(ready) /\ u \notin ToSet(sleep)
             /\ \A r \in AllSemas : u \in ToSet(wts2[r]) <=> r = s
    BY <1>3, <1>4, <1>6 DEF QueuedIn
<1>7. ASSUME NEW u \in Threads, u # t, NEW r \in AllSemas
      PROVE  u \in ToSet(wts2[r]) <=> u \in ToSet(wts[r])
    BY <1>3, <1>4, <1>7
<1>8. ASSUME NEW u \in Threads
      PROVE  /\ u \in ToSet(ready) <=> st2[u] = "READY"
             /\ u \in ToSet(sleep) <=> st2[u] = "BLOCKED" /\ p2[u] = "sleep"
             /\ \A r \in AllSemas :
                  u \in ToSet(wts2[r]) <=> st2[u] = "BLOCKED" /\ p2[u] = "down" /\ d2[u] = r
             /\ st2[u] = "BLOCKED" => p2[u] \in {"sleep", "down"}
    <2>1. CASE u = t
        BY <1>1, <1>6, <2>1
    <2>2. CASE u # t
        <3>1. st2[u] = st[u] /\ p2[u] = p[u] /\ d2[u] = d[u]
            BY <1>1, <2>2
        <3> QED
            BY <1>7, <2>2, <3>1 DEF QueuedIn
    <2> QED
        BY <2>1, <2>2
<1>9. QueuedIn(st2, ready, sleep, wts2, p2, d2)
    BY <1>5, <1>8 DEF QueuedIn
<1> QED
    BY <1>9 DEF st2, q2, wts2, p2, d2

(* ... or asleep.                                                          *)
LEMMA BecomesSleeper ==
    ASSUME NEW st \in [AllThreads -> Statuses], NEW ready, NEW sleep \in Seq(Threads),
           NEW wts, NEW p \in [AllThreads -> PCs], NEW d, NEW key, NEW t \in Threads,
           QueuedIn(st, ready, sleep, wts, p, d),
           st[t] \notin {"READY", "BLOCKED"}
    PROVE  QueuedIn([st EXCEPT ![t] = "BLOCKED"], ready, InsertOrdered(sleep, t, key),
                    wts, [p EXCEPT ![t] = "sleep"], d)
<1> DEFINE st2 == [st EXCEPT ![t] = "BLOCKED"]
           sleep2 == InsertOrdered(sleep, t, key)
           p2 == [p EXCEPT ![t] = "sleep"]
<1>1. \A u \in Threads : /\ st2[u] = IF u = t THEN "BLOCKED" ELSE st[u]
                         /\ p2[u] = IF u = t THEN "sleep" ELSE p[u]
    BY DEF AllThreads
<1>2. t \notin ToSet(sleep) /\ IsInjective(sleep)
    BY DEF QueuedIn
<1>3. IsInjective(sleep2) /\ ToSet(sleep2) = ToSet(sleep) \cup {t}
    BY <1>2, InsertOrderedFacts
<1> HIDE DEF st2, sleep2, p2
<1>4. QueuedIn(st2, ready, sleep2, wts, p2, d)
    BY <1>1, <1>3 DEF QueuedIn
<1> QED
    BY <1>4 DEF st2, sleep2, p2
-----------------------------------------------------------------------------
(* schedule keeps the lists right, once the thread that gave up the        *)
(* processor no longer has the status RUNNING.                             *)
LEMMA ScheduleQueued ==
    ASSUME NEW st \in [AllThreads -> Statuses], NEW ready \in Seq(Threads),
           NEW sleep, NEW wts, NEW p, NEW d,
           QueuedIn(st, ready, sleep, wts, p, d),
           \A t \in AllThreads : st[t] # "RUNNING",
           schedule(st, ready)
    PROVE  /\ OnlyRuns(status', cur')
           /\ QueuedIn(status', ready_list', sleep, wts, p, d)
<1> DEFINE next == IF ready = <<>> THEN idle_thread ELSE Head(ready)
<1>1. /\ cur' = next
      /\ ready_list' = IF ready = <<>> THEN ready ELSE Tail(ready)
      /\ status' = [Reaped(st) EXCEPT ![next] = "RUNNING"]
    BY DEF schedule
<1>2. /\ IsInjective(ready_list')
      /\ \A t \in Threads : t \in ToSet(ready_list') <=> t \in ToSet(ready) /\ t # next
    <2>1. IsInjective(ready)
        BY DEF QueuedIn
    <2>2. CASE ready = <<>>
        BY <1>1, <2>1, <2>2
    <2>3. CASE ready # <<>>
        BY <1>1, <2>1, <2>3, PopFrontFacts
    <2> QED
        BY <2>2, <2>3
<1>3. next \in AllThreads /\ (next \in Threads => st[next] = "READY")
    <2>1. CASE ready = <<>>
        BY <2>1 DEF AllThreads
    <2>2. CASE ready # <<>>
        BY <2>2, PopFrontFacts DEF QueuedIn, AllThreads
    <2> QED
        BY <2>1, <2>2
<1> HIDE DEF next
<1>4. /\ Reaped(st) \in [AllThreads -> Statuses]
      /\ \A t \in AllThreads : \/ Reaped(st)[t] = st[t]
                               \/ Reaped(st)[t] = "FREE" /\ st[t] = "DYING"
    BY DEF Reaped, Statuses
<1>5. \A t \in AllThreads : status'[t] = IF t = next THEN "RUNNING" ELSE Reaped(st)[t]
    BY <1>1, <1>4
<1>6. OnlyRuns(status', cur')
    BY <1>1, <1>4, <1>5 DEF OnlyRuns
<1>7. \A t \in Threads : /\ status'[t] = "BLOCKED" <=> st[t] = "BLOCKED"
                         /\ status'[t] = "READY" <=> st[t] = "READY" /\ t # next
    BY <1>3, <1>4, <1>5 DEF AllThreads
<1> QED
    BY <1>2, <1>6, <1>7 DEF QueuedIn

(* So does thread_yield.                                                   *)
LEMMA YieldQueued ==
    ASSUME cur \in AllThreads, NEW st \in [AllThreads -> Statuses],
           NEW ready \in Seq(Threads), NEW sleep, NEW wts, NEW p, NEW d, NEW pri,
           OnlyRuns(st, cur), QueuedIn(st, ready, sleep, wts, p, d),
           yield(st, ready, pri)
    PROVE  /\ OnlyRuns(status', cur')
           /\ QueuedIn(status', ready_list', sleep, wts, p, d)
<1> DEFINE queue == IF cur = idle_thread THEN ready ELSE InsertOrdered(ready, cur, pri)
           st2 == [st EXCEPT ![cur] = "READY"]
<1>1. queue \in Seq(Threads)
    BY InsertOrderedFacts DEF AllThreads
<1>2. st2 \in [AllThreads -> Statuses]
    BY DEF Statuses
<1>3. schedule(st2, queue)
    BY DEF yield
<1>4. \A t \in AllThreads : st2[t] # "RUNNING"
    BY DEF OnlyRuns
<1>5. st[cur] = "RUNNING"
    BY DEF OnlyRuns
<1>6. QueuedIn(st2, queue, sleep, wts, p, d)
    <2>1. CASE cur = idle_thread
        <3>1. queue = ready /\ \A t \in Threads : st2[t] = st[t]
            BY <2>1 DEF AllThreads
        <3> HIDE DEF queue, st2
        <3> QED
            BY <3>1 DEF QueuedIn
    <2>2. CASE cur # idle_thread
        <3>1. cur \in Threads
            BY <2>2 DEF AllThreads
        <3> QED
            BY <1>5, <2>2, <3>1, BecomesReady
    <2> QED
        BY <2>1, <2>2
<1> HIDE DEF queue, st2
<1> QED
    BY <1>1, <1>2, <1>3, <1>4, <1>6, ScheduleQueued

(* So does the check whether another thread should run.                    *)
LEMMA ReschedQueued ==
    ASSUME cur \in AllThreads, NEW st \in [AllThreads -> Statuses],
           NEW ready \in Seq(Threads), NEW sleep, NEW wts, NEW p, NEW d, NEW pri,
           OnlyRuns(st, cur), QueuedIn(st, ready, sleep, wts, p, d),
           \/ iscurrent_thread_has_max_priority(st, ready, pri)
           \/ keeps_running(st, ready, pri)
    PROVE  /\ OnlyRuns(status', cur')
           /\ QueuedIn(status', ready_list', sleep, wts, p, d)
<1>1. CASE keeps_running(st, ready, pri)
    BY <1>1 DEF keeps_running
<1>2. CASE yield(st, ready, pri)
    BY <1>2, YieldQueued
<1> QED
    BY <1>1, <1>2 DEF iscurrent_thread_has_max_priority
-----------------------------------------------------------------------------
(* The pieces of TypeInv that the steps below need.                        *)
LEMMA QueueTypes ==
    ASSUME TypeInv
    PROVE  /\ cur \in AllThreads /\ status \in [AllThreads -> Statuses]
           /\ ready_list \in Seq(Threads) /\ sleep_list \in Seq(Threads)
           /\ waiters \in [AllSemas -> Seq(Threads)]
           /\ pc \in [AllThreads -> PCs] /\ downing \in [AllThreads -> AllSemas \cup {NULL}]
           /\ (cur # idle_thread => cur \in Threads)
BY DEF TypeInv, TypeOK, Statuses, AllThreads

(* The lists of the current state.                                         *)
Queued == OnlyRuns(status, cur) /\ QueuedIn(status, ready_list, sleep_list, waiters, pc, downing)

(* sema_up moves the waiter it wakes from the semaphore to the ready list. *)
LEMMA SemaUpQueued ==
    ASSUME TypeInv, Queued, NEW s \in AllSemas, NEW pri,
           NEW intr, sema_up_body(s, pri, intr)
    PROVE  /\ OnlyRuns(status', cur')
           /\ QueuedIn(status', ready_list', sleep_list, waiters', pc, downing)
<1> DEFINE Resched(st, ready, p) ==
               \/ iscurrent_thread_has_max_priority(st, ready, p)
               \/ keeps_running(st, ready, p)
<1> USE QueueTypes
<1>1. CASE waiters' = waiters /\ Resched(status, ready_list, pri)
    BY <1>1, ReschedQueued DEF Queued
<1>2. ASSUME wakes(s), NEW q \in Sorted(waiters[s], pri),
             waiters' = [waiters EXCEPT ![s] = Tail(q)],
             Resched([status EXCEPT ![Head(q)] = "READY"],
                     InsertOrdered(ready_list, Head(q), pri), pri)
      PROVE  /\ OnlyRuns(status', cur')
             /\ QueuedIn(status', ready_list', sleep_list, waiters', pc, downing)
    <2> DEFINE t == Head(q)
               st2 == [status EXCEPT ![t] = "READY"]
               ready2 == InsertOrdered(ready_list, t, pri)
               wts2 == [waiters EXCEPT ![s] = Tail(q)]
    <2>1. /\ q \in Seq(Threads) /\ Len(q) = Len(waiters[s])
          /\ ToSet(q) = ToSet(waiters[s]) /\ IsInjective(q)
        BY SortedFacts DEF Queued, QueuedIn
    <2>2. q # <<>>
        BY <1>2, <2>1 DEF wakes
    <2>3. /\ t \in Threads /\ t \in ToSet(waiters[s])
          /\ IsInjective(Tail(q)) /\ ToSet(Tail(q)) = ToSet(waiters[s]) \ {t}
        BY <2>1, <2>2, PopFrontFacts
    <2>4. status[t] = "BLOCKED" /\ pc[t] = "down" /\ downing[t] = s /\ t \notin ToSet(ready_list)
        BY <2>3 DEF Queued, QueuedIn
    <2>5. /\ ready2 \in Seq(Threads) /\ IsInjective(ready2)
          /\ ToSet(ready2) = ToSet(ready_list) \cup {t}
        BY <2>3, <2>4, InsertOrderedFacts DEF Queued, QueuedIn
    <2>6. /\ st2 \in [AllThreads -> Statuses]
          /\ \A u \in AllThreads : st2[u] = IF u = t THEN "READY" ELSE status[u]
        BY DEF Statuses
    <2>7. \A r \in AllSemas : wts2[r] = IF r = s THEN Tail(q) ELSE waiters[r]
        OBVIOUS
    <2>8. waiters' = wts2 /\ Resched(st2, ready2, pri)
        BY <1>2
    <2> HIDE DEF t, st2, ready2, wts2
    <2>9. OnlyRuns(st2, cur)
        BY <2>4, <2>6 DEF Queued, OnlyRuns
    <2>10. QueuedIn(st2, ready2, sleep_list, wts2, pc, downing)
        <3>1. IsInjective(sleep_list) /\ \A r \in AllSemas : IsInjective(wts2[r])
            BY <2>3, <2>7 DEF Queued, QueuedIn
        <3>2. ASSUME NEW u \in Threads, u # t
              PROVE  /\ u \in ToSet(ready2) <=> st2[u] = "READY"
                     /\ u \in ToSet(sleep_list) <=> st2[u] = "BLOCKED" /\ pc[u] = "sleep"
                     /\ \A r \in AllSemas :
                         u \in ToSet(wts2[r]) <=> st2[u] = "BLOCKED" /\ pc[u] = "down" /\ downing[u] = r
                     /\ st2[u] = "BLOCKED" => pc[u] \in {"sleep", "down"}
            <4>1. u \in AllThreads /\ st2[u] = status[u]
                BY <2>6, <3>2 DEF AllThreads
            <4>2. u \in ToSet(ready2) <=> st2[u] = "READY"
                BY <2>5, <3>2, <4>1 DEF Queued, QueuedIn
            <4>3. u \in ToSet(sleep_list) <=> st2[u] = "BLOCKED" /\ pc[u] = "sleep"
                BY <4>1 DEF Queued, QueuedIn
            <4>4. ASSUME NEW r \in AllSemas
                  PROVE  u \in ToSet(wts2[r]) <=> st2[u] = "BLOCKED" /\ pc[u] = "down" /\ downing[u] = r
                <5>1. u \in ToSet(wts2[r]) <=> u \in ToSet(waiters[r])
                    BY <2>3, <2>7, <3>2
                <5> QED
                    BY <4>1, <5>1 DEF Queued, QueuedIn
            <4>5. st2[u] = "BLOCKED" => pc[u] \in {"sleep", "down"}
                BY <4>1 DEF Queued, QueuedIn
            <4> QED
                BY <4>2, <4>3, <4>4, <4>5
        <3>3. /\ t \in ToSet(ready2) /\ st2[t] = "READY"
              /\ t \notin ToSet(sleep_list)
              /\ \A r \in AllSemas : t \notin ToSet(wts2[r])
            BY <2>3, <2>4, <2>5, <2>6, <2>7 DEF Queued, QueuedIn, AllThreads
        <3> QED
            BY <2>5, <3>1, <3>2, <3>3 DEF QueuedIn
    <2> QED
        BY <2>5, <2>6, <2>8, <2>9, <2>10, ReschedQueued
<1> QED
    BY <1>1, <1>2 DEF sema_up_body, sema_up_ends

(* sema_down puts the running thread on the list of the semaphore, or      *)
(* leaves the lists alone.                                                 *)
LEMMA DownQueued ==
    ASSUME TypeInv, Queued, cur # idle_thread, NEW s \in AllSemas, NEW wl, NEW donors,
           waitInDown(s, wl, donors) \/ takes(s, donors)
    PROVE  Queued'
<1> USE QueueTypes
<1>1. status[cur] = "RUNNING"
    BY DEF Queued, OnlyRuns
<1>2. CASE waitInDown(s, wl, donors)
    <2> DEFINE st2 == [status EXCEPT ![cur] = "BLOCKED"]
    <2>1. /\ schedule(st2, ready_list) /\ sleep_list' = sleep_list
          /\ waiters' = [waiters EXCEPT ![s] = InsertOrdered(@, cur, priority')]
          /\ pc' = [pc EXCEPT ![cur] = "down"] /\ downing' = [downing EXCEPT ![cur] = s]
        BY <1>2 DEF waitInDown, sleepVars
    <2>2. QueuedIn(st2, ready_list, sleep_list, waiters', pc', downing')
        BY <1>1, <2>1, BecomesWaiter DEF Queued
    <2>3. st2 \in [AllThreads -> Statuses] /\ \A t \in AllThreads : st2[t] # "RUNNING"
        BY DEF Queued, OnlyRuns, Statuses
    <2> HIDE DEF st2
    <2> QED
        BY <2>1, <2>2, <2>3, ScheduleQueued DEF Queued
<1>3. CASE takes(s, donors)
    <2>1. /\ UNCHANGED <<cur, status, ready_list, sleep_list, waiters>>
          /\ pc' = [pc EXCEPT ![cur] = "run"] /\ downing' = [downing EXCEPT ![cur] = NULL]
        BY <1>3 DEF takes, schedVars, sleepVars
    <2>2. \A t \in Threads : status[t] = "BLOCKED" => pc'[t] = pc[t] /\ downing'[t] = downing[t]
        BY <1>1, <2>1 DEF AllThreads
    <2>3. QueuedIn(status, ready_list, sleep_list, waiters, pc', downing')
        BY <2>2, PlaceIrrelevant DEF Queued
    <2> QED
        BY <2>1, <2>3 DEF Queued
<1> QED
    BY <1>2, <1>3
-----------------------------------------------------------------------------
(* Initially nobody is on a list.                                          *)
LEMMA QueuedInit == Init => Queued
<1> SUFFICES ASSUME Init PROVE Queued
    OBVIOUS
<1>1. /\ ToSet(<<>>) = {} /\ IsInjective(<<>>)
    BY DEF ToSet, IsInjective
<1>2. ready_list = <<>> /\ sleep_list = <<>> /\ \A s \in AllSemas : waiters[s] = <<>>
    BY DEF Init
<1>3. cur = initial_thread /\ initial_thread \in Threads /\ idle_thread \notin Threads
    BY DEF Init
<1>4. \A t \in AllThreads : status[t] = IF t = initial_thread THEN "RUNNING"
                                        ELSE IF t = idle_thread THEN "READY" ELSE "FREE"
    BY DEF Init
<1>5. OnlyRuns(status, cur)
    BY <1>3, <1>4 DEF OnlyRuns
<1>6. \A t \in Threads : status[t] \notin {"READY", "BLOCKED"}
    BY <1>3, <1>4 DEF AllThreads
<1>7. QueuedIn(status, ready_list, sleep_list, waiters, pc, downing)
    BY <1>1, <1>2, <1>6 DEF QueuedIn
<1> QED
    BY <1>5, <1>7 DEF Queued

(* Every step keeps each thread on the list where it belongs.              *)
LEMMA QueuedStep == TypeInv /\ Queued /\ [Next]_vars => Queued'
<1> SUFFICES ASSUME TypeInv, Queued, [Next]_vars PROVE Queued'
    OBVIOUS
<1> USE QueueTypes
<1>0. /\ status[cur] = "RUNNING" /\ \A t \in AllThreads : status[t] = "RUNNING" <=> t = cur
      /\ QueuedIn(status, ready_list, sleep_list, waiters, pc, downing)
    BY DEF Queued, OnlyRuns
<1>1. ASSUME NEW t \in Threads, NEW p \in Priorities, thread_create(t, p)
      PROVE  Queued'
    <2>1. /\ status[t] = "FREE" /\ t \in AllThreads
          /\ status' = [status EXCEPT ![t] = "READY"]
          /\ ready_list' = InsertOrdered(ready_list, t, priority')
          /\ pc' = [pc EXCEPT ![t] = "run", ![cur] = "created"]
          /\ UNCHANGED <<cur, sleep_list, waiters, downing>>
        BY <1>1 DEF thread_create, sleepVars, semaVars, AllThreads
    <2>2. \A u \in Threads : status[u] = "BLOCKED" => pc'[u] = pc[u] /\ downing'[u] = downing[u]
        BY <1>0, <2>1 DEF AllThreads
    <2>3. QueuedIn(status, ready_list, sleep_list, waiters, pc', downing')
        BY <1>0, <2>2, PlaceIrrelevant
    <2>4. QueuedIn(status', ready_list', sleep_list', waiters', pc', downing')
        BY <2>1, <2>3, BecomesReady
    <2>5. OnlyRuns(status', cur')
        BY <1>0, <2>1 DEF OnlyRuns
    <2> QED
        BY <2>4, <2>5 DEF Queued
<1>2. CASE thread_created
    <2>1. /\ iscurrent_thread_has_max_priority(status, ready_list, priority)
          /\ pc' = [pc EXCEPT ![cur] = "run"]
          /\ UNCHANGED <<sleep_list, waiters, downing>>
        BY <1>2 DEF thread_created, sleepVars, semaVars
    <2>2. \A u \in Threads : status[u] = "BLOCKED" => pc'[u] = pc[u] /\ downing'[u] = downing[u]
        BY <1>0, <2>1 DEF AllThreads
    <2>3. QueuedIn(status, ready_list, sleep_list, waiters, pc', downing')
        BY <1>0, <2>2, PlaceIrrelevant
    <2> QED
        BY <2>1, <2>3, ReschedQueued DEF Queued
<1>3. CASE thread_yield
    <2>1. yield(status, ready_list, priority) /\ UNCHANGED <<sleep_list, waiters, pc, downing>>
        BY <1>3 DEF thread_yield, sleepVars, semaVars, placeVars
    <2> QED
        BY <2>1, YieldQueued DEF Queued
<1>4. ASSUME NEW st2, st2 \in {[status EXCEPT ![cur] = "DYING"], [status EXCEPT ![cur] = "BLOCKED"]},
             cur # idle_thread => st2 = [status EXCEPT ![cur] = "DYING"],
             schedule(st2, ready_list), UNCHANGED <<sleep_list, waiters, pc, downing>>
      PROVE  Queued'
    <2>1. st2 \in [AllThreads -> Statuses] /\ \A t \in AllThreads : st2[t] # "RUNNING"
        BY <1>0, <1>4 DEF Statuses
    <2>2. \A t \in Threads : /\ st2[t] = "READY" <=> status[t] = "READY"
                             /\ st2[t] = "BLOCKED" <=> status[t] = "BLOCKED"
        BY <1>0, <1>4 DEF AllThreads
    <2>3. QueuedIn(st2, ready_list, sleep_list, waiters, pc, downing)
        BY <1>0, <2>2 DEF QueuedIn
    <2> QED
        BY <1>4, <2>1, <2>3, ScheduleQueued DEF Queued
<1>5. CASE thread_exit
    BY <1>4, <1>5 DEF thread_exit, InCode, sleepVars, semaVars, placeVars
<1>6. CASE idle
    BY <1>4, <1>6 DEF idle, sleepVars, semaVars, placeVars
<1>7. CASE sema_down_again
    <2>1. cur # idle_thread /\ downing[cur] \in AllSemas
        BY <1>7 DEF sema_down_again, At, TypeInv, PlaceOK
    <2> QED
        BY <1>7, <2>1, DownQueued DEF sema_down_again
<1>8. ASSUME NEW p \in Priorities, thread_set_priority(p)
      PROVE  Queued'
    <2>1. /\ \/ iscurrent_thread_has_max_priority(status, ready_list, priority')
             \/ UNCHANGED schedVars
          /\ UNCHANGED <<sleep_list, waiters, pc, downing>>
        BY <1>8 DEF thread_set_priority, sleepVars, semaVars, placeVars
    <2> QED
        BY <2>1, ReschedQueued DEF Queued, schedVars
<1>9. ASSUME NEW n \in 1..MaxSleep, timer_sleep(n)
      PROVE  Queued'
    <2> DEFINE st2 == [status EXCEPT ![cur] = "BLOCKED"]
    <2>1. /\ cur # idle_thread /\ schedule(st2, ready_list)
          /\ sleep_list' = InsertOrdered(sleep_list, cur, compare_timeto_wakeup_ticks(ticks_left'))
          /\ pc' = [pc EXCEPT ![cur] = "sleep"]
          /\ waiters' = waiters /\ downing' = downing
        BY <1>9 DEF timer_sleep, InCode, semaVars
    <2>2. QueuedIn(st2, ready_list, sleep_list', waiters', pc', downing')
        BY <1>0, <2>1, BecomesSleeper
    <2>3. st2 \in [AllThreads -> Statuses] /\ \A t \in AllThreads : st2[t] # "RUNNING"
        BY <1>0 DEF Statuses
    <2> HIDE DEF st2
    <2> QED
        BY <2>1, <2>2, <2>3, ScheduleQueued DEF Queued
<1>10. ASSUME NEW l \in Locks, lock_acquire(l) \/ lock_try_acquire(l)
       PROVE  Queued'
    <2>1. cur # idle_thread /\ l \in AllSemas
        BY <1>10 DEF lock_acquire, lock_try_acquire, InCode, AllSemas
    <2>2. \E wl, donors : waitInDown(l, wl, donors) \/ takes(l, donors)
        BY <1>10 DEF lock_acquire, lock_try_acquire
    <2> QED
        BY <2>1, <2>2, DownQueued
<1>11. ASSUME NEW l \in Locks, lock_release(l)
       PROVE  Queued'
    <2>1. /\ sema_up_body(l, priority', FALSE)
          /\ UNCHANGED <<sleep_list, pc, downing>> /\ l \in AllSemas
        BY <1>11 DEF lock_release, sleepVars, placeVars, AllSemas
    <2> QED
        BY <2>1, SemaUpQueued DEF Queued
<1>12. ASSUME NEW s \in Semas, sema_down(s) \/ sema_try_down(s)
       PROVE  Queued'
    BY <1>12, DownQueued DEF sema_down, sema_try_down, InCode, AllSemas
<1>13. ASSUME NEW s \in Semas, sema_up(s) \/ sema_up_in_interrupt(s)
       PROVE  Queued'
    <2>1. /\ \E intr \in BOOLEAN : sema_up_body(s, priority, intr)
          /\ UNCHANGED <<sleep_list, pc, downing>> /\ s \in AllSemas
        BY <1>13 DEF sema_up, sema_up_in_interrupt, sleepVars, placeVars, AllSemas
    <2> QED
        BY <2>1, SemaUpQueued DEF Queued
<1>14. CASE timer_interrupt
    BY <1>14 DEF timer_interrupt, schedVars, semaVars, placeVars, Queued
<1>15. CASE timer_interrupt_wake
    <2> DEFINE t == Head(sleep_list)
    <2>1. /\ sleep_list # <<>> /\ sleep_list' = Tail(sleep_list)
          /\ ready_list' = InsertOrdered(ready_list, t, priority)
          /\ status' = [status EXCEPT ![t] = "READY"]
          /\ pc' = [pc EXCEPT ![t] = "run"]
          /\ UNCHANGED <<cur, waiters, downing>>
        BY <1>15 DEF timer_interrupt_wake, SleeperDue, semaVars
    <2>2. /\ t \in Threads /\ t \in AllThreads /\ t \in ToSet(sleep_list)
          /\ IsInjective(sleep_list') /\ ToSet(sleep_list') = ToSet(sleep_list) \ {t}
        BY <1>0, <2>1, PopFrontFacts DEF QueuedIn, AllThreads
    <2> HIDE DEF t
    <2>3. status[t] = "BLOCKED" /\ pc[t] = "sleep" /\ t \notin ToSet(ready_list)
        BY <1>0, <2>2 DEF QueuedIn
    <2>4. IsInjective(ready_list') /\ ToSet(ready_list') = ToSet(ready_list) \cup {t}
        BY <1>0, <2>1, <2>2, <2>3, InsertOrderedFacts DEF QueuedIn
    <2>5. \A u \in AllThreads : /\ status'[u] = IF u = t THEN "READY" ELSE status[u]
                                /\ pc'[u] = IF u = t THEN "run" ELSE pc[u]
        BY <2>1
    <2>6. OnlyRuns(status', cur')
        BY <1>0, <2>1, <2>3, <2>5 DEF OnlyRuns
    <2>7. QueuedIn(status', ready_list', sleep_list', waiters', pc', downing')
        BY <1>0, <2>1, <2>2, <2>3, <2>4, <2>5 DEF QueuedIn, AllThreads
    <2> QED
        BY <2>6, <2>7 DEF Queued
<1>16. CASE timer_interrupt_return
    <2>1. /\ \/ yield(status, ready_list, priority)
             \/ UNCHANGED <<cur, status, ready_list>>
          /\ UNCHANGED <<sleep_list, waiters, pc, downing>>
        BY <1>16 DEF timer_interrupt_return, schedVars, sleepVars, semaVars, placeVars
    <2> QED
        BY <2>1, YieldQueued DEF Queued
<1>17. CASE UNCHANGED vars
    BY <1>17 DEF vars, schedVars, sleepVars, semaVars, placeVars, Queued
<1> QED
    BY <1>1, <1>2, <1>3, <1>5, <1>6, <1>7, <1>8, <1>9, <1>10, <1>11, <1>12, <1>13, <1>14,
       <1>15, <1>16, <1>17, ObjectsAssumption DEF Next, TimerStep, LockStep, SemaStep

(* No thread is lost and none is queued twice: at every moment each thread *)
(* is on exactly the list that its status and its place in the code say.   *)
THEOREM QueuesStayExclusive == Spec => []QueuesExclusive
<1>1. Spec => [](TypeInv /\ Queued)
    BY TypeInit, TypeStep, QueuedInit, QueuedStep, PTL DEF Spec
<1>2. Queued => QueuesExclusive
    BY QueuesExclusiveParts DEF Queued
<1> QED
    BY <1>1, <1>2, PTL

-----------------------------------------------------------------------------
(* Donations, and the abstract lock.                                       *)

Dead == {"FREE", "DYING"}

(* A thread inside sema_down has not exited.                               *)
NoneDeadInDown == \A t \in AllThreads : pc[t] = "down" => status[t] \notin Dead

LockInv == TypeInv /\ Queued /\ NoneDeadInDown

(* The types of the variables, one by one.                                 *)
LEMMA LockTypes ==
    ASSUME LockInv
    PROVE  /\ cur \in AllThreads /\ (cur # idle_thread => cur \in Threads)
           /\ status \in [AllThreads -> Statuses] /\ status[cur] = "RUNNING"
           /\ waitlock \in [AllThreads -> Locks \cup {NULL}]
           /\ list_of_donation \in [AllThreads -> Seq(Threads)]
           /\ holder \in [Locks -> Threads \cup {NULL}]
           /\ value \in [AllSemas -> Nat]
           /\ \A l \in Locks : value[l] \in {0, 1} /\ (holder[l] = NULL <=> value[l] = 1)
           /\ pc \in [AllThreads -> PCs]
           /\ downing \in [AllThreads -> AllSemas \cup {NULL}]
           /\ \A t \in AllThreads : pc[t] = "down" => downing[t] \in AllSemas
<1>1. TypeOK /\ HolderMatchesValue /\ PlaceOK /\ OnlyRuns(status, cur)
    BY DEF LockInv, TypeInv, Queued
<1>2. \A l \in Locks : value[l] \in {0, 1}
    BY <1>1 DEF TypeOK, AllSemas
<1> QED
    BY <1>1, <1>2, QueueTypes DEF LockInv, TypeOK, HolderMatchesValue, PlaceOK, OnlyRuns

USE ThreadsAssumption, ObjectsAssumption
-----------------------------------------------------------------------------
(* What a step can do to locks and to places in the code: nothing that     *)
(* matters to locks, ...                                                   *)
Aside ==
    /\ holder' = holder /\ downing' = downing
    /\ \A t \in AllThreads : /\ pc'[t] = "down" <=> pc[t] = "down"
                             /\ pc[t] = "down" => waitlock'[t] = waitlock[t]
                             /\ list_of_donation'[t] \in {list_of_donation[t], <<>>}

EntersDown(s) ==
    /\ cur \in Threads /\ pc[cur] = "run"
    /\ pc' = [pc EXCEPT ![cur] = "down"]
    /\ downing' = [downing EXCEPT ![cur] = s]
    /\ holder' = holder

(* ... or the current thread starts to wait in sema_down, ...              *)
SemaWait(s) == EntersDown(s) /\ UNCHANGED <<waitlock, list_of_donation>>

LockWait(l) ==
    /\ EntersDown(l)
    /\ holder[l] \in Threads \ {cur}
    /\ waitlock' = [waitlock EXCEPT ![cur] = l]
    /\ list_of_donation' =
         [list_of_donation EXCEPT ![holder[l]] = InsertOrdered(@, cur, DonationKey)]

(* ... or leaves sema_down, ...                                            *)
Gets(s) ==
    /\ cur \in Threads
    /\ pc[cur] = "run" \/ (pc[cur] = "down" /\ downing[cur] = s)
    /\ takes(s, list_of_donation)

(* ... or releases a lock.                                                 *)
LetsGo(l) ==
    /\ cur \in Threads /\ pc[cur] = "run"
    /\ holder[l] = cur
    /\ holder' = [holder EXCEPT ![l] = NULL]
    /\ \E donors \in remove_donation_list_waiting_lock(l) :
         list_of_donation' = [list_of_donation EXCEPT ![cur] = donors]
    /\ UNCHANGED <<waitlock, pc, downing>>

(* A step does one of five things to the locks.                            *)
LEMMA StepKinds ==
    ASSUME LockInv, [Next]_vars
    PROVE  \/ Aside
           \/ \E s \in Semas : SemaWait(s)
           \/ \E l \in Locks : LockWait(l)
           \/ \E s \in AllSemas : Gets(s)
           \/ \E l \in Locks : LetsGo(l)
<1> USE LockTypes
<1>1. ASSUME NEW t \in Threads, NEW p \in Priorities, thread_create(t, p)
      PROVE  Aside
    <2>1. /\ status[t] = "FREE" /\ t \in AllThreads /\ pc[cur] = "run"
          /\ waitlock' = [waitlock EXCEPT ![t] = NULL]
          /\ list_of_donation' = [list_of_donation EXCEPT ![t] = <<>>]
          /\ pc' = [pc EXCEPT ![t] = "run", ![cur] = "created"]
          /\ UNCHANGED <<holder, downing>>
        BY <1>1 DEF thread_create, InCode, At, AllThreads
    <2>2. pc[t] # "down"
        BY <2>1 DEF LockInv, NoneDeadInDown, Dead
    <2> QED
        BY <2>1, <2>2 DEF Aside
<1>2. CASE thread_created
    <2>1. /\ pc[cur] = "created" /\ pc' = [pc EXCEPT ![cur] = "run"]
          /\ UNCHANGED <<holder, downing, waitlock, list_of_donation>>
        BY <1>2 DEF thread_created, At, threadVars
    <2> QED
        BY <2>1 DEF Aside
<1>3. CASE UNCHANGED <<holder, downing, pc, waitlock, list_of_donation>>
    BY <1>3 DEF Aside
<1>4. CASE \/ thread_yield \/ thread_exit \/ idle
           \/ \E p \in Priorities : thread_set_priority(p)
           \/ \E s \in Semas : sema_up(s)
           \/ \E s \in IntrSemas : sema_up_in_interrupt(s)
           \/ timer_interrupt \/ timer_interrupt_return \/ UNCHANGED vars
    BY <1>3, <1>4 DEF thread_yield, thread_exit, idle, thread_set_priority, sema_up,
       sema_up_in_interrupt, timer_interrupt, timer_interrupt_return, vars, threadVars, placeVars
<1>5. ASSUME NEW n \in 1..MaxSleep, timer_sleep(n)
      PROVE  Aside
    <2>1. /\ pc[cur] = "run" /\ pc' = [pc EXCEPT ![cur] = "sleep"]
          /\ UNCHANGED <<holder, downing, waitlock, list_of_donation>>
        BY <1>5 DEF timer_sleep, InCode, At, threadVars
    <2> QED
        BY <2>1 DEF Aside
<1>6. CASE timer_interrupt_wake
    <2> DEFINE t == Head(sleep_list)
    <2>1. /\ sleep_list # <<>> /\ pc' = [pc EXCEPT ![t] = "run"]
          /\ UNCHANGED <<holder, downing, waitlock, list_of_donation>>
        BY <1>6 DEF timer_interrupt_wake, SleeperDue, threadVars
    <2>2. t \in Threads /\ t \in ToSet(sleep_list)
        BY <2>1, QueueTypes, PopFrontFacts DEF LockInv
    <2> HIDE DEF t
    <2>3. pc[t] = "sleep"
        BY <2>2 DEF LockInv, Queued, QueuedIn
    <2> QED
        BY <2>1, <2>3 DEF Aside
<1>7. CASE sema_down_again
    <2>1. /\ cur \in Threads /\ pc[cur] = "down" /\ downing[cur] \in AllSemas
          /\ \/ waitInDown(downing[cur], waitlock, list_of_donation)
             \/ takes(downing[cur], list_of_donation)
        BY <1>7 DEF sema_down_again, At, LockInv, TypeInv, PlaceOK
    <2>2. CASE takes(downing[cur], list_of_donation)
        BY <2>1, <2>2 DEF Gets
    <2>3. CASE waitInDown(downing[cur], waitlock, list_of_donation)
        <3>1. UNCHANGED <<holder, waitlock, list_of_donation, pc, downing>>
            BY <2>1, <2>3 DEF waitInDown
        <3> QED
            BY <1>3, <3>1
    <2> QED
        BY <2>1, <2>2, <2>3
<1>8. ASSUME NEW s \in Semas, sema_down(s) \/ sema_try_down(s)
      PROVE  SemaWait(s) \/ Gets(s)
    BY <1>8 DEF sema_down, sema_try_down, InCode, At, waitInDown, SemaWait, EntersDown, Gets
<1>9. ASSUME NEW l \in Locks, lock_acquire(l) \/ lock_try_acquire(l)
      PROVE  LockWait(l) \/ Gets(l)
    <2>1. cur \in Threads /\ pc[cur] = "run" /\ holder[l] # cur
        BY <1>9 DEF lock_acquire, lock_try_acquire, InCode, At
    <2>2. CASE lock_try_acquire(l)
        BY <2>1, <2>2 DEF lock_try_acquire, Gets
    <2>3. CASE lock_acquire(l) /\ holder[l] = NULL
        <3>1. waitInDown(l, waitlock, list_of_donation) \/ takes(l, list_of_donation)
            BY <2>3 DEF lock_acquire
        <3>2. value[l] = 1
            BY <2>3
        <3> QED
            BY <2>1, <3>1, <3>2 DEF waitInDown, Gets
    <2>4. CASE lock_acquire(l) /\ holder[l] # NULL
        <3> DEFINE wl == [waitlock EXCEPT ![cur] = l]
                   donors == [list_of_donation EXCEPT ![holder[l]] =
                                InsertOrdered(@, cur, DonationKey)]
        <3>1. waitInDown(l, wl, donors) \/ takes(l, donors)
            BY <2>4 DEF lock_acquire
        <3>2. value[l] = 0 /\ holder[l] \in Threads
            BY <2>4
        <3>3. waitInDown(l, wl, donors)
            BY <3>1, <3>2 DEF takes
        <3> QED
            BY <2>1, <3>2, <3>3 DEF waitInDown, LockWait, EntersDown
    <2> QED
        BY <1>9, <2>2, <2>3, <2>4
<1>10. ASSUME NEW l \in Locks, lock_release(l)
       PROVE  LetsGo(l)
    BY <1>10 DEF lock_release, InCode, At, placeVars, LetsGo
<1> QED
    BY <1>1, <1>2, <1>4, <1>5, <1>6, <1>7, <1>8, <1>9, <1>10
    DEF Next, TimerStep, LockStep, SemaStep, AllSemas
-----------------------------------------------------------------------------
(* A thread dies only by its own thread_exit.                              *)
LEMMA ScheduleDead ==
    ASSUME NEW st \in [AllThreads -> Statuses], NEW ready \in Seq(Threads), schedule(st, ready)
    PROVE  \A t \in AllThreads : status'[t] \in Dead => st[t] \in Dead
<1> DEFINE next == IF ready = <<>> THEN idle_thread ELSE Head(ready)
<1>1. next \in AllThreads
    BY PopFrontFacts DEF AllThreads
<1>2. status' = [Reaped(st) EXCEPT ![next] = "RUNNING"]
    BY DEF schedule
<1> HIDE DEF next
<1>3. \A t \in AllThreads : status'[t] = IF t = next THEN "RUNNING" ELSE Reaped(st)[t]
    BY <1>1, <1>2 DEF Reaped
<1> QED
    BY <1>3 DEF Reaped, Dead

(* No choice of the next thread makes a thread dead.                       *)
LEMMA ReschedDead ==
    ASSUME cur \in AllThreads, NEW st \in [AllThreads -> Statuses],
           NEW ready \in Seq(Threads), NEW pri,
           \/ iscurrent_thread_has_max_priority(st, ready, pri)
           \/ keeps_running(st, ready, pri)
           \/ yield(st, ready, pri)
    PROVE  \A t \in AllThreads : status'[t] \in Dead => st[t] \in Dead
<1>1. CASE keeps_running(st, ready, pri)
    BY <1>1 DEF keeps_running
<1>2. CASE yield(st, ready, pri)
    <2> DEFINE queue == IF cur = idle_thread THEN ready ELSE InsertOrdered(ready, cur, pri)
               st2 == [st EXCEPT ![cur] = "READY"]
    <2>1. queue \in Seq(Threads)
        BY InsertOrderedFacts DEF AllThreads
    <2>2. st2 \in [AllThreads -> Statuses] /\ \A t \in AllThreads : st2[t] \in Dead => st[t] \in Dead
        BY DEF Statuses, Dead
    <2>3. schedule(st2, queue)
        BY <1>2 DEF yield
    <2> HIDE DEF queue, st2
    <2> QED
        BY <2>1, <2>2, <2>3, ScheduleDead
<1> QED
    BY <1>1, <1>2 DEF iscurrent_thread_has_max_priority

(* sema_up makes no thread dead.                                           *)
LEMMA SemaUpDead ==
    ASSUME LockInv, NEW s \in AllSemas, NEW pri,
           NEW intr, sema_up_body(s, pri, intr)
    PROVE  \A t \in AllThreads : status'[t] \in Dead => status[t] \in Dead
<1> DEFINE Resched(st, ready) ==
               \/ iscurrent_thread_has_max_priority(st, ready, pri)
               \/ keeps_running(st, ready, pri)
<1>0. /\ cur \in AllThreads /\ status \in [AllThreads -> Statuses] /\ ready_list \in Seq(Threads)
      /\ waiters \in [AllSemas -> Seq(Threads)]
    BY QueueTypes DEF LockInv
<1>1. CASE Resched(status, ready_list)
    BY <1>0, <1>1, ReschedDead
<1>2. ASSUME wakes(s), NEW q \in Sorted(waiters[s], pri),
             Resched([status EXCEPT ![Head(q)] = "READY"], InsertOrdered(ready_list, Head(q), pri))
      PROVE  \A t \in AllThreads : status'[t] \in Dead => status[t] \in Dead
    <2> DEFINE st2 == [status EXCEPT ![Head(q)] = "READY"]
               ready2 == InsertOrdered(ready_list, Head(q), pri)
    <2>1. q \in Seq(Threads) /\ q # <<>>
        BY <1>0, <1>2, SortedFacts DEF wakes
    <2>2. ready2 \in Seq(Threads)
        BY <1>0, <2>1, PopFrontFacts, InsertOrderedFacts
    <2>3. /\ st2 \in [AllThreads -> Statuses]
          /\ \A t \in AllThreads : st2[t] \in Dead => status[t] \in Dead
        BY <1>0 DEF Statuses, Dead
    <2>4. Resched(st2, ready2)
        BY <1>2
    <2> HIDE DEF st2, ready2
    <2> QED
        BY <1>0, <2>2, <2>3, <2>4, ReschedDead
<1> QED
    BY <1>1, <1>2 DEF sema_up_body, sema_up_ends

(* Only a thread in its own code dies.                                     *)
LEMMA DeathStep ==
    ASSUME LockInv, [Next]_vars
    PROVE  \A t \in AllThreads : status'[t] \in Dead => status[t] \in Dead \/ (t = cur /\ pc'[t] = "run")
<1> USE LockTypes
<1>0. ready_list \in Seq(Threads) /\ sleep_list \in Seq(Threads)
    BY QueueTypes DEF LockInv
<1>1. ASSUME NEW st, st \in {status, [status EXCEPT ![cur] = "BLOCKED"]}
      PROVE  st \in [AllThreads -> Statuses] /\ \A t \in AllThreads : st[t] \in Dead => status[t] \in Dead
    BY <1>1 DEF Statuses, Dead
<1>2. CASE status' = status
    BY <1>2
<1>3. CASE schedule([status EXCEPT ![cur] = "BLOCKED"], ready_list)
    BY <1>0, <1>1, <1>3, ScheduleDead
<1>4. CASE \/ iscurrent_thread_has_max_priority(status, ready_list, priority')
           \/ yield(status, ready_list, priority)
           \/ iscurrent_thread_has_max_priority(status, ready_list, priority)
    BY <1>0, <1>4, ReschedDead
<1>5. ASSUME NEW s \in AllSemas, NEW pri, NEW intr, sema_up_body(s, pri, intr)
      PROVE  \A t \in AllThreads : status'[t] \in Dead => status[t] \in Dead
    BY <1>5, SemaUpDead
<1>6. CASE thread_exit
    <2> DEFINE st2 == [status EXCEPT ![cur] = "DYING"]
    <2>1. /\ schedule(st2, ready_list) /\ pc' = pc /\ pc[cur] = "run"
        BY <1>6 DEF thread_exit, InCode, At, placeVars
    <2>2. st2 \in [AllThreads -> Statuses] /\ \A t \in AllThreads : t # cur => st2[t] = status[t]
        BY DEF Statuses
    <2> HIDE DEF st2
    <2>3. \A t \in AllThreads : status'[t] \in Dead => st2[t] \in Dead
        BY <1>0, <2>1, <2>2, ScheduleDead
    <2> QED
        BY <2>1, <2>2, <2>3
<1>7. ASSUME NEW t \in AllThreads, status' = [status EXCEPT ![t] = "READY"]
      PROVE  \A u \in AllThreads : status'[u] \in Dead => status[u] \in Dead
    BY <1>7 DEF Dead
<1>8. CASE \/ \E t \in Threads, p \in Priorities : thread_create(t, p)
           \/ timer_interrupt_wake
    <2>1. sleep_list # <<>> => Head(sleep_list) \in AllThreads
        BY <1>0, PopFrontFacts DEF AllThreads
    <2>2. \E t \in AllThreads : status' = [status EXCEPT ![t] = "READY"]
        BY <1>8, <2>1 DEF thread_create, timer_interrupt_wake, SleeperDue, AllThreads
    <2> QED
        BY <1>7, <2>2
<1>9. ASSUME NEW s \in AllSemas, NEW wl, NEW donors, waitInDown(s, wl, donors) \/ takes(s, donors)
      PROVE  \A t \in AllThreads : status'[t] \in Dead => status[t] \in Dead
    BY <1>0, <1>1, <1>9, ScheduleDead DEF waitInDown, takes, schedVars
<1>10. CASE sema_down_again
    <2>1. downing[cur] \in AllSemas
        BY <1>10 DEF sema_down_again, At
    <2> QED
        BY <1>9, <1>10, <2>1 DEF sema_down_again
<1>11. ASSUME NEW l \in Locks, LockStep(l)
       PROVE  \A t \in AllThreads : status'[t] \in Dead => status[t] \in Dead
    <2>1. l \in AllSemas
        BY DEF AllSemas
    <2>2. CASE lock_acquire(l) \/ lock_try_acquire(l)
        BY <1>9, <2>1, <2>2 DEF lock_acquire, lock_try_acquire
    <2>3. CASE lock_release(l)
        BY <1>5, <2>1, <2>3 DEF lock_release
    <2> QED
        BY <1>11, <2>2, <2>3 DEF LockStep
<1>12. ASSUME NEW s \in Semas, SemaStep(s) \/ sema_up_in_interrupt(s)
       PROVE  \A t \in AllThreads : status'[t] \in Dead => status[t] \in Dead
    <2>1. s \in AllSemas
        BY DEF AllSemas
    <2>2. CASE sema_down(s) \/ sema_try_down(s)
        BY <1>9, <2>1, <2>2 DEF sema_down, sema_try_down
    <2>3. CASE sema_up(s) \/ sema_up_in_interrupt(s)
        BY <1>5, <2>1, <2>3 DEF sema_up, sema_up_in_interrupt
    <2> QED
        BY <1>12, <2>2, <2>3 DEF SemaStep
<1>13. CASE thread_created \/ thread_yield \/ timer_interrupt_return
    BY <1>2, <1>4, <1>13 DEF thread_created, thread_yield, timer_interrupt_return, schedVars
<1>14. CASE \E p \in Priorities : thread_set_priority(p)
    BY <1>2, <1>4, <1>14 DEF thread_set_priority, schedVars
<1>15. CASE idle \/ \E n \in 1..MaxSleep : timer_sleep(n)
    BY <1>3, <1>15 DEF idle, timer_sleep
<1>16. CASE timer_interrupt \/ UNCHANGED vars
    BY <1>2, <1>16 DEF timer_interrupt, vars, schedVars
<1> QED
    BY <1>6, <1>8, <1>10, <1>11, <1>12, <1>13, <1>14, <1>15, <1>16 DEF Next, TimerStep

(* Every step keeps the invariant.                                         *)
LEMMA LockInvStep == LockInv /\ [Next]_vars => LockInv'
<1> SUFFICES ASSUME LockInv, [Next]_vars PROVE LockInv'
    OBVIOUS
<1> USE LockTypes
<1>1. TypeInv' /\ Queued'
    BY TypeStep, QueuedStep DEF LockInv
<1>2. ASSUME NEW t \in AllThreads, pc'[t] = "down" PROVE pc[t] = "down" \/ t = cur
    <2>1. CASE Aside
        BY <1>2, <2>1 DEF Aside
    <2>2. CASE \/ \E s \in Semas : SemaWait(s)
               \/ \E l \in Locks : LockWait(l)
               \/ \E s \in AllSemas : Gets(s)
               \/ \E l \in Locks : LetsGo(l)
        BY <1>2, <2>2 DEF SemaWait, LockWait, EntersDown, Gets, takes, LetsGo
    <2> QED
        BY <2>1, <2>2, StepKinds
<1>3. NoneDeadInDown'
    <2> SUFFICES ASSUME NEW t \in AllThreads, pc'[t] = "down", status'[t] \in Dead PROVE FALSE
        BY DEF NoneDeadInDown
    <2>1. status[t] \in Dead
        BY DeathStep
    <2>2. t # cur
        BY <2>1 DEF Dead
    <2> QED
        BY <1>2, <2>1, <2>2 DEF LockInv, NoneDeadInDown
<1> QED
    BY <1>1, <1>3 DEF LockInv

(* The invariant holds throughout.                                         *)
LEMMA LockInvAlways == Spec => []LockInv
<1>1. Init => NoneDeadInDown
    BY DEF Init, NoneDeadInDown
<1> QED
    BY <1>1, TypeInit, QueuedInit, LockInvStep, PTL DEF Spec, LockInv
-----------------------------------------------------------------------------
(* Donations.                                                              *)

(* Every step keeps the donation lists sound.                              *)
LEMMA DonationsStep == LockInv /\ DonationsSound /\ [Next]_vars => DonationsSound'
<1> SUFFICES ASSUME LockInv, DonationsSound, [Next]_vars PROVE DonationsSound'
    OBVIOUS
<1> USE LockTypes
<1> DEFINE Good(h, t) == /\ waitlock[t] # NULL
                         /\ holder[waitlock[t]] = h
                         /\ pc[t] = "down" /\ downing[t] = waitlock[t]
           GoodAfter(h, t) == /\ waitlock'[t] # NULL
                              /\ holder'[waitlock'[t]] = h
                              /\ pc'[t] = "down" /\ downing'[t] = waitlock'[t]
           Donor(h, t) == t \in ToSet(list_of_donation[h])
<1>0. \A h \in AllThreads :
        /\ IsInjective(list_of_donation[h]) /\ list_of_donation[h] \in Seq(Threads)
        /\ \A t : Donor(h, t) => /\ t \in Threads /\ t \in AllThreads /\ waitlock[t] \in Locks
                                 /\ Good(h, t)
    <2>1. ASSUME NEW h \in AllThreads, NEW t, Donor(h, t)
          PROVE  t \in Threads
        <3>1. list_of_donation[h] \in Seq(Threads)
            OBVIOUS
        <3> QED
            BY <2>1, <3>1 DEF ToSet
    <2>2. ASSUME NEW h \in AllThreads, NEW t, Donor(h, t) PROVE waitlock[t] \in Locks /\ Good(h, t)
        <3>1. t \in AllThreads /\ Good(h, t)
            BY <2>1, <2>2 DEF DonationsSound, AllThreads
        <3> QED
            BY <3>1
    <2> QED
        BY <2>1, <2>2 DEF DonationsSound, AllThreads
<1>1. CASE Aside
    <2> SUFFICES ASSUME NEW h \in AllThreads
                 PROVE  /\ IsInjective(list_of_donation'[h])
                        /\ \A t \in ToSet(list_of_donation'[h]) : GoodAfter(h, t)
        BY DEF DonationsSound
    <2>1. CASE list_of_donation'[h] = <<>>
        BY <2>1 DEF ToSet, IsInjective
    <2>2. CASE list_of_donation'[h] = list_of_donation[h]
        BY <1>0, <1>1, <2>2 DEF Aside
    <2> QED
        BY <1>1, <2>1, <2>2 DEF Aside
<1>2. ASSUME NEW s \in Semas, SemaWait(s)
      PROVE  DonationsSound'
    <2>1. \A h \in AllThreads : ~ Donor(h, cur)
        BY <1>0, <1>2 DEF SemaWait, EntersDown
    <2> QED
        BY <1>0, <1>2, <2>1 DEF SemaWait, EntersDown, DonationsSound
<1>3. ASSUME NEW l \in Locks, LockWait(l)
      PROVE  DonationsSound'
    <2> DEFINE o == holder[l]
               q == InsertOrdered(list_of_donation[o], cur, DonationKey)
    <2>1. \A h \in AllThreads : ~ Donor(h, cur)
        BY <1>0, <1>3 DEF LockWait, EntersDown
    <2>2. /\ o \in AllThreads /\ cur \in Threads /\ holder' = holder
          /\ waitlock' = [waitlock EXCEPT ![cur] = l]
          /\ pc' = [pc EXCEPT ![cur] = "down"] /\ downing' = [downing EXCEPT ![cur] = l]
          /\ list_of_donation' = [list_of_donation EXCEPT ![o] = q]
        BY <1>3 DEF LockWait, EntersDown, AllThreads
    <2>3. IsInjective(q) /\ ToSet(q) = ToSet(list_of_donation[o]) \cup {cur}
        BY <1>0, <2>1, <2>2, InsertOrderedFacts
    <2>4. l # NULL /\ GoodAfter(o, cur)
        BY <2>2
    <2> HIDE DEF q
    <2>5. ASSUME NEW h \in AllThreads, NEW t, Donor(h, t) PROVE GoodAfter(h, t)
        BY <1>0, <2>1, <2>2, <2>5
    <2> HIDE DEF o, GoodAfter
    <2>6. ASSUME NEW h \in AllThreads
          PROVE  /\ IsInjective(list_of_donation'[h])
                 /\ \A t \in ToSet(list_of_donation'[h]) : GoodAfter(h, t)
        <3>1. CASE h = o
            BY <2>2, <2>3, <2>4, <2>5, <3>1
        <3>2. CASE h # o
            BY <1>0, <2>2, <2>5, <3>2
        <3> QED
            BY <3>1, <3>2
    <2> QED
        BY <2>6 DEF DonationsSound, GoodAfter
<1>4. ASSUME NEW s \in AllSemas, Gets(s)
      PROVE  DonationsSound'
    <2>1. /\ value[s] > 0 /\ cur \in AllThreads
          /\ waitlock' = IF s \in Locks THEN [waitlock EXCEPT ![cur] = NULL] ELSE waitlock
          /\ holder' = IF s \in Locks THEN [holder EXCEPT ![s] = cur] ELSE holder
          /\ list_of_donation' = list_of_donation
          /\ pc' = [pc EXCEPT ![cur] = "run"] /\ downing' = [downing EXCEPT ![cur] = NULL]
        BY <1>4 DEF Gets, takes
    <2>2. s \in Locks => holder[s] = NULL
        BY <2>1
    <2>3. ASSUME NEW h \in AllThreads, NEW t, Donor(h, t)
          PROVE  t # cur /\ waitlock[t] # s
        <3>1. h # NULL
            BY DEF AllThreads
        <3>2. waitlock[t] # s
            BY <1>0, <2>2, <2>3, <3>1
        <3> QED
            BY <1>0, <1>4, <2>3, <3>2 DEF Gets
    <2>4. ASSUME NEW h \in AllThreads, NEW t, Donor(h, t) PROVE GoodAfter(h, t)
        BY <1>0, <2>1, <2>3, <2>4
    <2> QED
        BY <1>0, <2>1, <2>4 DEF DonationsSound
<1>5. ASSUME NEW l \in Locks, LetsGo(l)
      PROVE  DonationsSound'
    <2>1. PICK donors \in remove_donation_list_waiting_lock(l) :
               list_of_donation' = [list_of_donation EXCEPT ![cur] = donors]
        BY <1>5 DEF LetsGo
    <2>2. /\ IsInjective(donors)
          /\ \A t \in ToSet(donors) : Donor(cur, t) /\ waitlock[t] # l
        BY <1>0, <2>1, WithoutFacts DEF remove_donation_list_waiting_lock
    <2>3. /\ holder[l] = cur /\ holder' = [holder EXCEPT ![l] = NULL]
          /\ UNCHANGED <<waitlock, pc, downing>>
        BY <1>5 DEF LetsGo
    <2>4. ASSUME NEW h \in AllThreads, NEW t, Donor(h, t), waitlock[t] # l PROVE GoodAfter(h, t)
        BY <1>0, <2>3, <2>4
    <2>5. ASSUME NEW h \in AllThreads, NEW t, Donor(h, t), h # cur PROVE waitlock[t] # l
        BY <1>0, <2>3, <2>5
    <2> HIDE DEF GoodAfter
    <2>6. ASSUME NEW h \in AllThreads
          PROVE  /\ IsInjective(list_of_donation'[h])
                 /\ \A t \in ToSet(list_of_donation'[h]) : GoodAfter(h, t)
        <3>1. CASE h = cur
            BY <2>1, <2>2, <2>4, <3>1
        <3>2. CASE h # cur
            BY <1>0, <2>1, <2>4, <2>5, <3>2
        <3> QED
            BY <3>1, <3>2
    <2> QED
        BY <2>6 DEF DonationsSound, GoodAfter
<1> QED
    BY <1>1, <1>2, <1>3, <1>4, <1>5, StepKinds

(* The donation list of a thread names, each once, threads that wait for a *)
(* lock it holds: nobody donates for a lock that was released, and nobody  *)
(* to two threads at once.                                                 *)
THEOREM DonationsStaySound == Spec => []DonationsSound
<1>1. Init => DonationsSound
    <2>1. ToSet(<<>>) = {} /\ IsInjective(<<>>)
        BY DEF ToSet, IsInjective
    <2> QED
        BY <2>1 DEF Init, DonationsSound
<1> QED
    BY <1>1, LockInvAlways, DonationsStep, PTL DEF Spec
-----------------------------------------------------------------------------
(* The abstract lock.                                                      *)

(* Every step is a step of the abstract lock, or shows it nothing.         *)
LEMMA MutexStep ==
    ASSUME LockInv, [Next]_vars
    PROVE  [AbstractLock!Next]_(AbstractLock!mutexVars)
<1> USE LockTypes
<1>0. /\ \A t \in Threads : t \in AllThreads /\ t # NULL
      /\ \A l \in Locks : l # NULL
    BY DEF AllThreads
<1>1. CASE Aside
    <2>1. holder' = holder /\ WantedLock' = WantedLock
        BY <1>0, <1>1 DEF Aside, WantedLock
    <2> QED
        BY <2>1 DEF AbstractLock!mutexVars
<1>2. ASSUME NEW s \in Semas, SemaWait(s)
      PROVE  [AbstractLock!Next]_(AbstractLock!mutexVars)
    <2>1. s \notin Locks
        OBVIOUS
    <2>2. holder' = holder /\ WantedLock' = WantedLock
        BY <1>0, <1>2, <2>1 DEF SemaWait, EntersDown, WantedLock
    <2> QED
        BY <2>2 DEF AbstractLock!mutexVars
<1>3. ASSUME NEW l \in Locks, LockWait(l)
      PROVE  AbstractLock!Request(cur, l)
    <2>1. WantedLock[cur] = NULL /\ WantedLock' = [WantedLock EXCEPT ![cur] = l]
        BY <1>0, <1>3 DEF LockWait, EntersDown, WantedLock
    <2> QED
        BY <1>0, <1>3, <2>1 DEF LockWait, EntersDown, AbstractLock!Request
<1>4. ASSUME NEW s \in AllSemas, Gets(s)
      PROVE  [AbstractLock!Next]_(AbstractLock!mutexVars)
    <2>1. /\ value[s] > 0 /\ cur \in Threads
          /\ holder' = IF s \in Locks THEN [holder EXCEPT ![s] = cur] ELSE holder
          /\ pc' = [pc EXCEPT ![cur] = "run"] /\ downing' = [downing EXCEPT ![cur] = NULL]
        BY <1>4 DEF Gets, takes
    <2>2. WantedLock' = [WantedLock EXCEPT ![cur] = NULL]
        BY <1>0, <2>1 DEF WantedLock
    <2>3. CASE s \in Locks
        <3>1. holder[s] = NULL /\ WantedLock[cur] \in {NULL, s}
            BY <1>0, <1>4, <2>1, <2>3 DEF Gets, WantedLock
        <3>2. AbstractLock!Take(cur, s)
            BY <2>1, <2>2, <2>3, <3>1 DEF AbstractLock!Take
        <3> QED
            BY <2>1, <2>3, <3>2 DEF AbstractLock!Next
    <2>4. CASE s \notin Locks
        <3>1. WantedLock[cur] = NULL
            BY <1>0, <1>4, <2>1, <2>4 DEF Gets, WantedLock
        <3>2. holder' = holder /\ WantedLock' = WantedLock
            BY <2>1, <2>2, <2>4, <3>1 DEF WantedLock
        <3> QED
            BY <3>2 DEF AbstractLock!mutexVars
    <2> QED
        BY <2>3, <2>4
<1>5. ASSUME NEW l \in Locks, LetsGo(l)
      PROVE  AbstractLock!Release(cur, l)
    <2>1. WantedLock[cur] = NULL /\ WantedLock' = WantedLock
        BY <1>0, <1>5 DEF LetsGo, WantedLock
    <2> QED
        BY <1>5, <2>1 DEF LetsGo, AbstractLock!Release
<1>6. (\E l \in Locks : LockWait(l) \/ LetsGo(l)) => cur \in Threads
    BY DEF LockWait, EntersDown, LetsGo
<1> QED
    BY <1>1, <1>2, <1>3, <1>4, <1>5, <1>6, StepKinds DEF AbstractLock!Next

(* The kernel's locks are locks: one holder at a time, only the holder     *)
(* lets go, and nobody gets a lock but by asking for it.                   *)
THEOREM LocksImplementMutex == Spec => ImplementsMutex
<1>1. Init => AbstractLock!Init
    BY DEF Init, AbstractLock!Init, WantedLock, AllThreads
<1> QED
    BY <1>1, LockInvAlways, MutexStep, PTL DEF Spec, ImplementsMutex, AbstractLock!Spec
=============================================================================
