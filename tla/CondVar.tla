------------------------------- MODULE CondVar -------------------------------
(***************************************************************************)
(* A condition variable of threads/synch.c and the lock that goes with it, *)
(* on top of ThreadSync.  cond_wait and cond_signal run with interrupts    *)
(* on, so other threads run between the calls they are made of, and the    *)
(* lock is all that protects the list of waiters; the semaphores on that   *)
(* list, which the comparison of list_sort looks into, it does not.        *)
(***************************************************************************)
EXTENDS ThreadSync, KernelSort

CONSTANTS
    CondLock,       \* the lock the condition variable is used with
    waiter          \* waiter[t]: the semaphore on t's stack in cond_wait

ASSUME CondAssumption ==
    /\ CondLock \in Locks
    /\ waiter \in Bijection(Threads, Semas)

VARIABLES
    cond_waiters,   \* cond->waiters: the threads whose semaphore_elem it lists
    call,           \* what a thread has left to do of a call, see Calls
    stuck           \* list_sort did not end, or its closing ASSERT failed

condVars == <<cond_waiters, call, stuck>>
allVars == <<vars, condVars>>

(* "none"; in cond_wait, before lock_release, before sema_down, before     *)
(* lock_acquire; in cond_signal and cond_broadcast, the list sorted but    *)
(* not yet checked; in cond_broadcast, before the next turn of its loop.   *)
Calls == {"none", "wait_release", "wait_down", "wait_lock", "signal", "broadcast", "again"}

NotStarted(t) == waiters[waiter[t]] = <<>>

(* A slip of the next definition: the comparison turned round.             *)
lowest_first ==
    [a, b \in Threads |->
        \/ NotStarted(b)
        \/ /\ ~NotStarted(a)
           /\ priority[Head(waiters[waiter[a]])] < priority[Head(waiters[waiter[b]])]]

(* compare_semaphore_priority: one whose thread has not got to sema_down   *)
(* comes after all others, and after itself.                               *)
compare_semaphore_priority ==
    [a, b \in Threads |->
        \/ NotStarted(b)
        \/ /\ ~NotStarted(a)
           /\ priority[Head(waiters[waiter[a]])] > priority[Head(waiters[waiter[b]])]]

CondInit ==
    /\ Init
    /\ cond_waiters = <<>>
    /\ call = [t \in Threads |-> "none"]
    /\ stuck = FALSE

Free == InCode /\ call[cur] = "none"

Goes(c) == call' = [call EXCEPT ![cur] = c]
-----------------------------------------------------------------------------
(* cond_wait: the waiter joins the list, its semaphore empty ...           *)
cond_wait ==
    /\ Free
    /\ holder[CondLock] = cur
    /\ value' = [value EXCEPT ![waiter[cur]] = 0]
    /\ cond_waiters' = list_insert_ordered(cond_waiters, cur, compare_semaphore_priority)
    /\ Goes("wait_release")
    /\ UNCHANGED <<schedVars, threadVars, sleepVars, waiters, holder, in_external_intr,
                   placeVars, stuck>>

(* ... lets go of the lock, which may hand the processor to another thread *)
cond_wait_release ==
    /\ InCode /\ call[cur] = "wait_release"
    /\ lock_release(CondLock)
    /\ Goes("wait_down")
    /\ UNCHANGED <<cond_waiters, stuck>>

(* ... waits for its semaphore ...                                         *)
cond_wait_down ==
    /\ InCode /\ call[cur] = "wait_down"
    /\ sema_down(waiter[cur])
    /\ Goes("wait_lock")
    /\ UNCHANGED <<cond_waiters, stuck>>

(* ... and takes the lock again.                                           *)
cond_wait_lock ==
    /\ InCode /\ call[cur] = "wait_lock"
    /\ lock_acquire(CondLock)
    /\ Goes("none")
    /\ UNCHANGED <<cond_waiters, stuck>>

(* list_sort at the start of cond_signal; then is what comes next.         *)
sortWaiters(then) ==
    LET sorted == list_sort(cond_waiters, compare_semaphore_priority)
    IN  /\ IF sorted.ends
           THEN cond_waiters' = sorted.list /\ Goes(then) /\ UNCHANGED stuck
           ELSE stuck' = TRUE /\ UNCHANGED <<cond_waiters, call>>
        /\ UNCHANGED vars

cond_signal ==
    /\ Free
    /\ holder[CondLock] = cur
    /\ cond_waiters # <<>>
    /\ sortWaiters("signal")

(* cond_broadcast signals until no waiter is left.                         *)
cond_broadcast ==
    /\ \/ Free /\ holder[CondLock] = cur /\ cond_waiters # <<>>
       \/ InCode /\ call[cur] = "again"
    /\ IF cond_waiters = <<>>
       THEN Goes("none") /\ UNCHANGED <<vars, cond_waiters, stuck>>
       ELSE sortWaiters("broadcast")

(* A slip of the next definition: the waiter is popped and not woken.      *)
cond_signal_pop_only ==
    /\ InCode /\ call[cur] \in {"signal", "broadcast"}
    /\ cond_waiters' = Tail(cond_waiters)
    /\ Goes(IF call[cur] = "signal" THEN "none" ELSE "again")
    /\ UNCHANGED <<vars, stuck>>

(* The rest of cond_signal: the ASSERT that ends list_sort, then the first *)
(* waiter's semaphore is upped.  Interrupts were on since the sort.        *)
cond_signal_up ==
    /\ InCode /\ call[cur] \in {"signal", "broadcast"}
    /\ IF is_sorted(cond_waiters, compare_semaphore_priority)
       THEN /\ cond_waiters' = Tail(cond_waiters)
            /\ sema_up_body(waiter[Head(cond_waiters)], priority, FALSE)
            /\ Goes(IF call[cur] = "signal" THEN "none" ELSE "again")
            /\ UNCHANGED <<threadVars, sleepVars, holder, in_external_intr, placeVars, stuck>>
       ELSE stuck' = TRUE /\ UNCHANGED <<vars, cond_waiters, call>>
-----------------------------------------------------------------------------
CondStep ==
    \/ cond_wait \/ cond_wait_release \/ cond_wait_down \/ cond_wait_lock
    \/ cond_signal \/ cond_broadcast \/ cond_signal_up

(* What the kernel does of itself, and the other calls of a client.        *)
OtherStep ==
    /\ \/ TimerStep \/ idle \/ sema_down_again \/ thread_created
       \/ /\ Free
          /\ \/ \E t \in Threads, p \in Priorities : thread_create(t, p)
             \/ thread_exit
             \/ thread_yield
             \/ \E p \in Priorities : thread_set_priority(p)
             \/ \E n \in 1..MaxSleep : timer_sleep(n)
             \/ \E l \in Locks : LockStep(l)
    /\ UNCHANGED condVars

CondNext == ~stuck /\ (CondStep \/ OtherStep)

CondSpec == CondInit /\ [][CondNext]_allVars
-----------------------------------------------------------------------------
(* Properties.                                                             *)

CondTypeOK ==
    /\ TypeOK
    /\ cond_waiters \in Seq(Threads)
    /\ call \in [Threads -> Calls]
    /\ stuck \in BOOLEAN

(* t has joined the waiters and has not been through its sema_down.        *)
Waits(t) ==
    \/ call[t] \in {"wait_release", "wait_down"}
    \/ call[t] = "wait_lock" /\ pc[t] = "down" /\ downing[t] = waiter[t]

(* A signal for t is under way.                                            *)
Signalled(t) == value[waiter[t]] = 1 \/ t \in Woken(waiter[t])

(* The list names a semaphore_elem only while the cond_wait frame that it  *)
(* lives in exists, once; a waiter that is off the list has been           *)
(* signalled, and one that is on it has not.                               *)
NoLostSignal ==
    /\ IsInjective(cond_waiters)
    /\ \A t \in ToSet(cond_waiters) : Waits(t)
    /\ \A t \in Threads : Waits(t) => (t \in ToSet(cond_waiters) <=> ~Signalled(t))

(* The safety of a condition variable, in every interleaving of the calls  *)
(* that cond_wait and cond_signal are made of.                             *)
CondSafe == CondTypeOK /\ NoLostSignal

(* cond_signal wakes a waiter of the highest priority among those that     *)
(* have got as far as sema_down.                                           *)
SignalsHighestBlocked ==
    [][\A t \in ToSet(cond_waiters) : t \notin ToSet(cond_waiters') =>
          \A u \in ToSet(cond_waiters) :
             ~NotStarted(u) => ~NotStarted(t) /\ priority[u] <= priority[t]]_allVars

(* synch.c:415 "If any threads are waiting on COND (protected by LOCK),    *)
(* then this function signals one of them to wake up from its wait": it    *)
(* does not panic or hang.                                                 *)
CondSignalReturns == ~stuck
=============================================================================
