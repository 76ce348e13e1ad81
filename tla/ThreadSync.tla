------------------------------ MODULE ThreadSync ------------------------------
(***************************************************************************)
(* The kernel's threads (threads/thread.c), its semaphores and locks with  *)
(* priority donation (threads/synch.c) and its sleeping threads            *)
(* (devices/timer.c), with the priority scheduler (thread_mlfqs = false).  *)
(*                                                                         *)
(* Pintos runs on one processor.  A section of code that runs with         *)
(* interrupts off is one atomic action here; between two such sections the *)
(* timer interrupt can preempt.  Only the running thread takes a step of   *)
(* its own, and what it calls next is chosen freely: the model runs every  *)
(* client of the thread system at once.                                    *)
(*                                                                         *)
(* A thread is named by the number of the page that its struct thread      *)
(* lives in, because one comparison in the code (DonationKey below) ends   *)
(* up comparing addresses of those pages.                                  *)
(***************************************************************************)
EXTENDS Integers, FiniteSets, Sequences, KernelLists

CONSTANTS
    Threads,         \* pages of the threads other than the idle thread
    initial_thread,  \* the thread that main() runs in
    idle_thread,     \* the thread that runs when no other one is ready
    Locks,           \* struct lock objects
    Semas,           \* struct semaphore objects that are not inside a lock
    IntrSemas,       \* the ones among Semas that interrupt handlers also up
    Priorities,      \* the priorities clients ask for
    PRI_MIN,         \* the priority of the idle thread
    PRI_DEFAULT,     \* the priority of the initial thread
    LOCK_SIZE,       \* how far donation follows a chain of locks
    TIME_SLICE,      \* ticks a thread keeps the processor among its equals
    MaxSleep,        \* bound: the longest timer_sleep a client asks for
    MaxValue,        \* bound: clients do not up a semaphore beyond this
    NULL

ASSUME ThreadsAssumption ==
    /\ Threads \subseteq Nat
    /\ IsFiniteSet(Threads)
    /\ initial_thread \in Threads
    /\ idle_thread \in Nat \ Threads
ASSUME ObjectsAssumption ==
    /\ Locks \cap Semas = {}
    /\ IntrSemas \subseteq Semas
    /\ NULL \notin Threads \cup {idle_thread} \cup Locks \cup Semas
ASSUME NumbersAssumption ==
    /\ Priorities \subseteq Nat
    /\ PRI_MIN \in Nat
    /\ PRI_DEFAULT \in Priorities
    /\ \A p \in Priorities : PRI_MIN <= p
    /\ LOCK_SIZE \in Nat
    /\ TIME_SLICE \in Nat \ {0}
    /\ MaxSleep \in Nat
    /\ MaxValue \in Nat

AllThreads == Threads \cup {idle_thread}
AllSemas == Locks \cup Semas      \* a lock is also its own lock->semaphore

VARIABLES
    cur,               \* the running thread: whose page the stack pointer is in
    status,            \* t->status, "FREE" while the page holds no thread
    priority,          \* t->priority
    initial_priority,  \* t->initial_priority
    waitlock,          \* t->waitlock
    list_of_donation,  \* t->list_of_donation, front first
    ready_list,        \* front first
    sleep_list,        \* front first
    ticks_left,        \* t->ticks - ticks, for the threads on sleep_list
    holder,            \* lock->holder
    value,             \* sema->value
    waiters,           \* sema->waiters, front first
    thread_ticks,      \* timer ticks since the last thread switch
    in_external_intr,  \* the timer interrupt handler is running
    pc,                \* where the stack of a thread is, see PCs
    downing            \* the semaphore of the sema_down that t is inside

threadVars == <<priority, initial_priority, waitlock, list_of_donation>>
schedVars == <<cur, status, ready_list, thread_ticks>>
semaVars == <<value, waiters>>
sleepVars == <<sleep_list, ticks_left>>
placeVars == <<pc, downing>>
vars == <<schedVars, threadVars, sleepVars, semaVars, holder, in_external_intr, placeVars>>

(* "run": in its own code, interrupts on; "created": in thread_create,     *)
(* after thread_unblock; "sleep": blocked in timer_sleep; "down": in the   *)
(* while loop of sema_down, interrupts off.                                *)
PCs == {"run", "created", "sleep", "down"}
-----------------------------------------------------------------------------
(* The scheduler.  An operator takes the state that the calling function   *)
(* has already changed as its arguments.                                   *)

(* thread_schedule_tail frees the page of the thread that exited, unless   *)
(* it is the initial thread, whose page palloc never gave out.             *)
Reaped(st) ==
    [t \in AllThreads |->
        IF st[t] = "DYING" /\ t # initial_thread THEN "FREE" ELSE st[t]]

(* A slip of schedule: list_front in place of list_pop_front.              *)
schedule_front(st, ready) ==
    LET next == IF ready = <<>> THEN idle_thread ELSE Head(ready)
    IN  /\ cur' = next
        /\ ready_list' = ready
        /\ status' = [Reaped(st) EXCEPT ![next] = "RUNNING"]
        /\ thread_ticks' = 0

(* schedule: the front of the ready list runs, the idle thread if there is *)
(* none, with a new time slice.                                            *)
schedule(st, ready) ==
    LET next == IF ready = <<>> THEN idle_thread ELSE Head(ready)
    IN  /\ cur' = next
        /\ ready_list' = IF ready = <<>> THEN ready ELSE Tail(ready)
        /\ status' = [Reaped(st) EXCEPT ![next] = "RUNNING"]
        /\ thread_ticks' = 0

(* A slip of thread_yield: list_push_back, as for a round-robin scheduler. *)
yield_to_back(st, ready, pri) ==
    schedule([st EXCEPT ![cur] = "READY"],
             IF cur = idle_thread THEN ready ELSE Append(ready, cur))

(* thread_yield: the idle thread never is on the ready list.               *)
yield(st, ready, pri) ==
    schedule([st EXCEPT ![cur] = "READY"],
             IF cur = idle_thread THEN ready ELSE InsertOrdered(ready, cur, pri))

(* The running thread goes on.                                             *)
keeps_running(st, ready, pri) ==
    /\ status' = st
    /\ ready_list' = ready
    /\ UNCHANGED <<cur, thread_ticks>>

(* iscurrent_thread_has_max_priority, called outside interrupt handlers.   *)
iscurrent_thread_has_max_priority(st, ready, pri) ==
    IF ready # <<>> /\ pri[cur] < pri[Head(ready)]
    THEN yield(st, ready, pri)
    ELSE keeps_running(st, ready, pri)
-----------------------------------------------------------------------------
(* Priority donation.                                                      *)

(* The donation list is ordered by compare_priority, which takes the       *)
(* address of elem_of_donation for that of elem.  In the layout that       *)
(* thread.h gives struct thread on the 32-bit build, elem is at byte 40    *)
(* and elem_of_donation at byte 80, so the word it reads as the priority   *)
(* (byte 28) is the one at byte 68: list_of_donation.head.next.  That is   *)
(* the address of the thread's own list tail when nobody donates to it     *)
(* (byte 72 of its page), of the first donor's elem_of_donation (byte 80   *)
(* of the donor's page) otherwise; it is compared by page, then by byte.   *)
DonationKey ==
    [t \in AllThreads |->
        IF list_of_donation[t] = <<>> THEN 2 * t ELSE 2 * Head(list_of_donation[t]) + 1]

(* priority_donation_solve walks from the current thread to the holder of  *)
(* the lock it waits for, to the holder of the lock that one waits for,    *)
(* and so on, LOCK_SIZE times at most, and stops at a holder whose         *)
(* priority is as high.  Donees(wl) are the holders it raises.             *)
Donees(wl) ==
    LET donatesTo(t) ==
            { h \in AllThreads : /\ wl[t] # NULL
                                 /\ holder[wl[t]] = h
                                 /\ priority[h] < priority[cur] }
        reached[n \in 0..LOCK_SIZE] ==
            IF n = 0 THEN {}
            ELSE reached[n - 1] \cup UNION { donatesTo(t) : t \in reached[n - 1] \cup {cur} }
    IN  reached[LOCK_SIZE]

priority_donation_solve(wl) ==
    [t \in AllThreads |-> IF t \in Donees(wl) THEN priority[cur] ELSE priority[t]]

(* A slip of the next definition: the reset forgotten.                     *)
priority_check_no_reset(ip, donors) ==
    [priority EXCEPT ![cur] =
        IF donors # <<>> /\ priority[Head(donors)] > ip[cur]
        THEN priority[Head(donors)] ELSE @]

(* priority_check_from_donation_list: back to the initial priority, or to  *)
(* the priority of the first donor where that is higher.                   *)
priority_check_from_donation_list(ip, donors) ==
    [priority EXCEPT ![cur] =
        IF donors # <<>> /\ priority[Head(donors)] > ip[cur]
        THEN priority[Head(donors)] ELSE ip[cur]]
-----------------------------------------------------------------------------
Init ==
    /\ cur = initial_thread
    /\ status = [t \in AllThreads |-> IF t = initial_thread THEN "RUNNING"
                                      ELSE IF t = idle_thread THEN "READY" ELSE "FREE"]
    /\ priority = [t \in AllThreads |-> IF t = initial_thread THEN PRI_DEFAULT ELSE PRI_MIN]
    /\ initial_priority = priority
    /\ waitlock = [t \in AllThreads |-> NULL]
    /\ list_of_donation = [t \in AllThreads |-> <<>>]
    /\ ready_list = <<>>
    /\ sleep_list = <<>>
    /\ ticks_left = [t \in AllThreads |-> 0]
    /\ holder = [l \in Locks |-> NULL]
    /\ value = [s \in AllSemas |-> IF s \in Locks THEN 1 ELSE 0]
    /\ waiters = [s \in AllSemas |-> <<>>]
    /\ thread_ticks = 0
    /\ in_external_intr = FALSE
    /\ pc = [t \in AllThreads |-> "run"]
    /\ downing = [t \in AllThreads |-> NULL]

(* The running thread is at place p of its code, and no handler runs.      *)
At(p) == ~in_external_intr /\ pc[cur] = p

(* The running thread is in its own code, where it may make any call.      *)
InCode == At("run") /\ cur # idle_thread
-----------------------------------------------------------------------------
(* thread.c *)

(* thread_create up to thread_unblock: the new thread gets a page that is  *)
(* not in use and joins the ready list.                                    *)
thread_create(t, p) ==
    /\ InCode
    /\ status[t] = "FREE"
    /\ priority' = [priority EXCEPT ![t] = p]
    /\ initial_priority' = [initial_priority EXCEPT ![t] = p]
    /\ waitlock' = [waitlock EXCEPT ![t] = NULL]
    /\ list_of_donation' = [list_of_donation EXCEPT ![t] = <<>>]
    /\ status' = [status EXCEPT ![t] = "READY"]
    /\ ready_list' = InsertOrdered(ready_list, t, priority')
    /\ pc' = [pc EXCEPT ![t] = "run", ![cur] = "created"]
    /\ UNCHANGED <<cur, thread_ticks, sleepVars, semaVars, holder, in_external_intr, downing>>

(* The rest of thread_create: interrupts were on in between.               *)
thread_created ==
    /\ At("created")
    /\ iscurrent_thread_has_max_priority(status, ready_list, priority)
    /\ pc' = [pc EXCEPT ![cur] = "run"]
    /\ UNCHANGED <<threadVars, sleepVars, semaVars, holder, in_external_intr, downing>>

thread_yield ==
    /\ InCode
    /\ yield(status, ready_list, priority)
    /\ UNCHANGED <<threadVars, sleepVars, semaVars, holder, in_external_intr, placeVars>>

(* A thread exits when it holds no lock: nothing releases its locks.  What *)
(* is left in its page is not read again; the model forgets it.            *)
thread_exit ==
    /\ InCode
    /\ \A l \in Locks : holder[l] # cur
    /\ schedule([status EXCEPT ![cur] = "DYING"], ready_list)
    /\ priority' = [priority EXCEPT ![cur] = PRI_MIN]
    /\ initial_priority' = [initial_priority EXCEPT ![cur] = PRI_MIN]
    /\ UNCHANGED <<waitlock, list_of_donation, sleepVars, semaVars, holder,
                   in_external_intr, placeVars>>

thread_set_priority(p) ==
    /\ InCode
    /\ initial_priority' = [initial_priority EXCEPT ![cur] = p]
    /\ LET checked == priority_check_from_donation_list(initial_priority', list_of_donation[cur])
       IN  \* priority_donation_solve has no lock to start from: cur waits for none
           /\ priority' = checked
           /\ IF checked[cur] < priority[cur]
              THEN iscurrent_thread_has_max_priority(status, ready_list, checked)
              ELSE UNCHANGED schedVars
    /\ UNCHANGED <<waitlock, list_of_donation, sleepVars, semaVars, holder,
                   in_external_intr, placeVars>>

(* The loop of the idle thread: block, halt until the next interrupt.      *)
idle ==
    /\ At("run") /\ cur = idle_thread
    /\ schedule([status EXCEPT ![cur] = "BLOCKED"], ready_list)
    /\ UNCHANGED <<threadVars, sleepVars, semaVars, holder, in_external_intr, placeVars>>
-----------------------------------------------------------------------------
(* synch.c *)

(* One turn of the loop of sema_down that finds the value 0: donate, join  *)
(* the waiters, block.  wl and donors are what lock_acquire changed.       *)
waitInDown(s, wl, donors) ==
    /\ value[s] = 0
    /\ priority' = priority_donation_solve(wl)
    /\ waitlock' = wl
    /\ list_of_donation' = donors
    /\ waiters' = [waiters EXCEPT ![s] = InsertOrdered(@, cur, priority')]
    /\ schedule([status EXCEPT ![cur] = "BLOCKED"], ready_list)
    /\ pc' = [pc EXCEPT ![cur] = "down"]
    /\ downing' = [downing EXCEPT ![cur] = s]
    /\ UNCHANGED <<initial_priority, sleepVars, value, holder, in_external_intr>>

(* A slip of the next definition: value is not decremented.                *)
takes_without_decrement(s, donors) ==
    /\ value[s] > 0
    /\ waitlock' = IF s \in Locks THEN [waitlock EXCEPT ![cur] = NULL] ELSE waitlock
    /\ holder' = IF s \in Locks THEN [holder EXCEPT ![s] = cur] ELSE holder
    /\ list_of_donation' = donors
    /\ pc' = [pc EXCEPT ![cur] = "run"]
    /\ downing' = [downing EXCEPT ![cur] = NULL]
    /\ UNCHANGED <<schedVars, priority, initial_priority, sleepVars, value, waiters, in_external_intr>>

(* The end of sema_down, and of lock_acquire when s is a lock.             *)
takes(s, donors) ==
    /\ value[s] > 0
    /\ value' = [value EXCEPT ![s] = @ - 1]
    /\ waitlock' = IF s \in Locks THEN [waitlock EXCEPT ![cur] = NULL] ELSE waitlock
    /\ holder' = IF s \in Locks THEN [holder EXCEPT ![s] = cur] ELSE holder
    /\ list_of_donation' = donors
    /\ pc' = [pc EXCEPT ![cur] = "run"]
    /\ downing' = [downing EXCEPT ![cur] = NULL]
    /\ UNCHANGED <<schedVars, priority, initial_priority, sleepVars, waiters, in_external_intr>>

(* sema_down, called by a client.                                          *)
sema_down(s) ==
    /\ InCode
    /\ waitInDown(s, waitlock, list_of_donation) \/ takes(s, list_of_donation)

(* A slip of the next definition: "if" in place of "while" in sema_down.   *)
sema_down_no_retest ==
    /\ At("down")
    /\ value' = [value EXCEPT ![downing[cur]] = @ - 1]
    /\ waitlock' = [waitlock EXCEPT ![cur] = NULL]
    /\ holder' = IF downing[cur] \in Locks THEN [holder EXCEPT ![downing[cur]] = cur] ELSE holder
    /\ pc' = [pc EXCEPT ![cur] = "run"]
    /\ downing' = [downing EXCEPT ![cur] = NULL]
    /\ UNCHANGED <<schedVars, priority, initial_priority, list_of_donation, sleepVars,
                   waiters, in_external_intr>>

(* A thread that sema_up woke goes round the loop again when it runs.      *)
sema_down_again ==
    /\ At("down")
    /\ LET s == downing[cur]
       IN  waitInDown(s, waitlock, list_of_donation) \/ takes(s, list_of_donation)

sema_try_down(s) ==
    /\ InCode
    /\ takes(s, list_of_donation)

(* Two slips of the next definition: only the first of two ups wakes; the  *)
(* last of the waiters is not woken.                                       *)
wakes_all_but_last(s) == Len(waiters[s]) > 1

wakes_when_zero(s) == waiters[s] # <<>> /\ value[s] = 0

wakes(s) == waiters[s] # <<>>

(* In an interrupt handler sema_up does not switch to the thread it wakes. *)
sema_up_ends(st, ready, pri, intr_context) ==
    IF intr_context THEN keeps_running(st, ready, pri)
    ELSE iscurrent_thread_has_max_priority(st, ready, pri)

(* sema_up: the waiter of highest priority becomes ready, the rest of the  *)
(* waiters stay sorted.                                                    *)
sema_up_body(s, pri, intr_context) ==
    /\ value' = [value EXCEPT ![s] = @ + 1]
    /\ \/ /\ ~wakes(s)
          /\ UNCHANGED waiters
          /\ sema_up_ends(status, ready_list, pri, intr_context)
       \/ /\ wakes(s)
          /\ \E q \in Sorted(waiters[s], pri) :
               /\ waiters' = [waiters EXCEPT ![s] = Tail(q)]
               /\ sema_up_ends([status EXCEPT ![Head(q)] = "READY"],
                               InsertOrdered(ready_list, Head(q), pri), pri, intr_context)

sema_up(s) ==
    /\ InCode
    /\ value[s] < MaxValue
    /\ sema_up_body(s, priority, FALSE)
    /\ UNCHANGED <<threadVars, sleepVars, holder, in_external_intr, placeVars>>

(* sema_up in the handler of a device interrupt.                           *)
sema_up_in_interrupt(s) ==
    /\ ~in_external_intr /\ pc[cur] \in {"run", "created"}
    /\ value[s] < MaxValue
    /\ sema_up_body(s, priority, TRUE)
    /\ UNCHANGED <<threadVars, sleepVars, holder, in_external_intr, placeVars>>

(* lock_acquire: a thread that finds a holder joins its donation list.     *)
lock_acquire(l) ==
    /\ InCode
    /\ holder[l] # cur
    /\ LET h == holder[l]
           wl == IF h = NULL THEN waitlock ELSE [waitlock EXCEPT ![cur] = l]
           donors == IF h = NULL THEN list_of_donation
                     ELSE [list_of_donation EXCEPT ![h] = InsertOrdered(@, cur, DonationKey)]
       IN  waitInDown(l, wl, donors) \/ takes(l, donors)

(* A slip of the next definition: the holder is not recorded.              *)
lock_try_acquire_no_holder(l) ==
    /\ InCode
    /\ holder[l] # cur /\ value[l] > 0
    /\ value' = [value EXCEPT ![l] = @ - 1]
    /\ UNCHANGED <<schedVars, threadVars, sleepVars, waiters, holder, in_external_intr, placeVars>>

lock_try_acquire(l) ==
    /\ InCode
    /\ holder[l] # cur
    /\ takes(l, list_of_donation)

(* A slip of the next definition: the donors are left on the list.         *)
all_donors_stay(l) == { list_of_donation[cur] }

(* remove_donation_list_waiting_lock: the donors that wait for l leave the *)
(* current thread's list (one outcome, see Without).                       *)
remove_donation_list_waiting_lock(l) ==
    Without(list_of_donation[cur], { t \in AllThreads : waitlock[t] # l })

(* lock_release: the donations for l end, those for other locks stay.      *)
lock_release(l) ==
    /\ InCode
    /\ holder[l] = cur
    /\ holder' = [holder EXCEPT ![l] = NULL]
    /\ \E donors \in remove_donation_list_waiting_lock(l) :
         /\ list_of_donation' = [list_of_donation EXCEPT ![cur] = donors]
         /\ priority' = priority_check_from_donation_list(initial_priority, donors)
    /\ sema_up_body(l, priority', FALSE)
    /\ UNCHANGED <<initial_priority, waitlock, sleepVars, in_external_intr, placeVars>>
-----------------------------------------------------------------------------
(* timer.c *)

(* A slip of the next definition: the comparison turned round.             *)
latest_first(left) == left

(* compare_timeto_wakeup_ticks: the sleeper with the earliest tick first.  *)
compare_timeto_wakeup_ticks(left) == [t \in AllThreads |-> -left[t]]

timer_sleep(n) ==
    /\ InCode
    /\ ticks_left' = [ticks_left EXCEPT ![cur] = n]
    /\ sleep_list' = InsertOrdered(sleep_list, cur, compare_timeto_wakeup_ticks(ticks_left'))
    /\ pc' = [pc EXCEPT ![cur] = "sleep"]
    /\ schedule([status EXCEPT ![cur] = "BLOCKED"], ready_list)
    /\ UNCHANGED <<threadVars, semaVars, holder, in_external_intr, downing>>

(* A slip of the next definition: ticks that find no work are not counted. *)
timer_interrupt_when_busy ==
    /\ ~in_external_intr /\ pc[cur] \in {"run", "created"}
    /\ in_external_intr' = TRUE
    /\ ticks_left' = [t \in AllThreads |->
                        IF t \in ToSet(sleep_list) /\ cur # idle_thread
                        THEN ticks_left[t] - 1 ELSE ticks_left[t]]
    /\ UNCHANGED <<schedVars, threadVars, sleep_list, semaVars, holder, placeVars>>

(* timer_interrupt runs with interrupts off from its first step to its     *)
(* last; one turn of its loop over the sleeping threads is one step.       *)
timer_interrupt ==
    /\ ~in_external_intr /\ pc[cur] \in {"run", "created"}
    /\ in_external_intr' = TRUE
    /\ ticks_left' = [t \in AllThreads |->
                        IF t \in ToSet(sleep_list) THEN ticks_left[t] - 1 ELSE ticks_left[t]]
    /\ UNCHANGED <<schedVars, threadVars, sleep_list, semaVars, holder, placeVars>>

(* A slip of the next definition: one tick too early.                      *)
SleeperAlmostDue == sleep_list # <<>> /\ ticks_left[Head(sleep_list)] <= 1

SleeperDue == sleep_list # <<>> /\ ticks_left[Head(sleep_list)] <= 0

timer_interrupt_wake ==
    /\ in_external_intr
    /\ SleeperDue
    /\ LET t == Head(sleep_list)
       IN  /\ sleep_list' = Tail(sleep_list)
           /\ ticks_left' = [ticks_left EXCEPT ![t] = 0]
           /\ ready_list' = InsertOrdered(ready_list, t, priority)
           /\ status' = [status EXCEPT ![t] = "READY"]
           /\ pc' = [pc EXCEPT ![t] = "run"]
    /\ UNCHANGED <<cur, thread_ticks, threadVars, semaVars, holder, in_external_intr, downing>>

(* Two slips of the next definition: equals never take turns; a thread of  *)
(* higher priority waits for the end of the slice.                         *)
yields_to_higher(slice, front) == priority[cur] < priority[front]

yields_after_slice(slice, front) ==
    slice >= TIME_SLICE /\ priority[cur] <= priority[front]

(* When the handler asks intr_handler to yield.                            *)
intr_yield_on_return(slice, front) ==
    \/ priority[cur] < priority[front]
    \/ slice >= TIME_SLICE /\ priority[cur] = priority[front]

(* iscurrent_thread_has_max_priority in the handler counts the tick when   *)
(* another thread is ready; intr_handler then yields if it asked to.       *)
(* thread_ticks is only compared with TIME_SLICE: larger counts are one.   *)
timer_interrupt_return ==
    /\ in_external_intr
    /\ ~SleeperDue
    /\ in_external_intr' = FALSE
    /\ IF ready_list = <<>>
       THEN UNCHANGED schedVars
       ELSE LET slice == IF thread_ticks < TIME_SLICE THEN thread_ticks + 1 ELSE thread_ticks
            IN  IF intr_yield_on_return(slice, Head(ready_list))
                THEN yield(status, ready_list, priority)
                ELSE /\ thread_ticks' = slice
                     /\ UNCHANGED <<cur, status, ready_list>>
    /\ UNCHANGED <<threadVars, sleepVars, semaVars, holder, placeVars>>
-----------------------------------------------------------------------------
TimerStep == timer_interrupt \/ timer_interrupt_wake \/ timer_interrupt_return

LockStep(l) == lock_acquire(l) \/ lock_try_acquire(l) \/ lock_release(l)

SemaStep(s) == sema_down(s) \/ sema_try_down(s) \/ sema_up(s)

Next ==
    \/ TimerStep
    \/ \E t \in Threads, p \in Priorities : thread_create(t, p)
    \/ thread_created
    \/ thread_yield
    \/ thread_exit
    \/ idle
    \/ sema_down_again
    \/ \E p \in Priorities : thread_set_priority(p)
    \/ \E n \in 1..MaxSleep : timer_sleep(n)
    \/ \E l \in Locks : LockStep(l)
    \/ \E s \in Semas : SemaStep(s)
    \/ \E s \in IntrSemas : sema_up_in_interrupt(s)

Spec == Init /\ [][Next]_vars
-----------------------------------------------------------------------------
(* Properties.                                                             *)

(* The variables have their types; a lock's semaphore counts to one.       *)
TypeOK ==
    /\ cur \in AllThreads
    /\ status \in [AllThreads -> {"FREE", "RUNNING", "READY", "BLOCKED", "DYING"}]
    /\ priority \in [AllThreads -> Nat]
    /\ initial_priority \in [AllThreads -> Nat]
    /\ waitlock \in [AllThreads -> Locks \cup {NULL}]
    /\ list_of_donation \in [AllThreads -> Seq(Threads)]
    /\ ready_list \in Seq(Threads)
    /\ sleep_list \in Seq(Threads)
    /\ ticks_left \in [AllThreads -> Int]
    /\ holder \in [Locks -> Threads \cup {NULL}]
    /\ value \in [AllSemas -> Nat]
    /\ \A l \in Locks : value[l] <= 1
    /\ waiters \in [AllSemas -> Seq(Threads)]
    /\ thread_ticks \in 0..TIME_SLICE
    /\ in_external_intr \in BOOLEAN
    /\ pc \in [AllThreads -> PCs]
    /\ downing \in [AllThreads -> AllSemas \cup {NULL}]

(* "only a thread in the ready state is on the run queue, whereas only a   *)
(* thread in the blocked state is on a semaphore wait list" (thread.h:81), *)
(* and the other way round: no thread is lost, and none is queued twice,   *)
(* through the one elem that the lists share.                              *)
QueuesExclusive ==
    /\ \A t \in AllThreads : status[t] = "RUNNING" <=> t = cur
    /\ IsInjective(ready_list) /\ IsInjective(sleep_list)
    /\ \A s \in AllSemas : IsInjective(waiters[s])
    /\ \A t \in Threads :
        /\ t \in ToSet(ready_list) <=> status[t] = "READY"
        /\ t \in ToSet(sleep_list) <=> status[t] = "BLOCKED" /\ pc[t] = "sleep"
        /\ \A s \in AllSemas :
            t \in ToSet(waiters[s]) <=> status[t] = "BLOCKED" /\ pc[t] = "down" /\ downing[t] = s
        /\ status[t] = "BLOCKED" => pc[t] \in {"sleep", "down"}

(* A lock is free exactly when its semaphore can be downed, so that        *)
(* lock_acquire's test of the holder and sema_down's of the value agree.   *)
HolderMatchesValue == \A l \in Locks : holder[l] = NULL <=> value[l] = 1

(* Threads that sema_up has made ready and that have not tested the value  *)
(* again yet.                                                              *)
Woken(s) == { t \in Threads : pc[t] = "down" /\ downing[t] = s /\ status[t] # "BLOCKED" }

(* No wakeup is lost: while threads wait on a semaphore, every unit of its *)
(* value has a woken thread on its way to take it.                         *)
NoLostWakeup ==
    \A s \in AllSemas : waiters[s] # <<>> => value[s] <= Cardinality(Woken(s))

(* A donation list names threads that wait for a lock its owner holds:     *)
(* each at most once, and no thread is on two lists.                       *)
DonationsSound ==
    \A h \in AllThreads :
        /\ IsInjective(list_of_donation[h])
        /\ \A t \in ToSet(list_of_donation[h]) :
            /\ waitlock[t] # NULL
            /\ holder[waitlock[t]] = h
            /\ pc[t] = "down" /\ downing[t] = waitlock[t]

Holds(t) == \E l \in Locks : holder[l] = t

(* A thread runs above the priority it asked for only while it holds a     *)
(* lock, and never below it: what was donated is given back in full.       *)
DonationReturned ==
    \A t \in Threads :
        /\ priority[t] >= initial_priority[t]
        /\ priority[t] > initial_priority[t] => Holds(t)

(* The ready list is ordered by priority, but for threads whose priority   *)
(* was raised by a donation: where it is out of order, the thread that     *)
(* should be further in front holds a lock.                                *)
ReadyOrderUpToDonation ==
    \A i, j \in DOMAIN ready_list :
        i < j /\ priority[ready_list[i]] < priority[ready_list[j]] => Holds(ready_list[j])

(* Between two calls the running thread's priority is not below that of    *)
(* the thread at the front of the ready list, unless a donation raised     *)
(* that one while it was ready.                                            *)
RunningOutranksFront ==
    (At("run") /\ ready_list # <<>> /\ priority[cur] < priority[Head(ready_list)])
        => Holds(Head(ready_list))

(* Outside the handler every sleeper has a tick to wait for: the walk over *)
(* the list, which stops at the first thread not due, misses none.         *)
NoOversleep ==
    ~in_external_intr => \A t \in ToSet(sleep_list) : ticks_left[t] > 0

(* A thread leaves timer_sleep when the time it asked for is over.         *)
NoEarlyWake ==
    [][\A t \in Threads : pc[t] = "sleep" /\ pc'[t] # "sleep" => ticks_left[t] = 0]_vars

(* The tick after an interrupt handler woke a thread makes up for the      *)
(* switch that sema_up left out there.                                     *)
TickRestoresOrder ==
    [][(in_external_intr /\ ~in_external_intr' /\ ready_list' # <<>>
          /\ priority'[cur'] < priority'[Head(ready_list')])
            => \E l \in Locks : holder[l] = Head(ready_list')]_vars
-----------------------------------------------------------------------------
(* Fairness.  The timer's interrupt line stays raised until the processor  *)
(* takes the interrupt, so it is taken if interrupts are on again and      *)
(* again; code that runs with interrupts off, and the idle loop, go on.    *)
(* Nothing is assumed of the calls clients make.                           *)
Fairness ==
    /\ SF_vars(timer_interrupt)
    /\ WF_vars(timer_interrupt_wake)
    /\ WF_vars(timer_interrupt_return)
    /\ WF_vars(sema_down_again)
    /\ WF_vars(idle)

FairSpec == Spec /\ Fairness

(* A sleeping thread becomes ready.                                        *)
SleepersWake == \A t \in Threads : pc[t] = "sleep" ~> pc[t] # "sleep"

(* When all threads have one priority, each that is ready gets to run: the *)
(* time slice makes them take turns.                                       *)
ReadyRuns == \A t \in Threads : status[t] = "READY" ~> status[t] = "RUNNING"
=============================================================================
