---------------------------- MODULE LockRefinement ----------------------------
(***************************************************************************)
(* How the locks of ThreadSync implement the abstract ones of Mutex.       *)
(***************************************************************************)
EXTENDS ThreadSync

(* The lock that a thread inside lock_acquire waits for.                   *)
WantedLock ==
    [t \in Threads |-> IF pc[t] = "down" /\ downing[t] \in Locks THEN downing[t] ELSE NULL]

AbstractLock == INSTANCE Mutex WITH owner <- holder, wanted <- WantedLock

(* lock_acquire, lock_try_acquire and lock_release implement the abstract  *)
(* lock: one holder at a time, and only the holder lets go.                *)
ImplementsMutex == AbstractLock!Spec

(* And, when all threads have one priority, a free lock that threads wait  *)
(* for does not stay free: the one that was woken gets to run.             *)
ImplementsFairMutex == AbstractLock!FairSpec
=============================================================================
