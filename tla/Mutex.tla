-------------------------------- MODULE Mutex --------------------------------
(***************************************************************************)
(* What the comments of threads/synch.c promise of locks, with no queues,  *)
(* priorities or scheduler: a lock has one owner at a time, only the owner *)
(* gives it up, and a free lock that somebody waits for is taken again.    *)
(* It does not promise that every waiter gets it in the end.               *)
(***************************************************************************)
CONSTANTS Threads, Locks, NULL

VARIABLES
    owner,   \* the thread that owns a lock, NULL if none
    wanted   \* the lock a thread waits for, NULL if none

mutexVars == <<owner, wanted>>

Init ==
    /\ owner = [l \in Locks |-> NULL]
    /\ wanted = [t \in Threads |-> NULL]

(* A thread finds l owned by another one and waits.                        *)
Request(t, l) ==
    /\ wanted[t] = NULL
    /\ owner[l] \notin {t, NULL}
    /\ wanted' = [wanted EXCEPT ![t] = l]
    /\ UNCHANGED owner

(* A thread that waits for l, or has just asked for it, gets it.           *)
Take(t, l) ==
    /\ wanted[t] \in {NULL, l}
    /\ owner[l] = NULL
    /\ owner' = [owner EXCEPT ![l] = t]
    /\ wanted' = [wanted EXCEPT ![t] = NULL]

Release(t, l) ==
    /\ wanted[t] = NULL
    /\ owner[l] = t
    /\ owner' = [owner EXCEPT ![l] = NULL]
    /\ UNCHANGED wanted

Next == \E t \in Threads, l \in Locks : Request(t, l) \/ Take(t, l) \/ Release(t, l)

Spec == Init /\ [][Next]_mutexVars

TakenWhenWanted(l) ==
    /\ \E t \in Threads : wanted[t] = l
    /\ \E t \in Threads : Take(t, l)

FairSpec == Spec /\ \A l \in Locks : WF_mutexVars(TakenWhenWanted(l))
=============================================================================
