------------------------------ MODULE AllList ------------------------------
(* The list of all threads, link by link: lib/kernel/list.c as threads/      *)
(* thread.c uses it for all_list.  thread_create pushes on the list and      *)
(* is_alive walks it with interrupts on, so that a timer interrupt may       *)
(* switch threads between any two loads and stores; thread_exit unlinks      *)
(* with interrupts off.                                                      *)
EXTENDS Integers, FiniteSets

CONSTANTS LastPage,   \* pages for threads are 1 to LastPage
          MaxTid      \* bound: tids given out

ASSUME AllListAssumption == LastPage \in Nat \ {0} /\ MaxTid \in Nat \ {0}

VARIABLES link,       \* prev and next of each element
          tid,        \* of the thread in each page
          stage,      \* of each page: "free", "born" until thread_unblock, "live"
          doing,      \* what each thread does with the list
          next_tid,
          disturbed,  \* somebody changed links that another was working on
          faulted     \* a bad pointer was followed, or an ASSERT failed

allListVars == <<link, tid, stage, doing, next_tid, disturbed, faulted>>

ThreadPage == 1..LastPage
HeadElem == 0
TailElem == LastPage + 1
Elem == ThreadPage \cup {HeadElem, TailElem}
Null == -1
Freed == -2       \* what a freed page is filled with
Main == 1
NotInList == [at |-> "out", node |-> Null, last |-> Null, pid |-> 0]

is_interior(e) == link[e].prev # Null /\ link[e].next # Null
is_head(e) == link[e].prev = Null /\ link[e].next # Null

\* list_init, and init_thread of the first thread.
AllListInit ==
  /\ link = [e \in Elem |-> CASE e = HeadElem -> [prev |-> Null, next |-> Main]
                              [] e = Main -> [prev |-> HeadElem, next |-> TailElem]
                              [] e = TailElem -> [prev |-> Main, next |-> Null]
                              [] OTHER -> [prev |-> Freed, next |-> Freed]]
  /\ tid = [p \in ThreadPage |-> IF p = Main THEN 1 ELSE Freed]
  /\ stage = [p \in ThreadPage |-> IF p = Main THEN "live" ELSE "free"]
  /\ doing = [t \in ThreadPage |-> NotInList]
  /\ next_tid = 2 /\ disturbed = FALSE /\ faulted = FALSE

-----------------------------------------------------------------------------
(* thread_create.                                                            *)

In(t, place) == ~faulted /\ stage[t] = "live" /\ doing[t].at = place
moves(t, place) == doing' = [doing EXCEPT ![t].at = place]
Pushing(t) == doing[t].at \in {"link", "load", "store", "tail"}
interrupted(t) == \E u \in ThreadPage \ {t} : Pushing(u)

\* palloc_get_page and memset; then init_thread up to its list_push_back.
init_thread(t) ==
  /\ In(t, "out") /\ next_tid <= MaxTid
  /\ \E p \in ThreadPage :
       /\ stage[p] = "free" /\ \A q \in 1..p - 1 : stage[q] # "free"
       /\ link' = [link EXCEPT ![p] = [prev |-> Null, next |-> Null]]
       /\ tid' = [tid EXCEPT ![p] = 0]
       /\ stage' = [stage EXCEPT ![p] = "born"]
       /\ doing' = [doing EXCEPT ![t] = [NotInList EXCEPT !.at = "link", !.node = p]]
  /\ UNCHANGED <<next_tid, disturbed, faulted>>

\* list_insert before the tail: elem->prev = before->prev; elem->next = before.
insert_link(t) ==
  LET p == doing[t].node IN
  /\ In(t, "link")
  /\ link' = [link EXCEPT ![p] = [prev |-> link[TailElem].prev, next |-> TailElem]]
  /\ moves(t, "load")
  /\ disturbed' = (disturbed \/ interrupted(t))
  /\ UNCHANGED <<tid, stage, next_tid, faulted>>

\* before->prev->next = elem, a load and a store.
insert_load(t) ==
  /\ In(t, "load")
  /\ doing' = [doing EXCEPT ![t].at = "store", ![t].last = link[TailElem].prev]
  /\ UNCHANGED <<link, tid, stage, next_tid, disturbed, faulted>>
insert_store(t) ==
  /\ In(t, "store")
  /\ link' = [link EXCEPT ![doing[t].last].next = doing[t].node]
  /\ moves(t, "tail")
  /\ disturbed' = (disturbed \/ interrupted(t))
  /\ UNCHANGED <<tid, stage, next_tid, faulted>>

\* before->prev = elem; then allocate_tid and, at last, thread_unblock.
before_kept(p) == link
before_linked(p) == [link EXCEPT ![TailElem].prev = p]
insert_tail(t) ==
  LET p == doing[t].node IN
  /\ In(t, "tail")
  /\ link' = before_linked(p)
  /\ tid' = [tid EXCEPT ![p] = next_tid] /\ next_tid' = next_tid + 1
  /\ stage' = [stage EXCEPT ![p] = "live"]
  /\ doing' = [doing EXCEPT ![t] = NotInList]
  /\ disturbed' = (disturbed \/ interrupted(t))
  /\ UNCHANGED faulted

-----------------------------------------------------------------------------
(* thread_exit and is_alive.                                                 *)

\* list_remove, then the next thread frees the page.
unlinked(e) == [link EXCEPT ![link[e].prev].next = link[e].next,
                            ![link[e].next].prev = link[e].prev]
list_remove(t) ==
  /\ In(t, "out") /\ t # Main
  /\ IF is_interior(t) /\ {link[t].prev, link[t].next} \subseteq Elem
     THEN /\ link' = [unlinked(t) EXCEPT ![t] = [prev |-> Freed, next |-> Freed]]
          /\ tid' = [tid EXCEPT ![t] = Freed]
          /\ stage' = [stage EXCEPT ![t] = "free"]
          /\ disturbed' = (disturbed \/ interrupted(t) \/ \E u \in ThreadPage :
                             doing[u].at = "walk" /\ doing[u].node = t)
          /\ UNCHANGED faulted
     ELSE faulted' = TRUE /\ UNCHANGED <<link, tid, stage, disturbed>>
  /\ UNCHANGED <<doing, next_tid>>

is_alive_begin(t, pid) ==
  /\ In(t, "out") /\ pid < next_tid
  /\ doing' = [doing EXCEPT ![t] = [NotInList EXCEPT !.at = "walk", !.pid = pid,
                                      !.node = link[HeadElem].next]]
  /\ UNCHANGED <<link, tid, stage, next_tid, disturbed, faulted>>

\* One turn of the loop; list_next asserts what element it is given.
is_alive_step(t) ==
  LET e == doing[t].node IN
  /\ In(t, "walk")
  /\ IF e = TailElem THEN moves(t, "no") /\ UNCHANGED faulted
     ELSE IF e \notin ThreadPage THEN faulted' = TRUE /\ UNCHANGED doing
     ELSE IF tid[e] = doing[t].pid THEN moves(t, "yes") /\ UNCHANGED faulted
     ELSE IF ~is_head(e) /\ ~is_interior(e) THEN faulted' = TRUE /\ UNCHANGED doing
     ELSE doing' = [doing EXCEPT ![t].node = link[e].next] /\ UNCHANGED faulted
  /\ UNCHANGED <<link, tid, stage, next_tid, disturbed>>
is_alive_returns(t) ==
  /\ ~faulted /\ doing[t].at \in {"yes", "no"}
  /\ doing' = [doing EXCEPT ![t] = NotInList]
  /\ UNCHANGED <<link, tid, stage, next_tid, disturbed, faulted>>

AllListNext == \E t \in ThreadPage :
  \/ init_thread(t) \/ insert_link(t) \/ insert_load(t) \/ insert_store(t)
  \/ insert_tail(t) \/ list_remove(t)
  \/ \E pid \in 1..MaxTid : is_alive_begin(t, pid)
  \/ is_alive_step(t) \/ is_alive_returns(t)
AllListSpec == AllListInit /\ [][AllListNext]_allListVars

-----------------------------------------------------------------------------
(* Properties.                                                               *)

Live == { p \in ThreadPage : stage[p] = "live" }
Born == { p \in ThreadPage : stage[p] = "born" }
\* The threads that lie d links or less from one end.
Along(dir, e) ==
  LET step(S) == S \cup { link[x][dir] : x \in S \cap (ThreadPage \cup {e}) }
      reach[d \in 0..LastPage + 1] == IF d = 0 THEN {e} ELSE step(reach[d - 1])
  IN  reach[LastPage + 1]

\* Unless a creation or a walk was disturbed by another thread's creation or
\* exit, the list leads through all threads and nothing else, forwards at any
\* time (the timer's walk may come in the middle of a push), backwards between
\* two pushes (list.c:169-177, 249-255).
AllListExact ==
  ~disturbed =>
    /\ ~faulted
    /\ LET there == Along("next", HeadElem) \ {HeadElem, TailElem}
       IN  Live \subseteq there /\ there \subseteq Live \cup Born
    /\ (\A t \in ThreadPage : ~Pushing(t)) =>
         Along("prev", TailElem) = Live \cup {HeadElem, TailElem}

\* is_alive tells the truth, creations and exits elsewhere in the list
\* notwithstanding (thread.c:932-939).
IsAliveTellsTruth ==
  \A t \in ThreadPage : doing[t].at = "no" /\ ~disturbed =>
    \A p \in Live : tid[p] # doing[t].pid

\* What the list of all threads and is_alive are good for as long as creations
\* and walks are not disturbed.
AllListSafe ==
  /\ AllListExact /\ IsAliveTellsTruth

\* "List of all processes.  Processes are added to this list when they are
\* first scheduled and removed when they exit" (thread.c:39-40).  A creation that
\* another creation or an exit interrupts can leave a thread that runs on off it.
EveryThreadListed == ~faulted => Live \subseteq Along("next", HeadElem)
=============================================================================
