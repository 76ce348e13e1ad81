--------------------------- MODULE PageAllocator ---------------------------
(* One memory pool of the page allocator: threads/palloc.c on the bitmap of  *)
(* lib/kernel/bitmap.c.  A bit is tested or changed in one step; allocation  *)
(* holds the pool's lock over its many steps, freeing takes no lock.         *)
EXTENDS Integers, FiniteSets

CONSTANTS Callers,   \* threads that allocate and free pages
          bit_cnt,   \* pages in the pool
          MaxRun     \* bound: pages asked for in one call

VARIABLES used_map,    \* the bits that are set
          pool_lock,   \* holder of the pool's lock
          call,        \* what each caller does in the allocator
          owns         \* the groups of pages each caller was given

pageVars == <<used_map, pool_lock, call, owns>>

Page == 0..bit_cnt - 1
Unlocked == "unlocked"
ASSUME PagesAssumption ==
  bit_cnt \in Nat \ {0} /\ MaxRun \in Nat \ {0} /\ Unlocked \notin Callers

Group == [first : Page, cnt : 1..MaxRun]
Pages(g) == g.first..g.first + g.cnt - 1
Held == UNION { owns[c] : c \in Callers }
Fits(cnt) == \E i \in Page : i + cnt <= bit_cnt /\ i..i + cnt - 1 \cap used_map = {}

\* A call: where it is, the group it works on, bits of it done, and, to judge
\* a failure, whether such a group was free when the search began.
NoCall == [at |-> "out", first |-> 0, cnt |-> 1, done |-> 0, fits |-> FALSE]
GroupOf(c) == [first |-> call[c].first, cnt |-> call[c].cnt]

PageInit == /\ used_map = {} /\ pool_lock = Unlocked
            /\ call = [c \in Callers |-> NoCall]
            /\ owns = [c \in Callers |-> {}]

-----------------------------------------------------------------------------
\* bitmap_scan looks at the groups that start at 0 to bit_cnt - cnt.
StartsGroup(i, cnt) == i + cnt <= bit_cnt

lock_ignored(c) == TRUE
lockFree(c) == pool_lock = Unlocked
palloc_get_multiple(c, cnt) ==
  /\ call[c].at = "out" /\ lockFree(c)
  /\ pool_lock' = c
  /\ call' = [call EXCEPT ![c] =
                [at |-> IF StartsGroup(0, cnt) THEN "scan" ELSE "failed",
                 first |-> 0, cnt |-> cnt, done |-> 0, fits |-> Fits(cnt)]]
  /\ UNCHANGED <<used_map, owns>>

\* bitmap_test, in bitmap_contains, in bitmap_scan.
inUse_but_first(i) == i \in used_map \ {0}
inUse(i) == i \in used_map
bitmap_test(c) ==
  LET k == call[c] IN
  /\ k.at = "scan"
  /\ call' = [call EXCEPT ![c] =
       IF inUse(k.first + k.done)
       THEN [k EXCEPT !.at = IF StartsGroup(k.first + 1, k.cnt) THEN "scan" ELSE "failed",
                      !.first = IF StartsGroup(k.first + 1, k.cnt) THEN @ + 1 ELSE 0,
                      !.done = 0]
       ELSE IF k.done + 1 < k.cnt THEN [k EXCEPT !.done = @ + 1]
       ELSE [k EXCEPT !.at = "flip", !.done = 0]]
  /\ UNCHANGED <<used_map, pool_lock, owns>>

\* bitmap_mark, in bitmap_set_multiple.
bitmap_mark(c) ==
  LET k == call[c] IN
  /\ k.at = "flip"
  /\ used_map' = used_map \cup {k.first + k.done}
  /\ call' = [call EXCEPT ![c] =
                [k EXCEPT !.done = @ + 1, !.at = IF k.done + 1 < k.cnt THEN @ ELSE "got"]]
  /\ UNCHANGED <<pool_lock, owns>>

palloc_get_returns(c) ==
  /\ call[c].at \in {"got", "failed"}
  /\ pool_lock' = Unlocked
  /\ owns' = IF call[c].at = "failed" THEN owns
             ELSE [owns EXCEPT ![c] = @ \cup {GroupOf(c)}]
  /\ call' = [call EXCEPT ![c] = NoCall]
  /\ UNCHANGED used_map

palloc_free_multiple(c, g) ==
  /\ call[c].at = "out" /\ g \in owns[c]
  /\ owns' = [owns EXCEPT ![c] = @ \ {g}]
  /\ call' = [call EXCEPT ![c] = [NoCall EXCEPT !.at = "clear", !.first = g.first, !.cnt = g.cnt]]
  /\ UNCHANGED <<used_map, pool_lock>>

\* bitmap_reset, in bitmap_set_multiple.
afterReset(k) == IF k.done + 1 < k.cnt THEN [k EXCEPT !.done = @ + 1] ELSE NoCall
bitmap_reset(c) ==
  LET k == call[c] IN
  /\ k.at = "clear"
  /\ used_map' = used_map \ {k.first + k.done}
  /\ call' = [call EXCEPT ![c] = afterReset(k)]
  /\ UNCHANGED <<pool_lock, owns>>

PageNext == \E c \in Callers :
  \/ \E cnt \in 1..MaxRun : palloc_get_multiple(c, cnt)
  \/ bitmap_test(c) \/ bitmap_mark(c) \/ palloc_get_returns(c)
  \/ \E g \in owns[c] : palloc_free_multiple(c, g)
  \/ bitmap_reset(c)
PageSpec == PageInit /\ [][PageNext]_pageVars

-----------------------------------------------------------------------------
(* Properties.                                                               *)

PageTypeOK ==
  /\ used_map \subseteq Page
  /\ pool_lock \in Callers \cup {Unlocked}
  /\ call \in [Callers -> [at : {"out", "scan", "flip", "got", "failed", "clear"},
                           first : Page, cnt : 1..MaxRun, done : 0..MaxRun, fits : BOOLEAN]]
  /\ owns \in [Callers -> SUBSET Group]

\* No page is in two groups that were given out, and none of theirs is free
\* for the next search, although pages are freed without the lock while
\* another thread searches (palloc.c:80-82, 140-141).
NoPageShared ==
  /\ \A c, d \in Callers : \A g \in owns[c], h \in owns[d] :
       c # d \/ g # h => Pages(g) \cap Pages(h) = {}
  /\ \A g \in Held : Pages(g) \subseteq used_map

\* Between calls every page in use belongs to somebody: none leaks.
NoPageLost ==
  (\A c \in Callers : call[c].at = "out") => used_map = UNION { Pages(g) : g \in Held }

\* "If too few pages are available, returns a null pointer" (palloc.c:67), and
\* only then, although pages become free while the search goes on.
FailsOnlyWhenFull ==
  \A c \in Callers : call[c].at = "failed" => ~call[c].fits

\* The safety of a pool: no page is shared, lost or refused without need.
PagesSafe ==
  /\ PageTypeOK /\ NoPageShared /\ NoPageLost /\ FailsOnlyWhenFull

\* The allocator does what an indivisible one would (PagePool): a group is
\* taken when the search has found it, pages come back one by one.
Taken == Held \cup { GroupOf(c) : c \in { d \in Callers : call[d].at \in {"flip", "got"} } }
Pool == INSTANCE PagePool WITH
  held <- Taken, avail <- (Page \ used_map) \ UNION { Pages(g) : g \in Taken }
ImplementsPool == Pool!PoolSpec
=============================================================================
