----------------------------- MODULE MemoryProofs -----------------------------
(* Proofs about memory: that the page allocator gives no page to two owners, *)
(* loses none, fails only for want of pages and implements PagePool, for any *)
(* number of threads and any size of the pool; that malloc keeps its blocks  *)
(* apart and gives arenas back, for any order of calls; that main finds its  *)
(* arguments, for any command line and size of the stack page; and that      *)
(* programs start with the image their executables describe and that loading *)
(* and dying account for every page and directory, for any executables.      *)
EXTENDS PageAllocator, BlockAllocator, ArgStack, AddressSpace, KernelLists_proofs, TLAPS

USE PagesAssumption

-----------------------------------------------------------------------------
(* The inductive invariant.                                                  *)

\* Where a call holds the pool's lock.
Locking == {"scan", "flip", "got", "failed"}
LockHeld == \A c \in Callers : call[c].at \in Locking => pool_lock = c

\* Groups lie in the pool, and a call has not done more of its group than all.
InPool ==
  /\ \A c \in Callers : \A g \in owns[c] : g.first + g.cnt <= bit_cnt
  /\ \A c \in Callers :
       /\ call[c].at \in {"scan", "flip", "got", "clear"} =>
            call[c].first + call[c].cnt <= bit_cnt
       /\ call[c].at \in {"scan", "flip", "clear"} => call[c].done < call[c].cnt
       /\ call[c].at = "got" => call[c].done = call[c].cnt

\* The pages whose bits are set on behalf of a call, ...
Marked(k) ==
  { p \in Page : \/ k.at \in {"flip", "got"} /\ k.first <= p /\ p < k.first + k.done
                 \/ k.at = "clear" /\ k.first + k.done <= p /\ p < k.first + k.cnt }

\* ... and those that it has found free and not marked yet.
Tested(k) ==
  { p \in Page : \/ k.at = "scan" /\ k.first <= p /\ p < k.first + k.done
                 \/ k.at = "flip" /\ k.first + k.done <= p /\ p < k.first + k.cnt }

\* A page belongs to one group that was given out, or to one call; ...
OwnedOnce ==
  /\ \A c, d \in Callers : \A g \in owns[c], h \in owns[d] : \A p \in Page :
       p \in Pages(g) /\ p \in Pages(h) => c = d /\ g = h
  /\ \A c, d \in Callers : \A g \in owns[c] : \A p \in Page :
       ~(p \in Pages(g) /\ p \in Marked(call[d]))
  /\ \A c, d \in Callers : \A p \in Page :
       p \in Marked(call[c]) /\ p \in Marked(call[d]) => c = d

\* ... these are the pages whose bits are set; ...
UsedIsOwned ==
  \A p \in Page :
    p \in used_map <=> \/ \E c \in Callers : \E g \in owns[c] : p \in Pages(g)
                       \/ \E c \in Callers : p \in Marked(call[c])

\* ... what a search found free stays free; ...
TestedIsFree == \A c \in Callers : \A p \in Tested(call[c]) : p \notin used_map

\* ... and a search that had a group to find still has one ahead of it.
StillFits ==
  \A c \in Callers :
    /\ call[c].at = "failed" => ~call[c].fits
    /\ call[c].at = "scan" /\ call[c].fits =>
         \E i \in Page : /\ call[c].first <= i /\ i + call[c].cnt <= bit_cnt
                         /\ i..i + call[c].cnt - 1 \cap used_map = {}

PageInv == /\ PageTypeOK /\ LockHeld /\ InPool
           /\ OwnedOnce /\ UsedIsOwned /\ TestedIsFree /\ StillFits

Places == {"out", "scan", "flip", "got", "failed", "clear"}
CallType == [at : Places, first : Page, cnt : 1..MaxRun, done : 0..MaxRun, fits : BOOLEAN]

\* The types of the variables, one by one.
LEMMA PageTypes ==
    ASSUME PageTypeOK
    PROVE  /\ used_map \subseteq Page /\ Page \subseteq Nat /\ 0 \in Page
           /\ call \in [Callers -> CallType] /\ NoCall \in CallType
           /\ owns \in [Callers -> SUBSET Group]
           /\ \A c \in Callers : /\ call[c] \in CallType
                               /\ GroupOf(c) \in Group
                               /\ owns[c] \subseteq Group
    BY DEF PageTypeOK, CallType, Places, Page, NoCall, GroupOf, Group

\* A step that leaves the bits, the groups and what a call has marked alone.
LEMMA NothingMarked ==
    ASSUME PageInv, UNCHANGED <<used_map, owns>>,
           \A c \in Callers : Marked(call[c])' = Marked(call[c])
    PROVE  OwnedOnce' /\ UsedIsOwned'
<1>1. \A c \in Callers : Marked(call'[c]) = Marked(call[c])
    BY DEF Marked, Page
<1> QED
    BY <1>1 DEF PageInv, OwnedOnce, UsedIsOwned, Pages, Page

\* A call starts its search.
LEMMA GetKeeps ==
    ASSUME PageInv, NEW c \in Callers, NEW cnt \in 1..MaxRun, palloc_get_multiple(c, cnt)
    PROVE  PageInv'
<1> DEFINE k == [at |-> IF StartsGroup(0, cnt) THEN "scan" ELSE "failed",
                 first |-> 0, cnt |-> cnt, done |-> 0, fits |-> Fits(cnt)]
<1>1. /\ PageTypeOK /\ call[c].at = "out" /\ pool_lock = Unlocked /\ pool_lock' = c
      /\ call' = [call EXCEPT ![c] = k] /\ UNCHANGED <<used_map, owns>>
    BY DEF PageInv, palloc_get_multiple, lockFree
<1>2. k \in CallType /\ k.at \in {"scan", "failed"} /\ k.done = 0
    BY <1>1, PageTypes DEF CallType, Places, Fits
<1>3. call'[c] = k /\ \A d \in Callers \ {c} : call'[d] = call[d]
    BY <1>1, PageTypes
<1>4. PageTypeOK'
    BY <1>1, <1>2 DEF PageTypeOK, CallType, Places
<1>5. LockHeld'
    BY <1>1, <1>3 DEF PageInv, LockHeld, Locking
<1>6. InPool'
    BY <1>1, <1>2, <1>3 DEF PageInv, InPool, StartsGroup, CallType, Page
<1>7. Marked(k) = {} /\ Tested(k) = {} /\ Marked(call[c]) = {}
    BY <1>1, <1>2, PageTypes DEF Marked, Tested, CallType, Page
<1>8. OwnedOnce' /\ UsedIsOwned'
    BY <1>1, <1>3, <1>7, NothingMarked DEF Marked, Page
<1>9. TestedIsFree'
    BY <1>1, <1>3, <1>7 DEF PageInv, TestedIsFree, Tested, Page
<1>10. StillFits'
    BY <1>1, <1>3 DEF PageInv, StillFits, Fits, StartsGroup, Page
<1> QED
    BY <1>4, <1>5, <1>6, <1>8, <1>9, <1>10 DEF PageInv

\* A call tests a bit, or has found its group.
LEMMA TestKeeps ==
    ASSUME PageInv, NEW c \in Callers, bitmap_test(c)
    PROVE  PageInv'
<1> DEFINE k == call[c]
           next == IF inUse(k.first + k.done)
                   THEN [k EXCEPT !.at = IF StartsGroup(k.first + 1, k.cnt) THEN "scan" ELSE "failed",
                                  !.first = IF StartsGroup(k.first + 1, k.cnt) THEN @ + 1 ELSE 0,
                                  !.done = 0]
                   ELSE IF k.done + 1 < k.cnt THEN [k EXCEPT !.done = @ + 1]
                   ELSE [k EXCEPT !.at = "flip", !.done = 0]
<1>1. /\ k.at = "scan" /\ UNCHANGED <<used_map, pool_lock, owns>>
      /\ call' = [call EXCEPT ![c] = next]
    BY DEF bitmap_test
<1>2. /\ PageTypeOK /\ k \in CallType
      /\ k.first + k.cnt <= bit_cnt /\ k.done < k.cnt
    BY <1>1, PageTypes DEF PageInv, InPool
<1>3. /\ call'[c] = next /\ \A d \in Callers \ {c} : call'[d] = call[d]
    BY <1>1, <1>2, PageTypes
<1>4. next \in CallType /\ next.cnt = k.cnt /\ next.fits = k.fits
      /\ next.at \in {"scan", "flip", "failed"}
  <2> DEFINE ahead == StartsGroup(k.first + 1, k.cnt)
             at == IF ahead THEN "scan" ELSE "failed"
             first == IF ahead THEN k.first + 1 ELSE 0
  <2>1. /\ at \in Places /\ first \in Page /\ 0 \in 0..MaxRun
        /\ "flip" \in Places /\ k.at \in Places /\ k.first \in Page
        /\ k.done + 1 < k.cnt => k.done + 1 \in 0..MaxRun
      BY <1>2 DEF CallType, Places, Page, StartsGroup
  <2>2. CASE inUse(k.first + k.done)
    <3>1. next = [k EXCEPT !.at = at, !.first = first, !.done = 0]
        BY <2>2
    <3> HIDE DEF at, first, k, next
    <3>2. /\ next \in CallType /\ next.at = at /\ next.cnt = k.cnt /\ next.fits = k.fits
        BY <1>2, <2>1, <3>1 DEF CallType
    <3> QED
        BY <3>2 DEF at
  <2>3. CASE ~inUse(k.first + k.done) /\ k.done + 1 < k.cnt
    <3>1. next = [k EXCEPT !.done = k.done + 1]
        BY <2>3
    <3> HIDE DEF k, next
    <3> QED
        BY <1>1, <1>2, <2>1, <2>3, <3>1 DEF CallType
  <2>4. CASE ~inUse(k.first + k.done) /\ ~(k.done + 1 < k.cnt)
    <3>1. next = [k EXCEPT !.at = "flip", !.done = 0]
        BY <2>4
    <3> HIDE DEF k, next
    <3> QED
        BY <1>2, <2>1, <3>1 DEF CallType
  <2> QED
      BY <2>2, <2>3, <2>4
<1>5. PageTypeOK'
    BY <1>1, <1>2, <1>4 DEF PageTypeOK, CallType, Places
<1>7. LockHeld'
    BY <1>1, <1>3, <1>4 DEF PageInv, LockHeld, Locking
<1>8. InPool'
  <2>1. /\ next.at \in {"scan", "flip"} => next.first + next.cnt <= bit_cnt
        /\ next.at \in {"scan", "flip"} => next.done < next.cnt
      BY <1>2 DEF CallType, StartsGroup, Page
  <2> QED
      BY <1>1, <1>3, <1>4, <2>1 DEF PageInv, InPool
<1>9. Marked(k) = {} /\ Marked(next) = {}
    BY <1>1, <1>2 DEF Marked, CallType, Page, StartsGroup
<1>10. OwnedOnce' /\ UsedIsOwned'
  <2>1. \A d \in Callers : Marked(call'[d]) = Marked(call[d])
      BY <1>3, <1>9
  <2> QED
      BY <1>1, <2>1, NothingMarked DEF Marked, Page
<1>11. TestedIsFree'
  <2>1. \A p \in Tested(next) : p \in Tested(k) \/ (p = k.first + k.done /\ p \notin used_map)
      BY <1>1, <1>2 DEF Tested, CallType, Page, inUse
  <2>2. \A p \in Tested(next) : p \notin used_map
      BY <2>1 DEF PageInv, TestedIsFree
  <2> QED
      BY <1>1, <1>3, <2>2 DEF PageInv, TestedIsFree, Tested, Page
<1>12. StillFits'
  <2> DEFINE ahead(r) == \E i \in Page : /\ r.first <= i /\ i + r.cnt <= bit_cnt
                                         /\ i..i + r.cnt - 1 \cap used_map = {}
  <2>1. ASSUME next.fits, next.at # "flip" PROVE next.at = "scan" /\ ahead(next)
    <3>1. PICK i \in Page : /\ k.first <= i /\ i + k.cnt <= bit_cnt
                            /\ i..i + k.cnt - 1 \cap used_map = {}
        BY <1>1, <1>4, <2>1 DEF PageInv, StillFits
    <3>2. CASE inUse(k.first + k.done)
      <4>1. i # k.first
          BY <1>2, <3>1, <3>2 DEF inUse, CallType, Page
      <4> QED
          BY <1>2, <3>1, <3>2, <4>1 DEF StartsGroup, CallType, Page
    <3>3. CASE ~inUse(k.first + k.done)
        BY <1>1, <1>2, <2>1, <3>1, <3>3 DEF CallType
    <3> QED
        BY <3>2, <3>3
  <2>2. /\ next.at = "failed" => ~next.fits
        /\ next.at = "scan" /\ next.fits => ahead(next)
      BY <2>1
  <2> QED
      BY <1>1, <1>3, <2>2 DEF PageInv, StillFits, Page
<1> QED
    BY <1>5, <1>7, <1>8, <1>10, <1>11, <1>12 DEF PageInv

\* A call marks a page of its group.
LEMMA MarkKeeps ==
    ASSUME PageInv, NEW c \in Callers, bitmap_mark(c)
    PROVE  PageInv'
<1> DEFINE k == call[c]
           new == k.first + k.done
           next == [k EXCEPT !.done = @ + 1, !.at = IF k.done + 1 < k.cnt THEN @ ELSE "got"]
<1>1. /\ k.at = "flip" /\ used_map' = used_map \cup {new}
      /\ call' = [call EXCEPT ![c] = next] /\ UNCHANGED <<pool_lock, owns>>
    BY DEF bitmap_mark
<1>2. /\ PageTypeOK /\ k \in CallType /\ pool_lock = c
      /\ k.first + k.cnt <= bit_cnt /\ k.done < k.cnt
    BY <1>1, PageTypes DEF PageInv, InPool, LockHeld, Locking
<1>3. /\ call'[c] = next /\ \A d \in Callers \ {c} : call'[d] = call[d]
    BY <1>1, <1>2, PageTypes
<1>4. /\ next \in CallType /\ next.at \in {"flip", "got"}
      /\ next.at = "flip" => next.done < next.cnt
      /\ next.at = "got" => next.done = next.cnt
      /\ next.first = k.first /\ next.cnt = k.cnt /\ next.done = k.done + 1
  <2> DEFINE at == IF k.done + 1 < k.cnt THEN k.at ELSE "got"
  <2>1. k.done + 1 \in 0..MaxRun /\ k.done \in Nat /\ k.cnt \in Nat
      BY <1>2 DEF CallType
  <2>2. at \in {"flip", "got"} /\ at \in Places
      BY <1>1 DEF Places
  <2>3. next = [k EXCEPT !.done = k.done + 1, !.at = at]
      OBVIOUS
  <2> HIDE DEF at, k, next
  <2>4. /\ next \in CallType /\ next.at = at /\ next.first = k.first
        /\ next.cnt = k.cnt /\ next.done = k.done + 1
      BY <1>2, <2>1, <2>2, <2>3 DEF CallType
  <2> QED
      BY <1>1, <1>2, <2>1, <2>2, <2>4 DEF at
<1>5. new \in Page /\ new \in Tested(k) /\ new \notin used_map
  <2>1. new \in Page /\ new \in Tested(k)
      BY <1>1, <1>2 DEF Tested, CallType, Page
  <2> QED
      BY <2>1 DEF PageInv, TestedIsFree
<1>6. Marked(next) = Marked(k) \cup {new} /\ Tested(next) \subseteq Tested(k) \ {new}
    BY <1>1, <1>2, <1>4 DEF Marked, Tested, CallType, Page
<1>7. \A d \in Callers \ {c} : call[d].at \notin Locking
    BY <1>2 DEF PageInv, LockHeld
<1>8. PageTypeOK'
    BY <1>1, <1>2, <1>4, <1>5 DEF PageTypeOK, CallType, Places
<1>9. LockHeld' /\ InPool'
  <2>1. LockHeld'
      BY <1>1, <1>2, <1>3, <1>7 DEF LockHeld, Locking
  <2>2. InPool'
      BY <1>1, <1>2, <1>3, <1>4 DEF PageInv, InPool
  <2> QED
      BY <2>1, <2>2
<1>10. \A d \in Callers : /\ Marked(call[d]) \subseteq used_map
                          /\ \A g \in owns[d] : \A p \in Page : p \in Pages(g) => p \in used_map
    BY DEF PageInv, UsedIsOwned, Marked
<1>11. \A d \in Callers : Marked(call'[d]) = Marked(call[d]) \cup (IF d = c THEN {new} ELSE {})
    BY <1>3, <1>6
<1>12. OwnedOnce'
  <2>1. \A d \in Callers : new \notin Marked(call[d])
      BY <1>5, <1>10
  <2>2. \A d \in Callers : \A g \in owns[d] : new \notin Pages(g)
      BY <1>5, <1>10
  <2>3. \A d, e \in Callers : \A p \in Page :
          p \in Marked(call'[d]) /\ p \in Marked(call'[e]) => d = e
      BY <1>11, <2>1 DEF PageInv, OwnedOnce
  <2>4. \A d, e \in Callers : \A g \in owns[d] : \A p \in Page :
          ~(p \in Pages(g) /\ p \in Marked(call'[e]))
      BY <1>11, <2>2 DEF PageInv, OwnedOnce
  <2> QED
      BY <1>1, <2>3, <2>4 DEF PageInv, OwnedOnce, Marked, Pages, Page
<1>13. UsedIsOwned'
  <2>1. \A p \in Page : p \in used_map' <=>
          \/ \E d \in Callers : \E g \in owns[d] : p \in Pages(g)
          \/ \E d \in Callers : p \in Marked(call'[d])
      BY <1>1, <1>5, <1>11 DEF PageInv, UsedIsOwned
  <2> QED
      BY <1>1, <2>1 DEF UsedIsOwned, Marked, Pages, Page
<1>14. TestedIsFree'
  <2>1. \A d \in Callers \ {c} : Tested(call[d]) = {}
      BY <1>7 DEF Tested, Locking
  <2>2. \A d \in Callers : \A p \in Tested(call'[d]) : p \notin used_map'
      BY <1>1, <1>3, <1>6, <2>1 DEF PageInv, TestedIsFree
  <2> QED
      BY <2>2 DEF TestedIsFree, Tested, Page
<1>15. StillFits'
    BY <1>3, <1>4, <1>7 DEF StillFits, Locking
<1> QED
    BY <1>8, <1>9, <1>12, <1>13, <1>14, <1>15 DEF PageInv

\* A call gives out the group, or none.
LEMMA ReturnKeeps ==
    ASSUME PageInv, NEW c \in Callers, palloc_get_returns(c)
    PROVE  PageInv'
<1> DEFINE k == call[c]
           new == GroupOf(c)
<1>1. /\ k.at \in {"got", "failed"} /\ pool_lock' = Unlocked
      /\ owns' = IF k.at = "failed" THEN owns ELSE [owns EXCEPT ![c] = @ \cup {new}]
      /\ call' = [call EXCEPT ![c] = NoCall] /\ used_map' = used_map
    BY DEF palloc_get_returns
<1>2. /\ PageTypeOK /\ k \in CallType /\ new \in Group /\ pool_lock = c
      /\ k.at = "got" => k.first + k.cnt <= bit_cnt /\ k.done = k.cnt
      /\ new.first = k.first /\ new.cnt = k.cnt
    BY <1>1, PageTypes DEF PageInv, InPool, LockHeld, Locking, GroupOf
<1>3. /\ call'[c] = NoCall /\ \A d \in Callers \ {c} : call'[d] = call[d]
      /\ NoCall \in CallType
    BY <1>1, <1>2, PageTypes
<1>4. \A d \in Callers : owns'[d] = IF d = c /\ k.at = "got" THEN owns[d] \cup {new} ELSE owns[d]
    BY <1>1, <1>2, PageTypes
<1>5. PageTypeOK'
  <2>1. owns' \in [Callers -> SUBSET Group]
      BY <1>1, <1>2, PageTypes
  <2> QED
      BY <1>1, <1>2, <1>3, <2>1 DEF PageTypeOK, CallType, Places
<1>6. \A d \in Callers \ {c} : call[d].at \notin Locking
    BY <1>2 DEF PageInv, LockHeld
<1>7. LockHeld'
    BY <1>3, <1>6 DEF LockHeld, Locking, NoCall
<1>8. InPool'
    BY <1>1, <1>2, <1>3, <1>4 DEF PageInv, InPool, NoCall
<1>9. Marked(NoCall) = {} /\ Tested(NoCall) = {} /\ (k.at = "failed" => Marked(k) = {})
    BY DEF Marked, Tested, NoCall
<1>10. k.at = "got" => \A p \in Page : p \in Marked(k) <=> p \in Pages(new)
    BY <1>2 DEF Marked, Pages, CallType, Page
<1>11. \A d \in Callers : Marked(call'[d]) = IF d = c THEN {} ELSE Marked(call[d])
    BY <1>3, <1>9
<1>12. OwnedOnce'
  <2>1. \A d, e \in Callers : \A p \in Page :
          p \in Marked(call'[d]) /\ p \in Marked(call'[e]) => d = e
      BY <1>11 DEF PageInv, OwnedOnce
  <2>2. \A d, e \in Callers : \A g \in owns'[d] : \A p \in Page :
          ~(p \in Pages(g) /\ p \in Marked(call'[e]))
    <3>1. k.at = "got" => \A e \in Callers \ {c} : \A p \in Page :
            ~(p \in Pages(new) /\ p \in Marked(call[e]))
        BY <1>10 DEF PageInv, OwnedOnce
    <3> SUFFICES ASSUME NEW d \in Callers, NEW e \in Callers, NEW g \in owns'[d],
                        NEW p \in Page, p \in Pages(g), p \in Marked(call'[e])
                 PROVE  FALSE
        OBVIOUS
    <3>2. g \in owns[d] \/ (k.at = "got" /\ g = new)
        BY <1>4
    <3>3. e # c /\ p \in Marked(call[e])
        BY <1>11
    <3>4. g \notin owns[d]
        BY <3>3 DEF PageInv, OwnedOnce
    <3> QED
        BY <3>1, <3>2, <3>3, <3>4
  <2>3. \A d, e \in Callers : \A g \in owns'[d], h \in owns'[e] : \A p \in Page :
          p \in Pages(g) /\ p \in Pages(h) => d = e /\ g = h
    <3>1. k.at = "got" => \A e \in Callers : \A h \in owns[e] : \A p \in Page :
            ~(p \in Pages(new) /\ p \in Pages(h))
        BY <1>10 DEF PageInv, OwnedOnce
    <3> SUFFICES ASSUME NEW d \in Callers, NEW e \in Callers,
                        NEW g \in owns'[d], NEW h \in owns'[e], NEW p \in Page,
                        p \in Pages(g), p \in Pages(h)
                 PROVE  d = e /\ g = h
        OBVIOUS
    <3>2. /\ g \in owns[d] \/ (d = c /\ k.at = "got" /\ g = new)
          /\ h \in owns[e] \/ (e = c /\ k.at = "got" /\ h = new)
        BY <1>4
    <3>3. g \in owns[d] /\ h \in owns[e] => d = e /\ g = h
        BY DEF PageInv, OwnedOnce
    <3> HIDE DEF k, new
    <3> QED
        BY <3>1, <3>2, <3>3
  <2> QED
      BY <2>1, <2>2, <2>3 DEF OwnedOnce, Marked, Pages, Page
<1>13. UsedIsOwned'
  <2>1. \A p \in Page : p \in used_map <=>
          \/ \E d \in Callers : \E g \in owns'[d] : p \in Pages(g)
          \/ \E d \in Callers : p \in Marked(call'[d])
    <3>1. CASE k.at = "got"
      <4>1. \A p \in Page : (\E d \in Callers : \E g \in owns'[d] : p \in Pages(g)) <=>
              \/ \E d \in Callers : \E g \in owns[d] : p \in Pages(g)
              \/ p \in Pages(new)
        <5> HIDE DEF k, new
        <5> QED
            BY <1>4, <3>1
      <4>2. \A p \in Page : (\E d \in Callers : p \in Marked(call[d])) <=>
              \/ \E d \in Callers : p \in Marked(call'[d])
              \/ p \in Pages(new)
          BY <1>10, <1>11, <3>1
      <4> QED
          BY <4>1, <4>2 DEF PageInv, UsedIsOwned
    <3>2. CASE k.at = "failed"
        BY <1>4, <1>9, <1>11, <3>2 DEF PageInv, UsedIsOwned
    <3> QED
        BY <1>1, <3>1, <3>2
  <2> QED
      BY <1>1, <2>1 DEF UsedIsOwned, Marked, Pages, Page
<1>14. TestedIsFree'
  <2>1. \A d \in Callers : \A p \in Tested(call'[d]) : p \notin used_map'
      BY <1>1, <1>3, <1>9 DEF PageInv, TestedIsFree
  <2> QED
      BY <2>1 DEF TestedIsFree, Tested, Page
<1>15. StillFits'
    BY <1>3, <1>6 DEF StillFits, Locking, NoCall
<1> QED
    BY <1>5, <1>7, <1>8, <1>12, <1>13, <1>14, <1>15 DEF PageInv

\* A call starts to free a group.
LEMMA FreeKeeps ==
    ASSUME PageInv, NEW c \in Callers, NEW g \in owns[c], palloc_free_multiple(c, g)
    PROVE  PageInv'
<1> DEFINE next == [NoCall EXCEPT !.at = "clear", !.first = g.first, !.cnt = g.cnt]
<1>1. /\ call[c].at = "out" /\ owns' = [owns EXCEPT ![c] = @ \ {g}]
      /\ call' = [call EXCEPT ![c] = next] /\ UNCHANGED <<used_map, pool_lock>>
    BY DEF palloc_free_multiple
<1>2. /\ PageTypeOK /\ g \in Group /\ g.first + g.cnt <= bit_cnt
      /\ g.first \in Page /\ g.cnt \in 1..MaxRun
    BY PageTypes DEF PageInv, InPool, Group
<1>3. /\ next \in CallType /\ next.at = "clear" /\ next.done = 0
      /\ next.first = g.first /\ next.cnt = g.cnt
  <2>1. NoCall \in CallType /\ NoCall.done = 0 /\ "clear" \in Places
      BY <1>2, PageTypes DEF NoCall, Places
  <2> DEFINE first == g.first
             cnt == g.cnt
  <2>2. next = [NoCall EXCEPT !.at = "clear", !.first = first, !.cnt = cnt]
      OBVIOUS
  <2>3. first \in Page /\ cnt \in 1..MaxRun
      BY <1>2
  <2> HIDE DEF next, first, cnt
  <2>4. /\ next \in CallType /\ next.at = "clear" /\ next.done = 0
        /\ next.first = first /\ next.cnt = cnt
      BY <2>1, <2>2, <2>3 DEF CallType
  <2> QED
      BY <2>4 DEF first, cnt
<1> HIDE DEF next
<1>4. /\ call'[c] = next /\ \A d \in Callers \ {c} : call'[d] = call[d]
      /\ owns'[c] = owns[c] \ {g} /\ \A d \in Callers \ {c} : owns'[d] = owns[d]
  <2>1. call \in [Callers -> CallType] /\ owns \in [Callers -> SUBSET Group]
      BY <1>2, PageTypes
  <2> QED
      BY <1>1, <2>1
<1>5. PageTypeOK'
  <2>1. owns' \in [Callers -> SUBSET Group]
      BY <1>1, <1>2, PageTypes
  <2> QED
      BY <1>1, <1>2, <1>3, <2>1 DEF PageTypeOK, CallType, Places
<1>6. LockHeld'
    BY <1>1, <1>3, <1>4 DEF PageInv, LockHeld, Locking
<1>7. InPool'
    BY <1>1, <1>2, <1>3, <1>4 DEF PageInv, InPool
<1>8. Marked(call[c]) = {} /\ Tested(next) = {}
    BY <1>1, <1>3 DEF Marked, Tested
<1>9. \A p \in Page : p \in Marked(next) <=> p \in Pages(g)
    BY <1>2, <1>3 DEF Marked, Pages, Page
<1>10. \A d \in Callers : Marked(call'[d]) = IF d = c THEN Marked(next) ELSE Marked(call[d])
    BY <1>4
<1>11. OwnedOnce'
  <2>1. \A d \in Callers : \A h \in owns[d] : \A p \in Page :
          p \in Pages(g) /\ p \in Pages(h) => d = c /\ h = g
      BY DEF PageInv, OwnedOnce
  <2>2. \A d \in Callers : \A p \in Page : ~(p \in Pages(g) /\ p \in Marked(call[d]))
      BY DEF PageInv, OwnedOnce
  <2>3. \A d, e \in Callers : \A p \in Page :
          p \in Marked(call'[d]) /\ p \in Marked(call'[e]) => d = e
      BY <1>9, <1>10, <2>2 DEF PageInv, OwnedOnce
  <2>4. \A d \in Callers : owns'[d] \subseteq owns[d] \ (IF d = c THEN {g} ELSE {})
      BY <1>4
  <2>5. \A d, e \in Callers : \A h \in owns'[d] : \A p \in Page :
          ~(p \in Pages(h) /\ p \in Marked(call'[e]))
    <3> SUFFICES ASSUME NEW d \in Callers, NEW e \in Callers, NEW h \in owns'[d],
                        NEW p \in Page, p \in Pages(h), p \in Marked(call'[e])
                 PROVE  FALSE
        OBVIOUS
    <3>1. h \in owns[d] /\ ~(d = c /\ h = g)
        BY <2>4
    <3>2. CASE e = c
        BY <1>9, <1>10, <2>1, <3>1, <3>2
    <3>3. CASE e # c
        BY <1>10, <3>1, <3>3 DEF PageInv, OwnedOnce
    <3> QED
        BY <3>2, <3>3
  <2>6. \A d, e \in Callers : \A h \in owns'[d], i \in owns'[e] : \A p \in Page :
          p \in Pages(h) /\ p \in Pages(i) => d = e /\ h = i
      BY <2>4 DEF PageInv, OwnedOnce
  <2> QED
      BY <2>3, <2>5, <2>6 DEF OwnedOnce, Marked, Pages, Page
<1>12. UsedIsOwned'
  <2>1. \A p \in Page : (\E d \in Callers : \E h \in owns[d] : p \in Pages(h)) <=>
          \/ \E d \in Callers : \E h \in owns'[d] : p \in Pages(h)
          \/ p \in Pages(g)
      BY <1>4
  <2>2. \A p \in Page : (\E d \in Callers : p \in Marked(call'[d])) <=>
          \/ \E d \in Callers : p \in Marked(call[d])
          \/ p \in Pages(g)
      BY <1>8, <1>9, <1>10
  <2>3. \A p \in Page : p \in used_map <=>
          \/ \E d \in Callers : \E h \in owns'[d] : p \in Pages(h)
          \/ \E d \in Callers : p \in Marked(call'[d])
      BY <2>1, <2>2 DEF PageInv, UsedIsOwned
  <2> QED
      BY <1>1, <2>3 DEF UsedIsOwned, Marked, Pages, Page
<1>13. TestedIsFree'
  <2>1. \A d \in Callers : \A p \in Tested(call'[d]) : p \notin used_map'
      BY <1>1, <1>4, <1>8 DEF PageInv, TestedIsFree
  <2> QED
      BY <2>1 DEF TestedIsFree, Tested, Page
<1>14. StillFits'
    BY <1>1, <1>3, <1>4 DEF PageInv, StillFits, Page
<1> QED
    BY <1>5, <1>6, <1>7, <1>11, <1>12, <1>13, <1>14 DEF PageInv

\* A call clears the bit of a page that it frees.
LEMMA ResetKeeps ==
    ASSUME PageInv, NEW c \in Callers, bitmap_reset(c)
    PROVE  PageInv'
<1> DEFINE k == call[c]
           old == k.first + k.done
           next == afterReset(k)
<1>1. /\ k.at = "clear" /\ used_map' = used_map \ {old}
      /\ call' = [call EXCEPT ![c] = next] /\ UNCHANGED <<pool_lock, owns>>
    BY DEF bitmap_reset
<1>2. /\ PageTypeOK /\ k \in CallType /\ NoCall \in CallType
      /\ k.first + k.cnt <= bit_cnt /\ k.done < k.cnt
    BY <1>1, PageTypes DEF PageInv, InPool
<1>3. /\ call'[c] = next /\ \A d \in Callers \ {c} : call'[d] = call[d]
    BY <1>1, <1>2, PageTypes
<1>4. /\ next \in CallType
      /\ \/ /\ next.at = "clear" /\ next.first = k.first /\ next.cnt = k.cnt
            /\ next.done = k.done + 1 /\ next.done < k.cnt
         \/ next = NoCall /\ k.done + 1 = k.cnt
  <2>1. CASE k.done + 1 < k.cnt
    <3>1. next = [k EXCEPT !.done = k.done + 1] /\ k.done + 1 \in 0..MaxRun
        BY <1>2, <2>1 DEF afterReset, CallType
    <3> HIDE DEF next
    <3>2. /\ next \in CallType /\ next.at = k.at /\ next.first = k.first
          /\ next.cnt = k.cnt /\ next.done = k.done + 1
      <4> HIDE DEF k
      <4> QED
          BY <1>2, <3>1 DEF CallType
    <3> QED
        BY <1>1, <2>1, <3>2
  <2>2. CASE ~(k.done + 1 < k.cnt)
      BY <1>2, <2>2 DEF afterReset, CallType
  <2> QED
      BY <2>1, <2>2
<1> HIDE DEF next
<1>5. old \in Page /\ old \in Marked(k)
    BY <1>1, <1>2 DEF Marked, CallType, Page
<1>6. /\ Marked(next) = Marked(k) \ {old} /\ Tested(next) = {}
      /\ next.at \in {"clear", "out"}
  <2>1. CASE next = NoCall /\ k.done + 1 = k.cnt
      BY <1>1, <1>2, <2>1 DEF Marked, Tested, CallType, Page, NoCall
  <2>2. CASE /\ next.at = "clear" /\ next.first = k.first /\ next.cnt = k.cnt
             /\ next.done = k.done + 1 /\ next.done < k.cnt
      BY <1>1, <1>2, <2>2 DEF Marked, Tested, CallType, Page
  <2> QED
      BY <1>4, <2>1, <2>2
<1>7. PageTypeOK'
  <2>1. used_map' \subseteq Page /\ call' \in [Callers -> CallType]
      BY <1>1, <1>2, <1>4, PageTypes
  <2> QED
      BY <1>1, <1>2, <2>1 DEF PageTypeOK, CallType, Places
<1>8. LockHeld'
    BY <1>1, <1>3, <1>6 DEF PageInv, LockHeld, Locking
<1>9. InPool'
  <2>1. /\ next.at = "clear" => next.first + next.cnt <= bit_cnt /\ next.done < next.cnt
      BY <1>2, <1>4 DEF NoCall
  <2> QED
      BY <1>1, <1>3, <1>6, <2>1 DEF PageInv, InPool
<1>10. \A d \in Callers : Marked(call'[d]) = Marked(call[d]) \ (IF d = c THEN {old} ELSE {})
    BY <1>3, <1>6
<1>11. OwnedOnce'
  <2>1. \A d, e \in Callers : \A p \in Page :
          p \in Marked(call'[d]) /\ p \in Marked(call'[e]) => d = e
      BY <1>10 DEF PageInv, OwnedOnce
  <2>2. \A d, e \in Callers : \A g \in owns[d] : \A p \in Page :
          ~(p \in Pages(g) /\ p \in Marked(call'[e]))
      BY <1>10 DEF PageInv, OwnedOnce
  <2> QED
      BY <1>1, <2>1, <2>2 DEF PageInv, OwnedOnce, Marked, Pages, Page
<1>12. UsedIsOwned'
  <2>1. \A d \in Callers : \A g \in owns[d] : old \notin Pages(g)
      BY <1>5 DEF PageInv, OwnedOnce
  <2>2. \A d \in Callers \ {c} : old \notin Marked(call[d])
      BY <1>5 DEF PageInv, OwnedOnce
  <2>3. \A p \in Page : (\E d \in Callers : p \in Marked(call'[d])) <=>
          (\E d \in Callers : p \in Marked(call[d])) /\ p # old
      BY <1>10, <2>2
  <2>4. \A p \in Page : p \in used_map' <=>
          \/ \E d \in Callers : \E g \in owns[d] : p \in Pages(g)
          \/ \E d \in Callers : p \in Marked(call'[d])
      BY <1>1, <2>1, <2>3 DEF PageInv, UsedIsOwned
  <2> QED
      BY <1>1, <2>4 DEF UsedIsOwned, Marked, Pages, Page
<1>13. TestedIsFree'
  <2>1. \A d \in Callers : \A p \in Tested(call'[d]) : p \notin used_map'
      BY <1>1, <1>3, <1>6 DEF PageInv, TestedIsFree
  <2> QED
      BY <2>1 DEF TestedIsFree, Tested, Page
<1>14. StillFits'
  <2>1. \A d \in Callers \ {c} : call'[d] = call[d]
      BY <1>3
  <2>2. \A i \in Page, n \in Int :
          i..i + n - 1 \cap used_map = {} => i..i + n - 1 \cap used_map' = {}
      BY <1>1
  <2> SUFFICES ASSUME NEW d \in Callers,
                      call'[d].at \in {"scan", "failed"} /\ call'[d].fits
               PROVE  /\ call'[d].at = "scan"
                      /\ \E i \in Page : /\ call'[d].first <= i
                                        /\ i + call'[d].cnt <= bit_cnt
                                        /\ i..i + call'[d].cnt - 1 \cap used_map' = {}
      BY DEF StillFits, Page
  <2>3. d # c
      BY <1>3, <1>6
  <2>4. call[d] \in CallType /\ call'[d] = call[d]
      BY <1>2, <2>1, <2>3, PageTypes
  <2>5. PICK i \in Page : /\ call[d].first <= i /\ i + call[d].cnt <= bit_cnt
                          /\ i..i + call[d].cnt - 1 \cap used_map = {}
      BY <2>4 DEF PageInv, StillFits
  <2>6. i..i + call[d].cnt - 1 \cap used_map' = {} /\ call[d].at = "scan"
      BY <2>2, <2>4, <2>5 DEF PageInv, StillFits, CallType
  <2> QED
      BY <2>4, <2>5, <2>6
<1> QED
    BY <1>7, <1>8, <1>9, <1>11, <1>12, <1>13, <1>14 DEF PageInv

-----------------------------------------------------------------------------
(* The theorem.                                                              *)

\* Initially all is free.
LEMMA PageInitially == PageInit => PageInv
<1> SUFFICES ASSUME PageInit PROVE PageInv
    OBVIOUS
<1>1. PageTypeOK
    BY DEF PageInit, PageTypeOK, NoCall, Page
<1>2. \A c \in Callers : /\ call[c] = NoCall /\ owns[c] = {}
                         /\ Marked(call[c]) = {} /\ Tested(call[c]) = {}
    BY DEF PageInit, NoCall, Marked, Tested
<1>3. LockHeld /\ InPool /\ StillFits
    BY <1>2 DEF LockHeld, Locking, InPool, StillFits, NoCall
<1>4. OwnedOnce /\ UsedIsOwned /\ TestedIsFree
    BY <1>2 DEF PageInit, OwnedOnce, UsedIsOwned, TestedIsFree
<1> QED
    BY <1>1, <1>3, <1>4 DEF PageInv

\* Every step keeps the invariant.
LEMMA PageStepKeeps == PageInv /\ [PageNext]_pageVars => PageInv'
<1> SUFFICES ASSUME PageInv, [PageNext]_pageVars PROVE PageInv'
    OBVIOUS
<1>1. ASSUME NEW c \in Callers, NEW cnt \in 1..MaxRun, palloc_get_multiple(c, cnt)
      PROVE  PageInv'
    BY <1>1, GetKeeps
<1>2. ASSUME NEW c \in Callers, bitmap_test(c) PROVE PageInv'
    BY <1>2, TestKeeps
<1>3. ASSUME NEW c \in Callers, bitmap_mark(c) PROVE PageInv'
    BY <1>3, MarkKeeps
<1>4. ASSUME NEW c \in Callers, palloc_get_returns(c) PROVE PageInv'
    BY <1>4, ReturnKeeps
<1>5. ASSUME NEW c \in Callers, NEW g \in owns[c], palloc_free_multiple(c, g)
      PROVE  PageInv'
    BY <1>5, FreeKeeps
<1>6. ASSUME NEW c \in Callers, bitmap_reset(c) PROVE PageInv'
    BY <1>6, ResetKeeps
<1>7. CASE UNCHANGED pageVars
    BY <1>7 DEF pageVars, PageInv, PageTypeOK, LockHeld, InPool, OwnedOnce, UsedIsOwned,
                TestedIsFree, StillFits, Marked, Tested, Pages, Page, Group
<1> QED
    BY <1>1, <1>2, <1>3, <1>4, <1>5, <1>6, <1>7 DEF PageNext

\* What the invariant says of a state between steps.
LEMMA PageInvSafe == PageInv => PagesSafe
<1> SUFFICES ASSUME PageInv PROVE PagesSafe
    OBVIOUS
<1>1. PageTypeOK /\ FailsOnlyWhenFull
    BY DEF PageInv, StillFits, FailsOnlyWhenFull
<1>2. \A c \in Callers : \A g \in owns[c] : Pages(g) \subseteq Page
    BY <1>1, PageTypes DEF PageInv, InPool, Group, Pages, Page
<1>3. NoPageShared
  <2>1. \A c, d \in Callers : \A g \in owns[c], h \in owns[d] :
          c # d \/ g # h => Pages(g) \cap Pages(h) = {}
      BY <1>2 DEF PageInv, OwnedOnce
  <2>2. \A g \in Held : Pages(g) \subseteq used_map
      BY <1>2 DEF PageInv, UsedIsOwned, Held
  <2> QED
      BY <2>1, <2>2 DEF NoPageShared
<1>4. NoPageLost
  <2> SUFFICES ASSUME \A c \in Callers : call[c].at = "out"
               PROVE  used_map = UNION { Pages(g) : g \in Held }
      BY DEF NoPageLost
  <2>1. \A c \in Callers : Marked(call[c]) = {}
      BY DEF Marked
  <2>2. \A p \in Page : p \in used_map <=> \E g \in Held : p \in Pages(g)
      BY <2>1 DEF PageInv, UsedIsOwned, Held
  <2>3. used_map \subseteq Page /\ \A g \in Held : Pages(g) \subseteq Page
      BY <1>1, <1>2, PageTypes DEF Held
  <2> QED
      BY <2>2, <2>3
<1> QED
    BY <1>1, <1>3, <1>4 DEF PagesSafe

\* For any number of threads and any size of the pool: no page is given to
\* two owners, none is lost, and palloc_get_multiple returns a null pointer
\* only for want of pages, although palloc_free_multiple takes no lock
\* (palloc.c:67, 80-82, 140-141).
THEOREM PagesStaySafe == PageSpec => []PagesSafe
<1>1. PageSpec => []PageInv
    BY PageInitially, PageStepKeeps, PTL DEF PageSpec
<1> QED
    BY <1>1, PageInvSafe, PTL

-----------------------------------------------------------------------------
(* The allocator implements PagePool: a group is taken at the bitmap_test    *)
(* that finds its last page free, and comes back page by page.               *)

Taking == {"flip", "got"}
Avail == (Page \ used_map) \ UNION { Pages(g) : g \in Taken }

\* Which groups are taken and which pages are not, spelled out ...
LEMMA TakenIs ==
    /\ \A g : g \in Taken <=> \/ \E c \in Callers : g \in owns[c]
                            \/ \E c \in Callers : call[c].at \in Taking /\ g = GroupOf(c)
    /\ \A p : p \in Avail <=> p \in Page /\ p \notin used_map /\ \A g \in Taken : p \notin Pages(g)
  BY DEF Taken, Held, Taking, Avail

\* ... and the same after a step.
LEMMA TakenIsAfter ==
    /\ \A g : g \in Taken' <=> \/ \E c \in Callers : g \in owns'[c]
                             \/ \E c \in Callers : call'[c].at \in Taking /\ g = GroupOf(c)'
    /\ \A p : p \in Avail' <=> /\ p \in Page /\ p \notin used_map'
                             /\ \A g \in Taken' : p \notin Pages(g)
  BY DEF Taken, Held, Taking, Avail, Page, Pages

\* Groups that were given out are all marked; the group of a call is what it
\* has marked and what it has still to mark.
LEMMA TakenPages ==
    ASSUME PageInv
    PROVE  /\ \A c \in Callers : \A g \in owns[c] :
                g \in Group /\ g.first \in Pages(g) /\ Pages(g) \subseteq used_map
           /\ \A c \in Callers : call[c].at \in Taking =>
                /\ pool_lock = c
                /\ GroupOf(c) \in Group
                /\ Pages(GroupOf(c)) = Marked(call[c]) \cup Tested(call[c])
                /\ call[c].first \in Pages(GroupOf(c))
<1>1. ASSUME NEW c \in Callers, NEW g \in owns[c]
      PROVE  g \in Group /\ g.first \in Pages(g) /\ Pages(g) \subseteq used_map
  <2>1. g \in Group /\ g.first + g.cnt <= bit_cnt /\ g.first \in Page /\ g.cnt \in 1..MaxRun
      BY PageTypes DEF PageInv, InPool, Group
  <2>2. g.first \in Pages(g) /\ Pages(g) \subseteq Page
      BY <2>1 DEF Pages, Page
  <2> QED
      BY <2>1, <2>2 DEF PageInv, UsedIsOwned
<1>2. ASSUME NEW c \in Callers, call[c].at \in Taking
      PROVE  /\ pool_lock = c /\ GroupOf(c) \in Group
             /\ Pages(GroupOf(c)) = Marked(call[c]) \cup Tested(call[c])
             /\ call[c].first \in Pages(GroupOf(c))
  <2> DEFINE k == call[c]
  <2>1. /\ k \in CallType /\ GroupOf(c) \in Group
        /\ GroupOf(c).first = k.first /\ GroupOf(c).cnt = k.cnt
      BY PageTypes DEF PageInv, GroupOf
  <2>2. /\ k.first + k.cnt <= bit_cnt /\ pool_lock = c
        /\ k.at = "flip" => k.done < k.cnt
        /\ k.at = "got" => k.done = k.cnt
      BY <1>2 DEF PageInv, InPool, LockHeld, Locking, Taking
  <2> HIDE DEF k
  <2>3. Pages(GroupOf(c)) = Marked(k) \cup Tested(k)
    <3>1. CASE k.at = "flip"
        BY <2>1, <2>2, <3>1 DEF Pages, Marked, Tested, CallType, Page
    <3>2. CASE k.at = "got"
        BY <2>1, <2>2, <3>2 DEF Pages, Marked, Tested, CallType, Page
    <3> QED
        BY <1>2, <3>1, <3>2 DEF k, Taking
  <2>4. k.first \in Pages(GroupOf(c))
      BY <2>1 DEF Pages, CallType, Page
  <2> QED
      BY <2>1, <2>2, <2>3, <2>4 DEF k
<1> QED
    BY <1>1, <1>2

\* A step that takes and gives back nothing shows the pool nothing.
LEMMA NothingTaken ==
    ASSUME PageTypeOK, UNCHANGED owns,
           \A c \in Callers : /\ call'[c].at \in Taking <=> call[c].at \in Taking
                              /\ call[c].at \in Taking => GroupOf(c)' = GroupOf(c)
    PROVE  Taken' = Taken
  BY TakenIs, TakenIsAfter

\* A call that starts takes nothing.
LEMMA GetShowsNothing ==
    ASSUME PageInv, NEW c \in Callers, NEW cnt \in 1..MaxRun, palloc_get_multiple(c, cnt)
    PROVE  Taken' = Taken /\ Avail' = Avail
<1>1. /\ call[c].at = "out" /\ UNCHANGED <<used_map, owns>>
      /\ call'[c].at \in {"scan", "failed"} /\ \A d \in Callers \ {c} : call'[d] = call[d]
    BY PageTypes DEF PageInv, palloc_get_multiple
<1>2. Taken' = Taken
    BY <1>1, NothingTaken DEF PageInv, Taking, GroupOf
<1> QED
    BY <1>1, <1>2, TakenIs, TakenIsAfter

\* A group was taken when it was found, not as it is marked.
LEMMA MarkShowsNothing ==
    ASSUME PageInv, NEW c \in Callers, bitmap_mark(c)
    PROVE  Taken' = Taken /\ Avail' = Avail
<1> DEFINE new == call[c].first + call[c].done
<1>1. /\ call[c].at = "flip" /\ used_map' = used_map \cup {new} /\ UNCHANGED owns
      /\ call'[c].at \in Taking /\ GroupOf(c)' = GroupOf(c)
      /\ \A d \in Callers \ {c} : call'[d] = call[d]
    BY PageTypes DEF PageInv, bitmap_mark, Taking, GroupOf, CallType
<1>2. Taken' = Taken
    BY <1>1, NothingTaken DEF PageInv, Taking, GroupOf
<1>3. new \in Pages(GroupOf(c)) /\ GroupOf(c) \in Taken
    BY <1>1, TakenIs, PageTypes DEF PageInv, InPool, Taking, GroupOf, Pages, CallType, Page
<1> QED
    BY <1>1, <1>2, <1>3, TakenIs, TakenIsAfter

\* A group that is given out was taken before.
LEMMA ReturnShowsNothing ==
    ASSUME PageInv, NEW c \in Callers, palloc_get_returns(c)
    PROVE  Taken' = Taken /\ Avail' = Avail
<1>1. /\ call[c].at \in {"got", "failed"} /\ call'[c].at = "out" /\ UNCHANGED used_map
      /\ owns' = IF call[c].at = "failed" THEN owns
                 ELSE [owns EXCEPT ![c] = @ \cup {GroupOf(c)}]
      /\ \A d \in Callers \ {c} : call'[d] = call[d]
    BY PageTypes DEF PageInv, palloc_get_returns, NoCall
<1>2. CASE call[c].at = "failed"
  <2>1. Taken' = Taken
      BY <1>1, <1>2, NothingTaken DEF PageInv, Taking, GroupOf
  <2> QED
      BY <1>1, <2>1, TakenIs, TakenIsAfter
<1>3. CASE call[c].at = "got"
  <2>1. /\ owns'[c] = owns[c] \cup {GroupOf(c)}
        /\ \A d \in Callers \ {c} : owns'[d] = owns[d] /\ GroupOf(d)' = GroupOf(d)
      BY <1>1, <1>3, PageTypes DEF PageInv, GroupOf
  <2>2. \A g : g \in Taken' <=> g \in Taken
      BY <1>1, <1>3, <2>1, TakenIs, TakenIsAfter DEF Taking
  <2>3. Taken' = Taken
      BY <2>2
  <2> QED
      BY <1>1, <2>3, TakenIs, TakenIsAfter
<1> QED
    BY <1>1, <1>2, <1>3

\* bitmap_test takes the group when it finds its last page free.
LEMMA TestGets ==
    ASSUME PageInv, NEW c \in Callers, bitmap_test(c)
    PROVE  \/ Taken' = Taken /\ Avail' = Avail
           \/ \E g \in Group : /\ Pages(g) \subseteq Avail
                              /\ Avail' = Avail \ Pages(g) /\ Taken' = Taken \cup {g}
<1> DEFINE k == call[c]
<1>1. /\ k.at = "scan" /\ UNCHANGED <<used_map, owns>>
      /\ \A d \in Callers \ {c} : call'[d] = call[d] /\ GroupOf(d)' = GroupOf(d)
    BY PageTypes DEF PageInv, bitmap_test, GroupOf
<1>2. CASE inUse(k.first + k.done) \/ k.done + 1 < k.cnt
  <2>1. call'[c].at \in {"scan", "failed"}
      BY <1>1, <1>2, PageTypes DEF PageInv, bitmap_test, CallType
  <2>2. Taken' = Taken
      BY <1>1, <2>1, NothingTaken DEF PageInv, Taking
  <2> QED
      BY <1>1, <2>2, TakenIs, TakenIsAfter
<1>3. CASE ~inUse(k.first + k.done) /\ ~(k.done + 1 < k.cnt)
  <2> DEFINE g == GroupOf(c)
  <2>1. /\ call'[c].at = "flip" /\ GroupOf(c)' = g
        /\ g \in Group /\ g.first = k.first /\ g.cnt = k.cnt
      BY <1>1, <1>3, PageTypes DEF PageInv, bitmap_test, CallType, GroupOf
  <2>2. k \in CallType /\ k.first + k.cnt <= bit_cnt /\ k.done < k.cnt /\ pool_lock = c
      BY <1>1, PageTypes DEF PageInv, InPool, LockHeld, Locking
  <2> HIDE DEF g
  <2>3. \A p \in Pages(g) : p \in Page /\ (p \in Tested(k) \/ p = k.first + k.done)
      BY <1>1, <1>3, <2>1, <2>2 DEF Pages, Tested, CallType, Page
  <2>4. \A p \in Pages(g) : p \in Page /\ p \notin used_map
      BY <1>3, <2>3 DEF PageInv, TestedIsFree, inUse
  <2>5. \A d \in Callers : call[d].at \notin Taking
      BY <1>1, <2>2 DEF PageInv, LockHeld, Locking, Taking
  <2>6. \A h \in Taken : Pages(h) \subseteq used_map
      BY <2>5, TakenIs, TakenPages
  <2>7. Pages(g) \subseteq Avail
      BY <2>4, <2>6, TakenIs
  <2>8. \A h : h \in Taken' <=> h \in Taken \/ h = g
      BY <1>1, <2>1, <2>5, TakenIs, TakenIsAfter DEF Taking
  <2>9. Taken' = Taken \cup {g}
      BY <2>8
  <2>10. Avail' = Avail \ Pages(g)
      BY <1>1, <2>9, TakenIs, TakenIsAfter
  <2> QED
      BY <2>1, <2>7, <2>9, <2>10
<1> QED
    BY <1>2, <1>3

\* A group is given back when a call starts to free it.
LEMMA FreeGivesBack ==
    ASSUME PageInv, NEW c \in Callers, NEW g \in owns[c], palloc_free_multiple(c, g)
    PROVE  g \in Taken /\ Taken' = Taken \ {g} /\ Avail' = Avail
<1>1. /\ call[c].at = "out" /\ call'[c].at = "clear" /\ UNCHANGED used_map
      /\ owns'[c] = owns[c] \ {g}
      /\ \A d \in Callers \ {c} : /\ owns'[d] = owns[d] /\ call'[d] = call[d]
                                 /\ GroupOf(d)' = GroupOf(d)
    BY PageTypes DEF PageInv, palloc_free_multiple, GroupOf, NoCall
<1>2. g \in Group /\ g.first \in Page /\ g.first \in Pages(g) /\ Pages(g) \subseteq used_map
    BY TakenPages DEF Group
<1>3. \A d \in Callers \ {c} : g \notin owns[d]
    BY <1>2 DEF PageInv, OwnedOnce
<1>4. \A d \in Callers : call[d].at \in Taking => GroupOf(d) # g
  <2> SUFFICES ASSUME NEW d \in Callers, call[d].at \in Taking, GroupOf(d) = g PROVE FALSE
      OBVIOUS
  <2>1. g.first \in Marked(call[d]) \/ g.first \in Tested(call[d])
      BY <1>2, TakenPages
  <2> QED
      BY <1>2, <2>1 DEF PageInv, OwnedOnce, TestedIsFree
<1>5. \A h : h \in Taken' <=> h \in Taken /\ h # g
    BY <1>1, <1>3, <1>4, TakenIs, TakenIsAfter DEF Taking
<1>6. g \in Taken /\ Taken' = Taken \ {g}
    BY <1>5, TakenIs
<1> QED
    BY <1>1, <1>2, <1>6, TakenIs, TakenIsAfter

\* A page is there to be taken again when its bit is cleared.
LEMMA ResetReclaims ==
    ASSUME PageInv, NEW c \in Callers, bitmap_reset(c)
    PROVE  \E p \in Page : /\ p \notin UNION { Pages(g) : g \in Taken }
                          /\ Avail' = Avail \cup {p} /\ Taken' = Taken
<1> DEFINE k == call[c]
           p == k.first + k.done
<1>1. /\ k.at = "clear" /\ used_map' = used_map \ {p} /\ UNCHANGED owns
      /\ call'[c].at \in {"clear", "out"}
      /\ \A d \in Callers \ {c} : call'[d] = call[d] /\ GroupOf(d)' = GroupOf(d)
    BY PageTypes DEF PageInv, bitmap_reset, afterReset, NoCall, GroupOf, CallType
<1>2. Taken' = Taken
    BY <1>1, NothingTaken DEF PageInv, Taking
<1>3. p \in Page /\ p \in Marked(k)
    BY <1>1, PageTypes DEF PageInv, InPool, Marked, CallType, Page
<1> HIDE DEF p
<1>4. \A g \in Taken : p \notin Pages(g)
  <2> SUFFICES ASSUME NEW g \in Taken, p \in Pages(g) PROVE FALSE
      OBVIOUS
  <2>1. CASE \E d \in Callers : g \in owns[d]
      BY <1>3, <2>1 DEF PageInv, OwnedOnce
  <2>2. CASE \E d \in Callers : call[d].at \in Taking /\ g = GroupOf(d)
    <3>1. PICK d \in Callers : call[d].at \in Taking /\ g = GroupOf(d)
        BY <2>2
    <3>2. p \in Marked(call[d]) \/ p \in Tested(call[d])
        BY <3>1, TakenPages
    <3>3. p \in used_map
        BY <1>3 DEF PageInv, UsedIsOwned
    <3>4. d # c
        BY <1>1, <3>1 DEF Taking
    <3> QED
        BY <1>3, <3>2, <3>3, <3>4 DEF PageInv, OwnedOnce, TestedIsFree
  <2> QED
      BY <2>1, <2>2, TakenIs
<1>5. Avail' = Avail \cup {p}
    BY <1>1, <1>2, <1>3, <1>4, TakenIs, TakenIsAfter
<1> QED
    BY <1>2, <1>3, <1>4, <1>5

\* Initially nothing is taken.
LEMMA PoolInitially == PageInit => Pool!PoolInit
<1> SUFFICES ASSUME PageInit PROVE Taken = {} /\ Avail = Page
    BY DEF Pool!PoolInit, Avail
<1>1. \A c \in Callers : owns[c] = {} /\ call[c].at \notin Taking
    BY DEF PageInit, NoCall, Taking
<1>2. Taken = {}
    BY <1>1, TakenIs
<1> QED
    BY <1>2, TakenIs DEF PageInit

\* Every step is a step of the pool, or shows it nothing.
LEMMA PoolStep == PageInv /\ [PageNext]_pageVars => [Pool!PoolNext]_<<Avail, Taken>>
<1> SUFFICES ASSUME PageInv, [PageNext]_pageVars
             PROVE  Pool!PoolNext \/ (Taken' = Taken /\ Avail' = Avail)
    OBVIOUS
<1>1. ASSUME NEW c \in Callers, NEW cnt \in 1..MaxRun, palloc_get_multiple(c, cnt)
      PROVE  Taken' = Taken /\ Avail' = Avail
    BY <1>1, GetShowsNothing
<1>2. ASSUME NEW c \in Callers, bitmap_test(c)
      PROVE  Pool!PoolNext \/ (Taken' = Taken /\ Avail' = Avail)
    BY <1>2, TestGets DEF Pool!PoolNext, Pool!Get, Avail
<1>3. ASSUME NEW c \in Callers, bitmap_mark(c) PROVE Taken' = Taken /\ Avail' = Avail
    BY <1>3, MarkShowsNothing
<1>4. ASSUME NEW c \in Callers, palloc_get_returns(c) PROVE Taken' = Taken /\ Avail' = Avail
    BY <1>4, ReturnShowsNothing
<1>5. ASSUME NEW c \in Callers, NEW g \in owns[c], palloc_free_multiple(c, g)
      PROVE  Pool!PoolNext
    BY <1>5, FreeGivesBack DEF Pool!PoolNext, Pool!GiveBack, Avail
<1>6. ASSUME NEW c \in Callers, bitmap_reset(c) PROVE Pool!PoolNext
    BY <1>6, ResetReclaims DEF Pool!PoolNext, Pool!Reclaim, Avail
<1>7. CASE UNCHANGED pageVars
    BY <1>7 DEF pageVars, Taken, Held, GroupOf, Avail, Page, Pages
<1> QED
    BY <1>1, <1>2, <1>3, <1>4, <1>5, <1>6, <1>7 DEF PageNext

\* For any number of threads and any size of the pool, the search under the
\* lock, the bits set one by one and the freeing without the lock look like a
\* pool that gives out a group in one step and takes its pages back.
THEOREM PoolImplemented == PageSpec => ImplementsPool
<1>1. PageSpec => []PageInv
    BY PageInitially, PageStepKeeps, PTL DEF PageSpec
<1>2. PageInv /\ [PageNext]_pageVars
        => [Pool!PoolNext]_<<(Page \ used_map) \ UNION { Pages(g) : g \in Taken }, Taken>>
    BY PoolStep DEF Avail
<1> QED
    BY <1>1, <1>2, PoolInitially, PTL DEF PageSpec, ImplementsPool, Pool!PoolSpec

-----------------------------------------------------------------------------
(* The argument stack.                                                       *)

OnStackPage == StackTop - StackSize..StackTop

\* All pieces are at an address or above it.
Above(s, bottom) == \A q \in s : q.at \in Int /\ q.size \in Nat /\ bottom <= q.at

\* Every token that was copied is where argv says.
TokensThere ==
    \A i \in 1..argc : /\ argv[i] \in OnStackPage
                       /\ Piece(argv[i], args[i] + 1, i) \in stack

\* argv has an entry for every token and, once they are all there, a null
\* pointer; while tokens come, its block has room for one more.
ArgvIs ==
    /\ Len(argv) <= argv_size
    /\ phase = "tokens" => Len(argv) = argc /\ argc < argv_size
    /\ phase \in {"pointers", "frame", "done"} =>
         Len(argv) = argc + 1 /\ argv[argc + 1] = NullPointer

\* argv is on the stack from an address on, ...
ArgvAt(table) ==
    \A i \in 1..argc + 1 :
       Piece(table + SizeOfPointer * (i - 1), SizeOfPointer, argv[i]) \in stack

\* ... where main will look for it.
FrameThere ==
    /\ phase = "frame" => ArgvAt(esp)
    /\ phase = "done" =>
         /\ esp + 3 * SizeOfPointer \in OnStackPage /\ ArgvAt(esp + 3 * SizeOfPointer)
         /\ Piece(esp + SizeOfPointer, SizeOfPointer, argc) \in stack
         /\ Piece(esp + 2 * SizeOfPointer, SizeOfPointer, esp + 3 * SizeOfPointer) \in stack

\* The variables have their types.
ArgTypeOK ==
    /\ line \in Seq(Nat) /\ args \in Seq(Nat) /\ argv \in Seq(Int) /\ argv_size \in Nat
    /\ esp \in OnStackPage
    /\ phase \in {"tokens", "pointers", "frame", "done", "fault"}

\* The inductive invariant.
ArgInv ==
    /\ ArgTypeOK /\ ArgvIs /\ Above(stack, esp)
    /\ phase # "fault" => TokensThere
    /\ FrameThere

\* What the constants are, for the provers that do not see the assumption.
LEMMA ConstantsOfStack ==
    /\ StackTop \in Nat /\ StackSize \in Nat /\ WORD_SIZE \in Nat \ {0}
    /\ ARGV_COUNTER \in Nat \ {0} /\ SizeOfPointer = 4 /\ NullPointer = 0
BY ArgAssumption DEF SizeOfPointer, NullPointer

\* A copy below what is on the stack destroys nothing.
LEMMA CopyBelow ==
    ASSUME NEW s, NEW b \in Int, Above(s, b),
           NEW p, p.at \in Int, p.size \in Nat, p.at + p.size <= b
    PROVE  copied(s, p) = s \cup {p} /\ Above(s \cup {p}, p.at)
<1>1. \A q \in s : BytesOf(q) \cap BytesOf(p) = {}
  <2> SUFFICES ASSUME NEW q \in s, NEW x \in BytesOf(q), x \in BytesOf(p) PROVE FALSE
    OBVIOUS
  <2>1. q.at \in Int /\ q.size \in Nat /\ b <= q.at
    BY DEF Above
  <2>2. x \in q.at..q.at + q.size - 1 /\ x \in p.at..p.at + p.size - 1
    BY DEF BytesOf
  <2>3. QED BY <2>1, <2>2
<1>2. copied(s, p) = s \cup {p}
  BY <1>1 DEF copied
<1>3. Above(s \cup {p}, p.at)
  <2> SUFFICES ASSUME NEW q \in s \cup {p}
               PROVE  q.at \in Int /\ q.size \in Nat /\ p.at <= q.at
    BY DEF Above
  <2>1. CASE q \in s
    <3>1. q.at \in Int /\ q.size \in Nat /\ b <= q.at
      BY <2>1 DEF Above
    <3>2. QED BY <3>1
  <2>2. CASE q = p
    BY <2>2
  <2>3. QED BY <2>1, <2>2
<1>4. QED BY <1>2, <1>3

\* pushes goes on to the next phase with the pieces, or faults.
LEMMA Pushed ==
    ASSUME ArgInv, NEW pieces, NEW bottom \in Int, bottom <= esp, NEW next,
           pushes(pieces, bottom, next)
    PROVE  \/ phase' = "fault" /\ esp' = esp /\ stack' = stack
           \/ /\ phase' = next /\ esp' = bottom /\ stack' = pieces
              /\ bottom \in OnStackPage
<1>1. esp \in StackTop - StackSize..StackTop /\ StackTop \in Nat /\ StackSize \in Nat
  BY ConstantsOfStack DEF ArgInv, ArgTypeOK, OnStackPage
<1>2. CASE Mapped(bottom)
  BY <1>1, <1>2 DEF pushes, Mapped, OnStackPage
<1>3. CASE ~Mapped(bottom)
  BY <1>3 DEF pushes
<1>4. QED BY <1>2, <1>3

\* After a fault there is only the bound on argv to keep.
LEMMA FaultKeeps ==
    ASSUME ArgInv, phase' = "fault", esp' = esp, stack' = stack,
           line' \in Seq(Nat), args' \in Seq(Nat), argv' \in Seq(Int), argv_size' \in Nat,
           Len(argv') <= argv_size'
    PROVE  ArgInv'
<1>1. ArgTypeOK' /\ ArgvIs' /\ FrameThere'
  BY DEF ArgInv, ArgTypeOK, ArgvIs, FrameThere, OnStackPage
<1>2. Above(stack, esp)'
  BY DEF ArgInv, Above
<1>3. QED BY <1>1, <1>2 DEF ArgInv

\* A token goes below what is there; its address goes to the end of argv, whose
\* block is made larger in time.
LEMMA TokenKeeps == ASSUME ArgInv, push_token PROVE ArgInv'
<1> DEFINE len == Head(line)
           at == token_bottom(len)
           p == Piece(at, len + 1, argc + 1)
<1>1. /\ phase = "tokens" /\ line # <<>>
      /\ line' = Tail(line) /\ args' = Append(args, len) /\ argv' = Append(argv, at)
      /\ argv_size' = grown(argv_size, argc + 1)
      /\ pushes(copied(stack, p), at, "tokens")
  BY DEF push_token
<1>2. /\ line \in Seq(Nat) /\ args \in Seq(Nat) /\ argv \in Seq(Int) /\ argv_size \in Nat
      /\ esp \in OnStackPage /\ esp \in Int
      /\ Len(argv) = argc /\ argc < argv_size /\ argc \in Nat /\ argc = Len(args)
      /\ Above(stack, esp) /\ TokensThere
  BY <1>1, ConstantsOfStack DEF ArgInv, ArgTypeOK, ArgvIs, OnStackPage, argc
<1>3. len \in Nat /\ line' \in Seq(Nat) /\ args' \in Seq(Nat)
  BY <1>1, <1>2
<1>4. at \in Int /\ at = esp - (len + 1) /\ at <= esp
  BY <1>2, <1>3 DEF token_bottom
<1> HIDE DEF len, at
<1>5. /\ copied(stack, p) = stack \cup {p} /\ Above(stack \cup {p}, at)
  <2>1. p.at = at /\ p.size = len + 1 /\ len + 1 \in Nat /\ at + (len + 1) <= esp
    BY <1>2, <1>3, <1>4 DEF Piece
  <2> HIDE DEF p
  <2>2. p.at \in Int /\ p.size \in Nat /\ p.at + p.size <= esp /\ esp \in Int
    BY <1>2, <1>4, <2>1
  <2>3. copied(stack, p) = stack \cup {p} /\ Above(stack \cup {p}, p.at)
    BY <1>2, <2>2, CopyBelow
  <2>4. QED BY <2>1, <2>3
<1>6. /\ argv' \in Seq(Int) /\ Len(argv') = argc + 1 /\ argc' = argc + 1
      /\ argv_size' \in Nat /\ argc + 1 < argv_size'
      /\ \A i \in 1..argc : argv'[i] = argv[i] /\ args'[i] = args[i]
      /\ argv'[argc + 1] = at /\ args'[argc + 1] = len
  BY <1>1, <1>2, <1>3, <1>4 DEF grown, argc
<1> HIDE DEF p
<1>7. CASE phase' = "fault" /\ esp' = esp /\ stack' = stack
  BY <1>2, <1>3, <1>6, <1>7, FaultKeeps
<1>8. CASE /\ phase' = "tokens" /\ esp' = at /\ stack' = stack \cup {p}
           /\ at \in OnStackPage
  <2>1. ArgTypeOK'
    BY <1>3, <1>6, <1>8 DEF ArgTypeOK, OnStackPage
  <2>2. ArgvIs' /\ FrameThere'
    BY <1>2, <1>6, <1>8 DEF ArgvIs, FrameThere
  <2>3. Above(stack, esp)'
    BY <1>5, <1>8 DEF Above
  <2>4. TokensThere'
    <3> SUFFICES ASSUME NEW i \in 1..argc + 1
                 PROVE  /\ argv'[i] \in OnStackPage
                        /\ Piece(argv'[i], args'[i] + 1, i) \in stack'
      BY <1>6 DEF TokensThere, OnStackPage, Piece
    <3>1. CASE i \in 1..argc
      BY <1>2, <1>6, <1>8, <3>1 DEF TokensThere
    <3>2. CASE i = argc + 1
      BY <1>6, <1>8, <3>2 DEF p
    <3>3. QED BY <1>2, <3>1, <3>2
  <2>5. QED BY <2>1, <2>2, <2>3, <2>4 DEF ArgInv
<1>9. QED BY <1>1, <1>4, <1>5, <1>7, <1>8, Pushed

\* So does the padding, and argv ends with its null pointer.
LEMMA PadKeeps == ASSUME ArgInv, pad PROVE ArgInv'
<1> DEFINE at == esp - padding
           p == Piece(at, padding, NullPointer)
<1>1. /\ phase = "tokens" /\ argv' = Append(argv, NullPointer)
      /\ pushes(copied(stack, p), at, "pointers")
      /\ line' = line /\ args' = args /\ argv_size' = argv_size
  BY DEF pad
<1>2. /\ line \in Seq(Nat) /\ args \in Seq(Nat) /\ argv \in Seq(Int) /\ argv_size \in Nat
      /\ esp \in OnStackPage /\ esp \in Int
      /\ Len(argv) = argc /\ argc < argv_size /\ argc \in Nat /\ argc = Len(args)
      /\ Above(stack, esp) /\ TokensThere
  BY <1>1, ConstantsOfStack DEF ArgInv, ArgTypeOK, ArgvIs, OnStackPage, argc
<1>3. padding \in Nat /\ at \in Int /\ at <= esp /\ at + padding = esp
  BY <1>2, ConstantsOfStack DEF padding
<1> HIDE DEF at
<1>4. /\ copied(stack, p) = stack \cup {p} /\ Above(stack \cup {p}, at)
  <2>1. p.at = at /\ p.size = padding /\ at + padding <= esp
    BY <1>2, <1>3 DEF Piece
  <2> HIDE DEF p
  <2>2. QED BY <1>2, <1>3, <2>1, CopyBelow
<1>5. /\ argv' \in Seq(Int) /\ Len(argv') = argc + 1 /\ argc' = argc
      /\ \A i \in 1..argc : argv'[i] = argv[i]
      /\ argv'[argc + 1] = NullPointer
  BY <1>1, <1>2, ConstantsOfStack DEF argc
<1> HIDE DEF p
<1>6. CASE phase' = "fault" /\ esp' = esp /\ stack' = stack
  BY <1>1, <1>2, <1>5, <1>6, FaultKeeps
<1>7. CASE /\ phase' = "pointers" /\ esp' = at /\ stack' = stack \cup {p}
           /\ at \in OnStackPage
  <2>1. ArgTypeOK'
    BY <1>1, <1>2, <1>5, <1>7 DEF ArgTypeOK, OnStackPage
  <2>2. ArgvIs' /\ FrameThere'
    BY <1>1, <1>2, <1>5, <1>7 DEF ArgvIs, FrameThere
  <2>3. Above(stack, esp)'
    BY <1>4, <1>7 DEF Above
  <2>4. TokensThere'
    <3> SUFFICES ASSUME NEW i \in 1..argc
                 PROVE  /\ argv'[i] \in OnStackPage
                        /\ Piece(argv'[i], args[i] + 1, i) \in stack'
      BY <1>1, <1>5 DEF TokensThere, OnStackPage, Piece
    <3>1. QED BY <1>2, <1>5, <1>7 DEF TokensThere
  <2>5. QED BY <2>1, <2>2, <2>3, <2>4 DEF ArgInv
<1>8. QED BY <1>1, <1>3, <1>4, <1>6, <1>7, Pushed

\* The pointers go below, next to each other, argv[0] lowest.
LEMMA ArgvKeeps == ASSUME ArgInv, push_argv PROVE ArgInv'
<1> DEFINE n == Len(argv)
           base == esp - SizeOfPointer * n
           word(i) == Piece(base + SizeOfPointer * (i - 1), SizeOfPointer, argv[i])
           words == { word(i) : i \in DOMAIN argv }
           pieces == { q \in stack : \A w \in words : BytesOf(q) \cap BytesOf(w) = {} }
                       \cup words
<1>1. /\ phase = "pointers" /\ pushes(pieces, base, "frame")
      /\ line' = line /\ args' = args /\ argv' = argv /\ argv_size' = argv_size
  BY DEF push_argv
<1>2. /\ esp \in OnStackPage /\ esp \in Int /\ argv \in Seq(Int)
      /\ Len(argv) = argc + 1 /\ argc \in Nat
      /\ Above(stack, esp) /\ TokensThere /\ ArgTypeOK /\ ArgvIs
      /\ argv[argc + 1] = NullPointer
  BY <1>1, ConstantsOfStack DEF ArgInv, ArgTypeOK, ArgvIs, OnStackPage, argc
<1>3. base \in Int /\ base <= esp /\ base = esp - 4 * n /\ n \in Nat /\ DOMAIN argv = 1..n
  BY <1>2, ConstantsOfStack
<1> HIDE DEF base
<1>4. ASSUME NEW i \in DOMAIN argv
      PROVE  /\ word(i).at \in Int /\ word(i).size = 4 /\ base <= word(i).at
             /\ word(i).at + 4 <= esp
  <2>1. word(i).at = base + 4 * (i - 1) /\ word(i).size = 4
    BY ConstantsOfStack DEF Piece
  <2> HIDE DEF word, n
  <2>2. i \in 1..n /\ n \in Nat /\ base \in Int /\ esp \in Int /\ base = esp - 4 * n
    BY <1>2, <1>3
  <2>3. QED BY <2>1, <2>2
<1> HIDE DEF word
<1>5. \A q \in stack : \A w \in words : BytesOf(q) \cap BytesOf(w) = {}
  <2> SUFFICES ASSUME NEW q \in stack, NEW i \in DOMAIN argv, NEW x \in BytesOf(q),
                      x \in BytesOf(word(i))
               PROVE  FALSE
    OBVIOUS
  <2>1. q.at \in Int /\ q.size \in Nat /\ esp <= q.at
    BY <1>2 DEF Above
  <2>2. x \in q.at..q.at + q.size - 1 /\ x \in word(i).at..word(i).at + word(i).size - 1
    BY DEF BytesOf
  <2>3. QED BY <1>2, <1>4, <2>1, <2>2, SMTT(30)
<1>6. pieces = stack \cup words
  BY <1>5
<1>7. Above(stack \cup words, base)
  <2> SUFFICES ASSUME NEW q \in stack \cup words
               PROVE  q.at \in Int /\ q.size \in Nat /\ base <= q.at
    BY DEF Above
  <2>1. CASE q \in stack
    <3>1. q.at \in Int /\ q.size \in Nat /\ esp <= q.at
      BY <1>2, <2>1 DEF Above
    <3>2. QED BY <1>2, <1>3, <3>1
  <2>2. CASE q \in words
    BY <1>4, <2>2
  <2>3. QED BY <2>1, <2>2
<1>8. \A i \in 1..argc + 1 :
         Piece(base + SizeOfPointer * (i - 1), SizeOfPointer, argv[i]) \in words
  BY <1>2, <1>3 DEF word
<1> HIDE DEF words, pieces, n
<1>9. CASE phase' = "fault" /\ esp' = esp /\ stack' = stack
  BY <1>1, <1>2, <1>9, FaultKeeps DEF ArgTypeOK, ArgvIs
<1>10. CASE phase' = "frame" /\ esp' = base /\ stack' = pieces /\ base \in OnStackPage
  <2>1. argc' = argc
    BY <1>1 DEF argc
  <2>2. ArgTypeOK' /\ ArgvIs'
    BY <1>1, <1>2, <1>10, <2>1 DEF ArgTypeOK, ArgvIs, OnStackPage
  <2>3. Above(stack, esp)'
    BY <1>6, <1>7, <1>10 DEF Above
  <2>4. TokensThere'
    BY <1>1, <1>2, <1>6, <1>10, <2>1 DEF TokensThere, OnStackPage, Piece
  <2>5. FrameThere'
    <3>1. \A i \in 1..argc + 1 :
             Piece(base + SizeOfPointer * (i - 1), SizeOfPointer, argv[i]) \in stack'
      BY <1>6, <1>8, <1>10
    <3>2. QED
      BY <1>1, <1>10, <2>1, <3>1 DEF FrameThere, ArgvAt, Piece, SizeOfPointer
  <2>6. QED BY <2>2, <2>3, <2>4, <2>5 DEF ArgInv
<1>11. QED BY <1>1, <1>3, <1>9, <1>10, Pushed

\* So do argv, argc and the return address, which make the frame of main.
LEMMA FrameKeeps == ASSUME ArgInv, push_frame PROVE ArgInv'
<1> DEFINE p == Piece(esp - 4, 4, esp)
           q == Piece(esp - 8, 4, argc)
           r == Piece(esp - 12, 4, NullPointer)
           pieces == copied(copied(copied(stack, p), q), r)
<1>1. /\ phase = "frame" /\ pushes(pieces, esp - 12, "done")
      /\ line' = line /\ args' = args /\ argv' = argv /\ argv_size' = argv_size
  BY DEF push_frame, SizeOfPointer
<1>2. /\ esp \in OnStackPage /\ esp \in Int /\ argc \in Nat
      /\ Above(stack, esp) /\ TokensThere /\ ArgTypeOK /\ ArgvIs /\ ArgvAt(esp)
  BY <1>1, ConstantsOfStack DEF ArgInv, ArgTypeOK, OnStackPage, argc, FrameThere
<1>3. copied(stack, p) = stack \cup {p} /\ Above(stack \cup {p}, esp - 4)
  <2>1. /\ p.at = esp - 4 /\ p.size = 4 /\ p.size \in Nat
        /\ p.at \in Int /\ p.at + p.size <= esp
    BY <1>2 DEF Piece
  <2> HIDE DEF p
  <2>2. copied(stack, p) = stack \cup {p} /\ Above(stack \cup {p}, p.at)
    BY <1>2, <2>1, CopyBelow
  <2>3. QED BY <2>1, <2>2
<1> DEFINE s == stack \cup {p}
<1> HIDE DEF s
<1>4. copied(s, q) = s \cup {q} /\ Above(s \cup {q}, esp - 8)
  <2>1. /\ q.at = esp - 8 /\ q.size = 4 /\ q.size \in Nat
        /\ q.at \in Int /\ q.at + q.size <= esp - 4
    BY <1>2 DEF Piece
  <2>2. esp - 4 \in Int /\ Above(s, esp - 4)
    BY <1>2, <1>3 DEF s
  <2> HIDE DEF q
  <2>3. copied(s, q) = s \cup {q} /\ Above(s \cup {q}, q.at)
    BY <2>1, <2>2, CopyBelow
  <2>4. QED BY <2>1, <2>3
<1> DEFINE u == s \cup {q}
<1> HIDE DEF u
<1>5. copied(u, r) = u \cup {r} /\ Above(u \cup {r}, esp - 12)
  <2>1. /\ r.at = esp - 12 /\ r.size = 4 /\ r.size \in Nat
        /\ r.at \in Int /\ r.at + r.size <= esp - 8
    BY <1>2 DEF Piece
  <2>2. esp - 8 \in Int /\ Above(u, esp - 8)
    BY <1>2, <1>4 DEF u
  <2> HIDE DEF r
  <2>3. copied(u, r) = u \cup {r} /\ Above(u \cup {r}, r.at)
    BY <2>1, <2>2, CopyBelow
  <2>4. QED BY <2>1, <2>3
<1>6. pieces = stack \cup {p, q, r} /\ Above(pieces, esp - 12)
  BY <1>3, <1>4, <1>5 DEF u, s
<1> HIDE DEF p, q, r, pieces
<1>7. esp - 12 \in Int /\ esp - 12 <= esp
  BY <1>2
<1>8. CASE phase' = "fault" /\ esp' = esp /\ stack' = stack
  BY <1>1, <1>2, <1>8, FaultKeeps DEF ArgTypeOK, ArgvIs
<1>9. CASE /\ phase' = "done" /\ esp' = esp - 12 /\ stack' = pieces
           /\ esp - 12 \in OnStackPage
  <2>1. argc' = argc
    BY <1>1 DEF argc
  <2>2. ArgTypeOK' /\ ArgvIs'
    BY <1>1, <1>2, <1>9, <2>1 DEF ArgTypeOK, ArgvIs, OnStackPage, ArgInv
  <2>3. Above(stack, esp)'
    BY <1>6, <1>9 DEF Above
  <2>4. TokensThere'
    BY <1>1, <1>2, <1>6, <1>9, <2>1 DEF TokensThere, OnStackPage, Piece
  <2>5. esp' + 12 = esp /\ esp' + 4 = esp - 8 /\ esp' + 8 = esp - 4
    BY <1>2, <1>9
  <2>6. \A i \in 1..argc + 1 : Piece(esp + 4 * (i - 1), 4, argv[i]) \in stack'
    BY <1>2, <1>6, <1>9 DEF ArgvAt, SizeOfPointer
  <2>7. p \in stack' /\ q \in stack'
    BY <1>6, <1>9
  <2>8. FrameThere'
    <3>1. esp' + 3 * SizeOfPointer = esp /\ esp' + 2 * SizeOfPointer = esp - 4
          /\ esp' + SizeOfPointer = esp - 8 /\ SizeOfPointer = 4
      BY <2>5, <1>2, <1>9 DEF SizeOfPointer
    <3>2. \A i \in 1..argc + 1 :
             Piece(esp' + 3 * SizeOfPointer + SizeOfPointer * (i - 1), SizeOfPointer,
                   argv'[i]) \in stack'
      BY <1>1, <2>6, <3>1
    <3>3. esp \in OnStackPage'
      BY <1>2 DEF OnStackPage
    <3>4. Piece(esp' + SizeOfPointer, SizeOfPointer, argc) \in stack'
      BY <2>7, <3>1 DEF q
    <3>5. Piece(esp' + 2 * SizeOfPointer, SizeOfPointer, esp' + 3 * SizeOfPointer)
            \in stack'
      BY <2>7, <3>1 DEF p
    <3>6. QED
      BY <1>9, <2>1, <3>1, <3>2, <3>3, <3>4, <3>5
         DEF FrameThere, ArgvAt, OnStackPage, SizeOfPointer, Piece
  <2>9. QED BY <2>2, <2>3, <2>4, <2>8 DEF ArgInv
<1>10. QED BY <1>1, <1>7, <1>8, <1>9, Pushed

\* The invariant holds of an empty stack, ...
LEMMA InitArg == ArgInit => ArgInv
<1> SUFFICES ASSUME ArgInit PROVE ArgInv
  OBVIOUS
<1>1. /\ line \in Seq(Nat) /\ args = <<>> /\ argv = <<>> /\ argv_size = ARGV_COUNTER
      /\ esp = StackTop /\ stack = {} /\ phase = "tokens"
  BY ArgAssumption DEF ArgInit
<1>2. argc = 0 /\ Len(argv) = 0
  BY <1>1 DEF argc
<1>3. ArgTypeOK
  BY <1>1, ConstantsOfStack DEF ArgTypeOK, OnStackPage
<1>4. ArgvIs /\ Above(stack, esp) /\ TokensThere /\ FrameThere
  BY <1>1, <1>2, ConstantsOfStack DEF ArgvIs, Above, TokensThere, FrameThere
<1>5. QED BY <1>3, <1>4 DEF ArgInv

\* ... after every step, ...
LEMMA NextArg == ArgInv /\ [ArgNext]_argVars => ArgInv'
<1> SUFFICES ASSUME ArgInv, [ArgNext]_argVars PROVE ArgInv'
  OBVIOUS
<1>1. CASE ArgNext
  BY <1>1, TokenKeeps, PadKeeps, ArgvKeeps, FrameKeeps DEF ArgNext
<1>2. CASE UNCHANGED argVars
  BY <1>2 DEF argVars, ArgInv, ArgTypeOK, ArgvIs, Above, TokensThere, FrameThere, ArgvAt,
     argc, OnStackPage, Piece, SizeOfPointer
<1>3. QED BY <1>1, <1>2

\* ... and what main reads follows from it.
LEMMA ArgInvIsSafe == ArgInv => ArgsSafe
<1> SUFFICES ASSUME ArgInv PROVE ArgsSafe
  OBVIOUS
<1>1. ArgvInBounds
  BY DEF ArgInv, ArgvIs, ArgvInBounds
<1>2. ASSUME phase = "done"
      PROVE  /\ Finds(esp + SizeOfPointer, SizeOfPointer, argc)
             /\ Finds(esp + 2 * SizeOfPointer, SizeOfPointer, esp + 3 * SizeOfPointer)
             /\ \A i \in 1..argc : \E a \in StackTop - StackSize..StackTop :
                  /\ Finds(esp + 3 * SizeOfPointer + SizeOfPointer * (i - 1),
                           SizeOfPointer, a)
                  /\ Finds(a, args[i] + 1, i)
             /\ Finds(esp + 3 * SizeOfPointer + SizeOfPointer * argc,
                      SizeOfPointer, NullPointer)
             /\ esp + 3 * SizeOfPointer \in StackTop - StackSize..StackTop
  <2> DEFINE table == esp + 3 * SizeOfPointer
  <2>1. /\ table \in OnStackPage /\ ArgvAt(table) /\ argc \in Nat
        /\ Finds(esp + SizeOfPointer, SizeOfPointer, argc)
        /\ Finds(esp + 2 * SizeOfPointer, SizeOfPointer, table)
        /\ TokensThere /\ argv[argc + 1] = NullPointer
    BY <1>2 DEF ArgInv, FrameThere, Finds, ArgvIs, ArgTypeOK, argc
  <2> HIDE DEF table
  <2>2. \A i \in 1..argc : /\ argv[i] \in OnStackPage
                           /\ Finds(table + SizeOfPointer * (i - 1), SizeOfPointer, argv[i])
                           /\ Finds(argv[i], args[i] + 1, i)
    BY <2>1 DEF TokensThere, ArgvAt, Finds
  <2>3. Finds(table + SizeOfPointer * argc, SizeOfPointer, NullPointer)
    <3>1. argc + 1 \in 1..argc + 1 /\ argc + 1 - 1 = argc
      BY <2>1
    <3>2. QED BY <2>1, <3>1 DEF ArgvAt, Finds
  <2>4. QED BY <2>1, <2>2, <2>3 DEF table, OnStackPage
<1>3. ArgsReadBack
  BY <1>2 DEF ArgsReadBack
<1>4. QED BY <1>1, <1>3 DEF ArgsSafe

\* main finds its arguments, whatever the command line, the size of the page,
\* the word size and the size of argv's first block (process.c:439-497).
THEOREM ArgumentsArrive == ArgSpec => []ArgsSafe
<1>1. QED BY InitArg, NextArg, ArgInvIsSafe, PTL DEF ArgSpec

HIDE PagesAssumption

-----------------------------------------------------------------------------
(* Address spaces.  The inductive invariant.                                 *)

\* The types of the variables; a table of a directory, and a page of a table,
\* may be missing.
Partial(S, T) == UNION { [D -> T] : D \in SUBSET S }
Stages == {"none", "load", "header", "phdr", "segment", "install", "stack", "loaded",
           "loaded_not", "user", "exit", "activate", "destroy", "dying"}
MaybePage == KernelFrame \cup {None}
Todo == [upage : Nat, pos : Nat, read : 0..Addresses, zero : 0..Addresses, writable : BOOLEAN]
ProcState ==
    [at : Stages, exe : Executable, phdr : Nat \ {0},
     todo : Todo, thread : MaybePage, fn_copy : MaybePage, kpage : UserFrame \cup {None},
     pagedir : MaybePage, dir : MaybePage, tables : Partial(UPage, KernelFrame),
     ptes : Partial(UPage \ {0}, [frame : UserFrame, writable : BOOLEAN])]
Memories == [UserFrame -> [0..PGSIZE - 1 -> Int]]

\* What a process has, by where it is.
Loading == {"phdr", "segment", "install", "stack"}
Shape(st) ==
    /\ st.at = "none" => st = NoProcess
    /\ st.at \in Loading \cup {"header", "loaded", "user"} => st.dir # None
    /\ st.at \in Loading \cup {"header", "loaded", "user", "loaded_not", "exit"} =>
         st.pagedir = st.dir
    /\ st.at \in {"activate", "destroy"} => st.pagedir = None /\ st.dir # None
    /\ st.at \in {"none", "load", "dying"} => st.pagedir = None /\ st.dir = None
    /\ st.kpage # None <=> st.at = "install"
    /\ st.dir = None => DOMAIN st.tables = {} /\ DOMAIN st.ptes = {}
    /\ \A g \in DOMAIN st.ptes : g \div PerTable \in DOMAIN st.tables
    /\ st.at \in {"user", "exit", "activate", "destroy", "dying"} => st.fn_copy = None
    /\ st.at \in {"load", "header"} => st.phdr = 1
    /\ st.at = "segment" => st.phdr <= Len(st.exe.phdrs)
    /\ st.at \in {"stack", "loaded", "user"} => st.phdr > Len(st.exe.phdrs)

\* The pages of a segment are First(s)..Beyond(s) - 1; SegByte(s, a) is the byte
\* that belongs at address a.
PageStart(g) == g * PGSIZE
First(s) == s.vaddr \div PGSIZE
Beyond(s) == First(s) + (((s.vaddr % PGSIZE) + s.memsz + PGSIZE - 1) \div PGSIZE)
SegByte(s, a) ==
    IF s.filesz > 0 /\ a < s.vaddr + s.filesz THEN s.offset + (a - s.vaddr) ELSE ZeroByte
PageRight(m, st, s, g) ==
    /\ g \in DOMAIN st.ptes /\ st.ptes[g].writable = s.writable
    /\ \A b \in 0..PGSIZE - 1 : m[st.ptes[g].frame][b] = SegByte(s, PageStart(g) + b)

\* todo is what remains of a segment from a page of it on.
TodoIs(s, t) ==
    /\ t.upage \in First(s)..Beyond(s) /\ t.writable = s.writable
    /\ t.read + t.zero = PageStart(Beyond(s)) - PageStart(t.upage)
    /\ LET done == PageStart(t.upage) - PageStart(First(s))
       IN  /\ t.read = IF done < read_bytes(s) THEN read_bytes(s) - done ELSE 0
           /\ t.read > 0 => t.pos = s.offset - (s.offset % PGSIZE) + done

\* The segments before the current header are in place, and of the current one
\* the pages before todo; the page to be installed holds what it should.
ImageOK(m, st) ==
    /\ st.at \in Loading \cup {"loaded", "user"} =>
         \A i \in DOMAIN st.exe.phdrs : LET s == st.exe.phdrs[i] IN
           i < st.phdr /\ s.type = "load" =>
             \A g \in First(s)..Beyond(s) - 1 : PageRight(m, st, s, g)
    /\ st.at \in {"segment", "install"} /\ st.phdr <= Len(st.exe.phdrs) =>
         LET s == st.exe.phdrs[st.phdr] IN
           /\ s.type = "load" /\ validate_segment(s, st.exe.length) /\ TodoIs(s, st.todo)
           /\ \A g \in First(s)..st.todo.upage - 1 : PageRight(m, st, s, g)
           /\ st.at = "install" =>
                /\ st.todo.upage < Beyond(s)
                /\ \A b \in 0..PGSIZE - 1 :
                     m[st.kpage][b] = SegByte(s, PageStart(st.todo.upage) + b)
    /\ st.at = "install" /\ st.phdr > Len(st.exe.phdrs) => st.todo.upage = StackPage
    /\ st.at \in {"loaded", "user"} => StackPage \in DOMAIN st.ptes

\* Each use of a page is of a page that is taken, and of no page twice.
Uses(F) == { u \in UNION { F[q] : q \in Procs } : u[4] # None }
Owned(T, pages) == /\ { u[4] : u \in T } = pages
                   /\ \A u, v \in T : u[4] = v[4] => u = v
UserUses == [q \in Procs |-> UserPagesOf(q, proc[q])]
KernelUses == [q \in Procs |-> KernelPagesOf(q, proc[q])]

\* The processor uses the directory of the running thread; a thread that has
\* let go of its own still runs on it until it has activated the kernel's.
CpuRight ==
    \/ cr3 = CpuFor(on_cpu)
    \/ on_cpu \in Procs /\ proc[on_cpu].at = "activate" /\ cr3 = proc[on_cpu].dir

SpaceInv ==
    /\ proc \in [Procs -> ProcState] /\ mem \in Memories
    /\ user_used \subseteq UserFrame /\ kernel_used \subseteq KernelFrame
    /\ on_cpu \in Procs \cup {Kernel}
    /\ \A p \in Procs : Shape(proc[p]) /\ ImageOK(mem, proc[p])
    /\ Owned(Uses(UserUses), user_used) /\ Owned(Uses(KernelUses), kernel_used)
    /\ CpuRight

-----------------------------------------------------------------------------
(* Pages and bytes.                                                          *)

\* What the constants are, for the provers that do not see the assumption.
LEMMA ConstantsOfSpace ==
    /\ PGSIZE \in Nat /\ PGSIZE > 0 /\ PerTable \in Nat /\ PerTable > 0
    /\ UserPages \in Nat /\ KernelPages \in Nat /\ PHYS_BASE \in Nat /\ Addresses \in Nat
    /\ PHYS_BASE % PGSIZE = 0 /\ 2 * PGSIZE <= PHYS_BASE /\ PHYS_BASE < Addresses
    /\ Kernel \notin Procs /\ None = 0
BY SpaceAssumption DEF None

\* Page numbers and the addresses where the pages start have the same order, ...
LEMMA PageStarts ==
    ASSUME NEW g \in Nat, NEW h \in Nat
    PROVE  /\ PageStart(g) \in Nat /\ PageStart(g + 1) = PageStart(g) + PGSIZE
           /\ PageStart(g + h) = PageStart(g) + PageStart(h)
           /\ g < h <=> PageStart(g) < PageStart(h)
           /\ g < h => PageStart(g) + PGSIZE <= PageStart(h)
<1>1. PGSIZE \in Nat /\ PGSIZE > 0
  BY ConstantsOfSpace
<1>2. /\ g * PGSIZE \in Nat /\ h * PGSIZE \in Nat
      /\ (g + 1) * PGSIZE = g * PGSIZE + PGSIZE
      /\ (g + h) * PGSIZE = g * PGSIZE + h * PGSIZE
  BY <1>1
<1>3. \A i, j \in Nat : i < j => i * PGSIZE + PGSIZE <= j * PGSIZE
  <2> SUFFICES ASSUME NEW i \in Nat, NEW j \in Nat, i < j
               PROVE  i * PGSIZE + PGSIZE <= j * PGSIZE
    OBVIOUS
  <2>1. PICK d \in Nat : j = i + 1 + d
    <3>1. j - i - 1 \in Nat /\ j = i + 1 + (j - i - 1)
      OBVIOUS
    <3>2. QED BY <3>1
  <2>2. (i + 1 + d) * PGSIZE = i * PGSIZE + PGSIZE + d * PGSIZE /\ d * PGSIZE \in Nat
    BY <1>1
  <2>3. i * PGSIZE \in Nat
    BY <1>1
  <2>4. QED BY <1>1, <2>1, <2>2, <2>3
<1>4. g < h => g * PGSIZE + PGSIZE <= h * PGSIZE
  BY <1>3
<1>5. h < g => h * PGSIZE + PGSIZE <= g * PGSIZE
  BY <1>3
<1>6. g = h => g * PGSIZE = h * PGSIZE
  OBVIOUS
<1>7. QED BY <1>1, <1>2, <1>4, <1>5, <1>6 DEF PageStart

\* ... and every address is in a page, at an offset.
LEMMA AddressInPage ==
    ASSUME NEW a \in Nat
    PROVE  /\ a \div PGSIZE \in Nat /\ a % PGSIZE \in 0..PGSIZE - 1
           /\ a = PageStart(a \div PGSIZE) + (a % PGSIZE)
<1>1. PGSIZE \in Nat /\ PGSIZE > 0
  BY ConstantsOfSpace
<1>2. QED BY <1>1 DEF PageStart

\* The page of an address is the one that starts at or before it and ends after it.
LEMMA PageOf ==
    ASSUME NEW a \in Nat, NEW g \in Nat, PageStart(g) <= a, a < PageStart(g) + PGSIZE
    PROVE  a \div PGSIZE = g /\ a % PGSIZE = a - PageStart(g)
<1> DEFINE h == a \div PGSIZE
<1>1. PGSIZE \in Nat /\ h \in Nat /\ a % PGSIZE \in 0..PGSIZE - 1
      /\ a = PageStart(h) + (a % PGSIZE)
  BY AddressInPage, ConstantsOfSpace
<1> HIDE DEF h
<1>2. PageStart(g) \in Nat /\ PageStart(h) \in Nat
  BY <1>1, PageStarts
<1>3. (g < h => PageStart(g) + PGSIZE <= PageStart(h))
      /\ (h < g => PageStart(h) + PGSIZE <= PageStart(g))
  BY <1>1, PageStarts
<1>4. g = h
  BY <1>1, <1>2, <1>3
<1>5. QED BY <1>1, <1>2, <1>4 DEF h

\* The addresses of programs are those below the end of the stack's page.
LEMMA StackIsLast ==
    /\ StackPage \in Nat /\ StackPage >= 1 /\ PageStart(StackPage + 1) = PHYS_BASE
    /\ UPage = 0..StackPage
<1> DEFINE h == PHYS_BASE \div PGSIZE
<1>1. h \in Nat /\ PHYS_BASE = PageStart(h) /\ PageStart(h) >= 2 * PGSIZE
  <2>1. PHYS_BASE \in Nat /\ PHYS_BASE % PGSIZE = 0 /\ 2 * PGSIZE <= PHYS_BASE
    BY ConstantsOfSpace
  <2>2. h \in Nat /\ PHYS_BASE = PageStart(h) + (PHYS_BASE % PGSIZE)
    BY <2>1, AddressInPage
  <2>3. PageStart(h) \in Nat
    BY <2>2, PageStarts
  <2> HIDE DEF h
  <2>4. QED BY <2>1, <2>2, <2>3
<1> HIDE DEF h
<1>2. PageStart(1) = PGSIZE /\ PGSIZE > 0 /\ PGSIZE \in Nat
  BY ConstantsOfSpace DEF PageStart
<1>3. 1 < h
  BY <1>1, <1>2, PageStarts
<1>4. StackPage = h - 1
  BY DEF StackPage, h
<1>5. QED BY <1>1, <1>3, <1>4 DEF UPage

\* What validation guarantees of the pages of a segment.
LEMMA SegmentPages ==
    ASSUME NEW s \in ProgramHeader, NEW length \in Nat, validate_segment(s, length)
    PROVE  /\ First(s) \in 1..StackPage /\ Beyond(s) \in First(s) + 1..StackPage + 1
           /\ PageStart(First(s)) + (s.vaddr % PGSIZE) = s.vaddr
           /\ read_bytes(s) \in 0..PageStart(Beyond(s)) - PageStart(First(s))
           /\ s.offset - (s.offset % PGSIZE) \in Nat
           /\ s.offset % PGSIZE = s.vaddr % PGSIZE
           /\ RoundUp((s.vaddr % PGSIZE) + s.memsz)
                = PageStart(Beyond(s)) - PageStart(First(s))
<1>0. /\ s.offset \in Nat /\ s.vaddr \in Nat /\ s.filesz \in Nat /\ s.memsz \in Nat
      /\ s.vaddr < Addresses /\ s.memsz < Addresses
      /\ PGSIZE \in Nat /\ PGSIZE > 0 /\ Addresses \in Nat /\ PHYS_BASE \in Nat
      /\ PHYS_BASE < Addresses
  BY ConstantsOfSpace DEF ProgramHeader
<1>1. s.memsz > 0 /\ s.filesz <= s.memsz /\ s.vaddr >= PGSIZE
      /\ s.offset % PGSIZE = s.vaddr % PGSIZE
  BY <1>0 DEF validate_segment
<1>2. s.vaddr + s.memsz < PHYS_BASE
  <2>1. /\ (s.vaddr + s.memsz) % Addresses < PHYS_BASE
        /\ ~((s.vaddr + s.memsz) % Addresses < s.vaddr)
    BY DEF validate_segment, wraps
  <2>2. s.vaddr + s.memsz < Addresses => (s.vaddr + s.memsz) % Addresses = s.vaddr + s.memsz
    BY <1>0
  <2>3. s.vaddr + s.memsz >= Addresses =>
          (s.vaddr + s.memsz) % Addresses = s.vaddr + s.memsz - Addresses
    BY <1>0
  <2>4. QED BY <1>0, <2>1, <2>2, <2>3
<1> DEFINE f == First(s)
           o == s.vaddr % PGSIZE
           n == (o + s.memsz + PGSIZE - 1) \div PGSIZE
<1>3. f \in Nat /\ o \in 0..PGSIZE - 1 /\ s.vaddr = PageStart(f) + o
  BY <1>0, AddressInPage DEF First
<1> HIDE DEF f, o
<1>4. n \in Nat /\ o + s.memsz <= PageStart(n) /\ PageStart(n) <= o + s.memsz + PGSIZE - 1
  <2> DEFINE y == o + s.memsz + PGSIZE - 1
  <2>1. y \in Nat
    BY <1>0, <1>3
  <2> HIDE DEF y
  <2>2. y \div PGSIZE \in Nat /\ y % PGSIZE \in 0..PGSIZE - 1
        /\ y = PageStart(y \div PGSIZE) + (y % PGSIZE) /\ PageStart(y \div PGSIZE) \in Nat
    BY <2>1, AddressInPage, PageStarts
  <2>3. y = o + s.memsz + PGSIZE - 1 /\ n = y \div PGSIZE
    BY DEF y
  <2>4. QED BY <1>0, <1>3, <2>2, <2>3
<1>5. Beyond(s) = f + n /\ RoundUp(o + s.memsz) = PageStart(n)
  BY DEF Beyond, RoundUp, PageStart, f, o
<1> HIDE DEF n
<1>6. /\ PageStart(f + n) = PageStart(f) + PageStart(n)
      /\ PageStart(f) \in Nat /\ PageStart(n) \in Nat
  BY <1>3, <1>4, PageStarts
<1>7. n >= 1
  <2>1. PageStart(0) = 0
    BY <1>0 DEF PageStart
  <2>2. n # 0
    BY <1>0, <1>1, <1>3, <1>4, <2>1
  <2>3. QED BY <1>4, <2>2
<1>8. f >= 1
  <2>1. PageStart(0) = 0
    BY <1>0 DEF PageStart
  <2>2. f # 0
    BY <1>0, <1>1, <1>3, <2>1
  <2>3. QED BY <1>3, <2>2
<1>9. f + n <= StackPage + 1
  <2>1. PageStart(f + n) < PHYS_BASE + PGSIZE
    BY <1>0, <1>2, <1>3, <1>4, <1>6
  <2>2. PageStart(StackPage + 1 + 1) = PHYS_BASE + PGSIZE /\ StackPage + 1 + 1 \in Nat
    <3>1. StackPage + 1 \in Nat
      BY StackIsLast
    <3>2. QED BY <3>1, StackIsLast, PageStarts
  <2>3. f + n < StackPage + 1 + 1
    <3>1. f + n \in Nat
      BY <1>3, <1>4
    <3>2. QED BY <2>1, <2>2, <3>1, PageStarts
  <2>4. QED BY <1>3, <1>4, <2>3, StackIsLast
<1>10. read_bytes(s) \in 0..PageStart(n)
  BY <1>0, <1>1, <1>3, <1>4, <1>6 DEF read_bytes, o
<1>11. s.offset - (s.offset % PGSIZE) \in Nat
  <2> DEFINE z == s.offset
  <2>1. z \in Nat
    BY <1>0
  <2> HIDE DEF z
  <2>2. z - (z % PGSIZE) \in Nat
    BY <1>0, <2>1
  <2>3. QED BY <2>2 DEF z
<1>12. /\ f \in 1..StackPage /\ Beyond(s) \in f + 1..StackPage + 1
       /\ PageStart(f) + o = s.vaddr
       /\ read_bytes(s) \in 0..PageStart(Beyond(s)) - PageStart(f)
       /\ RoundUp(o + s.memsz) = PageStart(Beyond(s)) - PageStart(f)
  BY <1>3, <1>4, <1>5, <1>6, <1>7, <1>8, <1>9, <1>10, StackIsLast
<1>13. QED BY <1>1, <1>11, <1>12 DEF f, o

\* A page of a pool that is not empty.
LEMMA LeastIs ==
    ASSUME NEW T \in SUBSET Nat, T # {}
    PROVE  Least(T) \in T
BY LeastOf DEF Least

-----------------------------------------------------------------------------
(* Uses of pages.                                                            *)

\* Each use says whose it is.
Tagged(F) == \A q \in Procs : \A u \in F[q] : u[1] = q

\* When the uses of one process change, ...
LEMMA UsesChange ==
    ASSUME NEW F, NEW G, Tagged(F), Tagged(G), NEW p \in Procs,
           \A q \in Procs : q # p => G[q] = F[q]
    PROVE  \A u : u \in Uses(G) <=> \/ u \in Uses(F) /\ u[1] # p
                                    \/ u \in G[p] /\ u[4] # None
BY DEF Uses, Tagged

\* ... then because it took a page that was free, ...
LEMMA PageTaken ==
    ASSUME NEW F, NEW G, Tagged(F), Tagged(G), NEW p \in Procs,
           \A q \in Procs : q # p => G[q] = F[q],
           NEW pages, Owned(Uses(F), pages), NEW x, x[4] \notin pages, x[4] # None,
           \A u : u[4] # None => (u \in G[p] <=> u \in F[p] \/ u = x)
    PROVE  Owned(Uses(G), pages \cup {x[4]})
<1>1. \A u : u \in Uses(G) <=> u \in Uses(F) \/ u = x
  BY UsesChange DEF Uses, Tagged
<1> DEFINE T == Uses(F)
           V == Uses(G)
<1>2. { u[4] : u \in T } = pages /\ \A u, v \in T : u[4] = v[4] => u = v
  BY DEF Owned
<1> HIDE DEF T, V
<1>3. \A u : u \in V <=> u \in T \/ u = x
  BY <1>1 DEF T, V
<1>4. { u[4] : u \in V } = pages \cup {x[4]}
  BY <1>2, <1>3
<1>5. \A u, v \in V : u[4] = v[4] => u = v
  BY <1>2, <1>3
<1>6. QED BY <1>4, <1>5 DEF Owned, V

\* ... gave one back, ...
LEMMA PageGiven ==
    ASSUME NEW F, NEW G, Tagged(F), Tagged(G), NEW p \in Procs,
           \A q \in Procs : q # p => G[q] = F[q],
           NEW pages, Owned(Uses(F), pages), NEW x \in F[p], x[4] # None,
           \A u : u[4] # None => (u \in G[p] <=> u \in F[p] /\ u # x)
    PROVE  Owned(Uses(G), pages \ {x[4]})
<1>1. \A u : u \in Uses(G) <=> u \in Uses(F) /\ u # x
  BY UsesChange DEF Uses, Tagged
<1>2. x \in Uses(F)
  BY DEF Uses
<1> DEFINE T == Uses(F)
           V == Uses(G)
<1>3. { u[4] : u \in T } = pages /\ \A u, v \in T : u[4] = v[4] => u = v
  BY DEF Owned
<1> HIDE DEF T, V
<1>4. (\A u : u \in V <=> u \in T /\ u # x) /\ x \in T
  BY <1>1, <1>2 DEF T, V
<1>5. { u[4] : u \in V } = pages \ {x[4]}
  BY <1>3, <1>4
<1>6. \A u, v \in V : u[4] = v[4] => u = v
  BY <1>3, <1>4
<1>7. QED BY <1>5, <1>6 DEF Owned, V

\* ... put one to another use, ...
LEMMA PageMoved ==
    ASSUME NEW F, NEW G, Tagged(F), Tagged(G), NEW p \in Procs,
           \A q \in Procs : q # p => G[q] = F[q],
           NEW pages, Owned(Uses(F), pages), NEW x \in F[p], NEW y,
           x[4] # None, y[4] = x[4],
           \A u : u[4] # None => (u \in G[p] <=> (u \in F[p] /\ u # x) \/ u = y)
    PROVE  Owned(Uses(G), pages)
<1>1. \A u : u \in Uses(G) <=> (u \in Uses(F) /\ u # x) \/ u = y
  BY UsesChange DEF Uses, Tagged
<1>2. x \in Uses(F)
  BY DEF Uses
<1> DEFINE T == Uses(F)
           V == Uses(G)
<1>3. { u[4] : u \in T } = pages /\ \A u, v \in T : u[4] = v[4] => u = v
  BY DEF Owned
<1> HIDE DEF T, V
<1>4. (\A u : u \in V <=> (u \in T /\ u # x) \/ u = y) /\ x \in T
  BY <1>1, <1>2 DEF T, V
<1>5. { u[4] : u \in V } = pages
  BY <1>3, <1>4
<1>6. \A u, v \in V : u[4] = v[4] => u = v
  BY <1>3, <1>4
<1>7. QED BY <1>5, <1>6 DEF Owned, V

\* ... or did none of these.
LEMMA PagesKept ==
    ASSUME NEW F, NEW G, Tagged(F), Tagged(G), NEW p \in Procs,
           \A q \in Procs : q # p => G[q] = F[q],
           NEW pages, Owned(Uses(F), pages),
           \A u : u[4] # None => (u \in G[p] <=> u \in F[p])
    PROVE  Owned(Uses(G), pages)
<1>1. \A u : u \in Uses(G) <=> u \in Uses(F)
  BY UsesChange DEF Uses, Tagged
<1>2. Uses(G) = Uses(F)
  BY <1>1
<1>3. QED BY <1>2

\* The same as the property says it, by numbers.
LEMMA OwnedIsOnce ==
    ASSUME NEW uses, NEW pages, IsFiniteSet(pages),
           Owned({ u \in uses : u[4] # None }, pages)
    PROVE  UsedOnce(uses, pages)
<1> DEFINE T == { u \in uses : u[4] # None }
           f == [x \in pages |-> CHOOSE u \in T : u[4] = x]
<1>1. { u[4] : u \in T } = pages /\ \A u, v \in T : u[4] = v[4] => u = v
  BY DEF Owned
<1>2. { u[4] : u \in { w \in uses : w[4] # None } } = pages
  BY <1>1
<1> HIDE DEF T
<1>3. \A x \in pages : f[x] \in T /\ f[x][4] = x
  BY <1>1
<1>4. \A u \in T : u[4] \in pages /\ f[u[4]] = u
  BY <1>1, <1>3
<1>5. f \in [pages -> T]
  BY <1>3
<1> HIDE DEF f
<1>6. f \in Bijection(pages, T)
  BY <1>3, <1>4, <1>5 DEF Bijection, Injection, Surjection, IsInjective
<1>7. ExistsBijection(pages, T)
  BY <1>6 DEF ExistsBijection
<1>8. Cardinality(T) = Cardinality(pages)
  BY <1>7, FS_Bijection
<1>9. QED BY <1>2, <1>8 DEF UsedOnce, T

\* The uses of the processes say whose they are.
LEMMA UsesTagged ==
    /\ Tagged(UserUses) /\ Tagged(KernelUses) /\ Tagged(UserUses') /\ Tagged(KernelUses')
BY DEF Tagged, UserUses, KernelUses, UserPagesOf, KernelPagesOf

-----------------------------------------------------------------------------
(* Steps of one process.                                                     *)

\* An image stays right while the pages it is in keep their contents.
LEMMA ImageKept ==
    ASSUME NEW st, NEW m, NEW n, ImageOK(m, st),
           \A g \in DOMAIN st.ptes : n[st.ptes[g].frame] = m[st.ptes[g].frame],
           st.at = "install" => n[st.kpage] = m[st.kpage]
    PROVE  ImageOK(n, st)
<1>1. \A s, g : PageRight(m, st, s, g) => PageRight(n, st, s, g)
  BY DEF PageRight
<1>2. QED BY <1>1 DEF ImageOK

\* What a step of a process has to show: of the process itself, of the pages,
\* and that it wrote to no page of another.
LEMMA ProcStep ==
    ASSUME SpaceInv, NEW p \in Procs, NEW new \in ProcState,
           proc' = [proc EXCEPT ![p] = new],
           Shape(new), ImageOK(mem', new), mem' \in Memories,
           user_used' \subseteq UserFrame, kernel_used' \subseteq KernelFrame,
           Owned(Uses(UserUses'), user_used'), Owned(Uses(KernelUses'), kernel_used'),
           \A f \in UserFrame : mem'[f] # mem[f] =>
             f \notin user_used \/ \E u \in UserUses[p] : u[4] = f,
           on_cpu' \in Procs \cup {Kernel}, CpuRight'
    PROVE  SpaceInv'
<1>1. proc' \in [Procs -> ProcState]
  BY DEF SpaceInv
<1>2. ASSUME NEW q \in Procs
      PROVE  Shape(proc'[q]) /\ ImageOK(mem', proc'[q])
  <2>1. CASE q = p
    BY <2>1 DEF SpaceInv
  <2>2. CASE q # p
    <3>1. proc'[q] = proc[q] /\ Shape(proc[q]) /\ ImageOK(mem, proc[q])
          /\ proc[q] \in ProcState
      BY <2>2 DEF SpaceInv
    <3>2. ASSUME NEW u \in UserUses[q], u[4] \in UserFrame
          PROVE  mem'[u[4]] = mem[u[4]]
      <4>1. u[4] # None /\ u[1] = q
        BY <3>2, UsesTagged DEF Tagged, UserFrame, None
      <4>2. u \in Uses(UserUses)
        BY <4>1 DEF Uses
      <4>3. u[4] \in user_used
        BY <4>2 DEF SpaceInv, Owned
      <4>4. ASSUME NEW v \in UserUses[p], v[4] = u[4] PROVE FALSE
        <5>1. v \in Uses(UserUses) /\ v[1] = p
          BY <4>1, <4>4, UsesTagged DEF Uses, Tagged
        <5>2. u = v
          BY <4>2, <4>4, <5>1 DEF SpaceInv, Owned
        <5>3. QED BY <2>2, <4>1, <5>1, <5>2
      <4>5. QED BY <3>2, <4>3, <4>4
    <3>3. ASSUME NEW g \in DOMAIN proc[q].ptes
          PROVE  mem'[proc[q].ptes[g].frame] = mem[proc[q].ptes[g].frame]
      <4> DEFINE f == proc[q].ptes[g].frame
                 u == <<q, "page", g, f>>
      <4>1. f \in UserFrame
        BY <3>1 DEF ProcState, Partial
      <4>2. u \in UserUses[q] /\ u[4] = f
        BY DEF UserUses, UserPagesOf
      <4> HIDE DEF u, f
      <4>3. mem'[f] = mem[f]
        BY <3>2, <4>1, <4>2
      <4>4. QED BY <4>3 DEF f
    <3>4. ASSUME proc[q].at = "install"
          PROVE  mem'[proc[q].kpage] = mem[proc[q].kpage]
      <4> DEFINE f == proc[q].kpage
                 u == <<q, "kpage", 0, f>>
      <4>1. f \in UserFrame
        BY <3>1, <3>4 DEF ProcState, Shape
      <4>2. u \in UserUses[q] /\ u[4] = f
        BY DEF UserUses, UserPagesOf
      <4> HIDE DEF u, f
      <4>3. mem'[f] = mem[f]
        BY <3>2, <4>1, <4>2
      <4>4. QED BY <4>3 DEF f
    <3>5. ImageOK(mem', proc[q])
      BY <3>1, <3>3, <3>4, ImageKept
    <3>6. QED BY <3>1, <3>5
  <2>3. QED BY <2>1, <2>2
<1>3. Owned(Uses(UserUses)', user_used') /\ Owned(Uses(KernelUses)', kernel_used')
  BY DEF Uses
<1>4. (\A q \in Procs : Shape(proc[q]) /\ ImageOK(mem, proc[q]))'
  BY <1>2 DEF Shape, ImageOK, PageRight
<1>5. QED
  BY <1>1, <1>3, <1>4 DEF SpaceInv, Owned, Memories, Uses

\* What the other processes use stays the same.
LEMMA OthersUse ==
    ASSUME SpaceInv, NEW p \in Procs, NEW new, proc' = [proc EXCEPT ![p] = new]
    PROVE  /\ \A q \in Procs : q # p => /\ UserUses'[q] = UserUses[q]
                                        /\ KernelUses'[q] = KernelUses[q]
           /\ UserUses'[p] = UserPagesOf(p, new) /\ KernelUses'[p] = KernelPagesOf(p, new)
           /\ UserUses[p] = UserPagesOf(p, proc[p])
           /\ KernelUses[p] = KernelPagesOf(p, proc[p])
BY DEF SpaceInv, UserUses, KernelUses

\* The processor stays right when the process keeps its directory.
LEMMA CpuKept ==
    ASSUME SpaceInv, NEW p \in Procs, NEW new, proc' = [proc EXCEPT ![p] = new],
           cr3' = cr3, on_cpu' = on_cpu,
           new.pagedir = proc[p].pagedir, proc[p].at # "activate"
    PROVE  CpuRight'
<1>1. CASE cr3 = CpuFor(on_cpu)
  BY <1>1 DEF SpaceInv, CpuRight, CpuFor
<1>2. CASE on_cpu \in Procs /\ proc[on_cpu].at = "activate" /\ cr3 = proc[on_cpu].dir
  BY <1>2 DEF SpaceInv, CpuRight
<1>3. QED BY <1>1, <1>2 DEF SpaceInv, CpuRight

\* The user pages stay owned when the process keeps what it has, ...
LEMMA UserKept ==
    ASSUME SpaceInv, NEW p \in Procs, NEW new, proc' = [proc EXCEPT ![p] = new],
           \A u : u[4] # None =>
             (u \in UserPagesOf(p, new) <=> u \in UserPagesOf(p, proc[p]))
    PROVE  Owned(Uses(UserUses'), user_used)
<1> DEFINE F == UserUses
           G == UserUses'
<1>1. \A q \in Procs : q # p => G[q] = F[q]
  BY OthersUse
<1>2. G[p] = UserPagesOf(p, new) /\ F[p] = UserPagesOf(p, proc[p])
  BY OthersUse
<1>3. Tagged(F) /\ Tagged(G) /\ Owned(Uses(F), user_used)
  BY UsesTagged DEF SpaceInv
<1> HIDE DEF F, G
<1>4. \A u : u[4] # None => (u \in G[p] <=> u \in F[p])
  BY <1>2
<1>5. Owned(Uses(G), user_used)
  BY <1>1, <1>2, <1>3, <1>4, PagesKept
<1>6. QED BY <1>5 DEF G

\* ... takes a page for a use of its own, ...
LEMMA UserTaken ==
    ASSUME SpaceInv, NEW p \in Procs, NEW new, proc' = [proc EXCEPT ![p] = new],
           NEW x, x[4] \notin user_used, x[4] # None,
           \A u : u[4] # None =>
             (u \in UserPagesOf(p, new) <=> u \in UserPagesOf(p, proc[p]) \/ u = x)
    PROVE  Owned(Uses(UserUses'), user_used \cup {x[4]})
<1> DEFINE F == UserUses
           G == UserUses'
<1>1. \A q \in Procs : q # p => G[q] = F[q]
  BY OthersUse
<1>2. G[p] = UserPagesOf(p, new) /\ F[p] = UserPagesOf(p, proc[p])
  BY OthersUse
<1>3. Tagged(F) /\ Tagged(G) /\ Owned(Uses(F), user_used)
  BY UsesTagged DEF SpaceInv
<1> HIDE DEF F, G
<1>4. \A u : u[4] # None => (u \in G[p] <=> u \in F[p] \/ u = x)
  BY <1>2
<1>5. Owned(Uses(G), user_used \cup {x[4]})
  BY <1>1, <1>2, <1>3, <1>4, PageTaken
<1>6. QED BY <1>5 DEF G

\* ... or gives one back.
LEMMA UserGiven ==
    ASSUME SpaceInv, NEW p \in Procs, NEW new, proc' = [proc EXCEPT ![p] = new],
           NEW x \in UserPagesOf(p, proc[p]), x[4] # None,
           \A u : u[4] # None =>
             (u \in UserPagesOf(p, new) <=> u \in UserPagesOf(p, proc[p]) /\ u # x)
    PROVE  Owned(Uses(UserUses'), user_used \ {x[4]})
<1> DEFINE F == UserUses
           G == UserUses'
<1>1. \A q \in Procs : q # p => G[q] = F[q]
  BY OthersUse
<1>2. G[p] = UserPagesOf(p, new) /\ F[p] = UserPagesOf(p, proc[p])
  BY OthersUse
<1>3. Tagged(F) /\ Tagged(G) /\ Owned(Uses(F), user_used)
  BY UsesTagged DEF SpaceInv
<1> HIDE DEF F, G
<1>4. \A u : u[4] # None => (u \in G[p] <=> u \in F[p] /\ u # x)
  BY <1>2
<1>5. Owned(Uses(G), user_used \ {x[4]})
  BY <1>1, <1>2, <1>3, <1>4, PageGiven
<1>6. QED BY <1>5 DEF G

\* The kernel pages stay owned when the process keeps what it has, ...
LEMMA KernelKept ==
    ASSUME SpaceInv, NEW p \in Procs, NEW new, proc' = [proc EXCEPT ![p] = new],
           \A u : u[4] # None =>
             (u \in KernelPagesOf(p, new) <=> u \in KernelPagesOf(p, proc[p]))
    PROVE  Owned(Uses(KernelUses'), kernel_used)
<1> DEFINE F == KernelUses
           G == KernelUses'
<1>1. \A q \in Procs : q # p => G[q] = F[q]
  BY OthersUse
<1>2. G[p] = KernelPagesOf(p, new) /\ F[p] = KernelPagesOf(p, proc[p])
  BY OthersUse
<1>3. Tagged(F) /\ Tagged(G) /\ Owned(Uses(F), kernel_used)
  BY UsesTagged DEF SpaceInv
<1> HIDE DEF F, G
<1>4. \A u : u[4] # None => (u \in G[p] <=> u \in F[p])
  BY <1>2
<1>5. Owned(Uses(G), kernel_used)
  BY <1>1, <1>2, <1>3, <1>4, PagesKept
<1>6. QED BY <1>5 DEF G

\* ... takes a page for a use of its own, ...
LEMMA KernelTaken ==
    ASSUME SpaceInv, NEW p \in Procs, NEW new, proc' = [proc EXCEPT ![p] = new],
           NEW x, x[4] \notin kernel_used, x[4] # None,
           \A u : u[4] # None =>
             (u \in KernelPagesOf(p, new) <=> u \in KernelPagesOf(p, proc[p]) \/ u = x)
    PROVE  Owned(Uses(KernelUses'), kernel_used \cup {x[4]})
<1> DEFINE F == KernelUses
           G == KernelUses'
<1>1. \A q \in Procs : q # p => G[q] = F[q]
  BY OthersUse
<1>2. G[p] = KernelPagesOf(p, new) /\ F[p] = KernelPagesOf(p, proc[p])
  BY OthersUse
<1>3. Tagged(F) /\ Tagged(G) /\ Owned(Uses(F), kernel_used)
  BY UsesTagged DEF SpaceInv
<1> HIDE DEF F, G
<1>4. \A u : u[4] # None => (u \in G[p] <=> u \in F[p] \/ u = x)
  BY <1>2
<1>5. Owned(Uses(G), kernel_used \cup {x[4]})
  BY <1>1, <1>2, <1>3, <1>4, PageTaken
<1>6. QED BY <1>5 DEF G

\* ... or gives one back.
LEMMA KernelGiven ==
    ASSUME SpaceInv, NEW p \in Procs, NEW new, proc' = [proc EXCEPT ![p] = new],
           NEW x \in KernelPagesOf(p, proc[p]), x[4] # None,
           \A u : u[4] # None =>
             (u \in KernelPagesOf(p, new) <=> u \in KernelPagesOf(p, proc[p]) /\ u # x)
    PROVE  Owned(Uses(KernelUses'), kernel_used \ {x[4]})
<1> DEFINE F == KernelUses
           G == KernelUses'
<1>1. \A q \in Procs : q # p => G[q] = F[q]
  BY OthersUse
<1>2. G[p] = KernelPagesOf(p, new) /\ F[p] = KernelPagesOf(p, proc[p])
  BY OthersUse
<1>3. Tagged(F) /\ Tagged(G) /\ Owned(Uses(F), kernel_used)
  BY UsesTagged DEF SpaceInv
<1> HIDE DEF F, G
<1>4. \A u : u[4] # None => (u \in G[p] <=> u \in F[p] /\ u # x)
  BY <1>2
<1>5. Owned(Uses(G), kernel_used \ {x[4]})
  BY <1>1, <1>2, <1>3, <1>4, PageGiven
<1>6. QED BY <1>5 DEF G

\* A step of a process that takes and gives back nothing and writes nowhere.
LEMMA QuietStep ==
    ASSUME SpaceInv, NEW p \in Procs, NEW new \in ProcState,
           proc' = [proc EXCEPT ![p] = new],
           UNCHANGED <<user_used, kernel_used, mem, on_cpu>>, CpuRight',
           Shape(new), ImageOK(mem, new),
           new.ptes = proc[p].ptes, new.kpage = proc[p].kpage, new.tables = proc[p].tables,
           new.thread = proc[p].thread, new.fn_copy = proc[p].fn_copy, new.dir = proc[p].dir
    PROVE  SpaceInv'
<1>1. UserPagesOf(p, new) = UserPagesOf(p, proc[p])
  BY DEF UserPagesOf
<1>2. KernelPagesOf(p, new) = KernelPagesOf(p, proc[p])
  BY DEF KernelPagesOf
<1>3. Owned(Uses(UserUses'), user_used)
  BY <1>1, UserKept
<1>4. Owned(Uses(KernelUses'), kernel_used)
  BY <1>2, KernelKept
<1>5. QED
  BY <1>3, <1>4, ProcStep DEF SpaceInv

-----------------------------------------------------------------------------
(* Headers, starting, exiting and switching.                                 *)

\* What the invariant says of one process.
LEMMA ProcessIs ==
    ASSUME SpaceInv, NEW p \in Procs
    PROVE  proc[p] \in ProcState /\ Shape(proc[p]) /\ ImageOK(mem, proc[p])
BY DEF SpaceInv

\* load_segment starts with what the header says.
LEMMA SegmentStarts ==
    ASSUME NEW s \in ProgramHeader, NEW length \in Nat, validate_segment(s, length)
    PROVE  SegmentOf(s) \in Todo /\ TodoIs(s, SegmentOf(s)) /\ SegmentOf(s).upage = First(s)
<1> DEFINE f == PageStart(First(s))
           b == PageStart(Beyond(s))
           r == read_bytes(s)
           o == s.offset - (s.offset % PGSIZE)
           z == RoundUp((s.vaddr % PGSIZE) + s.memsz)
<1>1. /\ First(s) \in Nat /\ First(s) \in First(s)..Beyond(s)
      /\ f \in Nat /\ b \in Nat /\ b <= PHYS_BASE /\ r \in 0..b - f /\ o \in Nat /\ z = b - f
  <2>1. /\ First(s) \in 1..StackPage /\ Beyond(s) \in First(s) + 1..StackPage + 1
        /\ r \in 0..b - f /\ o \in Nat /\ z = b - f
    BY SegmentPages
  <2>2. First(s) \in Nat /\ Beyond(s) \in Nat /\ StackPage + 1 \in Nat
        /\ Beyond(s) <= StackPage + 1 /\ First(s) < Beyond(s)
    BY <2>1, StackIsLast
  <2>3. f \in Nat /\ b \in Nat
    BY <2>2, PageStarts
  <2>4. b <= PHYS_BASE
    <3>1. PageStart(StackPage + 1) = PHYS_BASE /\ PHYS_BASE \in Nat
      BY StackIsLast, ConstantsOfSpace
    <3>2. Beyond(s) < StackPage + 1 => b < PHYS_BASE
      BY <2>2, <3>1, PageStarts
    <3>3. Beyond(s) = StackPage + 1 => b = PHYS_BASE
      BY <3>1
    <3>4. QED BY <2>2, <2>3, <3>1, <3>2, <3>3
  <2>5. QED BY <2>1, <2>2, <2>3, <2>4
<1>2. SegmentOf(s) = Segment(First(s), o, r, z - r, s.writable)
  BY DEF SegmentOf, First
<1> HIDE DEF f, b, r, o, z
<1>3. PHYS_BASE \in Nat /\ PHYS_BASE < Addresses /\ Addresses \in Nat
  BY ConstantsOfSpace
<1>4. s.writable \in BOOLEAN
  BY DEF ProgramHeader
<1>5. SegmentOf(s) \in Todo
  <2>1. r \in 0..Addresses /\ z - r \in 0..Addresses
    BY <1>1, <1>3
  <2>2. QED BY <1>1, <1>2, <1>4, <2>1 DEF Segment, Todo
<1>6. f - f = 0 /\ r + (z - r) = b - f /\ r = (IF 0 < r THEN r - 0 ELSE 0) /\ o = o + 0
  BY <1>1
<1>7. TodoIs(s, SegmentOf(s))
  BY <1>1, <1>2, <1>6 DEF TodoIs, Segment, f, b, r, o
<1>8. QED BY <1>2, <1>5, <1>7 DEF Segment

\* load looks at the executable's header: no segment is in place yet.
LEMMA HeaderKeeps ==
    ASSUME SpaceInv, NEW p \in Procs, load_header(p)
    PROVE  SpaceInv'
<1> DEFINE st == proc[p]
           new == goes(p, IF st.exe.header THEN "phdr" ELSE "loaded_not")
<1>1. st \in ProcState /\ Shape(st) /\ st.at = "header" /\ proc' = [proc EXCEPT ![p] = new]
      /\ UNCHANGED <<user_used, kernel_used, mem, on_cpu, cr3>>
  BY ProcessIs DEF load_header, At, becomes
<1>2. new = [st EXCEPT !.at = new.at] /\ new.at \in {"phdr", "loaded_not"}
  BY <1>1 DEF goes, ProcState
<1> HIDE DEF new
<1>3. new \in ProcState /\ Shape(new)
  BY <1>1, <1>2 DEF ProcState, Shape, Stages, Loading
<1>4. ImageOK(mem, new)
  <2>1. new.phdr = 1 /\ new.exe = st.exe
    BY <1>1, <1>2 DEF ProcState, Shape
  <2>2. \A i \in DOMAIN new.exe.phdrs : ~(i < new.phdr)
    BY <1>1, <2>1 DEF ProcState, Executable
  <2>3. QED BY <1>2, <2>2 DEF ImageOK
<1>5. CpuRight'
  BY <1>1, <1>2, CpuKept DEF ProcState
<1>6. QED BY <1>1, <1>2, <1>3, <1>4, <1>5, QuietStep DEF ProcState

\* load goes through the program headers.
LEMMA PhdrKeeps ==
    ASSUME SpaceInv, NEW p \in Procs, load_phdr(p)
    PROVE  SpaceInv'
<1> DEFINE st == proc[p]
           x == st.exe
           s == x.phdrs[st.phdr]
           new == proc'[p]
<1>1. /\ st \in ProcState /\ Shape(st) /\ ImageOK(mem, st) /\ st.at = "phdr"
      /\ proc' = [proc EXCEPT ![p] = new]
      /\ UNCHANGED <<user_used, kernel_used, mem, on_cpu, cr3>>
      /\ new = IF st.phdr > Len(x.phdrs) THEN [st EXCEPT !.at = "stack"]
               ELSE IF s.type = "ignored" THEN [st EXCEPT !.phdr = @ + 1]
               ELSE IF s.type = "refused" \/ ~validate_segment(s, x.length)
               THEN [st EXCEPT !.at = "loaded_not"]
               ELSE [st EXCEPT !.at = "segment", !.todo = SegmentOf(s)]
  BY ProcessIs DEF load_phdr, At, becomes, goes, SpaceInv
<1> HIDE DEF new
<1>2. /\ x.phdrs \in Seq(ProgramHeader) /\ st.phdr \in Nat /\ st.phdr >= 1
      /\ x.length \in Nat /\ DOMAIN x.phdrs = 1..Len(x.phdrs) /\ Len(x.phdrs) \in Nat
  BY <1>1 DEF ProcState, Executable
<1>3. \A i \in DOMAIN x.phdrs : i < st.phdr /\ x.phdrs[i].type = "load" =>
        \A g \in First(x.phdrs[i])..Beyond(x.phdrs[i]) - 1 : PageRight(mem, st, x.phdrs[i], g)
  BY <1>1 DEF ImageOK, Loading
<1>4. CASE st.phdr > Len(x.phdrs)
  <2>1. new = [st EXCEPT !.at = "stack"]
    BY <1>1, <1>4
  <2>2. new \in ProcState /\ Shape(new) /\ new.exe = x /\ new.phdr = st.phdr
        /\ new.ptes = st.ptes /\ new.at = "stack"
    BY <1>1, <1>4, <2>1 DEF ProcState, Shape, Stages, Loading
  <2>3. ImageOK(mem, new)
    BY <1>3, <2>2 DEF ImageOK, PageRight
  <2>4. CpuRight'
    BY <1>1, <2>1, CpuKept DEF ProcState
  <2>5. QED BY <1>1, <2>1, <2>2, <2>3, <2>4, QuietStep DEF ProcState
<1>5. CASE st.phdr <= Len(x.phdrs) /\ s.type = "ignored"
  <2>1. new = [st EXCEPT !.phdr = st.phdr + 1]
    BY <1>1, <1>2, <1>5
  <2>2. /\ new \in ProcState /\ new.exe = x /\ new.phdr = st.phdr + 1 /\ new.at = "phdr"
        /\ new.ptes = st.ptes /\ new.tables = st.tables /\ new.dir = st.dir
        /\ new.pagedir = st.pagedir /\ new.kpage = st.kpage
    <3>1. st.phdr + 1 \in Nat \ {0}
      BY <1>2
    <3>2. QED BY <1>1, <2>1, <3>1 DEF ProcState
  <2>a. Shape(new)
    BY <1>1, <2>2 DEF Shape, Loading
  <2>3. ImageOK(mem, new)
    <3>1. \A i \in DOMAIN x.phdrs : i < st.phdr + 1 /\ x.phdrs[i].type = "load" => i < st.phdr
      BY <1>2, <1>5
    <3>2. QED BY <1>3, <2>2, <3>1 DEF ImageOK, PageRight
  <2>4. CpuRight'
    BY <1>1, <2>1, CpuKept DEF ProcState
  <2>5. QED BY <1>1, <2>1, <2>2, <2>a, <2>3, <2>4, QuietStep DEF ProcState
<1>6. CASE /\ st.phdr <= Len(x.phdrs) /\ s.type # "ignored"
           /\ s.type = "refused" \/ ~validate_segment(s, x.length)
  <2>1. new = [st EXCEPT !.at = "loaded_not"]
    BY <1>1, <1>2, <1>6
  <2>2. new \in ProcState /\ Shape(new)
    BY <1>1, <2>1 DEF ProcState, Shape, Stages, Loading
  <2>3. ImageOK(mem, new)
    BY <1>1, <2>1 DEF ImageOK, ProcState, Loading
  <2>4. CpuRight'
    BY <1>1, <2>1, CpuKept DEF ProcState
  <2>5. QED BY <1>1, <2>1, <2>2, <2>3, <2>4, QuietStep DEF ProcState
<1>7. CASE /\ st.phdr <= Len(x.phdrs) /\ s.type # "ignored"
           /\ s.type # "refused" /\ validate_segment(s, x.length)
  <2>1. new = [st EXCEPT !.at = "segment", !.todo = SegmentOf(s)]
    BY <1>1, <1>2, <1>7
  <2>2. s \in ProgramHeader /\ s.type = "load"
    <3>1. s \in ProgramHeader
      BY <1>2, <1>7
    <3>2. QED BY <1>7, <3>1 DEF ProgramHeader
  <2>3. SegmentOf(s) \in Todo /\ TodoIs(s, SegmentOf(s)) /\ SegmentOf(s).upage = First(s)
        /\ First(s) \in Nat
    BY <1>2, <1>7, <2>2, SegmentStarts, SegmentPages, StackIsLast
  <2>4. new \in ProcState /\ Shape(new) /\ new.exe = x /\ new.phdr = st.phdr
        /\ new.ptes = st.ptes /\ new.at = "segment" /\ new.todo = SegmentOf(s)
    BY <1>1, <1>7, <2>1, <2>3 DEF ProcState, Shape, Stages, Loading
  <2>5. ImageOK(mem, new)
    <3>1. \A g \in First(s)..new.todo.upage - 1 : FALSE
      BY <2>3, <2>4
    <3>2. \A i \in DOMAIN x.phdrs : i < st.phdr /\ x.phdrs[i].type = "load" =>
            \A g \in First(x.phdrs[i])..Beyond(x.phdrs[i]) - 1 :
              PageRight(mem, new, x.phdrs[i], g)
      BY <1>3, <2>4 DEF PageRight
    <3>3. /\ s.type = "load" /\ validate_segment(s, x.length) /\ TodoIs(s, new.todo)
          /\ \A g \in First(s)..new.todo.upage - 1 : PageRight(mem, new, s, g)
      BY <1>7, <2>2, <2>3, <2>4, <3>1
    <3>4. QED BY <2>4, <3>2, <3>3 DEF ImageOK
  <2>6. CpuRight'
    BY <1>1, <2>1, CpuKept DEF ProcState
  <2>7. QED BY <1>1, <2>1, <2>4, <2>5, <2>6, QuietStep DEF ProcState
<1>8. QED BY <1>2, <1>4, <1>5, <1>6, <1>7

\* A program exits, and process_exit looks at its directory and lets go of it.
LEMMA ExitKeeps ==
    ASSUME SpaceInv, NEW p \in Procs, exit(p) \/ process_exit(p) \/ pagedir_activate(p)
    PROVE  SpaceInv'
<1> DEFINE st == proc[p]
           new == proc'[p]
<1>1. /\ st \in ProcState /\ Shape(st) /\ on_cpu = p
      /\ proc' = [proc EXCEPT ![p] = new]
      /\ UNCHANGED <<user_used, kernel_used, mem, on_cpu>>
      /\ \/ st.at = "user" /\ new = [st EXCEPT !.at = "exit"] /\ cr3' = cr3
         \/ /\ st.at = "exit" /\ st.pagedir = None /\ cr3' = cr3
            /\ new = [st EXCEPT !.at = "dying"]
         \/ /\ st.at = "exit" /\ st.pagedir # None /\ cr3' = cr3
            /\ new = [st EXCEPT !.at = "activate", !.pagedir = None]
         \/ st.at = "activate" /\ new = [st EXCEPT !.at = "destroy"] /\ cr3' = Kernel
  BY ProcessIs DEF exit, process_exit, pagedir_activate, At, becomes, goes, pagedir_unset,
     SpaceInv, ProcState
<1> HIDE DEF new
<1>2. /\ new \in ProcState /\ new.exe = st.exe /\ new.phdr = st.phdr
      /\ new.ptes = st.ptes /\ new.tables = st.tables /\ new.dir = st.dir
      /\ new.kpage = st.kpage /\ new.fn_copy = st.fn_copy /\ new.thread = st.thread
      /\ new.at \in {"exit", "dying", "activate", "destroy"}
      /\ st.at = "user" => new.at = "exit" /\ new.pagedir = st.pagedir
      /\ st.at = "exit" /\ st.pagedir = None => new.at = "dying" /\ new.pagedir = st.pagedir
      /\ st.at = "exit" /\ st.pagedir # None => new.at = "activate" /\ new.pagedir = None
      /\ st.at = "activate" => new.at = "destroy" /\ new.pagedir = st.pagedir
  <2>1. CASE st.at = "user" /\ new = [st EXCEPT !.at = "exit"]
    BY <1>1, <2>1 DEF ProcState, Stages
  <2>2. CASE st.at = "exit" /\ st.pagedir = None /\ new = [st EXCEPT !.at = "dying"]
    BY <1>1, <2>2 DEF ProcState, Stages
  <2>3. CASE /\ st.at = "exit" /\ st.pagedir # None
             /\ new = [st EXCEPT !.at = "activate", !.pagedir = None]
    BY <1>1, <2>3 DEF ProcState, Stages, MaybePage
  <2>4. CASE st.at = "activate" /\ new = [st EXCEPT !.at = "destroy"]
    BY <1>1, <2>4 DEF ProcState, Stages
  <2>5. QED BY <1>1, <2>1, <2>2, <2>3, <2>4
<1>3. Shape(new)
  BY <1>1, <1>2 DEF Shape, Loading
<1>4. ImageOK(mem, new)
  BY <1>2 DEF ImageOK, Loading
<1>5. CpuRight'
  <2>1. CASE st.at = "user" \/ (st.at = "exit" /\ st.pagedir = None)
    BY <1>1, <1>2, <2>1, CpuKept
  <2>2. CASE st.at = "exit" /\ st.pagedir # None
    <3>1. cr3' = st.dir
      BY <1>1, <2>2, ConstantsOfSpace DEF SpaceInv, CpuRight, CpuFor, Shape
    <3>2. proc'[p] = new /\ on_cpu' = p
      BY <1>1 DEF SpaceInv
    <3>3. QED BY <1>2, <2>2, <3>1, <3>2 DEF CpuRight
  <2>3. CASE st.at = "activate"
    <3>1. cr3' = Kernel /\ new.pagedir = None
      BY <1>1, <1>2, <2>3 DEF Shape
    <3>2. proc'[p] = new /\ on_cpu' = p
      BY <1>1 DEF SpaceInv
    <3>3. QED BY <3>1, <3>2 DEF CpuRight, CpuFor
  <2>4. QED BY <1>1, <2>1, <2>2, <2>3
<1>6. QED BY <1>1, <1>2, <1>3, <1>4, <1>5, QuietStep

\* Images are in memory: where neither changes they stay.
LEMMA ImagesKept ==
    ASSUME SpaceInv, UNCHANGED <<proc, mem>>
    PROVE  (\A p \in Procs : Shape(proc[p]) /\ ImageOK(mem, proc[p]))'
<1>1. \A p \in Procs : Shape(proc[p]) /\ ImageOK(mem, proc[p])
  BY DEF SpaceInv
<1>2. QED BY <1>1

\* Another thread runs, on its own directory.
LEMMA SwitchKeeps ==
    ASSUME SpaceInv, NEW q \in Procs \cup {Kernel}, switch(q)
    PROVE  SpaceInv'
<1>1. /\ UNCHANGED <<proc, user_used, kernel_used, mem>>
      /\ on_cpu' = q /\ cr3' = CpuFor(q)
  BY DEF switch
<1>2. CpuRight'
  BY <1>1 DEF CpuRight, CpuFor
<1>3. (\A p \in Procs : Shape(proc[p]) /\ ImageOK(mem, proc[p]))'
  BY <1>1, ImagesKept
<1>4. UserUses' = UserUses /\ KernelUses' = KernelUses
  BY <1>1 DEF UserUses, KernelUses
<1>5. QED BY <1>1, <1>2, <1>3, <1>4 DEF SpaceInv, Owned, Uses, Memories

\* The command line's page goes back when the program is loaded or not.
LEMMA StartKeeps ==
    ASSUME SpaceInv, NEW p \in Procs, start_process(p)
    PROVE  SpaceInv'
<1> DEFINE st == proc[p]
           new == proc'[p]
<1>1. /\ st \in ProcState /\ Shape(st) /\ ImageOK(mem, st)
      /\ proc' = [proc EXCEPT ![p] = new]
      /\ UNCHANGED <<user_used, mem, on_cpu, cr3>>
      /\ kernel_used' = kernel_used \ {st.fn_copy}
      /\ \/ st.at = "loaded" /\ new = [st EXCEPT !.at = "user", !.fn_copy = None]
         \/ st.at = "loaded_not" /\ new = [st EXCEPT !.at = "exit", !.fn_copy = None]
  BY ProcessIs DEF start_process, At, becomes, goes, SpaceInv, ProcState
<1> HIDE DEF new
<1>2. /\ new \in ProcState /\ new.exe = st.exe /\ new.phdr = st.phdr
      /\ new.ptes = st.ptes /\ new.tables = st.tables /\ new.dir = st.dir
      /\ new.kpage = st.kpage /\ new.fn_copy = None /\ new.thread = st.thread
      /\ new.pagedir = st.pagedir
      /\ st.at = "loaded" => new.at = "user"
      /\ st.at = "loaded_not" => new.at = "exit"
      /\ st.at \in {"loaded", "loaded_not"}
  BY <1>1, ZenonT(30) DEF ProcState, Stages, MaybePage
<1>a. Shape(new)
  BY <1>1, <1>2 DEF Shape, Loading
<1>3. ImageOK(mem, new)
  <2>1. \A s, g : PageRight(mem, st, s, g) => PageRight(mem, new, s, g)
    BY <1>2 DEF PageRight
  <2>2. QED BY <1>1, <1>2, <2>1 DEF ImageOK, Loading
<1>4. CpuRight'
  BY <1>1, <1>2, CpuKept
<1>5. Owned(Uses(UserUses'), user_used)
  <2>1. UserPagesOf(p, new) = UserPagesOf(p, st)
    BY <1>2 DEF UserPagesOf
  <2>2. QED BY <1>1, <2>1, UserKept
<1>6. Owned(Uses(KernelUses'), kernel_used')
  <2>1. CASE st.fn_copy = None
    <3>1. new.fn_copy = st.fn_copy /\ new.tables = st.tables /\ new.thread = st.thread
          /\ new.dir = st.dir
      BY <1>1, <2>1 DEF ProcState
    <3>2. KernelPagesOf(p, new) = KernelPagesOf(p, st)
      BY <3>1 DEF KernelPagesOf
    <3>3. kernel_used' = kernel_used
      BY <1>1, <2>1 DEF SpaceInv, KernelFrame, None
    <3>4. QED BY <1>1, <3>2, <3>3, KernelKept
  <2>2. CASE st.fn_copy # None
    <3> DEFINE x == <<p, "fn_copy", 0, st.fn_copy>>
    <3>1. new.fn_copy = None /\ new.tables = st.tables /\ new.thread = st.thread
          /\ new.dir = st.dir
      BY <1>1 DEF ProcState
    <3>2. x \in KernelPagesOf(p, st) /\ x[4] = st.fn_copy
      BY DEF KernelPagesOf
    <3>3. \A u : u[4] # None =>
            (u \in KernelPagesOf(p, new) <=> u \in KernelPagesOf(p, st) /\ u # x)
      BY <3>1 DEF KernelPagesOf
    <3> HIDE DEF x
    <3>4. Owned(Uses(KernelUses'), kernel_used \ {x[4]})
      BY <1>1, <2>2, <3>2, <3>3, KernelGiven
    <3>5. QED BY <1>1, <3>2, <3>4
  <2>3. QED BY <2>1, <2>2
<1>7. kernel_used' \subseteq KernelFrame
  BY <1>1 DEF SpaceInv
<1>8. QED
  BY <1>1, <1>2, <1>a, <1>3, <1>4, <1>5, <1>6, <1>7, ProcStep DEF SpaceInv

-----------------------------------------------------------------------------
(* Steps that take pages.                                                    *)

\* palloc_get_page gives a page that is free.
LEMMA FreeUserPage ==
    ASSUME UserFree # {}
    PROVE  Least(UserFree) \in UserFrame /\ Least(UserFree) \notin user_used
           /\ Least(UserFree) # None
<1>1. UserFree \in SUBSET Nat
  BY DEF UserFree, UserFrame
<1>2. Least(UserFree) \in UserFree
  BY <1>1, LeastIs
<1>3. QED BY <1>2, ConstantsOfSpace DEF UserFree, UserFrame, None

\* So does the pool of the kernel.
LEMMA FreeKernelPage ==
    ASSUME KernelFree # {}
    PROVE  Least(KernelFree) \in KernelFrame /\ Least(KernelFree) \notin kernel_used
           /\ Least(KernelFree) # None
<1>1. KernelFree \in SUBSET Nat
  BY DEF KernelFree, KernelFrame
<1>2. Least(KernelFree) \in KernelFree
  BY <1>1, LeastIs
<1>3. QED BY <1>2, ConstantsOfSpace DEF KernelFree, KernelFrame, None

\* Two calls give two pages.
LEMMA TwoFreePages ==
    ASSUME Cardinality(KernelFree) >= 2
    PROVE  LET f == Least(KernelFree)
               g == Least(KernelFree \ {f})
           IN  /\ f \in KernelFrame /\ f \notin kernel_used /\ f # None
               /\ g \in KernelFrame /\ g \notin kernel_used /\ g # None /\ g # f
<1> DEFINE f == Least(KernelFree)
           rest == KernelFree \ {f}
<1>1. KernelFree # {}
  BY FS_EmptySet
<1>2. f \in KernelFrame /\ f \notin kernel_used /\ f # None
  BY <1>1, FreeKernelPage
<1>3. rest # {}
  <2>1. SUFFICES ASSUME rest = {} PROVE FALSE
    OBVIOUS
  <2>2. f \in KernelFree
    BY <1>2 DEF KernelFree
  <2>3. KernelFree = {f}
    BY <2>1, <2>2
  <2> HIDE DEF f
  <2>4. Cardinality({f}) = 1
    BY FS_Singleton
  <2>5. QED BY <2>3, <2>4
<1>4. rest \in SUBSET Nat
  BY DEF KernelFree, KernelFrame
<1>5. Least(rest) \in rest
  BY <1>3, <1>4, LeastIs
<1>6. QED BY <1>2, <1>5, ConstantsOfSpace DEF KernelFree, KernelFrame, None

\* process_execute and thread_create take a page each.
LEMMA ExecuteKeeps ==
    ASSUME SpaceInv, NEW p \in Procs, NEW x \in Executables[p], process_execute(p, x)
    PROVE  SpaceInv'
<1> DEFINE f == Least(KernelFree)
           g == Least(KernelFree \ {f})
           new == [NoProcess EXCEPT !.at = "load", !.exe = x, !.fn_copy = f, !.thread = g]
<1>1. /\ proc[p] = NoProcess /\ proc' = [proc EXCEPT ![p] = new]
      /\ kernel_used' = kernel_used \cup {f, g} /\ Cardinality(KernelFree) >= 2
      /\ UNCHANGED <<user_used, mem, on_cpu, cr3>>
  BY ProcessIs DEF process_execute, becomes, Shape
<1>2. /\ f \in KernelFrame /\ f \notin kernel_used /\ f # None
      /\ g \in KernelFrame /\ g \notin kernel_used /\ g # None /\ g # f
  BY <1>1, TwoFreePages
<1>3. x \in Executable
  BY SpaceAssumption
<1> HIDE DEF f, g
<1>4. /\ new.at = "load" /\ new.exe = x /\ new.fn_copy = f /\ new.thread = g
      /\ new.phdr = 1 /\ new.todo = NoSegment /\ new.kpage = None /\ new.pagedir = None
      /\ new.dir = None /\ new.tables = Empty /\ new.ptes = Empty
      /\ NoProcess.ptes = Empty /\ NoProcess.tables = Empty /\ NoProcess.kpage = None
      /\ NoProcess.thread = None /\ NoProcess.fn_copy = None /\ NoProcess.dir = None
      /\ NoProcess.pagedir = None /\ NoProcess.at = "none"
  BY DEF NoProcess
<1>5. new \in ProcState
  <2>1. NoProcess \in ProcState
    BY <1>1, ProcessIs
  <2>2. QED BY <1>2, <1>3, <2>1 DEF ProcState, Stages, MaybePage
<1> HIDE DEF new
<1>6. DOMAIN Empty = {}
  BY DEF Empty
<1>7. Shape(new) /\ ImageOK(mem, new)
  BY <1>4, <1>6 DEF Shape, ImageOK, Loading
<1>8. CpuRight'
  BY <1>1, <1>4, CpuKept
<1>9. Owned(Uses(UserUses'), user_used)
  <2>1. UserPagesOf(p, new) = UserPagesOf(p, proc[p])
    BY <1>1, <1>4 DEF UserPagesOf
  <2>2. QED BY <1>1, <2>1, UserKept
<1>10. Owned(Uses(KernelUses'), kernel_used')
  <2> DEFINE F == KernelUses
             G == KernelUses'
             y == <<p, "fn_copy", 0, f>>
             z == <<p, "thread", 0, g>>
             M == [F EXCEPT ![p] = @ \cup {y}]
  <2>1. \A u : u[4] # None => (u \in G[p] <=> u = y \/ u = z)
    <3>1. G[p] = KernelPagesOf(p, new)
      BY <1>1, OthersUse
    <3>2. QED BY <1>2, <1>4, <1>6, <3>1 DEF KernelPagesOf
  <2>2. \A u : u[4] # None => u \notin F[p]
    <3>1. F[p] = KernelPagesOf(p, NoProcess)
      BY <1>1, OthersUse
    <3>2. QED BY <1>4, <1>6, <3>1 DEF KernelPagesOf
  <2>3. \A q \in Procs : q # p => G[q] = F[q]
    BY <1>1, OthersUse
  <2>4. Tagged(F) /\ Tagged(G) /\ Owned(Uses(F), kernel_used)
    BY UsesTagged DEF SpaceInv
  <2>5. F = [q \in Procs |-> F[q]]
    BY DEF KernelUses
  <2>6. y[1] = p /\ y[4] = f /\ z[4] = g
    OBVIOUS
  <2> HIDE DEF F, G, y, z
  <2>7. (\A q \in Procs : q # p => M[q] = F[q] /\ G[q] = M[q]) /\ M[p] = F[p] \cup {y}
    BY <2>3, <2>5
  <2>8. Tagged(M)
    BY <2>4, <2>6, <2>7 DEF Tagged
  <2> HIDE DEF M
  <2>9. \A u : u[4] # None => (u \in M[p] <=> u \in F[p] \/ u = y)
    BY <2>7
  <2>10. Owned(Uses(M), kernel_used \cup {y[4]})
    BY <1>2, <2>4, <2>6, <2>7, <2>8, <2>9, PageTaken
  <2>11. \A u : u[4] # None => (u \in G[p] <=> u \in M[p] \/ u = z)
    BY <2>1, <2>2, <2>9
  <2>12. z[4] \notin kernel_used \cup {y[4]} /\ z[4] # None
    BY <1>2, <2>6
  <2> DEFINE pages == kernel_used \cup {y[4]}
  <2> HIDE DEF pages
  <2>13. Owned(Uses(G), pages \cup {z[4]})
    BY <2>4, <2>7, <2>8, <2>10, <2>11, <2>12, PageTaken DEF pages
  <2>14. pages \cup {z[4]} = kernel_used'
    BY <1>1, <2>6 DEF pages
  <2>15. QED BY <2>13, <2>14 DEF G
<1>11. kernel_used' \subseteq KernelFrame
  BY <1>1, <1>2 DEF SpaceInv
<1>12. QED
  BY <1>1, <1>5, <1>7, <1>8, <1>9, <1>10, <1>11, ProcStep DEF SpaceInv

\* pagedir_create takes one and makes it the active directory.
LEMMA CreateKeeps ==
    ASSUME SpaceInv, NEW p \in Procs, pagedir_create(p)
    PROVE  SpaceInv'
<1> DEFINE st == proc[p]
           f == Least(KernelFree)
<1>1. /\ st \in ProcState /\ Shape(st) /\ st.at = "load" /\ on_cpu = p
      /\ UNCHANGED <<user_used, mem, on_cpu>>
  BY ProcessIs DEF pagedir_create, At
<1>2. st.pagedir = None /\ st.dir = None /\ st.kpage = None /\ st.phdr = 1
      /\ DOMAIN st.ptes = {} /\ DOMAIN st.tables = {}
  BY <1>1 DEF Shape
<1>3. CASE KernelFree = {}
  <2> DEFINE new == goes(p, "loaded_not")
  <2>1. proc' = [proc EXCEPT ![p] = new] /\ UNCHANGED <<kernel_used, cr3>>
    BY <1>3 DEF pagedir_create, becomes
  <2>2. new = [st EXCEPT !.at = "loaded_not"]
    BY DEF goes
  <2> HIDE DEF new
  <2>3. new \in ProcState /\ new.at = "loaded_not"
    BY <1>1, <2>2 DEF ProcState, Stages
  <2>4. Shape(new) /\ ImageOK(mem, new)
    BY <1>1, <1>2, <2>2, <2>3 DEF ProcState, Shape, ImageOK, Loading
  <2>5. CpuRight'
    BY <1>1, <2>1, <2>2, CpuKept DEF ProcState
  <2>6. QED BY <1>1, <2>1, <2>2, <2>3, <2>4, <2>5, QuietStep DEF ProcState
<1>4. CASE KernelFree # {}
  <2> DEFINE new == [goes(p, "header") EXCEPT !.pagedir = f, !.dir = f]
             x == <<p, "dir", 0, f>>
  <2>1. /\ proc' = [proc EXCEPT ![p] = new]
        /\ kernel_used' = kernel_used \cup {f} /\ cr3' = f
    BY <1>4 DEF pagedir_create, becomes
  <2>2. f \in KernelFrame /\ f \notin kernel_used /\ f # None
    BY <1>4, FreeKernelPage
  <2> HIDE DEF f
  <2>3. /\ new \in ProcState /\ new.at = "header" /\ new.pagedir = f /\ new.dir = f
        /\ new.ptes = st.ptes /\ new.tables = st.tables /\ new.kpage = st.kpage
        /\ new.thread = st.thread /\ new.fn_copy = st.fn_copy /\ new.phdr = st.phdr
    BY <1>1, <2>2 DEF ProcState, Stages, MaybePage, goes
  <2> HIDE DEF new
  <2>4. Shape(new) /\ ImageOK(mem, new)
    BY <1>2, <2>2, <2>3 DEF Shape, ImageOK, Loading
  <2>5. CpuRight'
    <3>1. proc'[p] = new
      BY <2>1 DEF SpaceInv
    <3>2. QED BY <1>1, <2>1, <2>2, <2>3, <3>1, ConstantsOfSpace DEF CpuRight, CpuFor
  <2>6. Owned(Uses(UserUses'), user_used)
    <3>1. UserPagesOf(p, new) = UserPagesOf(p, st)
      BY <2>3 DEF UserPagesOf
    <3>2. QED BY <2>1, <3>1, UserKept
  <2>7. Owned(Uses(KernelUses'), kernel_used')
    <3>1. \A u : u[4] # None =>
            (u \in KernelPagesOf(p, new) <=> u \in KernelPagesOf(p, st) \/ u = x)
      BY <1>2, <2>3 DEF KernelPagesOf
    <3>2. x[4] = f
      OBVIOUS
    <3> HIDE DEF x
    <3>3. Owned(Uses(KernelUses'), kernel_used \cup {x[4]})
      BY <2>1, <2>2, <3>1, <3>2, KernelTaken
    <3>4. QED BY <2>1, <3>2, <3>3
  <2>8. kernel_used' \subseteq KernelFrame
    BY <2>1, <2>2 DEF SpaceInv
  <2>9. QED
    BY <1>1, <2>1, <2>3, <2>4, <2>5, <2>6, <2>7, <2>8, ProcStep DEF SpaceInv
<1>5. QED BY <1>3, <1>4

-----------------------------------------------------------------------------
(* Loading the pages.                                                        *)

\* The frames of a process are taken, so that it keeps its image when a free
\* page is written.
LEMMA FreshWrite ==
    ASSUME SpaceInv, NEW p \in Procs, NEW f, f \notin user_used, NEW bytes,
           proc[p].at # "install"
    PROVE  ImageOK([mem EXCEPT ![f] = bytes], proc[p])
<1> DEFINE st == proc[p]
<1>1. st \in ProcState /\ ImageOK(mem, st)
  BY ProcessIs
<1>2. ASSUME NEW g \in DOMAIN st.ptes
      PROVE  [mem EXCEPT ![f] = bytes][st.ptes[g].frame] = mem[st.ptes[g].frame]
  <2> DEFINE h == st.ptes[g].frame
             u == <<p, "page", g, h>>
  <2>1. h \in UserFrame /\ h # None
    BY <1>1 DEF ProcState, Partial, UserFrame, None
  <2>2. u \in UserUses[p] /\ u[4] = h
    BY DEF UserUses, UserPagesOf
  <2> HIDE DEF u, h
  <2>3. h \in user_used
    BY <2>1, <2>2 DEF SpaceInv, Owned, Uses
  <2>4. [mem EXCEPT ![f] = bytes][h] = mem[h]
    BY <2>1, <2>3 DEF SpaceInv, Memories
  <2>5. QED BY <2>4 DEF h
<1>3. QED BY <1>1, <1>2, ImageKept

\* load_segment fills a page as the header says it should be.
LEMMA PageFilled ==
    ASSUME NEW s \in ProgramHeader, NEW length \in Nat, validate_segment(s, length),
           NEW t \in Todo, TodoIs(s, t), ~(t.read = 0 /\ t.zero = 0)
    PROVE  /\ page_bytes(t) \in [0..PGSIZE - 1 -> Int] /\ t.upage < Beyond(s)
           /\ \A b \in 0..PGSIZE - 1 : page_bytes(t)[b] = SegByte(s, PageStart(t.upage) + b)
<1> DEFINE f == PageStart(First(s))
           e == PageStart(Beyond(s))
           g == PageStart(t.upage)
           r == read_bytes(s)
           o == s.vaddr % PGSIZE
<1>1. /\ t.upage \in Nat /\ t.pos \in Nat /\ t.read \in Nat /\ t.zero \in Nat
      /\ s.vaddr \in Nat /\ s.filesz \in Nat /\ s.offset \in Nat
      /\ PGSIZE \in Nat /\ PGSIZE > 0
  BY ConstantsOfSpace DEF Todo, ProgramHeader
<1>2. /\ First(s) \in Nat /\ Beyond(s) \in Nat /\ First(s) <= t.upage /\ t.upage <= Beyond(s)
      /\ s.vaddr = f + o /\ s.offset % PGSIZE = o
  BY SegmentPages, StackIsLast DEF TodoIs
<1>3. f \in Nat /\ e \in Nat /\ g \in Nat /\ f <= g
  <2>1. f \in Nat /\ e \in Nat /\ g \in Nat
    BY <1>1, <1>2, PageStarts
  <2>2. First(s) < t.upage => f < g
    BY <1>1, <1>2, PageStarts
  <2>3. First(s) = t.upage => f = g
    OBVIOUS
  <2>4. First(s) < t.upage \/ First(s) = t.upage
    BY <1>1, <1>2
  <2> HIDE DEF f, e, g
  <2>5. QED BY <2>1, <2>2, <2>3, <2>4
<1>4. /\ t.read + t.zero = e - g
      /\ t.read = IF g - f < r THEN r - (g - f) ELSE 0
      /\ t.read > 0 => t.pos = s.offset - o + (g - f)
  BY <1>2 DEF TodoIs
<1>5. o \in 0..PGSIZE - 1 /\ r = IF s.filesz > 0 THEN o + s.filesz ELSE 0
  BY <1>1, AddressInPage DEF read_bytes
<1>6. t.upage < Beyond(s)
  <2>1. t.upage # Beyond(s)
    BY <1>1, <1>3, <1>4
  <2>2. QED BY <1>1, <1>2, <2>1
<1> HIDE DEF f, e, g, r, o
<1>7. ASSUME NEW b \in 0..PGSIZE - 1
      PROVE  page_bytes(t)[b] \in Int /\ page_bytes(t)[b] = SegByte(s, PageStart(t.upage) + b)
  <2>1. page_bytes(t)[b] = IF b < page_read_bytes(t) THEN t.pos + b ELSE ZeroByte
    BY DEF page_bytes
  <2>2. b < page_read_bytes(t) <=> b < t.read
    BY <1>1 DEF page_read_bytes
  <2> DEFINE a == g + b
  <2> HIDE DEF a
  <2>3. SegByte(s, a) = IF s.filesz > 0 /\ a < s.vaddr + s.filesz
                        THEN s.offset + (a - s.vaddr) ELSE ZeroByte
    BY DEF SegByte
  <2>4. b < t.read <=> s.filesz > 0 /\ a < s.vaddr + s.filesz
    BY <1>1, <1>2, <1>3, <1>4, <1>5 DEF a
  <2>5. b < t.read => t.pos + b = s.offset + (a - s.vaddr)
    BY <1>1, <1>2, <1>3, <1>4, <1>5 DEF a
  <2>6. page_bytes(t)[b] = SegByte(s, g + b)
    <3>1. page_bytes(t)[b] = SegByte(s, a)
      BY <2>1, <2>2, <2>3, <2>4, <2>5
    <3>2. QED BY <3>1 DEF a
  <2>7. page_bytes(t)[b] \in Int
    BY <1>1, <2>1 DEF ZeroByte
  <2>8. QED BY <2>6, <2>7 DEF g
<1>8. page_bytes(t) \in [0..PGSIZE - 1 -> Int]
  BY <1>7 DEF page_bytes
<1>9. QED BY <1>6, <1>7, <1>8

\* A user page that was free is written and is to be installed.
LEMMA FetchKeeps ==
    ASSUME SpaceInv, NEW p \in Procs, proc[p].at \in {"segment", "stack"},
           NEW new \in ProcState, proc' = [proc EXCEPT ![p] = new],
           NEW f \in UserFrame, f \notin user_used, f # None,
           NEW bytes \in [0..PGSIZE - 1 -> Int],
           new = [proc[p] EXCEPT !.at = "install", !.kpage = f, !.todo = new.todo],
           user_used' = user_used \cup {f}, mem' = [mem EXCEPT ![f] = bytes],
           UNCHANGED <<kernel_used, on_cpu, cr3>>, ImageOK(mem', new)
    PROVE  SpaceInv'
<1> DEFINE st == proc[p]
<1>1. st \in ProcState /\ Shape(st)
  BY ProcessIs
<1>2. /\ new.at = "install" /\ new.kpage = f /\ new.exe = st.exe /\ new.phdr = st.phdr
      /\ new.ptes = st.ptes /\ new.tables = st.tables /\ new.dir = st.dir
      /\ new.pagedir = st.pagedir /\ new.fn_copy = st.fn_copy /\ new.thread = st.thread
  BY <1>1 DEF ProcState
<1>3. Shape(new)
  BY <1>1, <1>2 DEF Shape, Loading
<1>4. CpuRight'
  BY <1>2, CpuKept
<1>5. Owned(Uses(KernelUses'), kernel_used)
  <2>1. KernelPagesOf(p, new) = KernelPagesOf(p, st)
    BY <1>2 DEF KernelPagesOf
  <2>2. QED BY <2>1, KernelKept
<1>6. Owned(Uses(UserUses'), user_used')
  <2> DEFINE x == <<p, "kpage", 0, f>>
  <2>1. st.kpage = None
    BY <1>1 DEF Shape
  <2>2. \A u : u[4] # None => (u \in UserPagesOf(p, new) <=> u \in UserPagesOf(p, st) \/ u = x)
    BY <1>2, <2>1 DEF UserPagesOf
  <2>3. x[4] = f
    OBVIOUS
  <2> HIDE DEF x
  <2>4. Owned(Uses(UserUses'), user_used \cup {x[4]})
    BY <2>2, <2>3, UserTaken
  <2>5. QED BY <2>3, <2>4
<1>7. mem' \in Memories /\ \A h \in UserFrame : mem'[h] # mem[h] => h = f
  BY DEF SpaceInv, Memories
<1>8. user_used' \subseteq UserFrame
  BY DEF SpaceInv
<1>9. QED
  BY <1>3, <1>4, <1>5, <1>6, <1>7, <1>8, ProcStep DEF SpaceInv

\* load_segment is done, fails, or has read a page.
LEMMA SegmentKeeps ==
    ASSUME SpaceInv, NEW p \in Procs, load_segment(p)
    PROVE  SpaceInv'
<1> DEFINE st == proc[p]
           x == st.exe
           t == st.todo
           s == x.phdrs[st.phdr]
           f == Least(UserFree)
           new == proc'[p]
<1>1. /\ st \in ProcState /\ Shape(st) /\ ImageOK(mem, st) /\ st.at = "segment"
      /\ proc' = [proc EXCEPT ![p] = new] /\ UNCHANGED <<kernel_used, on_cpu, cr3>>
      /\ \/ /\ t.read = 0 /\ t.zero = 0 /\ UNCHANGED <<user_used, mem>>
            /\ new = [st EXCEPT !.at = "phdr", !.phdr = @ + 1, !.todo = NoSegment]
         \/ /\ UNCHANGED <<user_used, mem>> /\ new = [st EXCEPT !.at = "loaded_not"]
         \/ /\ ~(t.read = 0 /\ t.zero = 0) /\ UserFree # {}
            /\ new = [st EXCEPT !.at = "install", !.kpage = f]
            /\ user_used' = user_used \cup {f} /\ mem' = [mem EXCEPT ![f] = page_bytes(t)]
  BY ProcessIs DEF load_segment, At, becomes, goes, SpaceInv, ProcState
<1> HIDE DEF new
<1>2. /\ x.phdrs \in Seq(ProgramHeader) /\ st.phdr \in Nat /\ st.phdr >= 1
      /\ x.length \in Nat /\ DOMAIN x.phdrs = 1..Len(x.phdrs) /\ Len(x.phdrs) \in Nat
      /\ st.phdr <= Len(x.phdrs) /\ t \in Todo
  BY <1>1 DEF ProcState, Executable, Shape
<1>3. s \in ProgramHeader
  BY <1>2
<1>4. \A i \in DOMAIN x.phdrs : i < st.phdr /\ x.phdrs[i].type = "load" =>
        \A g \in First(x.phdrs[i])..Beyond(x.phdrs[i]) - 1 : PageRight(mem, st, x.phdrs[i], g)
  BY <1>1 DEF ImageOK, Loading
<1>5. /\ s.type = "load" /\ validate_segment(s, x.length) /\ TodoIs(s, t)
      /\ \A g \in First(s)..t.upage - 1 : PageRight(mem, st, s, g)
  BY <1>1, <1>2 DEF ImageOK
<1>6. CASE /\ t.read = 0 /\ t.zero = 0 /\ UNCHANGED <<user_used, mem>>
           /\ new = [st EXCEPT !.at = "phdr", !.phdr = @ + 1, !.todo = NoSegment]
  <2>1. st.phdr + 1 \in Nat \ {0} /\ NoSegment \in Todo
    <3>1. NoSegment \in Todo
      BY ConstantsOfSpace DEF NoSegment, Segment, Todo
    <3>2. QED BY <1>2, <3>1
  <2>2. /\ new \in ProcState /\ new.exe = x /\ new.phdr = st.phdr + 1 /\ new.at = "phdr"
        /\ new.ptes = st.ptes /\ new.tables = st.tables /\ new.dir = st.dir
        /\ new.pagedir = st.pagedir /\ new.kpage = st.kpage
        /\ new.fn_copy = st.fn_copy /\ new.thread = st.thread
    BY <1>1, <1>6, <2>1 DEF ProcState, Stages
  <2>3. Shape(new)
    BY <1>1, <2>2 DEF Shape, Loading
  <2>4. t.upage = Beyond(s)
    <3>a. /\ t.upage \in First(s)..Beyond(s)
          /\ t.read + t.zero = PageStart(Beyond(s)) - PageStart(t.upage)
      BY <1>5 DEF TodoIs
    <3>b. Beyond(s) \in Nat
      BY <1>2, <1>3, <1>5, SegmentPages, StackIsLast
    <3>1. t.upage \in Nat /\ Beyond(s) \in Nat /\ t.upage <= Beyond(s)
      BY <1>2, <3>a, <3>b DEF Todo
    <3>2. PageStart(t.upage) \in Nat /\ PageStart(Beyond(s)) \in Nat
          /\ (t.upage < Beyond(s) => PageStart(t.upage) < PageStart(Beyond(s)))
      BY <3>1, PageStarts
    <3>3. PageStart(Beyond(s)) - PageStart(t.upage) = 0
      BY <1>6, <3>a
    <3>4. QED BY <3>1, <3>2, <3>3
  <2>5. \A i \in DOMAIN x.phdrs : i < st.phdr + 1 /\ x.phdrs[i].type = "load" =>
          \A g \in First(x.phdrs[i])..Beyond(x.phdrs[i]) - 1 :
            PageRight(mem, new, x.phdrs[i], g)
    <3>1. \A h, g : PageRight(mem, st, h, g) => PageRight(mem, new, h, g)
      BY <2>2 DEF PageRight
    <3>2. \A g \in First(s)..Beyond(s) - 1 : PageRight(mem, new, s, g)
      BY <1>5, <2>4, <3>1
    <3>3. \A i \in DOMAIN x.phdrs : i < st.phdr + 1 => i < st.phdr \/ i = st.phdr
      BY <1>2
    <3>4. QED BY <1>4, <3>1, <3>2, <3>3
  <2>6. ImageOK(mem, new)
    BY <2>2, <2>5 DEF ImageOK
  <2>7. CpuRight'
    BY <1>1, <2>2, CpuKept
  <2>8. QED BY <1>1, <1>6, <2>2, <2>3, <2>6, <2>7, QuietStep
<1>7. CASE UNCHANGED <<user_used, mem>> /\ new = [st EXCEPT !.at = "loaded_not"]
  <2>1. new \in ProcState /\ Shape(new)
    BY <1>1, <1>7 DEF ProcState, Shape, Stages, Loading
  <2>2. ImageOK(mem, new)
    BY <1>1, <1>7 DEF ImageOK, ProcState, Loading
  <2>3. CpuRight'
    BY <1>1, <1>7, CpuKept DEF ProcState
  <2>4. QED BY <1>1, <1>7, <2>1, <2>2, <2>3, QuietStep DEF ProcState
<1>8. CASE /\ ~(t.read = 0 /\ t.zero = 0) /\ UserFree # {}
           /\ new = [st EXCEPT !.at = "install", !.kpage = f]
           /\ user_used' = user_used \cup {f} /\ mem' = [mem EXCEPT ![f] = page_bytes(t)]
  <2>1. f \in UserFrame /\ f \notin user_used /\ f # None
    BY <1>8, FreeUserPage
  <2> HIDE DEF f
  <2>2. /\ new \in ProcState /\ new.exe = x /\ new.phdr = st.phdr /\ new.at = "install"
        /\ new.ptes = st.ptes /\ new.todo = t /\ new.kpage = f
        /\ new = [st EXCEPT !.at = "install", !.kpage = f, !.todo = new.todo]
    BY <1>1, <1>8, <2>1 DEF ProcState, Stages
  <2>3. /\ page_bytes(t) \in [0..PGSIZE - 1 -> Int] /\ t.upage < Beyond(s)
        /\ \A b \in 0..PGSIZE - 1 : page_bytes(t)[b] = SegByte(s, PageStart(t.upage) + b)
    BY <1>2, <1>3, <1>5, <1>8, PageFilled
  <2>4. mem'[f] = page_bytes(t)
    BY <1>8, <2>1 DEF SpaceInv, Memories
  <2>5. ImageOK(mem', st)
    BY <1>1, <1>8, <2>1, FreshWrite
  <2>6. ImageOK(mem', new)
    <3>1. \A h, g : PageRight(mem', st, h, g) => PageRight(mem', new, h, g)
      BY <2>2 DEF PageRight
    <3>2. \A i \in DOMAIN x.phdrs : i < st.phdr /\ x.phdrs[i].type = "load" =>
            \A g \in First(x.phdrs[i])..Beyond(x.phdrs[i]) - 1 :
              PageRight(mem', new, x.phdrs[i], g)
      BY <1>1, <2>5, <3>1 DEF ImageOK, Loading
    <3>3. \A g \in First(s)..t.upage - 1 : PageRight(mem', new, s, g)
      BY <1>1, <1>2, <2>5, <3>1 DEF ImageOK
    <3>4. \A b \in 0..PGSIZE - 1 : mem'[new.kpage][b] = SegByte(s, PageStart(t.upage) + b)
      BY <2>2, <2>3, <2>4
    <3>5. ~(new.phdr > Len(new.exe.phdrs)) /\ new.exe.phdrs[new.phdr] = s
          /\ new.exe.length = x.length
      BY <1>2, <2>2
    <3>6. /\ s.type = "load" /\ validate_segment(s, x.length) /\ TodoIs(s, new.todo)
          /\ new.todo.upage < Beyond(s)
          /\ \A g \in First(s)..new.todo.upage - 1 : PageRight(mem', new, s, g)
          /\ \A b \in 0..PGSIZE - 1 :
               mem'[new.kpage][b] = SegByte(s, PageStart(new.todo.upage) + b)
      BY <1>5, <2>2, <2>3, <3>3, <3>4
    <3>7. new.at = "install" /\ new.exe = x /\ new.phdr = st.phdr
      BY <2>2
    <3> HIDE DEF s, x, t
    <3>8. QED BY <3>2, <3>5, <3>6, <3>7 DEF ImageOK
  <2>7. QED BY <1>1, <1>8, <2>1, <2>2, <2>3, <2>6, FetchKeeps
<1>9. QED BY <1>1, <1>6, <1>7, <1>8

\* setup_stack finds no page, and the kernel panics, or has a page of zeros.
LEMMA StackKeeps ==
    ASSUME SpaceInv, NEW p \in Procs, setup_stack(p)
    PROVE  SpaceInv'
<1> DEFINE st == proc[p]
           f == Least(UserFree)
           new == proc'[p]
<1>1. /\ st \in ProcState /\ Shape(st) /\ st.at = "stack"
      /\ UNCHANGED <<kernel_used, on_cpu, cr3>>
      /\ UserFree = {} => UNCHANGED <<proc, user_used, mem>>
      /\ UserFree # {} =>
           /\ proc' = [proc EXCEPT ![p] = new]
           /\ new = [st EXCEPT !.at = "install", !.kpage = f,
                               !.todo = Segment(StackPage, 0, 0, PGSIZE, TRUE)]
           /\ user_used' = user_used \cup {f} /\ mem' = [mem EXCEPT ![f] = Filled(ZeroByte)]
  BY ProcessIs DEF setup_stack, At, becomes, goes, SpaceInv, ProcState
<1> HIDE DEF new
<1>2. CASE UserFree = {}
  <2>1. UNCHANGED <<proc, user_used, kernel_used, mem, on_cpu, cr3>>
    BY <1>1, <1>2
  <2>2. (\A q \in Procs : Shape(proc[q]) /\ ImageOK(mem, proc[q]))'
    BY <2>1, ImagesKept
  <2>3. UserUses' = UserUses /\ KernelUses' = KernelUses
    BY <2>1 DEF UserUses, KernelUses
  <2>4. CpuRight'
    BY <2>1 DEF SpaceInv, CpuRight, CpuFor
  <2>5. QED BY <2>1, <2>2, <2>3, <2>4 DEF SpaceInv, Owned, Uses, Memories
<1>3. CASE UserFree # {}
  <2>1. f \in UserFrame /\ f \notin user_used /\ f # None
    BY <1>3, FreeUserPage
  <2> HIDE DEF f
  <2>2. Segment(StackPage, 0, 0, PGSIZE, TRUE) \in Todo
    <3>1. PGSIZE \in 0..Addresses /\ 0 \in 0..Addresses
      BY ConstantsOfSpace
    <3>2. QED BY <3>1, StackIsLast DEF Segment, Todo
  <2> DEFINE todo == Segment(StackPage, 0, 0, PGSIZE, TRUE)
  <2>t. todo.upage = StackPage
    BY DEF Segment
  <2>n. new = [st EXCEPT !.at = "install", !.kpage = f, !.todo = todo] /\ todo \in Todo
    BY <1>1, <1>3, <2>2
  <2> HIDE DEF todo
  <2>3. /\ new \in ProcState /\ new.exe = st.exe /\ new.phdr = st.phdr /\ new.at = "install"
        /\ new.ptes = st.ptes /\ new.todo = todo /\ new.todo.upage = StackPage
        /\ new.kpage = f
        /\ new = [st EXCEPT !.at = "install", !.kpage = f, !.todo = new.todo]
    BY <1>1, <2>1, <2>t, <2>n DEF ProcState, Stages
  <2>4. ImageOK(mem', st)
    BY <1>1, <1>3, <2>1, FreshWrite
  <2>5. ImageOK(mem', new)
    <3>1. \A h, g : PageRight(mem', st, h, g) => PageRight(mem', new, h, g)
      BY <2>3 DEF PageRight
    <3>2. st.phdr > Len(st.exe.phdrs) /\ st.phdr \in Nat /\ Len(st.exe.phdrs) \in Nat
      BY <1>1 DEF Shape, ProcState, Executable
    <3>3. QED BY <1>1, <2>3, <2>4, <3>1, <3>2 DEF ImageOK, Loading
  <2> DEFINE bytes == Filled(ZeroByte)
  <2>6. bytes \in [0..PGSIZE - 1 -> Int]
    BY DEF Filled, ZeroByte
  <2>7. /\ mem' = [mem EXCEPT ![f] = bytes] /\ user_used' = user_used \cup {f}
        /\ proc' = [proc EXCEPT ![p] = new]
    BY <1>1, <1>3
  <2> HIDE DEF bytes
  <2>8. QED BY <1>1, <2>1, <2>3, <2>5, <2>6, <2>7, FetchKeeps
<1>4. QED BY <1>2, <1>3

\* The page table of a page of programs.
LEMMA TableOf ==
    ASSUME NEW g \in UPage
    PROVE  g \div PerTable \in UPage
<1>1. PerTable \in Nat /\ PerTable > 0 /\ g \in Nat /\ g <= StackPage /\ StackPage \in Nat
  BY ConstantsOfSpace, StackIsLast
<1> DEFINE q == g \div PerTable
<1>2. q \in Nat /\ g = q * PerTable + (g % PerTable) /\ g % PerTable \in Nat
  BY <1>1
<1> HIDE DEF q
<1>3. q <= q * PerTable
  BY <1>1, <1>2
<1>4. q * PerTable \in Nat
  BY <1>1, <1>2
<1>5. q \in 0..StackPage
  BY <1>1, <1>2, <1>3, <1>4
<1>6. QED BY <1>5, StackIsLast DEF q

\* What remains of a segment after a page of it.
LEMMA AdvancedIs ==
    ASSUME NEW s \in ProgramHeader, NEW length \in Nat, validate_segment(s, length),
           NEW t \in Todo, TodoIs(s, t), t.upage < Beyond(s)
    PROVE  /\ advanced(t) \in Todo /\ TodoIs(s, advanced(t))
           /\ advanced(t).upage = t.upage + 1
<1> DEFINE f == PageStart(First(s))
           e == PageStart(Beyond(s))
           g == PageStart(t.upage)
           r == read_bytes(s)
           o == s.offset - (s.offset % PGSIZE)
           prb == page_read_bytes(t)
           a == advanced(t)
<1>1. /\ t.upage \in Nat /\ t.pos \in Nat /\ t.read \in 0..Addresses /\ t.zero \in 0..Addresses
      /\ t.writable \in BOOLEAN /\ PGSIZE \in Nat /\ PGSIZE > 0 /\ Addresses \in Nat
  BY ConstantsOfSpace DEF Todo
<1>2. /\ First(s) \in Nat /\ Beyond(s) \in Nat /\ First(s) <= t.upage /\ r \in 0..e - f
      /\ o \in Nat
  BY SegmentPages, StackIsLast DEF TodoIs
<1>3. f \in Nat /\ e \in Nat /\ g \in Nat /\ f <= g /\ g + PGSIZE <= e
      /\ PageStart(t.upage + 1) = g + PGSIZE
  <2>1. f \in Nat /\ e \in Nat /\ g \in Nat /\ PageStart(t.upage + 1) = g + PGSIZE
    BY <1>1, <1>2, PageStarts
  <2>2. First(s) < t.upage => f < g
    BY <1>1, <1>2, PageStarts
  <2>3. First(s) = t.upage => f = g
    OBVIOUS
  <2>4. First(s) < t.upage \/ First(s) = t.upage
    BY <1>1, <1>2
  <2>5. g + PGSIZE <= e
    BY <1>1, <1>2, PageStarts
  <2> HIDE DEF f, e, g
  <2>6. QED BY <2>1, <2>2, <2>3, <2>4, <2>5
<1>4. /\ t.read + t.zero = e - g /\ t.writable = s.writable
      /\ t.read = IF g - f < r THEN r - (g - f) ELSE 0
      /\ t.read > 0 => t.pos = o + (g - f)
  BY DEF TodoIs
<1>5. prb = IF t.read < PGSIZE THEN t.read ELSE PGSIZE
  BY DEF page_read_bytes
<1>6. /\ a.upage = t.upage + 1 /\ a.pos = t.pos + prb /\ a.read = t.read - prb
      /\ a.zero = t.zero - (PGSIZE - prb) /\ a.writable = t.writable
      /\ a = [upage |-> a.upage, pos |-> a.pos, read |-> a.read, zero |-> a.zero,
              writable |-> a.writable]
  <2>1. t = [upage |-> t.upage, pos |-> t.pos, read |-> t.read, zero |-> t.zero,
             writable |-> t.writable]
    BY DEF Todo
  <2> DEFINE n == page_read_bytes(t)
  <2> HIDE DEF n
  <2>2. advanced(t) = [t EXCEPT !.upage = t.upage + 1, !.pos = t.pos + n,
                                !.read = t.read - n, !.zero = t.zero - (PGSIZE - n)]
    BY DEF advanced, n
  <2>3. advanced(t) = [upage |-> t.upage + 1, pos |-> t.pos + n, read |-> t.read - n,
                       zero |-> t.zero - (PGSIZE - n), writable |-> t.writable]
    BY <2>1, <2>2
  <2> HIDE DEF a
  <2>4. a = advanced(t) /\ prb = n
    BY DEF a, n
  <2>5. QED BY <2>3, <2>4
<1> DEFINE h == g + PGSIZE
<1> HIDE DEF f, e, g, r, o, prb, a, h
<1>7. /\ a.upage \in Nat /\ a.pos \in Nat /\ a.read \in 0..Addresses /\ a.zero \in 0..Addresses
      /\ a.read + a.zero = e - h /\ h \in Nat
      /\ a.read = IF h - f < r THEN r - (h - f) ELSE 0
      /\ a.read > 0 => a.pos = o + (h - f)
  <2>1. h = g + PGSIZE /\ h \in Nat
    BY <1>1, <1>3 DEF h
  <2>2. prb \in Nat /\ prb <= t.read /\ prb <= PGSIZE
    BY <1>1, <1>5
  <2>3. t.zero >= PGSIZE - prb
    BY <1>1, <1>3, <1>4, <1>5
  <2>4. a.read \in 0..Addresses /\ a.zero \in 0..Addresses
    BY <1>1, <1>6, <2>2, <2>3
  <2>5. a.read + a.zero = e - h
    BY <1>1, <1>3, <1>4, <1>6, <2>1, <2>2
  <2>6. a.upage \in Nat /\ a.pos \in Nat
    BY <1>1, <1>6, <2>2
  <2>7. CASE t.read < PGSIZE
    <3>1. a.read = 0
      BY <1>1, <1>5, <1>6, <2>7
    <3>2. ~(h - f < r)
      BY <1>1, <1>2, <1>3, <1>4, <2>1, <2>7
    <3>3. QED BY <2>1, <2>4, <2>5, <2>6, <3>1, <3>2
  <2>8. CASE t.read >= PGSIZE
    <3>1. a.read = t.read - PGSIZE /\ a.pos = t.pos + PGSIZE
      BY <1>1, <1>5, <1>6, <2>8
    <3>2. t.read = r - (g - f) /\ t.pos = o + (g - f)
      BY <1>1, <1>2, <1>3, <1>4, <2>8
    <3>3. a.read = r - (h - f) /\ a.pos = o + (h - f)
      BY <1>1, <1>2, <1>3, <2>1, <3>1, <3>2
    <3>4. a.read = IF h - f < r THEN r - (h - f) ELSE 0
      BY <1>2, <1>3, <2>1, <2>4, <3>3
    <3>5. QED BY <2>1, <2>4, <2>5, <2>6, <3>3, <3>4
  <2>9. QED BY <1>1, <2>7, <2>8
<1>8. a \in Todo
  BY <1>1, <1>6, <1>7 DEF Todo
<1>9. a.upage \in First(s)..Beyond(s)
  BY <1>1, <1>2, <1>6
<1>10. TodoIs(s, a)
  <2>1. PageStart(a.upage) = h
    BY <1>3, <1>6 DEF h
  <2>2. a.writable = s.writable
    BY <1>4, <1>6
  <2>3. a.read + a.zero = e - PageStart(a.upage)
    BY <1>7, <2>1
  <2>4. a.read = IF PageStart(a.upage) - f < r THEN r - (PageStart(a.upage) - f) ELSE 0
    BY <1>7, <2>1
  <2>5. a.read > 0 => a.pos = o + (PageStart(a.upage) - f)
    BY <1>7, <2>1
  <2>6. QED BY <1>9, <2>2, <2>3, <2>4, <2>5 DEF TodoIs, f, e, r, o
<1>11. QED BY <1>6, <1>8, <1>10 DEF a

\* The page that install_page works on is one of programs, and its own.
LEMMA InstallIs ==
    ASSUME SpaceInv, NEW p \in Procs, proc[p].at = "install"
    PROVE  /\ proc[p].kpage \in UserFrame /\ proc[p].kpage # None
           /\ proc[p].todo.upage \in UPage \ {0}
           /\ proc[p].todo.upage \div PerTable \in UPage
           /\ proc[p].dir # None
<1> DEFINE st == proc[p]
           x == st.exe
           s == x.phdrs[st.phdr]
<1>1. st \in ProcState /\ Shape(st) /\ ImageOK(mem, st)
  BY ProcessIs
<1>2. st.kpage \in UserFrame /\ st.kpage # None /\ st.dir # None
  BY <1>1, ConstantsOfSpace DEF ProcState, Shape, Loading
<1>3. st.todo.upage \in UPage \ {0}
  <2>1. st.phdr \in Nat /\ st.phdr >= 1 /\ Len(x.phdrs) \in Nat /\ x.length \in Nat
        /\ x.phdrs \in Seq(ProgramHeader)
    BY <1>1 DEF ProcState, Executable
  <2>2. CASE st.phdr <= Len(x.phdrs)
    <3>1. s \in ProgramHeader
      BY <2>1, <2>2
    <3>2. /\ validate_segment(s, x.length) /\ st.todo.upage < Beyond(s)
          /\ st.todo.upage \in First(s)..Beyond(s)
      BY <1>1, <2>2 DEF ImageOK, TodoIs
    <3>3. First(s) \in 1..StackPage /\ Beyond(s) \in First(s) + 1..StackPage + 1
      BY <2>1, <3>1, <3>2, SegmentPages
    <3>4. QED BY <3>2, <3>3, StackIsLast
  <2>3. CASE st.phdr > Len(x.phdrs)
    <3>1. st.todo.upage = StackPage
      BY <1>1, <2>3 DEF ImageOK
    <3>2. QED BY <3>1, StackIsLast
  <2>4. QED BY <2>1, <2>2, <2>3
<1>4. st.todo.upage \div PerTable \in UPage
  BY <1>3, TableOf
<1>5. QED BY <1>2, <1>3, <1>4

\* extended and less make functions on more, and on fewer, places.
LEMMA ExtendedIs ==
    ASSUME NEW S, NEW T, NEW f \in Partial(S, T), NEW x \in S, NEW y \in T
    PROVE  extended(f, x, y) \in Partial(S, T)
<1>1. f \in [DOMAIN f -> T] /\ DOMAIN f \in SUBSET S
  BY DEF Partial
<1>2. extended(f, x, y) \in [DOMAIN f \cup {x} -> T]
  BY <1>1 DEF extended
<1>3. DOMAIN f \cup {x} \in SUBSET S
  BY <1>1
<1>4. QED BY <1>2, <1>3 DEF Partial

\* (less, likewise)
LEMMA LessIs ==
    ASSUME NEW S, NEW T, NEW f \in Partial(S, T), NEW x
    PROVE  less(f, x) \in Partial(S, T)
<1>1. f \in [DOMAIN f -> T] /\ DOMAIN f \in SUBSET S
  BY DEF Partial
<1>2. less(f, x) \in [DOMAIN f \ {x} -> T]
  BY <1>1 DEF less
<1>3. DOMAIN f \ {x} \in SUBSET S
  BY <1>1
<1>4. QED BY <1>2, <1>3 DEF Partial

-----------------------------------------------------------------------------
(* Installing the pages, and giving them back.                               *)

\* install_page maps the page: todo goes on to the next one.
LEMMA ImageInstalled ==
    ASSUME NEW m, NEW st \in ProcState, Shape(st), ImageOK(m, st), st.at = "install",
           st.todo.upage \in UPage \ {0}, st.todo.upage \notin DOMAIN st.ptes,
           NEW w, w = [frame |-> st.kpage, writable |-> st.todo.writable],
           NEW new, new.exe = st.exe, new.phdr = st.phdr,
           new.ptes = extended(st.ptes, st.todo.upage, w),
           st.phdr > Len(st.exe.phdrs) => new.at = "loaded" /\ new.todo = NoSegment,
           st.phdr <= Len(st.exe.phdrs) => new.at = "segment" /\ new.todo = advanced(st.todo)
    PROVE  ImageOK(m, new) /\ new.todo \in Todo
<1> DEFINE x == st.exe
           s == x.phdrs[st.phdr]
           t == st.todo
<1>1. /\ st.phdr \in Nat /\ st.phdr >= 1 /\ Len(x.phdrs) \in Nat /\ x.length \in Nat
      /\ x.phdrs \in Seq(ProgramHeader) /\ t \in Todo /\ t.upage \in Nat
  BY DEF ProcState, Executable, Todo
<1>2. /\ t.upage \in DOMAIN new.ptes /\ new.ptes[t.upage] = w
      /\ \A g \in DOMAIN st.ptes : g \in DOMAIN new.ptes /\ new.ptes[g] = st.ptes[g]
  BY DEF extended
<1>3. \A h, g : PageRight(m, st, h, g) => PageRight(m, new, h, g)
  BY <1>2 DEF PageRight
<1>4. \A i \in DOMAIN x.phdrs : i < st.phdr /\ x.phdrs[i].type = "load" =>
        \A g \in First(x.phdrs[i])..Beyond(x.phdrs[i]) - 1 :
          PageRight(m, new, x.phdrs[i], g)
  BY <1>3 DEF ImageOK, Loading
<1>5. CASE st.phdr > Len(x.phdrs)
  <2>1. t.upage = StackPage
    BY <1>5 DEF ImageOK
  <2>2. new.at = "loaded" /\ StackPage \in DOMAIN new.ptes
    BY <1>2, <1>5, <2>1
  <2>3. new.todo \in Todo
    <3>1. 0 \in 0..Addresses /\ 0 \in Nat
      BY ConstantsOfSpace
    <3>2. NoSegment \in Todo
      BY <3>1 DEF NoSegment, Segment, Todo
    <3>3. QED BY <1>5, <3>2
  <2>4. QED BY <1>4, <2>2, <2>3 DEF ImageOK
<1>6. CASE st.phdr <= Len(x.phdrs)
  <2>1. /\ s.type = "load" /\ validate_segment(s, x.length) /\ TodoIs(s, t)
        /\ t.upage < Beyond(s)
        /\ \A g \in First(s)..t.upage - 1 : PageRight(m, st, s, g)
        /\ \A b \in 0..PGSIZE - 1 : m[st.kpage][b] = SegByte(s, PageStart(t.upage) + b)
    BY <1>6 DEF ImageOK
  <2>2. s \in ProgramHeader
    BY <1>1, <1>6
  <2>3. advanced(t) \in Todo /\ TodoIs(s, advanced(t)) /\ advanced(t).upage = t.upage + 1
    BY <1>1, <2>1, <2>2, AdvancedIs
  <2>4. PageRight(m, new, s, t.upage)
    <3>1. t.writable = s.writable
      BY <2>1 DEF TodoIs
    <3>4. w.frame = st.kpage /\ w.writable = s.writable
      BY ONLY w = [frame |-> st.kpage, writable |-> st.todo.writable], <3>1
    <3>2. new.ptes[t.upage].frame = st.kpage /\ new.ptes[t.upage].writable = s.writable
      BY ONLY <1>2, <3>4
    <3> HIDE DEF t, s
    <3>3. QED BY <1>2, <2>1, <3>2 DEF PageRight
  <2>5. \A g \in First(s)..(t.upage + 1) - 1 : PageRight(m, new, s, g)
    <3>1. First(s) \in Nat
      BY <1>1, <2>1, <2>2, SegmentPages, StackIsLast
    <3>2. \A g \in First(s)..(t.upage + 1) - 1 : g \in First(s)..t.upage - 1 \/ g = t.upage
      BY <1>1, <3>1
    <3>3. QED BY <1>3, <2>1, <2>4, <3>2
  <2>6. new.at = "segment" /\ new.todo = advanced(t)
    BY <1>6
  <2> HIDE DEF t
  <2>7. QED BY <1>4, <2>1, <2>3, <2>5, <2>6 DEF ImageOK
<1>7. QED BY <1>1, <1>5, <1>6

\* install_page gives the page back, ...
LEMMA InstallFails ==
    ASSUME SpaceInv, NEW p \in Procs, proc[p].at = "install", NEW new,
           new = [proc[p] EXCEPT !.at = "loaded_not", !.kpage = None],
           proc' = [proc EXCEPT ![p] = new],
           user_used' = user_used \ {proc[p].kpage},
           mem' = [mem EXCEPT ![proc[p].kpage] = Filled(Junk)],
           UNCHANGED <<kernel_used, on_cpu, cr3>>
    PROVE  SpaceInv'
<1> DEFINE st == proc[p]
           f == st.kpage
           x == <<p, "kpage", 0, f>>
<1>1. st \in ProcState /\ Shape(st) /\ f \in UserFrame /\ f # None
  BY ProcessIs, InstallIs
<1>2. /\ new \in ProcState /\ new.at = "loaded_not" /\ new.kpage = None
      /\ new.exe = st.exe /\ new.phdr = st.phdr /\ new.ptes = st.ptes
      /\ new.tables = st.tables /\ new.dir = st.dir /\ new.pagedir = st.pagedir
      /\ new.thread = st.thread /\ new.fn_copy = st.fn_copy
  BY <1>1 DEF ProcState, Stages
<1>3. Shape(new)
  BY <1>1, <1>2 DEF Shape, Loading
<1>4. ImageOK(mem', new)
  BY <1>2 DEF ImageOK, Loading
<1>5. CpuRight'
  BY <1>2, CpuKept
<1>6. Owned(Uses(UserUses'), user_used')
  <2>1. x \in UserPagesOf(p, st) /\ x[4] = f
    BY DEF UserPagesOf
  <2>2. \A u : u[4] # None => (u \in UserPagesOf(p, new) <=> u \in UserPagesOf(p, st) /\ u # x)
    BY <1>2 DEF UserPagesOf
  <2> HIDE DEF x
  <2>3. \A z \in UserPagesOf(p, st) :
          /\ z[4] # None
          /\ \A u : u[4] # None =>
               (u \in UserPagesOf(p, new) <=> u \in UserPagesOf(p, st) /\ u # z)
          => Owned(Uses(UserUses'), user_used \ {z[4]})
    BY ONLY UserGiven, SpaceInv, p \in Procs, proc' = [proc EXCEPT ![p] = new]
  <2>4. Owned(Uses(UserUses'), user_used \ {x[4]})
    <3>1. x[4] # None
      BY <1>1, <2>1
    <3>2. QED BY <2>1, <2>2, <2>3, <3>1
  <2>5. QED BY <2>1, <2>4
<1>7. Owned(Uses(KernelUses'), kernel_used)
  <2>1. KernelPagesOf(p, new) = KernelPagesOf(p, st)
    BY <1>2 DEF KernelPagesOf
  <2>2. QED BY <2>1, KernelKept
<1>8. mem' \in Memories
  BY <1>1 DEF SpaceInv, Memories, Filled, Junk
<1>9. \A h \in UserFrame : mem'[h] # mem[h] => \E u \in UserUses[p] : u[4] = h
  <2>1. x \in UserUses[p] /\ x[4] = f
    BY DEF UserUses, UserPagesOf
  <2> HIDE DEF x
  <2>2. \A h \in UserFrame : mem'[h] # mem[h] => h = f
    BY DEF SpaceInv, Memories
  <2>3. QED BY <2>1, <2>2
<1>10. user_used' \subseteq UserFrame /\ kernel_used' \subseteq KernelFrame
       /\ on_cpu' \in Procs \cup {Kernel}
  BY DEF SpaceInv
<1>11. QED
  BY <1>2, <1>3, <1>4, <1>5, <1>6, <1>7, <1>8, <1>9, <1>10, ProcStep

\* (what becomes of the process, and what it takes a page for)
Installed(st, new, w) ==
    new = [st EXCEPT !.at = new.at, !.todo = new.todo, !.kpage = None,
                     !.tables = new.tables, !.ptes = extended(@, st.todo.upage, w)]
Mapping(p, st, new, w, table) ==
    /\ table = st.todo.upage \div PerTable
    /\ w = [frame |-> st.kpage, writable |-> st.todo.writable]
    /\ st.todo.upage \notin DOMAIN st.ptes /\ Installed(st, new, w)
    /\ st.phdr > Len(st.exe.phdrs) => new.at = "loaded" /\ new.todo = NoSegment
    /\ st.phdr <= Len(st.exe.phdrs) => new.at = "segment" /\ new.todo = advanced(st.todo)
    /\ \/ /\ table \in DOMAIN st.tables
          /\ new.tables = st.tables /\ kernel_used' = kernel_used
       \/ /\ table \notin DOMAIN st.tables /\ KernelFree # {}
          /\ new.tables = extended(st.tables, table, Least(KernelFree))
          /\ kernel_used' = kernel_used \cup {Least(KernelFree)}
    /\ proc' = [proc EXCEPT ![p] = new] /\ UNCHANGED <<user_used, mem, on_cpu, cr3>>

\* ... or maps it, with a page table taken for it where there is none.
LEMMA InstallMaps ==
    ASSUME SpaceInv, NEW p \in Procs, proc[p].at = "install",
           NEW new, NEW w, NEW table, Mapping(p, proc[p], new, w, table)
    PROVE  SpaceInv'
<1> DEFINE st == proc[p]
           f == st.kpage
           page == st.todo.upage
           k == Least(KernelFree)
           x == <<p, "kpage", 0, f>>
           y == <<p, "page", page, f>>
<1>0. proc' = [proc EXCEPT ![p] = new] /\ UNCHANGED <<user_used, mem, on_cpu, cr3>>
  BY DEF Mapping
<1>1. /\ st \in ProcState /\ Shape(st) /\ ImageOK(mem, st) /\ f \in UserFrame /\ f # None
      /\ page \in UPage \ {0} /\ table \in UPage /\ st.dir # None
  BY ProcessIs, InstallIs DEF Mapping
<1>2. w \in [frame : UserFrame, writable : BOOLEAN]
  BY <1>1 DEF Mapping, ProcState, Todo
<1>3. /\ new.kpage = None /\ new.ptes = extended(st.ptes, page, w)
      /\ new.exe = st.exe /\ new.phdr = st.phdr /\ new.dir = st.dir
      /\ new.pagedir = st.pagedir /\ new.thread = st.thread /\ new.fn_copy = st.fn_copy
  BY <1>1 DEF Mapping, Installed, ProcState
<1>4. ImageOK(mem, new) /\ new.todo \in Todo
  BY <1>1, <1>3, ImageInstalled DEF Mapping
<1>5. /\ new.ptes \in Partial(UPage \ {0}, [frame : UserFrame, writable : BOOLEAN])
      /\ DOMAIN new.ptes = DOMAIN st.ptes \cup {page} /\ new.ptes[page] = w
      /\ \A g \in DOMAIN st.ptes : new.ptes[g] = st.ptes[g]
  <2>1. st.ptes \in Partial(UPage \ {0}, [frame : UserFrame, writable : BOOLEAN])
    BY <1>1 DEF ProcState
  <2> DEFINE h == st.ptes
             r == page
             S == UPage \ {0}
             T == [frame : UserFrame, writable : BOOLEAN]
  <2>2. h \in Partial(S, T) /\ r \in S /\ w \in T
    BY <1>1, <1>2, <2>1
  <2>3. new.ptes = extended(h, r, w) /\ r \notin DOMAIN h
    BY <1>3 DEF Mapping
  <2> HIDE DEF h, r, S, T
  <2>4. extended(h, r, w) \in Partial(S, T)
    BY <2>2, ExtendedIs
  <2>5. /\ DOMAIN new.ptes = DOMAIN h \cup {r} /\ new.ptes[r] = w
        /\ \A g \in DOMAIN h : new.ptes[g] = h[g]
    BY <2>3 DEF extended
  <2>6. new.ptes \in Partial(S, T)
    BY <2>3, <2>4
  <2>7. QED BY <2>5, <2>6 DEF h, r, S, T
<1>6. /\ new.tables \in Partial(UPage, KernelFrame)
      /\ DOMAIN new.tables = DOMAIN st.tables \cup {table}
  <2>1. st.tables \in Partial(UPage, KernelFrame)
    BY <1>1 DEF ProcState
  <2>2. KernelFree # {} => k \in KernelFrame
    BY FreeKernelPage
  <2> HIDE DEF k
  <2>3. ASSUME KernelFree # {}
        PROVE  /\ extended(st.tables, table, k) \in Partial(UPage, KernelFrame)
               /\ DOMAIN extended(st.tables, table, k) = DOMAIN st.tables \cup {table}
    <3> DEFINE h == st.tables
    <3>1. k \in KernelFrame /\ h \in Partial(UPage, KernelFrame) /\ table \in UPage
      BY <1>1, <2>1, <2>2, <2>3
    <3> HIDE DEF h
    <3>2. extended(h, table, k) \in Partial(UPage, KernelFrame)
      BY <3>1, ExtendedIs
    <3>3. DOMAIN extended(h, table, k) = DOMAIN h \cup {table}
      BY DEF extended
    <3>4. QED BY <3>2, <3>3 DEF h
  <2>4. CASE table \in DOMAIN st.tables /\ new.tables = st.tables
    <3>1. DOMAIN st.tables = DOMAIN st.tables \cup {table}
      BY <2>4
    <3>2. QED BY <2>1, <2>4, <3>1
  <2>5. CASE KernelFree # {} /\ new.tables = extended(st.tables, table, k)
    BY <2>3, <2>5
  <2>6. QED BY <2>4, <2>5 DEF Mapping, k
<1>7. new.at \in {"loaded", "segment"}
      /\ (new.at = "segment" => st.phdr <= Len(st.exe.phdrs))
      /\ (new.at = "loaded" => st.phdr > Len(st.exe.phdrs))
  <2>1. st.phdr \in Nat /\ Len(st.exe.phdrs) \in Nat
    BY <1>1 DEF ProcState, Executable
  <2>2. QED BY <2>1 DEF Mapping
<1>8. new \in ProcState
  BY <1>1, <1>4, <1>5, <1>6, <1>7 DEF Mapping, Installed, ProcState, Stages
<1>9. Shape(new)
  <2>1. \A g \in DOMAIN new.ptes : g \div PerTable \in DOMAIN new.tables
    BY <1>1, <1>5, <1>6 DEF Mapping, Shape
  <2>2. new.pagedir = new.dir
    BY <1>1, <1>3 DEF Shape, Loading
  <2>3. QED BY <1>1, <1>3, <1>7, <2>1, <2>2 DEF Shape, Loading
<1>10. CpuRight'
  BY <1>0, <1>1, <1>3, CpuKept
<1>11. Owned(Uses(UserUses'), user_used)
  <2>1. x \in UserPagesOf(p, st) /\ x[4] = f /\ y[4] = x[4]
    BY DEF UserPagesOf
  <2>2. \A u : u[4] # None =>
          (u \in UserPagesOf(p, new) <=> (u \in UserPagesOf(p, st) /\ u # x) \/ u = y)
    <3>1. new.ptes[page].frame = f
      BY <1>5 DEF Mapping
    <3>2. { <<p, "page", g, new.ptes[g].frame>> : g \in DOMAIN new.ptes }
            = { <<p, "page", g, st.ptes[g].frame>> : g \in DOMAIN st.ptes } \cup {y}
      BY <1>5, <3>1
    <3>3. \A u \in { <<p, "page", g, st.ptes[g].frame>> : g \in DOMAIN st.ptes } : u # x
      OBVIOUS
    <3>4. UserPagesOf(p, new) = { <<p, "page", g, st.ptes[g].frame>> : g \in DOMAIN st.ptes }
            \cup {y} \cup {<<p, "kpage", 0, None>>}
      BY <1>3, <3>2 DEF UserPagesOf
    <3>5. UserPagesOf(p, st) = { <<p, "page", g, st.ptes[g].frame>> : g \in DOMAIN st.ptes }
            \cup {x}
      BY DEF UserPagesOf
    <3>6. <<p, "kpage", 0, None>>[4] = None
      OBVIOUS
    <3> DEFINE rest == { <<p, "page", g, st.ptes[g].frame>> : g \in DOMAIN st.ptes }
               z == <<p, "kpage", 0, None>>
    <3> HIDE DEF rest, x, y, z
    <3>7. QED BY <3>3, <3>4, <3>5, <3>6 DEF rest, z
  <2> HIDE DEF x, y
  <2> DEFINE F == UserUses
             G == UserUses'
  <2>3. (\A q \in Procs : q # p => G[q] = F[q]) /\ G[p] = UserPagesOf(p, new)
        /\ F[p] = UserPagesOf(p, st)
    BY <1>0, OthersUse
  <2>4. Tagged(F) /\ Tagged(G) /\ Owned(Uses(F), user_used)
    BY UsesTagged DEF SpaceInv
  <2> HIDE DEF F, G
  <2>5. \A u : u[4] # None => (u \in G[p] <=> (u \in F[p] /\ u # x) \/ u = y)
    BY <2>2, <2>3
  <2>6. x \in F[p] /\ x[4] # None /\ y[4] = x[4]
    BY <1>1, <2>1, <2>3
  <2>7. \A q \in Procs : q # p => G[q] = F[q]
    BY <2>3
  <2>8. Owned(Uses(G), user_used)
    BY <2>4, <2>5, <2>6, <2>7, PageMoved
  <2>9. QED BY <2>8 DEF G
<1>12. Owned(Uses(KernelUses'), kernel_used') /\ kernel_used' \subseteq KernelFrame
  <2>1. CASE new.tables = st.tables /\ kernel_used' = kernel_used
    <3>1. KernelPagesOf(p, new) = KernelPagesOf(p, st)
      BY <1>3, <2>1 DEF KernelPagesOf
    <3>2. QED BY <1>0, <2>1, <3>1, KernelKept DEF SpaceInv
  <2>2. CASE /\ table \notin DOMAIN st.tables /\ KernelFree # {}
             /\ new.tables = extended(st.tables, table, k)
             /\ kernel_used' = kernel_used \cup {k}
    <3> DEFINE v == <<p, "table", table, k>>
    <3>1. k \in KernelFrame /\ k \notin kernel_used /\ k # None
      BY <2>2, FreeKernelPage
    <3> HIDE DEF k
    <3>2. v[4] = k
      OBVIOUS
    <3>3. { <<p, "table", t, new.tables[t]>> : t \in DOMAIN new.tables }
            = { <<p, "table", t, st.tables[t]>> : t \in DOMAIN st.tables } \cup {v}
      BY <2>2 DEF extended
    <3>4. \A u : u \in KernelPagesOf(p, new) <=> u \in KernelPagesOf(p, st) \/ u = v
      BY <1>3, <3>3 DEF KernelPagesOf
    <3> HIDE DEF v
    <3>5. Owned(Uses(KernelUses'), kernel_used \cup {v[4]})
      BY <1>0, <3>1, <3>2, <3>4, KernelTaken
    <3>6. QED BY <2>2, <3>1, <3>2, <3>5 DEF SpaceInv
  <2>3. QED BY <2>1, <2>2 DEF Mapping
<1>13. user_used' \subseteq UserFrame /\ on_cpu' \in Procs \cup {Kernel}
       /\ mem' \in Memories /\ ImageOK(mem', new) /\ Owned(Uses(UserUses'), user_used')
       /\ \A h \in UserFrame : ~(mem'[h] # mem[h])
  BY <1>0, <1>4, <1>11 DEF SpaceInv
<1>14. QED
  BY <1>0, <1>8, <1>9, <1>10, <1>12, <1>13, ProcStep

\* Both are install_page.
LEMMA InstallKeeps ==
    ASSUME SpaceInv, NEW p \in Procs, install_page(p)
    PROVE  SpaceInv'
<1> DEFINE st == proc[p]
           page == st.todo.upage
           table == page \div PerTable
           isStack == st.phdr > Len(st.exe.phdrs)
           w == [frame |-> st.kpage, writable |-> st.todo.writable]
           new == proc'[p]
<1>1. /\ st \in ProcState /\ st.at = "install" /\ proc' = [proc EXCEPT ![p] = new]
      /\ UNCHANGED <<on_cpu, cr3>>
  BY ProcessIs DEF install_page, At, becomes, SpaceInv
<1>2. CASE page \in DOMAIN st.ptes \/ (table \notin DOMAIN st.tables /\ KernelFree = {})
  <2>1. /\ new = [st EXCEPT !.at = "loaded_not", !.kpage = None]
        /\ user_used' = user_used \ {st.kpage}
        /\ mem' = [mem EXCEPT ![st.kpage] = Filled(Junk)] /\ kernel_used' = kernel_used
    BY <1>1, <1>2 DEF install_page, mapped, becomes, goes, SpaceInv, ProcState
  <2> HIDE DEF new
  <2>2. QED BY <1>1, <2>1, InstallFails
<1>3. CASE ~(page \in DOMAIN st.ptes \/ (table \notin DOMAIN st.tables /\ KernelFree = {}))
  <2> DEFINE next == [st EXCEPT !.at = IF isStack THEN "loaded" ELSE "segment",
                                !.todo = IF isStack THEN NoSegment ELSE advanced(@),
                                !.kpage = None, !.ptes = extended(@, page, w)]
  <2>1. /\ UNCHANGED <<user_used, mem>>
        /\ \/ /\ table \in DOMAIN st.tables /\ new = next /\ kernel_used' = kernel_used
           \/ /\ table \notin DOMAIN st.tables
              /\ new = [next EXCEPT !.tables = extended(@, table, Least(KernelFree))]
              /\ kernel_used' = kernel_used \cup {Least(KernelFree)}
    BY <1>1, <1>3 DEF install_page, mapped, becomes, SpaceInv
  <2>2. /\ next.tables = st.tables
        /\ next.at = (IF isStack THEN "loaded" ELSE "segment")
        /\ next.todo = (IF isStack THEN NoSegment ELSE advanced(st.todo))
    BY <1>1 DEF ProcState
  <2>3. /\ new = [st EXCEPT !.at = new.at, !.todo = new.todo, !.kpage = None,
                            !.tables = new.tables, !.ptes = extended(@, page, w)]
        /\ new.at = next.at /\ new.todo = next.todo
        /\ \/ /\ table \in DOMAIN st.tables
              /\ new.tables = st.tables /\ kernel_used' = kernel_used
           \/ /\ table \notin DOMAIN st.tables /\ KernelFree # {}
              /\ new.tables = extended(st.tables, table, Least(KernelFree))
              /\ kernel_used' = kernel_used \cup {Least(KernelFree)}
    <3> HIDE DEF new, w, page, table
    <3>1. CASE table \in DOMAIN st.tables /\ new = next /\ kernel_used' = kernel_used
      BY <1>1, <3>1 DEF ProcState
    <3>2. CASE /\ table \notin DOMAIN st.tables
               /\ new = [next EXCEPT !.tables = extended(@, table, Least(KernelFree))]
               /\ kernel_used' = kernel_used \cup {Least(KernelFree)}
      <4>1. PICK T : T = extended(st.tables, table, Least(KernelFree))
        OBVIOUS
      <4>2. PICK P : P = extended(st.ptes, page, w)
        OBVIOUS
      <4>3. next = [st EXCEPT !.at = IF isStack THEN "loaded" ELSE "segment",
                              !.todo = IF isStack THEN NoSegment ELSE advanced(st.todo),
                              !.kpage = None, !.ptes = P]
        BY <4>2
      <4> HIDE DEF next
      <4>4. new = [next EXCEPT !.tables = T]
        BY <2>2, <3>2, <4>1
      <4>5. /\ new = [st EXCEPT !.at = new.at, !.todo = new.todo, !.kpage = None,
                                !.tables = new.tables, !.ptes = P]
            /\ new.at = next.at /\ new.todo = next.todo /\ new.tables = T
        BY ONLY <1>1, <4>3, <4>4 DEF ProcState
      <4> QED
        BY <1>3, <3>2, <4>1, <4>2, <4>5
    <3>3. QED BY <2>1, <3>1, <3>2
  <2> HIDE DEF next, new
  <2>4. /\ isStack => new.at = "loaded" /\ new.todo = NoSegment
        /\ st.phdr <= Len(st.exe.phdrs) =>
             new.at = "segment" /\ new.todo = advanced(st.todo)
    <3>1. st.phdr \in Nat /\ Len(st.exe.phdrs) \in Nat
      BY <1>1 DEF ProcState, Executable
    <3>2. QED BY <2>2, <2>3, <3>1
  <2>5. page \notin DOMAIN st.ptes
    BY <1>3
  <2>6. Mapping(p, st, new, w, table)
    BY <1>1, <2>1, <2>3, <2>4, <2>5 DEF Mapping, Installed
  <2>7. QED BY <1>1, <2>6, InstallMaps
<1>4. QED BY <1>2, <1>3

\* pagedir_destroy gives back the pages of each table, ...
LEMMA DestroyPage ==
    ASSUME SpaceInv, NEW p \in Procs, proc[p].at = "destroy", NEW g \in DOMAIN proc[p].ptes,
           NEW new, new = [proc[p] EXCEPT !.ptes = less(@, g)],
           proc' = [proc EXCEPT ![p] = new],
           user_used' = user_used \ {proc[p].ptes[g].frame},
           mem' = [mem EXCEPT ![proc[p].ptes[g].frame] = Filled(Junk)],
           UNCHANGED <<kernel_used, on_cpu, cr3>>
    PROVE  SpaceInv'
<1> DEFINE st == proc[p]
           f == st.ptes[g].frame
           x == <<p, "page", g, f>>
<1>1. /\ st \in ProcState /\ Shape(st) /\ f \in UserFrame /\ f # None
      /\ st.ptes \in Partial(UPage \ {0}, [frame : UserFrame, writable : BOOLEAN])
  BY ProcessIs DEF ProcState, Partial, UserFrame, None
<1>2. /\ new.at = "destroy" /\ new.exe = st.exe /\ new.phdr = st.phdr
      /\ new.ptes = less(st.ptes, g) /\ new.kpage = st.kpage
      /\ new.tables = st.tables /\ new.dir = st.dir /\ new.pagedir = st.pagedir
      /\ new.thread = st.thread /\ new.fn_copy = st.fn_copy
  BY <1>1 DEF ProcState
<1>3. new \in ProcState
  <2> DEFINE h == st.ptes
             S == UPage \ {0}
             T == [frame : UserFrame, writable : BOOLEAN]
  <2>1. h \in Partial(S, T)
    BY <1>1
  <2> HIDE DEF h, S, T
  <2>2. less(h, g) \in Partial(S, T)
    BY <2>1, LessIs
  <2>3. new.ptes \in Partial(UPage \ {0}, [frame : UserFrame, writable : BOOLEAN])
    BY <1>2, <2>2 DEF h, S, T
  <2>4. QED BY <1>1, <1>2, <2>3 DEF ProcState, Stages
<1>4. DOMAIN new.ptes = DOMAIN st.ptes \ {g}
      /\ \A h \in DOMAIN new.ptes : new.ptes[h] = st.ptes[h]
  BY <1>2 DEF less
<1>5. Shape(new)
  BY <1>1, <1>2, <1>4 DEF Shape, Loading
<1>6. ImageOK(mem', new)
  BY <1>2 DEF ImageOK, Loading
<1>7. CpuRight'
  BY <1>2, CpuKept
<1>8. Owned(Uses(UserUses'), user_used')
  <2>1. x \in UserPagesOf(p, st) /\ x[4] = f
    BY DEF UserPagesOf
  <2>2. \A u : u[4] # None => (u \in UserPagesOf(p, new) <=> u \in UserPagesOf(p, st) /\ u # x)
    <3>1. { <<p, "page", h, new.ptes[h].frame>> : h \in DOMAIN new.ptes }
            = { <<p, "page", h, st.ptes[h].frame>> : h \in DOMAIN st.ptes } \ {x}
      BY <1>4
    <3>2. <<p, "kpage", 0, st.kpage>> # x
      OBVIOUS
    <3>3. UserPagesOf(p, new) = UserPagesOf(p, st) \ {x}
      BY <1>2, <3>1, <3>2 DEF UserPagesOf
    <3> HIDE DEF x
    <3>4. QED BY <3>3
  <2> HIDE DEF x
  <2>3. \A z \in UserPagesOf(p, st) :
          /\ z[4] # None
          /\ \A u : u[4] # None =>
               (u \in UserPagesOf(p, new) <=> u \in UserPagesOf(p, st) /\ u # z)
          => Owned(Uses(UserUses'), user_used \ {z[4]})
    BY ONLY UserGiven, SpaceInv, p \in Procs, proc' = [proc EXCEPT ![p] = new]
  <2>4. Owned(Uses(UserUses'), user_used \ {x[4]})
    <3>1. x[4] # None
      BY <1>1, <2>1
    <3>2. QED BY <2>1, <2>2, <2>3, <3>1
  <2>5. QED BY <2>1, <2>4
<1>9. Owned(Uses(KernelUses'), kernel_used)
  <2>1. KernelPagesOf(p, new) = KernelPagesOf(p, st)
    BY <1>2 DEF KernelPagesOf
  <2>2. QED BY <2>1, KernelKept
<1>10. mem' \in Memories
  BY <1>1 DEF SpaceInv, Memories, Filled, Junk
<1>11. \A h \in UserFrame : mem'[h] # mem[h] => \E u \in UserUses[p] : u[4] = h
  <2>1. x \in UserUses[p] /\ x[4] = f
    BY DEF UserUses, UserPagesOf
  <2> HIDE DEF x
  <2>2. \A h \in UserFrame : mem'[h] # mem[h] => h = f
    BY DEF SpaceInv, Memories
  <2>3. QED BY <2>1, <2>2
<1>12. user_used' \subseteq UserFrame /\ kernel_used' \subseteq KernelFrame
       /\ on_cpu' \in Procs \cup {Kernel}
  BY DEF SpaceInv
<1>13. QED
  BY <1>3, <1>5, <1>6, <1>7, <1>8, <1>9, <1>10, <1>11, <1>12, ProcStep

\* ... the table that has no page left, ...
LEMMA DestroyTable ==
    ASSUME SpaceInv, NEW p \in Procs, proc[p].at = "destroy",
           NEW table \in DOMAIN proc[p].tables,
           \A g \in DOMAIN proc[p].ptes : g \div PerTable # table,
           NEW new, new = [proc[p] EXCEPT !.tables = less(@, table)],
           proc' = [proc EXCEPT ![p] = new],
           kernel_used' = kernel_used \ {proc[p].tables[table]},
           UNCHANGED <<user_used, mem, on_cpu, cr3>>
    PROVE  SpaceInv'
<1> DEFINE st == proc[p]
           k == st.tables[table]
           x == <<p, "table", table, k>>
<1>1. /\ st \in ProcState /\ Shape(st) /\ k \in KernelFrame /\ k # None
      /\ st.tables \in Partial(UPage, KernelFrame)
  BY ProcessIs DEF ProcState, Partial, KernelFrame, None
<1>2. /\ new.at = "destroy" /\ new.exe = st.exe /\ new.phdr = st.phdr
      /\ new.ptes = st.ptes /\ new.kpage = st.kpage
      /\ new.tables = less(st.tables, table) /\ new.dir = st.dir
      /\ new.pagedir = st.pagedir /\ new.thread = st.thread /\ new.fn_copy = st.fn_copy
  BY <1>1 DEF ProcState
<1>3. new \in ProcState
  <2> DEFINE h == st.tables
  <2>1. h \in Partial(UPage, KernelFrame)
    BY <1>1
  <2> HIDE DEF h
  <2>2. less(h, table) \in Partial(UPage, KernelFrame)
    BY <2>1, LessIs
  <2>3. new.tables \in Partial(UPage, KernelFrame)
    BY <1>2, <2>2 DEF h
  <2>4. QED BY <1>1, <1>2, <2>3 DEF ProcState, Stages
<1>4. DOMAIN new.tables = DOMAIN st.tables \ {table}
      /\ \A t \in DOMAIN new.tables : new.tables[t] = st.tables[t]
  BY <1>2 DEF less
<1>5. Shape(new)
  <2>1. \A g \in DOMAIN new.ptes : g \div PerTable \in DOMAIN new.tables
    BY <1>1, <1>2, <1>4 DEF Shape
  <2>2. QED BY <1>1, <1>2, <1>4, <2>1 DEF Shape, Loading
<1>6. ImageOK(mem', new)
  BY <1>2 DEF ImageOK, Loading
<1>7. CpuRight'
  BY <1>2, CpuKept
<1>8. Owned(Uses(UserUses'), user_used)
  <2>1. UserPagesOf(p, new) = UserPagesOf(p, st)
    BY <1>2 DEF UserPagesOf
  <2>2. QED BY <2>1, UserKept
<1>9. Owned(Uses(KernelUses'), kernel_used')
  <2>1. x \in KernelPagesOf(p, st) /\ x[4] = k
    BY DEF KernelPagesOf
  <2>2. \A u : u[4] # None =>
          (u \in KernelPagesOf(p, new) <=> u \in KernelPagesOf(p, st) /\ u # x)
    <3>1. { <<p, "table", t, new.tables[t]>> : t \in DOMAIN new.tables }
            = { <<p, "table", t, st.tables[t]>> : t \in DOMAIN st.tables } \ {x}
      BY <1>4
    <3>2. <<p, "thread", 0, st.thread>> # x /\ <<p, "fn_copy", 0, st.fn_copy>> # x
          /\ <<p, "dir", 0, st.dir>> # x
      OBVIOUS
    <3>3. KernelPagesOf(p, new) = KernelPagesOf(p, st) \ {x}
      BY <1>2, <3>1, <3>2 DEF KernelPagesOf
    <3> HIDE DEF x
    <3>4. QED BY <3>3
  <2>3. x[4] # None
    BY <1>1, <2>1
  <2> HIDE DEF x, k
  <2> DEFINE F == KernelUses
             G == KernelUses'
  <2>4. (\A q \in Procs : q # p => G[q] = F[q]) /\ G[p] = KernelPagesOf(p, new)
        /\ F[p] = KernelPagesOf(p, st)
    BY OthersUse
  <2>5. Tagged(F) /\ Tagged(G) /\ Owned(Uses(F), kernel_used)
    BY UsesTagged DEF SpaceInv
  <2> HIDE DEF F, G
  <2>6. \A u : u[4] # None => (u \in G[p] <=> u \in F[p] /\ u # x)
    BY <2>2, <2>4
  <2>7. x \in F[p] /\ \A q \in Procs : q # p => G[q] = F[q]
    BY <2>1, <2>4
  <2>8. Owned(Uses(G), kernel_used \ {x[4]})
    BY <2>3, <2>5, <2>6, <2>7, PageGiven
  <2>9. QED BY <2>1, <2>8 DEF G, k
<1>10. mem' \in Memories
       /\ user_used' \subseteq UserFrame /\ kernel_used' \subseteq KernelFrame
       /\ on_cpu' \in Procs \cup {Kernel} /\ (\A h \in UserFrame : ~(mem'[h] # mem[h]))
       /\ Owned(Uses(UserUses'), user_used')
  BY <1>8 DEF SpaceInv
<1>11. QED
  BY <1>3, <1>5, <1>6, <1>7, <1>9, <1>10, ProcStep

\* ... and the directory, when it has no table left.
LEMMA DestroyDirectory ==
    ASSUME SpaceInv, NEW p \in Procs, proc[p].at = "destroy", DOMAIN proc[p].tables = {},
           NEW new, new = [proc[p] EXCEPT !.at = "dying", !.dir = None],
           proc' = [proc EXCEPT ![p] = new],
           kernel_used' = kernel_used \ {proc[p].dir},
           UNCHANGED <<user_used, mem, on_cpu, cr3>>
    PROVE  SpaceInv'
<1> DEFINE st == proc[p]
           x == <<p, "dir", 0, st.dir>>
<1>1. st \in ProcState /\ Shape(st)
  BY ProcessIs
<1>2. /\ new \in ProcState /\ new.at = "dying" /\ new.exe = st.exe /\ new.phdr = st.phdr
      /\ new.ptes = st.ptes /\ new.kpage = st.kpage /\ new.tables = st.tables
      /\ new.dir = None /\ new.pagedir = st.pagedir /\ new.thread = st.thread
      /\ new.fn_copy = st.fn_copy
  BY <1>1 DEF ProcState, Stages, MaybePage
<1>3. st.dir # None /\ st.pagedir = None /\ DOMAIN st.ptes = {}
  BY <1>1 DEF Shape
<1>4. Shape(new)
  BY <1>1, <1>2, <1>3 DEF Shape, Loading
<1>5. ImageOK(mem', new)
  BY <1>2 DEF ImageOK, Loading
<1>6. CpuRight'
  BY <1>2, CpuKept
<1>7. Owned(Uses(UserUses'), user_used)
  <2>1. UserPagesOf(p, new) = UserPagesOf(p, st)
    BY <1>2 DEF UserPagesOf
  <2>2. QED BY <2>1, UserKept
<1>8. Owned(Uses(KernelUses'), kernel_used')
  <2>1. x \in KernelPagesOf(p, st) /\ x[4] = st.dir
    BY DEF KernelPagesOf
  <2>2. \A u : u[4] # None =>
          (u \in KernelPagesOf(p, new) <=> u \in KernelPagesOf(p, st) /\ u # x)
    BY <1>2 DEF KernelPagesOf
  <2> HIDE DEF x
  <2>3. \A z \in KernelPagesOf(p, st) :
          /\ z[4] # None
          /\ \A u : u[4] # None =>
               (u \in KernelPagesOf(p, new) <=> u \in KernelPagesOf(p, st) /\ u # z)
          => Owned(Uses(KernelUses'), kernel_used \ {z[4]})
    BY ONLY KernelGiven, SpaceInv, p \in Procs, proc' = [proc EXCEPT ![p] = new]
  <2>4. Owned(Uses(KernelUses'), kernel_used \ {x[4]})
    <3>1. x[4] # None
      BY <1>3, <2>1
    <3>2. QED BY <2>1, <2>2, <2>3, <3>1
  <2>5. QED BY <2>1, <2>4
<1>9. mem' \in Memories /\ user_used' \subseteq UserFrame /\ kernel_used' \subseteq KernelFrame
      /\ on_cpu' \in Procs \cup {Kernel} /\ (\A h \in UserFrame : ~(mem'[h] # mem[h]))
      /\ Owned(Uses(UserUses'), user_used')
  BY <1>7 DEF SpaceInv
<1>10. QED
  BY <1>2, <1>4, <1>5, <1>6, <1>8, <1>9, ProcStep

\* These are pagedir_destroy.
LEMMA DestroyKeeps ==
    ASSUME SpaceInv, NEW p \in Procs, pagedir_destroy(p)
    PROVE  SpaceInv'
<1> DEFINE st == proc[p]
           table == Least(DOMAIN st.tables)
           pages == { g \in DOMAIN st.ptes : g \div PerTable = table }
           new == proc'[p]
<1>1. st \in ProcState /\ st.at = "destroy" /\ UNCHANGED <<on_cpu, cr3>>
      /\ proc' = [proc EXCEPT ![p] = new]
  BY ProcessIs DEF pagedir_destroy, At, becomes, SpaceInv
<1>2. DOMAIN st.tables \subseteq UPage /\ DOMAIN st.ptes \subseteq UPage /\ UPage \subseteq Nat
  <2>1. st.tables \in Partial(UPage, KernelFrame)
        /\ st.ptes \in Partial(UPage \ {0}, [frame : UserFrame, writable : BOOLEAN])
    BY <1>1 DEF ProcState
  <2>2. DOMAIN st.tables \subseteq UPage
    BY <2>1 DEF Partial
  <2>3. DOMAIN st.ptes \subseteq UPage
    BY <2>1 DEF Partial
  <2>4. UPage \subseteq Nat
    BY StackIsLast
  <2>5. QED BY <2>2, <2>3, <2>4
<1>3. CASE DOMAIN st.tables = {}
  <2>1. /\ new = [st EXCEPT !.at = "dying", !.dir = None]
        /\ kernel_used' = kernel_used \ {st.dir} /\ UNCHANGED <<user_used, mem>>
    BY <1>1, <1>3 DEF pagedir_destroy, becomes, goes, SpaceInv, ProcState
  <2> HIDE DEF new
  <2>2. QED BY <1>1, <1>3, <2>1, DestroyDirectory
<1>4. CASE DOMAIN st.tables # {} /\ pages = {}
  <2>1. /\ new = [st EXCEPT !.tables = less(@, table)]
        /\ kernel_used' = kernel_used \ {st.tables[table]} /\ UNCHANGED <<user_used, mem>>
    BY <1>1, <1>4 DEF pagedir_destroy, becomes, SpaceInv
  <2>2. table \in DOMAIN st.tables
    <3> DEFINE S == DOMAIN st.tables
    <3>1. S \in SUBSET Nat /\ S # {}
      BY <1>2, <1>4
    <3> HIDE DEF S
    <3>2. Least(S) \in S
      BY <3>1, LeastIs
    <3>3. QED BY <3>2 DEF S
  <2>3. \A g \in DOMAIN st.ptes : g \div PerTable # table
    BY <1>4
  <2> HIDE DEF new, table
  <2>4. QED BY <1>1, <2>1, <2>2, <2>3, DestroyTable
<1>5. CASE DOMAIN st.tables # {} /\ pages # {}
  <2> DEFINE g == Least(pages)
  <2>1. /\ new = [st EXCEPT !.ptes = less(@, g)]
        /\ user_used' = user_used \ {st.ptes[g].frame}
        /\ mem' = [mem EXCEPT ![st.ptes[g].frame] = Filled(Junk)]
        /\ UNCHANGED kernel_used
    BY <1>1, <1>5 DEF pagedir_destroy, becomes, SpaceInv
  <2>2. g \in DOMAIN st.ptes
    <3>1. pages \in SUBSET Nat /\ pages # {} /\ pages \subseteq DOMAIN st.ptes
      BY <1>2, <1>5
    <3> HIDE DEF pages
    <3>2. Least(pages) \in pages
      BY <3>1, LeastIs
    <3>3. QED BY <3>1, <3>2
  <2> HIDE DEF new, g
  <2>3. QED BY <1>1, <2>1, <2>2, DestroyPage
<1>6. QED BY <1>3, <1>4, <1>5

\* No process has nothing.
LEMMA NoProcessIs ==
    /\ NoProcess \in ProcState /\ Shape(NoProcess) /\ \A m : ImageOK(m, NoProcess)
    /\ NoProcess.ptes = Empty /\ NoProcess.tables = Empty /\ DOMAIN Empty = {}
    /\ NoProcess.thread = None /\ NoProcess.fn_copy = None /\ NoProcess.dir = None
    /\ NoProcess.pagedir = None /\ NoProcess.kpage = None /\ NoProcess.at = "none"
<1>1. DOMAIN Empty = {} /\ \A S, T : Empty \in Partial(S, T)
  <2>1. DOMAIN Empty = {} /\ \A T : Empty \in [{} -> T]
    BY DEF Empty
  <2>2. QED BY <2>1 DEF Partial
<1>2. NoExecutable \in Executable
  <2>1. <<>> \in Seq(ProgramHeader)
    OBVIOUS
  <2>2. QED BY <2>1 DEF NoExecutable, Executable
<1>3. NoSegment \in Todo
  <2>1. 0 \in 0..Addresses /\ 0 \in Nat
    BY ConstantsOfSpace
  <2>2. QED BY <2>1 DEF NoSegment, Segment, Todo
<1>4. /\ NoProcess.ptes = Empty /\ NoProcess.tables = Empty
      /\ NoProcess.thread = None /\ NoProcess.fn_copy = None /\ NoProcess.dir = None
      /\ NoProcess.pagedir = None /\ NoProcess.kpage = None /\ NoProcess.at = "none"
      /\ NoProcess.exe = NoExecutable /\ NoProcess.phdr = 1 /\ NoProcess.todo = NoSegment
  BY DEF NoProcess
<1>5. NoProcess \in ProcState
  <2> DEFINE T == [frame : UserFrame, writable : BOOLEAN]
  <2>1. Empty \in Partial(UPage \ {0}, T) /\ Empty \in Partial(UPage, KernelFrame)
    BY <1>1
  <2>2. QED BY <1>2, <1>3, <2>1 DEF NoProcess, ProcState, Stages, MaybePage
<1>6. Shape(NoProcess) /\ \A m : ImageOK(m, NoProcess)
  BY <1>1, <1>4 DEF Shape, ImageOK, Loading
<1>7. QED BY <1>1, <1>4, <1>5, <1>6

\* The next thread gives back the page of the one that died.
LEMMA DieKeeps ==
    ASSUME SpaceInv, NEW p \in Procs, thread_dies(p)
    PROVE  SpaceInv'
<1> DEFINE st == proc[p]
           new == NoProcess
           x == <<p, "thread", 0, st.thread>>
<1>1. /\ st \in ProcState /\ Shape(st) /\ st.at = "dying"
      /\ proc' = [proc EXCEPT ![p] = new]
      /\ kernel_used' = kernel_used \ {st.thread} /\ UNCHANGED <<user_used, mem>>
  BY ProcessIs DEF thread_dies, At, becomes
<1>2. /\ new \in ProcState /\ Shape(new) /\ ImageOK(mem, new)
      /\ DOMAIN new.ptes = {} /\ DOMAIN new.tables = {} /\ new.thread = None
      /\ new.fn_copy = None /\ new.dir = None /\ new.kpage = None
  BY NoProcessIs
<1> HIDE DEF new
<1>3. /\ st.kpage = None /\ st.fn_copy = None /\ st.dir = None
      /\ DOMAIN st.ptes = {} /\ DOMAIN st.tables = {}
  BY <1>1 DEF Shape
<1>4. on_cpu' \in Procs \cup {Kernel} /\ CpuRight'
  <2>1. PICK q \in Procs \cup {Kernel} : q # p /\ on_cpu' = q /\ cr3' = CpuFor(q)
    BY DEF thread_dies
  <2>2. q # Kernel => proc'[q] = proc[q]
    BY <1>1, <2>1 DEF SpaceInv
  <2>3. QED BY <2>1, <2>2 DEF CpuRight, CpuFor
<1>5. Owned(Uses(UserUses'), user_used)
  <2>1. UserPagesOf(p, new) = UserPagesOf(p, st)
    BY <1>2, <1>3 DEF UserPagesOf
  <2>2. QED BY <1>1, <2>1, UserKept
<1>6. Owned(Uses(KernelUses'), kernel_used')
  <2>1. CASE st.thread = None
    <3>1. KernelPagesOf(p, new) = KernelPagesOf(p, st)
      BY <1>2, <1>3, <2>1 DEF KernelPagesOf
    <3>2. kernel_used' = kernel_used
      BY <1>1, <2>1 DEF SpaceInv, KernelFrame, None
    <3>3. QED BY <1>1, <3>1, <3>2, KernelKept
  <2>2. CASE st.thread # None
    <3>1. x \in KernelPagesOf(p, st) /\ x[4] = st.thread
      BY DEF KernelPagesOf
    <3>2. \A u : u[4] # None =>
            (u \in KernelPagesOf(p, new) <=> u \in KernelPagesOf(p, st) /\ u # x)
      BY <1>2, <1>3 DEF KernelPagesOf
    <3> HIDE DEF x
    <3>3. Owned(Uses(KernelUses'), kernel_used \ {x[4]})
      BY <1>1, <2>2, <3>1, <3>2, KernelGiven
    <3>4. QED BY <1>1, <3>1, <3>3
  <2>3. QED BY <2>1, <2>2
<1>7. mem' \in Memories /\ user_used' \subseteq UserFrame /\ kernel_used' \subseteq KernelFrame
      /\ (\A h \in UserFrame : ~(mem'[h] # mem[h]))
      /\ Owned(Uses(UserUses'), user_used') /\ ImageOK(mem', new)
  BY <1>1, <1>2, <1>5 DEF SpaceInv
<1>8. QED BY <1>1, <1>2, <1>4, <1>6, <1>7, ProcStep

-----------------------------------------------------------------------------
(* Address spaces.  The theorem.                                             *)

\* At the start no process has anything.
LEMMA SpaceInitially == SpaceInit => SpaceInv
<1> SUFFICES ASSUME SpaceInit PROVE SpaceInv
  OBVIOUS
<1>1. /\ proc = [p \in Procs |-> NoProcess] /\ user_used = {} /\ kernel_used = {}
      /\ mem = [f \in UserFrame |-> Filled(Junk)] /\ on_cpu = Kernel /\ cr3 = Kernel
  BY DEF SpaceInit
<1>2. proc \in [Procs -> ProcState] /\ \A p \in Procs : Shape(proc[p]) /\ ImageOK(mem, proc[p])
  BY <1>1, NoProcessIs
<1>3. mem \in Memories
  BY <1>1 DEF Memories, Filled, Junk
<1>4. \A p \in Procs : \A u \in UserUses[p] : u[4] = None
  <2>1. \A p \in Procs : UserUses[p] = UserPagesOf(p, NoProcess)
    BY <1>1 DEF UserUses
  <2>2. QED BY <2>1, NoProcessIs DEF UserPagesOf
<1>5. \A p \in Procs : \A u \in KernelUses[p] : u[4] = None
  <2>1. \A p \in Procs : KernelUses[p] = KernelPagesOf(p, NoProcess)
    BY <1>1 DEF KernelUses
  <2>2. QED BY <2>1, NoProcessIs DEF KernelPagesOf
<1>6. Uses(UserUses) = {} /\ Uses(KernelUses) = {}
  BY <1>4, <1>5 DEF Uses
<1>7. Owned(Uses(UserUses), user_used) /\ Owned(Uses(KernelUses), kernel_used)
  BY <1>1, <1>6 DEF Owned
<1>8. CpuRight
  BY <1>1 DEF CpuRight, CpuFor
<1>9. QED BY <1>1, <1>2, <1>3, <1>7, <1>8 DEF SpaceInv

\* Every step keeps the invariant.
LEMMA SpaceStep == SpaceInv /\ [SpaceNext]_spaceVars => SpaceInv'
<1> SUFFICES ASSUME SpaceInv, [SpaceNext]_spaceVars PROVE SpaceInv'
  OBVIOUS
<1>1. ASSUME NEW p \in Procs, LoadStep(p) PROVE SpaceInv'
  BY <1>1, CreateKeeps, HeaderKeeps, PhdrKeeps, SegmentKeeps, StackKeeps, InstallKeeps,
     StartKeeps DEF LoadStep
<1>2. ASSUME NEW p \in Procs, ExitStep(p) PROVE SpaceInv'
  BY <1>2, ExitKeeps, DestroyKeeps, DieKeeps DEF ExitStep
<1>3. ASSUME NEW p \in Procs, NEW x \in Executables[p], process_execute(p, x) PROVE SpaceInv'
  BY <1>3, ExecuteKeeps
<1>4. ASSUME NEW q \in Procs \cup {Kernel}, switch(q) PROVE SpaceInv'
  BY <1>4, SwitchKeeps
<1>5. CASE UNCHANGED spaceVars
  <2>1. UNCHANGED <<proc, user_used, kernel_used, mem, on_cpu, cr3>>
    BY <1>5 DEF spaceVars
  <2>2. (\A p \in Procs : Shape(proc[p]) /\ ImageOK(mem, proc[p]))'
    BY <2>1, ImagesKept
  <2>3. UserUses' = UserUses /\ KernelUses' = KernelUses
    BY <2>1 DEF UserUses, KernelUses
  <2>4. CpuRight'
    BY <2>1 DEF SpaceInv, CpuRight, CpuFor
  <2>5. QED BY <2>1, <2>2, <2>3, <2>4 DEF SpaceInv, Owned, Uses, Memories
<1>6. QED BY <1>1, <1>2, <1>3, <1>4, <1>5 DEF SpaceNext

\* Each byte of a segment is in a page of it.
LEMMA InSegment ==
    ASSUME NEW s \in ProgramHeader, NEW b \in 0..s.memsz - 1
    PROVE  /\ (s.vaddr + b) \div PGSIZE \in First(s)..Beyond(s) - 1
           /\ SegByte(s, PageStart((s.vaddr + b) \div PGSIZE) + ((s.vaddr + b) % PGSIZE))
                = IF b < s.filesz THEN s.offset + b ELSE ZeroByte
           /\ (s.vaddr + b) % PGSIZE \in 0..PGSIZE - 1
<1> DEFINE a == s.vaddr + b
           g == a \div PGSIZE
           f == First(s)
           o == s.vaddr % PGSIZE
           y == o + s.memsz + PGSIZE - 1
           n == y \div PGSIZE
<1>1. /\ s.offset \in Nat /\ s.vaddr \in Nat /\ s.filesz \in Nat /\ s.memsz \in Nat
      /\ PGSIZE \in Nat /\ PGSIZE > 0 /\ b \in Nat /\ b < s.memsz
  BY ConstantsOfSpace DEF ProgramHeader
<1>2. a \in Nat /\ a = s.vaddr + b
  BY <1>1
<1>3. f \in Nat /\ o \in 0..PGSIZE - 1 /\ s.vaddr = PageStart(f) + o
  BY <1>1, AddressInPage DEF First
<1> HIDE DEF a, f, o
<1>4. g \in Nat /\ a % PGSIZE \in 0..PGSIZE - 1 /\ a = PageStart(g) + (a % PGSIZE)
  BY <1>2, AddressInPage
<1>5. y \in Nat /\ y = o + s.memsz + PGSIZE - 1
  BY <1>1, <1>3
<1> HIDE DEF g, y
<1>6. n \in Nat /\ y % PGSIZE \in 0..PGSIZE - 1 /\ y = PageStart(n) + (y % PGSIZE)
  BY <1>5, AddressInPage
<1>7. Beyond(s) = f + n
  BY DEF Beyond, f, o, y
<1> HIDE DEF n
<1>8. PageStart(f) \in Nat /\ PageStart(n) \in Nat /\ PageStart(g) \in Nat
      /\ PageStart(f + n) = PageStart(f) + PageStart(n)
  BY <1>3, <1>4, <1>6, PageStarts
<1>9. a < PageStart(f + n) /\ PageStart(f) <= a
  BY <1>1, <1>2, <1>3, <1>5, <1>6, <1>8
<1>10. g >= f
  <2>1. g < f => PageStart(g) + PGSIZE <= PageStart(f)
    BY <1>3, <1>4, PageStarts
  <2>2. QED BY <1>1, <1>3, <1>4, <1>8, <1>9, <2>1
<1>11. g < f + n
  <2> DEFINE e == f + n
  <2>1. e \in Nat /\ a < PageStart(e)
    BY <1>3, <1>6, <1>9
  <2> HIDE DEF e
  <2>2. PageStart(e) \in Nat /\ PageStart(g) <= a
    BY <1>1, <1>4, <1>8, <2>1, PageStarts
  <2>3. e < g => PageStart(e) < PageStart(g)
    BY <1>4, <2>1, PageStarts
  <2>4. e # g
    BY <1>2, <1>8, <2>1, <2>2
  <2>5. g < e
    BY <1>2, <1>4, <1>8, <2>1, <2>2, <2>3, <2>4
  <2>6. QED BY <2>5 DEF e
<1>12. g \in f..Beyond(s) - 1
  BY <1>3, <1>4, <1>6, <1>7, <1>10, <1>11
<1>13. SegByte(s, a) = IF b < s.filesz THEN s.offset + b ELSE ZeroByte
  <2>1. a - s.vaddr = b /\ (s.filesz > 0 /\ a < s.vaddr + s.filesz <=> b < s.filesz)
    BY <1>1, <1>2
  <2>2. QED BY <2>1 DEF SegByte
<1>14. QED BY <1>4, <1>12, <1>13 DEF a, g, f

\* What the invariant says of the property's four parts.
LEMMA SpaceTyped == SpaceInv => SpaceTypeOK
<1> SUFFICES ASSUME SpaceInv PROVE SpaceTypeOK
  OBVIOUS
<1>1. ASSUME NEW p \in Procs
      PROVE  LET st == proc[p] IN
               /\ DOMAIN st.ptes \subseteq UPage \ {0}
               /\ \A g \in DOMAIN st.ptes : st.ptes[g].frame \in UserFrame
               /\ \A t \in DOMAIN st.tables : st.tables[t] \in KernelFrame
               /\ {st.thread, st.fn_copy, st.pagedir, st.dir} \subseteq KernelFrame \cup {None}
               /\ st.todo.read \in 0..Addresses /\ st.todo.zero \in 0..Addresses
  <2> DEFINE st == proc[p]
  <2>1. st \in ProcState
    BY ProcessIs
  <2>2. /\ st.ptes \in Partial(UPage \ {0}, [frame : UserFrame, writable : BOOLEAN])
        /\ st.tables \in Partial(UPage, KernelFrame) /\ st.todo \in Todo
        /\ {st.thread, st.fn_copy, st.pagedir, st.dir} \subseteq KernelFrame \cup {None}
    BY <2>1 DEF ProcState, MaybePage
  <2> HIDE DEF st
  <2>3. DOMAIN st.ptes \subseteq UPage \ {0}
        /\ \A g \in DOMAIN st.ptes : st.ptes[g].frame \in UserFrame
    BY <2>2 DEF Partial
  <2>4. \A t \in DOMAIN st.tables : st.tables[t] \in KernelFrame
    BY <2>2 DEF Partial
  <2>5. st.todo.read \in 0..Addresses /\ st.todo.zero \in 0..Addresses
    BY <2>2 DEF Todo
  <2>6. QED BY <2>2, <2>3, <2>4, <2>5 DEF st
<1>2. cr3 \in KernelFrame \cup {Kernel}
  <2>1. CASE cr3 = CpuFor(on_cpu)
    <3>1. on_cpu \in Procs => proc[on_cpu].pagedir \in KernelFrame \cup {None}
      BY ProcessIs DEF ProcState, MaybePage
    <3>2. QED BY <2>1, <3>1 DEF CpuFor, SpaceInv
  <2>2. CASE on_cpu \in Procs /\ proc[on_cpu].at = "activate" /\ cr3 = proc[on_cpu].dir
    <3>1. proc[on_cpu].dir \in KernelFrame \cup {None} /\ proc[on_cpu].dir # None
      BY <2>2, ProcessIs DEF ProcState, MaybePage, Shape
    <3>2. QED BY <2>2, <3>1
  <2>3. QED BY <2>1, <2>2 DEF SpaceInv, CpuRight
<1>3. QED BY <1>1, <1>2 DEF SpaceTypeOK, SpaceInv

\* (the image of a program that runs)
LEMMA SpaceImages == SpaceInv => ImageRight
<1> SUFFICES ASSUME SpaceInv, NEW p \in Procs, proc[p].at = "user"
             PROVE  LET st == proc[p]  x == st.exe IN
                      /\ StackPage \in DOMAIN st.ptes
                      /\ \A i \in DOMAIN x.phdrs : LET s == x.phdrs[i] IN s.type = "load" =>
                           \A b \in 0..s.memsz - 1 : LET a == s.vaddr + b IN
                             /\ a \div PGSIZE \in DOMAIN st.ptes
                             /\ LET m == st.ptes[a \div PGSIZE] IN
                                  /\ m.writable = s.writable
                                  /\ mem[m.frame][a % PGSIZE] =
                                       (IF b < s.filesz THEN s.offset + b ELSE ZeroByte)
  BY DEF ImageRight
<1> DEFINE st == proc[p]
           x == st.exe
<1>1. st \in ProcState /\ Shape(st) /\ ImageOK(mem, st)
  BY ProcessIs
<1>2. /\ x.phdrs \in Seq(ProgramHeader) /\ st.phdr \in Nat /\ Len(x.phdrs) \in Nat
      /\ DOMAIN x.phdrs = 1..Len(x.phdrs) /\ st.phdr > Len(x.phdrs)
  BY <1>1 DEF ProcState, Executable, Shape
<1>3. StackPage \in DOMAIN st.ptes
  BY <1>1 DEF ImageOK
<1>4. \A i \in DOMAIN x.phdrs : x.phdrs[i].type = "load" =>
        \A g \in First(x.phdrs[i])..Beyond(x.phdrs[i]) - 1 : PageRight(mem, st, x.phdrs[i], g)
  BY <1>1, <1>2 DEF ImageOK
<1>5. ASSUME NEW i \in DOMAIN x.phdrs, x.phdrs[i].type = "load",
             NEW b \in 0..x.phdrs[i].memsz - 1
      PROVE  LET s == x.phdrs[i]
                 a == s.vaddr + b
                 m == st.ptes[a \div PGSIZE]
             IN  /\ a \div PGSIZE \in DOMAIN st.ptes /\ m.writable = s.writable
                 /\ mem[m.frame][a % PGSIZE] =
                      (IF b < s.filesz THEN s.offset + b ELSE ZeroByte)
  <2> DEFINE s == x.phdrs[i]
             a == s.vaddr + b
             g == a \div PGSIZE
             c == a % PGSIZE
  <2>1. s \in ProgramHeader
    BY <1>2
  <2>2. s.type = "load" /\ \A h \in First(s)..Beyond(s) - 1 : PageRight(mem, st, s, h)
    BY <1>4, <1>5
  <2>3. b \in 0..s.memsz - 1
    OBVIOUS
  <2> HIDE DEF s
  <2>4. /\ g \in First(s)..Beyond(s) - 1 /\ c \in 0..PGSIZE - 1
        /\ SegByte(s, PageStart(g) + c) = IF b < s.filesz THEN s.offset + b ELSE ZeroByte
    BY <2>1, <2>3, InSegment
  <2> HIDE DEF g, c, st
  <2>5. PageRight(mem, st, s, g)
    BY <2>2, <2>4
  <2>6. g \in DOMAIN st.ptes /\ st.ptes[g].writable = s.writable
        /\ mem[st.ptes[g].frame][c] = SegByte(s, PageStart(g) + c)
    BY <2>4, <2>5 DEF PageRight
  <2>7. QED BY <2>4, <2>6 DEF g, c, s
<1>6. QED BY <1>3, <1>5

\* (the uses of the pages)
LEMMA SpacePages == SpaceInv => EveryPageOwned
<1> SUFFICES ASSUME SpaceInv PROVE EveryPageOwned
  OBVIOUS
<1>1. IsFiniteSet(user_used) /\ IsFiniteSet(kernel_used)
  <2>1. IsFiniteSet(UserFrame) /\ IsFiniteSet(KernelFrame)
    BY ConstantsOfSpace, FS_Interval DEF UserFrame, KernelFrame
  <2>2. QED BY <2>1, FS_Subset DEF SpaceInv
<1> DEFINE U == UNION { UserPagesOf(p, proc[p]) : p \in Procs }
           K == UNION { KernelPagesOf(p, proc[p]) : p \in Procs }
<1>2. Uses(UserUses) = { u \in U : u[4] # None }
  BY DEF Uses, UserUses
<1>3. Uses(KernelUses) = { u \in K : u[4] # None }
  BY DEF Uses, KernelUses
<1>4. Owned(Uses(UserUses), user_used) /\ Owned(Uses(KernelUses), kernel_used)
  BY DEF SpaceInv
<1> HIDE DEF U, K
<1>5. UsedOnce(U, user_used)
  BY <1>1, <1>2, <1>4, OwnedIsOnce
<1>6. UsedOnce(K, kernel_used)
  BY <1>1, <1>3, <1>4, OwnedIsOnce
<1>7. QED BY <1>5, <1>6 DEF EveryPageOwned, U, K

\* (the active directory)
LEMMA SpaceDirectory == SpaceInv => ActiveDirectoryLives
<1> SUFFICES ASSUME SpaceInv PROVE ActiveDirectoryLives
  OBVIOUS
<1>1. \A p \in Procs : /\ proc[p].pagedir # None => proc[p].pagedir = proc[p].dir
                       /\ proc[p].at = "user" => proc[p].pagedir = proc[p].dir
                                                 /\ proc[p].dir # None
  <2> SUFFICES ASSUME NEW p \in Procs
               PROVE  /\ proc[p].pagedir # None => proc[p].pagedir = proc[p].dir
                      /\ proc[p].at = "user" => proc[p].pagedir = proc[p].dir
                                                /\ proc[p].dir # None
    OBVIOUS
  <2>1. proc[p].at \in Stages /\ Shape(proc[p])
    BY ProcessIs DEF ProcState
  <2>2. QED BY <2>1 DEF Shape, Stages, Loading
<1>2. on_cpu \in Procs \cup {Kernel} /\ Kernel \notin Procs
  BY ConstantsOfSpace DEF SpaceInv
<1>3. CASE cr3 = CpuFor(on_cpu)
  BY <1>1, <1>2, <1>3 DEF CpuFor, ActiveDirectoryLives
<1>4. CASE on_cpu \in Procs /\ proc[on_cpu].at = "activate" /\ cr3 = proc[on_cpu].dir
  BY <1>4 DEF ActiveDirectoryLives
<1>5. QED BY <1>3, <1>4 DEF SpaceInv, CpuRight

\* A program that runs has, at every address of its segments, the byte that its
\* executable says and the right to write that its header says; no load or exit,
\* wherever it stops, loses a page or gives one to two uses; and the processor
\* never translates through a directory that was freed (process.c:105-110,
\* 263-297, 391-449, pagedir.c:28-49).
THEOREM SpacesStaySafe == SpaceSpec => []SpacesSafe
<1>1. SpaceInv => SpacesSafe
  BY SpaceTyped, SpaceImages, SpacePages, SpaceDirectory DEF SpacesSafe
<1>2. QED BY <1>1, SpaceInitially, SpaceStep, PTL DEF SpaceSpec
-----------------------------------------------------------------------------
(* malloc: the inductive invariant, of the arenas ar, the free lists fl and  *)
(* the blocks in use us that a call leaves behind.                           *)

ArenaHeader == [desc : Descs \cup {0, -1}, free_cnt : 0..PageBytes]
BlockPlaces(p, d) == { arena_to_block(p, d, i) : i \in 0..blocks_per_arena(d) - 1 }
InUseAt(us) == { u.at : u \in us }

\* A block lies in an arena, at one of its places, or is a big block whose
\* later pages are marked.
PlacedIn(ar, d, b) ==
  /\ block_to_arena(b) \in FreePage /\ ar[block_to_arena(b)].desc = d
  /\ b \in BlockPlaces(block_to_arena(b), d)
BigPlaced(ar, b) ==
  LET p == block_to_arena(b) IN
  /\ p \in FreePage /\ ar[p].desc = 0 /\ ar[p].free_cnt > 0
  /\ b = arena_to_block(p, 0, 0)
  /\ \A q \in p + 1..p + ar[p].free_cnt - 1 : q \in FreePage /\ ar[q] = BigTail
Holds(ar, u) ==
  \/ BigPlaced(ar, u.at) /\ u.size <= PageBytes * ar[block_to_arena(u.at)].free_cnt - Header
  \/ \E d \in Descs : PlacedIn(ar, d, u.at) /\ u.size <= d

FreeIn(list, p) == { b \in ToSet(list) : block_to_arena(b) = p }

Typed(ar, fl, us) ==
  /\ ar \in [FreePage -> ArenaHeader]
  /\ fl \in [Descs -> Seq(Int)] /\ \A d \in Descs : IsInjective(fl[d])
  /\ IsFiniteSet(us) /\ us \in SUBSET [at : Int, size : Size]
AllPlaced(ar, fl, us) ==
  /\ \A d \in Descs : \A b \in ToSet(fl[d]) : PlacedIn(ar, d, b)
  /\ \A u \in us : Holds(ar, u)
Apart(fl, us) ==
  /\ \A u, v \in us : u.at = v.at => u = v
  /\ \A u \in us : \A d \in Descs : u.at \notin ToSet(fl[d])
\* An arena counts its free blocks, and each of its places is free or in use.
Counted(ar, fl, us) ==
  \A p \in FreePage : ar[p].desc \in Descs =>
    /\ ar[p].free_cnt = Cardinality(FreeIn(fl[ar[p].desc], p))
    /\ BlockPlaces(p, ar[p].desc) \subseteq ToSet(fl[ar[p].desc]) \cup InUseAt(us)
Whole(ar, fl, us) ==
  Typed(ar, fl, us) /\ AllPlaced(ar, fl, us) /\ Apart(fl, us) /\ Counted(ar, fl, us)
\* Arenas other than those in P have a block in use.
Busy(ar, P) ==
  \A p \in FreePage \ P : ar[p].desc \in Descs => ar[p].free_cnt < blocks_per_arena(ar[p].desc)
Sound(m) == Whole(m.arena, m.free_list, m.used) /\ Busy(m.arena, {})

BlockInv == Whole(arena, free_list, used) /\ Busy(arena, {})

(* Addresses: page and place.                                                *)
LEMMA PageAt ==
  ASSUME NEW p \in Int, NEW n \in Nat \ {0}, NEW r \in 0..n - 1
  PROVE  (p * n + r) \div n = p /\ (p * n + r) % n = r
OBVIOUS

LEMMA PageParts ==
  ASSUME NEW b \in Int, NEW n \in Nat \ {0}
  PROVE  b \div n \in Int /\ b % n \in 0..n - 1 /\ b = (b \div n) * n + (b % n)
OBVIOUS

LEMMA DescsAre ==
  ASSUME NEW d \in Descs
  PROVE  /\ d \in Nat \ {0} /\ d < PageBytes \div 2
         /\ d # 0 /\ d # -1
         /\ blocks_per_arena(d) \in 1..PageBytes
         /\ Header + d * blocks_per_arena(d) <= PageBytes
<1>1. d \in 1..PageBytes /\ d < PageBytes \div 2
  BY DEF Descs
<1>2. PageBytes \in Nat /\ PageBytes > 1 /\ Header \in Nat /\ Header <= PageBytes \div 2
  BY BlocksAssumption
<1>3. Header + d <= PageBytes
  BY <1>1, <1>2
<1> DEFINE n == PageBytes - Header
<1>4. n \in Nat /\ d <= n /\ d \in Nat \ {0}
  BY <1>1, <1>2, <1>3
<1> HIDE DEF n
<1>5. n = d * (n \div d) + (n % d) /\ n \div d \in Int /\ n % d \in 0..d - 1
  BY <1>4
<1>6. n \div d \in 1..n
  BY <1>4
<1> QED
  BY <1>1, <1>2, <1>5, <1>6 DEF n, blocks_per_arena

LEMMA Spaced ==
  ASSUME NEW d \in Nat, NEW i \in Nat, NEW j \in Nat, i < j
  PROVE  i * d \in Nat /\ i * d + d <= j * d
<1>1. PICK k \in Nat : j = i + 1 + k
  <2>1. j - i - 1 \in Nat /\ j = i + 1 + (j - i - 1)
    OBVIOUS
  <2> QED BY <2>1
<1>2. k * d \in Nat /\ i * d \in Nat
  OBVIOUS
<1>3. j * d = i * d + d + k * d
  BY <1>1
<1> QED
  BY <1>2, <1>3

\* The places of an arena lie behind its header, in its page, side by side.
LEMMA PlaceIs ==
  ASSUME NEW p \in Int, NEW d \in Descs, NEW b \in BlockPlaces(p, d)
  PROVE  /\ b \in Int /\ block_to_arena(b) = p /\ b % PageBytes >= Header
         /\ p * PageBytes <= b /\ b + d <= p * PageBytes + PageBytes
<1>1. PICK i \in 0..blocks_per_arena(d) - 1 : b = p * PageBytes + Header + i * d
  BY DEF BlockPlaces, arena_to_block
<1>2. /\ d \in Nat \ {0} /\ blocks_per_arena(d) \in Nat
      /\ Header + d * blocks_per_arena(d) <= PageBytes
      /\ PageBytes \in Nat \ {0} /\ Header \in Nat
  BY DescsAre, BlocksAssumption
<1>3. i * d \in Nat /\ i * d + d <= blocks_per_arena(d) * d
  <2>1. i \in Nat /\ i < blocks_per_arena(d) /\ d \in Nat
    BY <1>2
  <2> QED
    BY <1>2, <2>1, Spaced
<1>4. PICK r \in Nat : r = Header + i * d /\ r + d <= PageBytes
  BY <1>2, <1>3
<1>5. PICK o \in Int : o = p * PageBytes
  BY <1>2
<1>6. b = p * PageBytes + r /\ r \in 0..PageBytes - 1
  BY <1>1, <1>2, <1>3, <1>4, <1>5
<1>7. b \div PageBytes = p /\ b % PageBytes = r
  BY <1>2, <1>6, PageAt
<1> QED
  BY <1>2, <1>3, <1>4, <1>5, <1>6, <1>7 DEF block_to_arena

LEMMA PlacesApart ==
  ASSUME NEW p \in Int, NEW d \in Descs,
         NEW i \in 0..blocks_per_arena(d) - 1, NEW j \in 0..blocks_per_arena(d) - 1, i < j
  PROVE  arena_to_block(p, d, i) + d <= arena_to_block(p, d, j)
<1>1. /\ d \in Nat \ {0} /\ blocks_per_arena(d) \in Nat
      /\ PageBytes \in Nat \ {0} /\ Header \in Nat
  BY DescsAre, BlocksAssumption
<1>2. i \in Nat /\ j \in Nat /\ d \in Nat
  BY <1>1
<1>3. i * d \in Nat /\ i * d + d <= j * d
  BY <1>2, Spaced
<1>4. PICK o \in Int, x \in Int, y \in Int : o = p * PageBytes /\ x = i * d /\ y = j * d
  BY <1>1, <1>2
<1> QED
  BY <1>1, <1>3, <1>4 DEF arena_to_block

LEMMA PlacesCount ==
  ASSUME NEW p \in Int, NEW d \in Descs
  PROVE  IsFiniteSet(BlockPlaces(p, d)) /\ Cardinality(BlockPlaces(p, d)) = blocks_per_arena(d)
<1> DEFINE n == blocks_per_arena(d)
           f == [i \in 0..n - 1 |-> arena_to_block(p, d, i)]
<1>1. n \in Nat \ {0} /\ d \in Nat \ {0} /\ PageBytes \in Nat /\ Header \in Nat
  BY DescsAre, BlocksAssumption
<1>2. \A i, j \in 0..n - 1 : i < j => f[i] # f[j]
  <2> SUFFICES ASSUME NEW i \in 0..n - 1, NEW j \in 0..n - 1, i < j PROVE f[i] # f[j]
    OBVIOUS
  <2>1. arena_to_block(p, d, i) + d <= arena_to_block(p, d, j)
    BY PlacesApart
  <2>2. arena_to_block(p, d, i) \in Int
    <3>1. i \in Int /\ d \in Int BY <1>1
    <3>2. i * d \in Int /\ p * PageBytes \in Int BY <1>1, <3>1
    <3> QED BY <1>1, <3>2 DEF arena_to_block
  <2> QED
    BY <1>1, <2>1, <2>2
<1>3. f \in Bijection(0..n - 1, BlockPlaces(p, d))
  <2>1. f \in [0..n - 1 -> BlockPlaces(p, d)] /\ \A b \in BlockPlaces(p, d) : \E i \in 0..n - 1 : f[i] = b
    BY DEF BlockPlaces
  <2>2. \A i, j \in 0..n - 1 : f[i] = f[j] => i = j
    <3> HIDE DEF f
    <3> QED BY <1>1, <1>2
  <2> HIDE DEF f
  <2> QED
    BY <2>1, <2>2 DEF Bijection, Injection, Surjection, IsInjective
<1>4. IsFiniteSet(0..n - 1) /\ Cardinality(0..n - 1) = n
  <2>1. 0 \in Int /\ n - 1 \in Int BY <1>1
  <2>2. IsFiniteSet(0..n - 1) /\ Cardinality(0..n - 1) = IF 0 > n - 1 THEN 0 ELSE n - 1 - 0 + 1
    BY <2>1, FS_Interval
  <2> QED
    BY <1>1, <2>2
<1> QED
  BY <1>3, <1>4, FS_Bijection DEF ExistsBijection

-----------------------------------------------------------------------------
(* Blocks that stay where they are.                                          *)

LEMMA BigIs ==
  ASSUME NEW ar, NEW b, BigPlaced(ar, b)
  PROVE  /\ block_to_arena(b) \in FreePage
         /\ b = block_to_arena(b) * PageBytes + Header /\ b % PageBytes = Header
<1>1. PageBytes \in Nat \ {0} /\ Header \in 0..PageBytes - 1 /\ FreePage \subseteq Int
  BY BlocksAssumption DEF FreePage
<1>2. PICK p \in Int : p = block_to_arena(b) /\ b = p * PageBytes + Header + 0 * 0
  BY <1>1 DEF BigPlaced, arena_to_block
<1>3. PICK o \in Int : o = p * PageBytes
  BY <1>1, <1>2
<1>4. b = p * PageBytes + Header
  BY <1>1, <1>2, <1>3
<1>5. b % PageBytes = Header
  BY <1>1, <1>4, PageAt
<1> QED
  BY <1>2, <1>4, <1>5 DEF BigPlaced

\* A page whose arena is still the same, but for the count of free blocks.
Same(ar, nar, q) == /\ nar[q].desc = ar[q].desc
                    /\ ar[q].desc \notin Descs => nar[q] = ar[q]

LEMMA NotDescs == 0 \notin Descs /\ -1 \notin Descs
BY DescsAre

LEMMA HoldsStay ==
  ASSUME NEW ar, NEW nar, NEW u, Holds(ar, u),
         Same(ar, nar, block_to_arena(u.at)),
         ar[block_to_arena(u.at)].desc = 0 =>
           \A q \in block_to_arena(u.at)..block_to_arena(u.at) + ar[block_to_arena(u.at)].free_cnt - 1 :
             Same(ar, nar, q)
  PROVE  Holds(nar, u)
<1> DEFINE p == block_to_arena(u.at)
<1>1. CASE BigPlaced(ar, u.at) /\ u.size <= PageBytes * ar[p].free_cnt - Header
  <2>1. nar[p] = ar[p]
    BY <1>1, NotDescs DEF Same, BigPlaced
  <2>2. ASSUME NEW q \in p + 1..p + ar[p].free_cnt - 1 PROVE q \in FreePage /\ nar[q] = BigTail
    <3>1. q \in FreePage /\ ar[q] = BigTail /\ p \in FreePage /\ ar[p].desc = 0
      BY <1>1 DEF BigPlaced
    <3>2. p \in Int /\ q \in Int
      BY <3>1 DEF FreePage
    <3>3. q \in p..p + ar[p].free_cnt - 1
      BY <3>2
    <3>4. Same(ar, nar, q)
      BY <3>1, <3>3
    <3> QED
      BY <3>1, <3>4, NotDescs DEF Same, BigTail
  <2>3. BigPlaced(nar, u.at)
    BY <1>1, <2>1, <2>2 DEF BigPlaced
  <2> QED
    BY <1>1, <2>1, <2>3 DEF Holds
<1>2. CASE \E d \in Descs : PlacedIn(ar, d, u.at) /\ u.size <= d
  BY <1>2 DEF PlacedIn, Same, Holds
<1> QED
  BY <1>1, <1>2 DEF Holds

\* Where blocks are: not on unused pages, and one block in use on the first
\* page of a big one.
LEMMA BlocksAre ==
  ASSUME NEW ar, NEW fl, NEW us, Whole(ar, fl, us)
  PROVE  /\ \A u \in us : /\ block_to_arena(u.at) \in FreePage
                          /\ ar[block_to_arena(u.at)] # NoArena
                          /\ ar[block_to_arena(u.at)] # BigTail
         /\ \A d \in Descs : \A b \in ToSet(fl[d]) : /\ block_to_arena(b) \in FreePage
                                                     /\ ar[block_to_arena(b)].desc = d
<1>1. ASSUME NEW u \in us
      PROVE  /\ block_to_arena(u.at) \in FreePage
             /\ ar[block_to_arena(u.at)] # NoArena
             /\ ar[block_to_arena(u.at)] # BigTail
  <2>1. Holds(ar, u)
    BY DEF Whole, AllPlaced
  <2> QED
    BY <2>1, NotDescs DEF Holds, BigPlaced, PlacedIn, NoArena, BigTail
<1> QED
  BY <1>1 DEF Whole, AllPlaced, PlacedIn

LEMMA PagesNeeded ==
  ASSUME NEW size \in Size
  PROVE  /\ page_cnt(size) \in 1..PageBytes
         /\ size <= PageBytes * page_cnt(size) - Header
<1>1. PageBytes \in Nat /\ PageBytes > 1 /\ Header \in Nat /\ size \in Nat \ {0}
      /\ size <= 2 * PageBytes - Header
  BY BlocksAssumption DEF Size
<1> DEFINE n == size + Header + PageBytes - 1
<1>2. n \in Int /\ n >= PageBytes /\ n < 3 * PageBytes
  BY <1>1
<1>3. n \div PageBytes \in Int /\ n % PageBytes \in 0..PageBytes - 1
      /\ n = (n \div PageBytes) * PageBytes + (n % PageBytes)
  <2>1. PageBytes \in Nat \ {0} BY <1>1
  <2> HIDE DEF n
  <2> QED BY <1>2, <2>1, PageParts
<1> QED
  BY <1>1, <1>2, <1>3 DEF page_cnt

-----------------------------------------------------------------------------
(* The steps of malloc.                                                      *)

Unused(ar) == { p \in FreePage : ar[p] = NoArena }

LEMMA OnlyUnusedChange ==
  ASSUME NEW ar, NEW fl, NEW us, Whole(ar, fl, us), NEW nar,
         \A q \in FreePage : ar[q] # NoArena => Same(ar, nar, q)
  PROVE  /\ \A u \in us : Holds(nar, u)
         /\ \A d \in Descs : \A b \in ToSet(fl[d]) : PlacedIn(nar, d, b)
<1>1. ASSUME NEW u \in us PROVE Holds(nar, u)
  <2> DEFINE p == block_to_arena(u.at)
  <2>1. Holds(ar, u) /\ p \in FreePage /\ ar[p] # NoArena
    BY BlocksAre DEF Whole, AllPlaced
  <2>2. Same(ar, nar, p)
    BY <2>1
  <2>3. ASSUME ar[p].desc = 0, NEW q \in p..p + ar[p].free_cnt - 1 PROVE Same(ar, nar, q)
    <3>1. BigPlaced(ar, u.at)
      BY <2>1, <2>3, NotDescs DEF Holds, PlacedIn
    <3>2. q # p => q \in p + 1..p + ar[p].free_cnt - 1
      BY <2>1 DEF FreePage
    <3>3. q # p => q \in FreePage /\ ar[q] = BigTail
      BY <3>1, <3>2 DEF BigPlaced
    <3> QED
      BY <2>2, <3>3 DEF BigTail, NoArena
  <2> HIDE DEF p
  <2> QED
    BY <2>1, <2>2, <2>3, HoldsStay DEF p
<1>2. ASSUME NEW d \in Descs, NEW b \in ToSet(fl[d]) PROVE PlacedIn(nar, d, b)
  <2>1. PlacedIn(ar, d, b)
    BY DEF Whole, AllPlaced
  <2>2. ar[block_to_arena(b)].desc = d /\ block_to_arena(b) \in FreePage
    BY <2>1 DEF PlacedIn
  <2>3. ar[block_to_arena(b)] # NoArena
    BY <2>2, NotDescs DEF NoArena
  <2> QED
    BY <2>1, <2>2, <2>3 DEF PlacedIn, Same
<1> QED
  BY <1>1, <1>2

\* A big block is on pages that nobody has.
BigTaken(ar, us, size, p, nar, nus) ==
  /\ nar = [q \in FreePage |-> IF q = p THEN [desc |-> 0, free_cnt |-> page_cnt(size)]
                               ELSE IF q \in p..p + page_cnt(size) - 1 THEN BigTail ELSE ar[q]]
  /\ nus = us \cup {[at |-> p * PageBytes + Header, size |-> size]}

LEMMA BigKeeps ==
  ASSUME NEW ar, NEW fl, NEW us, Whole(ar, fl, us), Busy(ar, {}),
         NEW size \in Size, NEW p \in Unused(ar), p..p + page_cnt(size) - 1 \subseteq Unused(ar),
         NEW nar, NEW nus, BigTaken(ar, us, size, p, nar, nus)
  PROVE  Whole(nar, fl, nus) /\ Busy(nar, {})
<1> DEFINE n == page_cnt(size)
<1>0. PICK new : /\ new = [at |-> p * PageBytes + Header, size |-> size]
                 /\ nus = us \cup {new}
                 /\ nar = [q \in FreePage |->
                             IF q = p THEN [desc |-> 0, free_cnt |-> n]
                             ELSE IF q \in p..p + n - 1 THEN BigTail ELSE ar[q]]
  BY DEF BigTaken
<1> USE <1>0
<1>1. n \in 1..PageBytes /\ n \in Nat \ {0} /\ size <= PageBytes * n - Header
  BY PagesNeeded, BlocksAssumption
<1>2. /\ PageBytes \in Nat \ {0} /\ Header \in 0..PageBytes - 1
      /\ p \in FreePage /\ p \in Int /\ ar[p] = NoArena
  BY BlocksAssumption DEF FreePage, Unused
<1>3. \A q \in p..p + n - 1 : q \in FreePage /\ ar[q] = NoArena
  BY DEF Unused
<1> HIDE DEF n
<1>4. /\ nar[p] = [desc |-> 0, free_cnt |-> n]
      /\ \A q \in p + 1..p + n - 1 : q \in FreePage /\ nar[q] = BigTail
      /\ \A q \in FreePage : q \in p..p + n - 1 \/ nar[q] = ar[q]
  <2>1. nar[p] = [desc |-> 0, free_cnt |-> n]
    BY <1>2 DEF n
  <2>2. ASSUME NEW q \in p + 1..p + n - 1 PROVE q \in FreePage /\ nar[q] = BigTail
    <3>1. q \in p..p + n - 1 /\ q # p
      BY <1>1, <1>2
    <3>2. q \in FreePage
      BY <1>3, <3>1
    <3> QED
      BY <3>1, <3>2 DEF n
  <2>3. p \in p..p + n - 1
    BY <1>1, <1>2
  <2> QED
    BY <2>1, <2>2, <2>3 DEF n
<1>5. block_to_arena(new.at) = p /\ new.at \in Int /\ new.size = size
  <2>1. PICK o \in Int : o = p * PageBytes BY <1>2
  <2>2. p * PageBytes + Header \in Int
    BY <1>2, <2>1
  <2> QED
    BY <1>2, <2>2, PageAt DEF block_to_arena
<1>6. \A q \in FreePage : ar[q] # NoArena => nar[q] = ar[q] /\ Same(ar, nar, q)
  BY <1>3, <1>4 DEF Same
<1>7. Typed(nar, fl, nus)
  <2>1. nar \in [FreePage -> ArenaHeader]
    <3>1. [desc |-> 0, free_cnt |-> n] \in ArenaHeader /\ BigTail \in ArenaHeader
      BY <1>1, BlocksAssumption DEF ArenaHeader, BigTail
    <3>2. ar \in [FreePage -> ArenaHeader]
      BY DEF Whole, Typed
    <3> HIDE DEF n, ArenaHeader, BigTail
    <3> QED
      BY <3>1, <3>2 DEF n
  <2>2. IsFiniteSet(nus)
    BY FS_AddElement DEF Whole, Typed
  <2>3. new \in [at : Int, size : Size]
    BY <1>5
  <2> QED
    BY <2>1, <2>2, <2>3 DEF Whole, Typed
<1>8. AllPlaced(nar, fl, nus)
  <2>1. /\ \A u \in us : Holds(nar, u)
        /\ \A d \in Descs : \A b \in ToSet(fl[d]) : PlacedIn(nar, d, b)
    BY <1>6, OnlyUnusedChange
  <2>2. Holds(nar, new)
    <3>1. new.at = arena_to_block(p, 0, 0)
      <4>1. PICK o \in Int : o = p * PageBytes BY <1>2
      <4> QED BY <1>2, <4>1 DEF arena_to_block
    <3>2. nar[p].desc = 0 /\ nar[p].free_cnt = n
      BY <1>4
    <3>3. BigPlaced(nar, new.at)
      BY <1>1, <1>2, <1>4, <1>5, <3>1, <3>2 DEF BigPlaced
    <3> QED
      BY <1>1, <1>5, <3>2, <3>3 DEF Holds
  <2> QED
    BY <2>1, <2>2 DEF AllPlaced
<1>9. Apart(fl, nus)
  <2>1. \A u \in us : u.at # new.at
    BY <1>2, <1>5, BlocksAre
  <2>2. \A d \in Descs : new.at \notin ToSet(fl[d])
    BY <1>2, <1>5, BlocksAre, NotDescs DEF NoArena
  <2>3. Apart(fl, us)
    BY DEF Whole
  <2> QED
    BY <2>1, <2>2, <2>3 DEF Apart
<1>10. \A q \in FreePage : nar[q].desc \in Descs => nar[q] = ar[q]
  <2> SUFFICES ASSUME NEW q \in FreePage, q \in p..p + n - 1 PROVE nar[q].desc \notin Descs
    BY <1>4
  <2>1. q = p \/ q \in p + 1..p + n - 1
    BY <1>1, <1>2
  <2>2. nar[q].desc = 0 \/ nar[q].desc = -1
    BY <1>4, <2>1 DEF BigTail
  <2> QED
    BY <2>2, NotDescs
<1>11. Counted(nar, fl, nus)
  <2>1. InUseAt(us) \subseteq InUseAt(nus)
    BY DEF InUseAt
  <2>2. Counted(ar, fl, us)
    BY DEF Whole
  <2> QED
    BY <1>10, <2>1, <2>2 DEF Counted
<1>12. Busy(nar, {})
  BY <1>10 DEF Busy
<1> QED
  BY <1>7, <1>8, <1>9, <1>11, <1>12 DEF Whole

\* The blocks of a new arena, as a list.
LEMMA NewBlocks ==
  ASSUME NEW p \in FreePage, NEW d \in Descs
  PROVE  /\ BlocksOf(p, d) \in Seq(Int) /\ BlocksOf(p, d) # <<>> /\ IsInjective(BlocksOf(p, d))
         /\ ToSet(BlocksOf(p, d)) = BlockPlaces(p, d)
<1> DEFINE n == blocks_per_arena(d)
           q == BlocksOf(p, d)
<1>1. n \in Nat \ {0} /\ d \in Nat \ {0} /\ p \in Int
  BY DescsAre, BlocksAssumption DEF FreePage
<1>2. \A i \in 0..n - 1 : arena_to_block(p, d, i) \in Int
  BY PlaceIs DEF BlockPlaces, FreePage
<1>3. q = [i \in 1..n |-> arena_to_block(p, d, i - 1)]
  BY DEF BlocksOf
<1> HIDE DEF n, q
<1>4. q \in Seq(Int) /\ Len(q) = n /\ DOMAIN q = 1..n
  <2>1. \A i \in 1..n : i - 1 \in 0..n - 1
    BY <1>1
  <2>2. \A i \in 1..n : arena_to_block(p, d, i - 1) \in Int
    BY <1>2, <2>1
  <2> QED BY <1>1, <1>3, <2>2
<1>5. IsInjective(q)
  <2> SUFFICES ASSUME NEW i \in 1..n, NEW j \in 1..n, q[i] = q[j] PROVE i = j
    BY <1>4 DEF IsInjective
  <2>1. \A k, l \in 0..n - 1 : k < l =>
          arena_to_block(p, d, k) + d <= arena_to_block(p, d, l)
    BY <1>1, PlacesApart DEF n
  <2>2. i - 1 \in 0..n - 1 /\ j - 1 \in 0..n - 1
    BY <1>1
  <2>3. ~(i - 1 < j - 1) /\ ~(j - 1 < i - 1)
    BY <1>1, <1>2, <1>3, <2>1, <2>2
  <2> QED
    BY <2>3
<1>6. ToSet(q) = BlockPlaces(p, d)
  <2>1. \A i \in 1..n : q[i] = arena_to_block(p, d, i - 1) /\ i - 1 \in 0..n - 1
    BY <1>1, <1>3
  <2>2. ASSUME NEW b \in ToSet(q) PROVE b \in BlockPlaces(p, d)
    BY <1>4, <2>1 DEF ToSet, BlockPlaces, n
  <2>3. ASSUME NEW b \in BlockPlaces(p, d) PROVE b \in ToSet(q)
    <3>1. PICK i \in 0..n - 1 : b = arena_to_block(p, d, i)
      BY DEF BlockPlaces, n
    <3>2. i + 1 \in 1..n /\ q[i + 1] = b
      BY <1>1, <1>3, <3>1
    <3> QED BY <1>4, <3>2 DEF ToSet
  <2> QED
    BY <2>2, <2>3
<1>7. q # <<>>
  BY <1>1, <1>4
<1> QED
  BY <1>4, <1>5, <1>6, <1>7 DEF q

\* A new arena, whose descriptor had no free block.
LEMMA ArenaKeeps ==
  ASSUME NEW ar, NEW fl, NEW us, Whole(ar, fl, us), Busy(ar, {}),
         NEW d \in Descs, fl[d] = <<>>, NEW p \in Unused(ar),
         NEW nar, nar = [ar EXCEPT ![p] = [desc |-> d, free_cnt |-> blocks_per_arena(d)]],
         NEW nfl, nfl = [fl EXCEPT ![d] = @ \o BlocksOf(p, d)]
  PROVE  /\ Whole(nar, nfl, us) /\ nfl[d] # <<>>
         /\ \A b \in ToSet(nfl[d]) : Busy(nar, {block_to_arena(b)})
<1>1. /\ p \in FreePage /\ p \in Int /\ ar[p] = NoArena
      /\ blocks_per_arena(d) \in 1..PageBytes
  BY DescsAre DEF FreePage, Unused
<1>2. ar \in [FreePage -> ArenaHeader] /\ fl \in [Descs -> Seq(Int)]
  BY DEF Whole, Typed
<1>3. /\ nar \in [FreePage -> ArenaHeader]
      /\ nar[p] = [desc |-> d, free_cnt |-> blocks_per_arena(d)]
      /\ \A q \in FreePage \ {p} : nar[q] = ar[q]
  <2>1. [desc |-> d, free_cnt |-> blocks_per_arena(d)] \in ArenaHeader
    BY <1>1 DEF ArenaHeader
  <2> HIDE DEF ArenaHeader
  <2> QED
    BY <1>1, <1>2, <2>1
<1>4. /\ BlocksOf(p, d) \in Seq(Int) /\ BlocksOf(p, d) # <<>> /\ IsInjective(BlocksOf(p, d))
      /\ ToSet(BlocksOf(p, d)) = BlockPlaces(p, d)
  BY <1>1, NewBlocks
<1>5. /\ nfl \in [Descs -> Seq(Int)] /\ nfl[d] = BlocksOf(p, d)
      /\ \A e \in Descs \ {d} : nfl[e] = fl[e]
  <2>1. <<>> \o BlocksOf(p, d) = BlocksOf(p, d)
    BY <1>4
  <2> QED
    BY <1>2, <1>4, <2>1
<1>6. \A b \in ToSet(nfl[d]) : block_to_arena(b) = p
  BY <1>1, <1>4, <1>5, PlaceIs
<1>7. Typed(nar, nfl, us)
  BY <1>3, <1>4, <1>5 DEF Typed, Whole
<1>8. /\ \A u \in us : Holds(nar, u)
      /\ \A e \in Descs : \A b \in ToSet(fl[e]) : PlacedIn(nar, e, b)
  <2>1. \A q \in FreePage : ar[q] # NoArena => Same(ar, nar, q)
    BY <1>1, <1>3 DEF Same
  <2> QED
    BY <2>1, OnlyUnusedChange
<1>9. AllPlaced(nar, nfl, us)
  <2>1. \A b \in ToSet(nfl[d]) : PlacedIn(nar, d, b)
    BY <1>1, <1>3, <1>4, <1>5, <1>6 DEF PlacedIn
  <2> QED
    BY <1>5, <1>8, <2>1 DEF AllPlaced
<1>10. Apart(nfl, us)
  <2>1. \A u \in us : u.at \notin ToSet(nfl[d])
    BY <1>1, <1>6, BlocksAre
  <2> QED
    BY <1>5, <2>1 DEF Apart, Whole
<1>11. Counted(nar, nfl, us)
  <2> SUFFICES ASSUME NEW q \in FreePage, nar[q].desc \in Descs
               PROVE  /\ nar[q].free_cnt = Cardinality(FreeIn(nfl[nar[q].desc], q))
                      /\ BlockPlaces(q, nar[q].desc) \subseteq
                           ToSet(nfl[nar[q].desc]) \cup InUseAt(us)
    BY DEF Counted
  <2>1. CASE q = p
    <3>1. FreeIn(nfl[d], p) = BlockPlaces(p, d)
      BY <1>4, <1>5, <1>6 DEF FreeIn
    <3>2. Cardinality(BlockPlaces(p, d)) = blocks_per_arena(d)
      BY <1>1, PlacesCount
    <3> QED
      BY <1>3, <1>4, <1>5, <2>1, <3>1, <3>2
  <2>2. CASE q # p
    <3>1. nar[q] = ar[q]
      BY <1>3, <2>2
    <3>2. /\ ar[q].free_cnt = Cardinality(FreeIn(fl[ar[q].desc], q))
          /\ BlockPlaces(q, ar[q].desc) \subseteq ToSet(fl[ar[q].desc]) \cup InUseAt(us)
      BY <3>1 DEF Whole, Counted
    <3>3. ToSet(fl[d]) = {}
      BY DEF ToSet
    <3>4. FreeIn(nfl[ar[q].desc], q) = FreeIn(fl[ar[q].desc], q)
      BY <1>5, <1>6, <2>2, <3>1, <3>3 DEF FreeIn
    <3>5. ToSet(fl[ar[q].desc]) \subseteq ToSet(nfl[ar[q].desc])
      BY <1>5, <3>1, <3>3
    <3> QED
      BY <3>1, <3>2, <3>4, <3>5
  <2> QED
    BY <2>1, <2>2
<1>12. Busy(nar, {p})
  BY <1>3 DEF Busy
<1> QED
  BY <1>4, <1>5, <1>6, <1>7, <1>9, <1>10, <1>11, <1>12 DEF Whole

\* The free blocks of an arena are some of its places.
LEMMA FreeOnes ==
  ASSUME NEW ar, NEW fl, NEW us, Whole(ar, fl, us), NEW p \in FreePage, ar[p].desc \in Descs
  PROVE  LET d == ar[p].desc  listed == FreeIn(fl[d], p) IN
         /\ listed \subseteq BlockPlaces(p, d) /\ listed \subseteq ToSet(fl[d])
         /\ IsFiniteSet(listed) /\ IsFiniteSet(BlockPlaces(p, d))
         /\ ar[p].free_cnt = Cardinality(listed) /\ ar[p].free_cnt \in Nat
         /\ Cardinality(BlockPlaces(p, d)) = blocks_per_arena(d)
         /\ ar[p].free_cnt <= blocks_per_arena(d)
<1> DEFINE d == ar[p].desc
           listed == FreeIn(fl[d], p)
<1>1. listed \subseteq BlockPlaces(p, d) /\ listed \subseteq ToSet(fl[d])
  BY DEF FreeIn, Whole, AllPlaced, PlacedIn
<1>2. IsFiniteSet(BlockPlaces(p, d)) /\ Cardinality(BlockPlaces(p, d)) = blocks_per_arena(d)
  BY PlacesCount DEF FreePage
<1>3. ar[p].free_cnt = Cardinality(listed)
  BY DEF Whole, Counted
<1> HIDE DEF listed, d
<1>4. IsFiniteSet(listed) /\ Cardinality(listed) <= Cardinality(BlockPlaces(p, d))
  BY <1>1, <1>2, FS_Subset
<1>5. Cardinality(listed) \in Nat
  BY <1>4, FS_CardinalityType
<1> QED
  BY <1>1, <1>2, <1>3, <1>4, <1>5 DEF listed, d

\* The count of an arena changes.
Recounts(ar, p, k, nar) == nar = [ar EXCEPT ![p].free_cnt = k]
OnlyCount(ar, p, k, nar) ==
  /\ nar \in [FreePage -> ArenaHeader]
  /\ nar[p] = [desc |-> ar[p].desc, free_cnt |-> k]
  /\ \A q \in FreePage \ {p} : nar[q] = ar[q]

LEMMA Recounted ==
  ASSUME NEW ar \in [FreePage -> ArenaHeader], NEW p \in FreePage,
         NEW k, k \in 0..PageBytes, NEW nar, Recounts(ar, p, k, nar)
  PROVE  OnlyCount(ar, p, k, nar)
<1>1. PICK h \in ArenaHeader : h = ar[p]
  OBVIOUS
<1>2. [h EXCEPT !.free_cnt = k] = [desc |-> h.desc, free_cnt |-> k] /\ h.desc \in Descs \cup {0, -1}
  BY ONLY h \in ArenaHeader DEF ArenaHeader
<1>3. PICK a : a = [desc |-> h.desc, free_cnt |-> k] /\ a \in ArenaHeader
  BY ONLY <1>2, k \in 0..PageBytes DEF ArenaHeader
<1>4. nar = [ar EXCEPT ![p] = a]
  BY <1>1, <1>2, <1>3 DEF Recounts
<1> HIDE DEF ArenaHeader
<1>5. nar \in [FreePage -> ArenaHeader] /\ nar[p] = a /\ \A q \in FreePage \ {p} : nar[q] = ar[q]
  BY ONLY <1>3, <1>4, ar \in [FreePage -> ArenaHeader], p \in FreePage
<1> QED
  BY ONLY <1>1, <1>3, <1>5 DEF OnlyCount

\* The first free block of a descriptor goes to the caller.
Popped(ar, fl, us, d, size, nar, nfl, nus) ==
  /\ nar = [ar EXCEPT ![block_to_arena(Head(fl[d]))].free_cnt = @ - 1]
  /\ nfl = [fl EXCEPT ![d] = Tail(@)]
  /\ nus = us \cup {[at |-> Head(fl[d]), size |-> size]}

LEMMA PopKeeps ==
  ASSUME NEW ar, NEW fl, NEW us, Whole(ar, fl, us),
         NEW d \in Descs, fl[d] # <<>>, Busy(ar, {block_to_arena(Head(fl[d]))}),
         NEW size \in Size, size <= d,
         NEW nar, NEW nfl, NEW nus, Popped(ar, fl, us, d, size, nar, nfl, nus)
  PROVE  Whole(nar, nfl, nus) /\ Busy(nar, {})
<1> DEFINE b == Head(fl[d])
           p == block_to_arena(b)
<1>0. PICK new : /\ new = [at |-> b, size |-> size] /\ nus = us \cup {new}
                 /\ nar = [ar EXCEPT ![p].free_cnt = @ - 1]
                 /\ nfl = [fl EXCEPT ![d] = Tail(@)]
  BY DEF Popped
<1> USE <1>0
<1>1. ar \in [FreePage -> ArenaHeader] /\ fl \in [Descs -> Seq(Int)]
  BY DEF Whole, Typed
<1>2. /\ b \in Int /\ b \in ToSet(fl[d]) /\ Tail(fl[d]) \in Seq(Int)
      /\ IsInjective(Tail(fl[d])) /\ ToSet(Tail(fl[d])) = ToSet(fl[d]) \ {b}
  <2>1. IsInjective(fl[d]) /\ fl[d] \in Seq(Int)
    BY <1>1 DEF Whole, Typed
  <2> QED
    BY <2>1, PopFrontFacts
<1>3. PlacedIn(ar, d, b) /\ p \in FreePage /\ ar[p].desc = d /\ b \in BlockPlaces(p, d)
  BY <1>2 DEF Whole, AllPlaced, PlacedIn
<1> HIDE DEF b
<1>4. /\ ar[p].free_cnt = Cardinality(FreeIn(fl[d], p)) /\ IsFiniteSet(FreeIn(fl[d], p))
      /\ ar[p].free_cnt \in Nat /\ ar[p].free_cnt <= blocks_per_arena(d)
  BY <1>3, FreeOnes
<1>5. /\ nfl \in [Descs -> Seq(Int)] /\ nfl[d] = Tail(fl[d])
      /\ \A e \in Descs \ {d} : nfl[e] = fl[e]
      /\ \A e \in Descs : ToSet(nfl[e]) \subseteq ToSet(fl[e])
  <2>1. /\ nfl \in [Descs -> Seq(Int)] /\ nfl[d] = Tail(fl[d])
        /\ \A e \in Descs \ {d} : nfl[e] = fl[e]
    BY <1>1, <1>2
  <2> QED
    BY <1>2, <2>1
<1>6. /\ FreeIn(nfl[d], p) = FreeIn(fl[d], p) \ {b}
      /\ b \in FreeIn(fl[d], p)
  BY <1>2, <1>5 DEF FreeIn
<1>7. Cardinality(FreeIn(nfl[d], p)) = ar[p].free_cnt - 1 /\ ar[p].free_cnt - 1 \in Nat
  <2>1. /\ IsFiniteSet(FreeIn(fl[d], p) \ {b})
        /\ Cardinality(FreeIn(fl[d], p) \ {b}) = Cardinality(FreeIn(fl[d], p)) - 1
    BY <1>4, <1>6, FS_RemoveElement
  <2>2. Cardinality(FreeIn(fl[d], p) \ {b}) \in Nat
    BY <2>1, FS_CardinalityType
  <2> QED
    BY <1>4, <1>6, <2>1, <2>2
<1>8. /\ nar \in [FreePage -> ArenaHeader]
      /\ nar[p] = [desc |-> d, free_cnt |-> ar[p].free_cnt - 1]
      /\ \A q \in FreePage \ {p} : nar[q] = ar[q]
  <2>1. Recounts(ar, p, ar[p].free_cnt - 1, nar)
    BY <1>0 DEF Recounts
  <2>2. ar[p].free_cnt - 1 \in 0..PageBytes
    <3>1. ar[p].free_cnt <= PageBytes
      BY ONLY <1>1, <1>3 DEF ArenaHeader
    <3> QED
      BY ONLY <1>4, <1>7, <3>1, BlocksAssumption
  <2> HIDE DEF p, b
  <2>3. OnlyCount(ar, p, ar[p].free_cnt - 1, nar)
    BY ONLY <1>1, <1>3, <2>1, <2>2, Recounted
  <2> QED
    BY ONLY <1>3, <2>3 DEF OnlyCount
<1>9. Typed(nar, nfl, nus)
  <2>1. IsFiniteSet(nus)
    BY FS_AddElement DEF Whole, Typed
  <2>2. nus \in SUBSET [at : Int, size : Size]
    BY <1>2 DEF Whole, Typed, b
  <2>3. \A e \in Descs : IsInjective(nfl[e])
    BY <1>2, <1>5 DEF Whole, Typed
  <2> QED
    BY <1>5, <1>8, <2>1, <2>2, <2>3 DEF Typed
<1>10. AllPlaced(nar, nfl, nus)
  <2>1. \A q \in FreePage : Same(ar, nar, q)
    <3>1. Same(ar, nar, p)
      BY <1>3, <1>8 DEF Same
    <3>2. \A q \in FreePage \ {p} : Same(ar, nar, q)
      BY <1>8 DEF Same
    <3> QED
      BY <3>1, <3>2
  <2>2. /\ \A u \in us : Holds(nar, u)
        /\ \A e \in Descs : \A c \in ToSet(fl[e]) : PlacedIn(nar, e, c)
    BY <2>1, OnlyUnusedChange
  <2>3. PlacedIn(nar, d, b)
    BY <1>2, <2>2
  <2>4. Holds(nar, new)
    BY <2>3 DEF Holds, b
  <2> QED
    BY <1>5, <2>2, <2>4 DEF AllPlaced
<1>11. Apart(nfl, nus)
  <2>1. \A u \in us : u.at # b /\ \A e \in Descs : u.at \notin ToSet(nfl[e])
    BY <1>2, <1>5 DEF Whole, Apart
  <2>2. \A e \in Descs : b \notin ToSet(nfl[e])
    <3>1. \A e \in Descs \ {d} : b \notin ToSet(fl[e])
      BY <1>3, BlocksAre
    <3> QED
      BY <1>2, <1>5, <3>1
  <2>3. new.at = b
    BY DEF b
  <2> QED
    BY <2>1, <2>2, <2>3 DEF Apart, Whole
<1>12. Counted(nar, nfl, nus)
  <2> SUFFICES ASSUME NEW q \in FreePage, nar[q].desc \in Descs
               PROVE  /\ nar[q].free_cnt = Cardinality(FreeIn(nfl[nar[q].desc], q))
                      /\ BlockPlaces(q, nar[q].desc) \subseteq
                           ToSet(nfl[nar[q].desc]) \cup InUseAt(nus)
    BY DEF Counted
  <2>0. nar[q].desc = ar[q].desc
    <3>1. nar[p].desc = ar[p].desc
      BY <1>3, <1>8
    <3>2. q # p => nar[q] = ar[q]
      BY <1>8
    <3> QED
      BY <3>1, <3>2
  <2>1. /\ ar[q].free_cnt = Cardinality(FreeIn(fl[ar[q].desc], q))
        /\ BlockPlaces(q, ar[q].desc) \subseteq ToSet(fl[ar[q].desc]) \cup InUseAt(us)
    BY <2>0 DEF Whole, Counted
  <2>2. ToSet(fl[ar[q].desc]) \subseteq ToSet(nfl[ar[q].desc]) \cup {b}
    BY <1>2, <1>5, <2>0
  <2>3. InUseAt(nus) = InUseAt(us) \cup {b}
    BY DEF InUseAt, b
  <2>4. BlockPlaces(q, nar[q].desc) \subseteq ToSet(nfl[nar[q].desc]) \cup InUseAt(nus)
    BY <2>0, <2>1, <2>2, <2>3
  <2>5. CASE q = p
    <3>1. nar[q].free_cnt = ar[p].free_cnt - 1 /\ ar[q].desc = d
      BY <1>3, <1>8, <2>5
    <3>2. Cardinality(FreeIn(nfl[d], q)) = ar[p].free_cnt - 1
      BY <1>7, <2>5
    <3> QED
      BY <2>0, <2>4, <3>1, <3>2
  <2>6. CASE q # p
    <3>1. FreeIn(nfl[ar[q].desc], q) = FreeIn(fl[ar[q].desc], q)
      BY <1>2, <1>5, <2>0, <2>6 DEF FreeIn
    <3> QED
      BY <1>8, <2>0, <2>1, <2>4, <2>6, <3>1
  <2> QED
    BY <2>5, <2>6
<1>13. Busy(nar, {})
  <2>1. Busy(ar, {p})
    BY DEF b
  <2>2. nar[p].free_cnt < blocks_per_arena(d)
    <3>1. blocks_per_arena(d) \in Int
      BY DescsAre
    <3> QED
      BY <1>4, <1>7, <1>8, <3>1
  <2> QED
    BY <1>8, <2>1, <2>2 DEF Busy
<1> QED
  BY <1>9, <1>10, <1>11, <1>12, <1>13 DEF Whole

-----------------------------------------------------------------------------
(* The steps of free.                                                        *)

\* The members of a finite set of naturals, by their rank.
LEMMA Ranked ==
  ASSUME NEW m \in Nat, NEW K \in SUBSET (1..m)
  PROVE  /\ Cardinality(K) \in Nat
         /\ [j \in 1..Cardinality(K) |-> Nth(K, j)] \in Bijection(1..Cardinality(K), K)
<1> DEFINE upTo(i) == { k \in K : k <= i }
           n == Cardinality(K)
           r == [i \in K |-> Cardinality(upTo(i))]
<1>1. IsFiniteSet(K) /\ n \in Nat
  <2>1. IsFiniteSet(1..m)
    BY FS_Interval
  <2> QED
    BY <2>1, FS_Subset, FS_CardinalityType
<1>2. IsFiniteSet(1..n) /\ Cardinality(1..n) = n
  <2>1. 1 \in Int /\ n \in Int BY <1>1
  <2>2. IsFiniteSet(1..n) /\ Cardinality(1..n) = IF 1 > n THEN 0 ELSE n - 1 + 1
    BY <2>1, FS_Interval
  <2> QED
    BY <1>1, <2>2
<1>3. ASSUME NEW i \in K
      PROVE  IsFiniteSet(upTo(i)) /\ Cardinality(upTo(i)) \in 1..n
  <2>1. upTo(i) \in SUBSET K /\ i \in upTo(i)
    OBVIOUS
  <2> HIDE DEF upTo
  <2>2. IsFiniteSet(upTo(i)) /\ Cardinality(upTo(i)) <= n
    BY <1>1, <2>1, FS_Subset
  <2>3. Cardinality(upTo(i)) \in Nat /\ Cardinality(upTo(i)) # 0
    BY <2>1, <2>2, FS_CardinalityType, FS_EmptySet
  <2> QED
    BY <1>1, <2>2, <2>3
<1>4. \A i, j \in K : i < j => Cardinality(upTo(i)) # Cardinality(upTo(j))
  <2> SUFFICES ASSUME NEW i \in K, NEW j \in K, i < j
               PROVE  Cardinality(upTo(i)) # Cardinality(upTo(j))
    OBVIOUS
  <2>0. i \in Nat /\ j \in Nat /\ \A k \in K : k \in Nat
    OBVIOUS
  <2>1. upTo(i) \in SUBSET upTo(j) /\ j \in upTo(j) /\ j \notin upTo(i)
    <3>1. \A k \in K : k <= i => k <= j
      BY <2>0
    <3>2. j <= j /\ ~(j <= i)
      BY <2>0
    <3> QED BY <3>1, <3>2
  <2>2. IsFiniteSet(upTo(j))
    BY <1>3
  <2> HIDE DEF upTo
  <2> QED
    BY <2>1, <2>2, FS_Subset
<1>5. r \in Surjection(K, 1..n) /\ \A i, j \in K : r[i] = r[j] => i = j
  <2>1. \A i, j \in K : r[i] = r[j] => i = j
    <3> HIDE DEF upTo
    <3> QED BY <1>4
  <2>2. r \in [K -> 1..n]
    BY <1>3
  <2> HIDE DEF r, n
  <2>3. r \in Injection(K, 1..n)
    BY <2>1, <2>2 DEF Injection, IsInjective
  <2>4. Cardinality(K) = Cardinality(1..n)
    BY <1>2 DEF n
  <2> QED
    BY <1>2, <2>1, <2>3, <2>4, FS_Injection
<1>6. \A j \in 1..n : Nth(K, j) \in K /\ r[Nth(K, j)] = j
  <2> SUFFICES ASSUME NEW j \in 1..n PROVE Nth(K, j) \in K /\ r[Nth(K, j)] = j
    OBVIOUS
  <2>1. \E i \in K : Cardinality({ k \in K : k <= i }) = j
    BY <1>5 DEF Surjection
  <2>2. Nth(K, j) \in K /\ Cardinality({ k \in K : k <= Nth(K, j) }) = j
    BY <2>1 DEF Nth
  <2> QED
    BY <2>2
<1>7. [j \in 1..n |-> Nth(K, j)] \in Bijection(1..n, K)
  <2> DEFINE f == [j \in 1..n |-> Nth(K, j)]
  <2>0. \A i \in K : r[i] \in 1..n
    BY <1>3
  <2> HIDE DEF r, n
  <2>1. f \in [1..n -> K] /\ \A i, j \in 1..n : f[i] = f[j] => i = j
    BY <1>6
  <2>2. \A i \in K : \E j \in 1..n : f[j] = i
    BY <1>5, <1>6, <2>0
  <2> HIDE DEF f
  <2>3. f \in Bijection(1..n, K)
    BY <2>1, <2>2 DEF Bijection, Injection, Surjection, IsInjective
  <2> QED
    BY <2>3 DEF f
<1> QED
  BY <1>1, <1>7 DEF n

\* The list without the blocks of a page.
LEMMA DelistedIs ==
  ASSUME NEW q \in Seq(Int), NEW p
  PROVE  /\ delisted(q, p) \in Seq(Int)
         /\ ToSet(delisted(q, p)) = { b \in ToSet(q) : block_to_arena(b) # p }
         /\ IsInjective(q) => IsInjective(delisted(q, p))
<1> DEFINE K == { i \in DOMAIN q : block_to_arena(q[i]) # p }
           f == [j \in 1..Cardinality(K) |-> Nth(K, j)]
<1>1. Len(q) \in Nat /\ DOMAIN q = 1..Len(q) /\ K \in SUBSET DOMAIN q
  OBVIOUS
<1>2. { b \in ToSet(q) : block_to_arena(b) # p } = { q[i] : i \in K }
  BY DEF ToSet
<1>3. delisted(q, p) = [j \in 1..Cardinality(K) |-> q[Nth(K, j)]]
  BY DEF delisted
<1> HIDE DEF K
<1>4. f \in Bijection(1..Cardinality(K), K)
  BY <1>1, Ranked
<1>5. delisted(q, p) = Picked(q, K, f)
  BY <1>3 DEF Picked
<1> HIDE DEF f
<1> QED
  BY <1>1, <1>2, <1>4, <1>5, Rearranged

\* list_push_front.
LEMMA PushFrontIs ==
  ASSUME NEW q \in Seq(Int), NEW x \in Int
  PROVE  /\ <<x>> \o q \in Seq(Int) /\ ToSet(<<x>> \o q) = ToSet(q) \cup {x}
         /\ IsInjective(q) /\ x \notin ToSet(q) => IsInjective(<<x>> \o q)
<1> DEFINE n == Len(q)
           r == <<x>> \o q
<1>1. n \in Nat /\ DOMAIN q = 1..n /\ \A i \in 1..n : q[i] \in Int
  OBVIOUS
<1>2. r \in Seq(Int) /\ Len(r) = n + 1 /\ DOMAIN r = 1..n + 1 /\ r[1] = x
      /\ \A i \in 2..n + 1 : r[i] = q[i - 1]
  OBVIOUS
<1> HIDE DEF r, n
<1>3. \A i \in 1..n + 1 : i # 1 => i - 1 \in 1..n /\ r[i] = q[i - 1]
  BY <1>1, <1>2
<1>4. \A i \in 1..n : i + 1 \in 1..n + 1 /\ r[i + 1] = q[i]
  BY <1>1, <1>2
<1>5. ToSet(r) = ToSet(q) \cup {x}
  <2>1. ASSUME NEW y \in ToSet(r) PROVE y \in ToSet(q) \cup {x}
    <3>1. PICK i \in 1..n + 1 : y = r[i]
      BY <1>2 DEF ToSet
    <3>2. CASE i = 1
      BY <1>2, <3>1, <3>2
    <3>3. CASE i # 1
      <4>1. i - 1 \in DOMAIN q /\ y = q[i - 1]
        BY <1>1, <1>3, <3>1, <3>3
      <4> QED BY <4>1 DEF ToSet
    <3> QED BY <3>2, <3>3
  <2>2. ASSUME NEW y \in ToSet(q) PROVE y \in ToSet(r)
    <3>1. PICK i \in 1..n : y = q[i]
      BY <1>1 DEF ToSet
    <3>2. i + 1 \in DOMAIN r /\ y = r[i + 1]
      BY <1>2, <1>4, <3>1
    <3> QED BY <3>2 DEF ToSet
  <2>3. x \in ToSet(r)
    <3>1. 1 \in 1..n + 1 BY <1>1
    <3> QED BY <1>2, <3>1 DEF ToSet
  <2> QED
    BY <2>1, <2>2, <2>3
<1>6. ASSUME IsInjective(q), x \notin ToSet(q) PROVE IsInjective(r)
  <2>1. \A i, j \in 1..n : q[i] = q[j] => i = j
    BY <1>1, <1>6 DEF IsInjective
  <2>2. \A i \in 1..n : q[i] # x
    BY <1>1, <1>6 DEF ToSet
  <2> SUFFICES ASSUME NEW i \in 1..n + 1, NEW j \in 1..n + 1, r[i] = r[j] PROVE i = j
    BY <1>2 DEF IsInjective
  <2>3. CASE i = 1 \/ j = 1
    BY <1>2, <1>3, <2>2, <2>3
  <2>4. CASE i # 1 /\ j # 1
    <3>1. i - 1 \in 1..n /\ j - 1 \in 1..n /\ q[i - 1] = q[j - 1]
      BY <1>3, <2>4
    <3>2. i - 1 = j - 1
      BY <2>1, <3>1
    <3> QED
      BY <1>1, <3>2
  <2> QED
    BY <2>3, <2>4
<1> QED
  BY <1>2, <1>5, <1>6 DEF r

\* A block goes back to the list of its descriptor.
Returned(ar, fl, us, u, nar, nfl, nus) ==
  /\ nar = [ar EXCEPT ![block_to_arena(u.at)].free_cnt = @ + 1]
  /\ nfl = [fl EXCEPT ![ar[block_to_arena(u.at)].desc] = <<u.at>> \o @]
  /\ nus = us \ {u}

LEMMA GiveBackKeeps ==
  ASSUME NEW ar, NEW fl, NEW us, Whole(ar, fl, us), Busy(ar, {}),
         NEW u \in us, NEW p, p = block_to_arena(u.at), NEW d \in Descs, d = ar[p].desc,
         NEW nar, NEW nfl, NEW nus, Returned(ar, fl, us, u, nar, nfl, nus)
  PROVE  Whole(nar, nfl, nus) /\ Busy(nar, {p})
<1> DEFINE b == u.at
<1>0. /\ nar = [ar EXCEPT ![p].free_cnt = @ + 1] /\ nfl = [fl EXCEPT ![d] = <<b>> \o @]
      /\ nus = us \ {u}
  BY DEF Returned
<1> USE <1>0
<1>1. ar \in [FreePage -> ArenaHeader] /\ fl \in [Descs -> Seq(Int)] /\ fl[d] \in Seq(Int)
      /\ p \in FreePage /\ b \in Int
  BY BlocksAre DEF Whole, Typed
<1>2. b \in BlockPlaces(p, d)
  <2>1. Holds(ar, u)
    BY DEF Whole, AllPlaced
  <2> QED
    BY <2>1, NotDescs DEF Holds, BigPlaced, PlacedIn
<1>3. /\ b \notin ToSet(fl[d])
      /\ <<b>> \o fl[d] \in Seq(Int) /\ ToSet(<<b>> \o fl[d]) = ToSet(fl[d]) \cup {b}
      /\ IsInjective(<<b>> \o fl[d])
  <2>1. b \notin ToSet(fl[d]) /\ IsInjective(fl[d])
    BY DEF Whole, Apart, Typed
  <2> QED
    BY <1>1, <2>1, PushFrontIs
<1>4. /\ ar[p].free_cnt = Cardinality(FreeIn(fl[d], p)) /\ IsFiniteSet(FreeIn(fl[d], p))
      /\ ar[p].free_cnt \in Nat
      /\ ar[p].free_cnt < blocks_per_arena(d) /\ blocks_per_arena(d) \in 1..PageBytes
  BY <1>1, FreeOnes, DescsAre DEF Busy
<1>5. /\ nfl \in [Descs -> Seq(Int)] /\ nfl[d] = <<b>> \o fl[d]
      /\ \A e \in Descs \ {d} : nfl[e] = fl[e]
  BY <1>1, <1>3
<1>6. /\ nar \in [FreePage -> ArenaHeader]
      /\ nar[p] = [desc |-> d, free_cnt |-> ar[p].free_cnt + 1]
      /\ \A q \in FreePage \ {p} : nar[q] = ar[q]
  <2>1. Recounts(ar, p, ar[p].free_cnt + 1, nar)
    BY <1>0 DEF Recounts
  <2>2. ar[p].free_cnt + 1 \in 0..PageBytes
    BY ONLY <1>4, BlocksAssumption
  <2>3. OnlyCount(ar, p, ar[p].free_cnt + 1, nar)
    BY ONLY <1>1, <2>1, <2>2, Recounted
  <2> QED
    BY ONLY <2>3, d = ar[p].desc DEF OnlyCount
<1> HIDE DEF b
<1>7. Typed(nar, nfl, nus)
  <2>1. IsFiniteSet(nus)
    BY FS_RemoveElement DEF Whole, Typed
  <2> QED
    BY <1>3, <1>5, <1>6, <2>1 DEF Whole, Typed
<1>8. AllPlaced(nar, nfl, nus)
  <2>1. \A q \in FreePage : Same(ar, nar, q)
    BY <1>6 DEF Same
  <2>2. /\ \A v \in us : Holds(nar, v)
        /\ \A e \in Descs : \A c \in ToSet(fl[e]) : PlacedIn(nar, e, c)
    BY <2>1, OnlyUnusedChange
  <2>3. PlacedIn(nar, d, b)
    BY <1>1, <1>2, <1>6 DEF PlacedIn, b
  <2> QED
    BY <1>3, <1>5, <2>2, <2>3 DEF AllPlaced
<1>9. Apart(nfl, nus)
  <2>1. \A v \in nus : v.at # b
    BY DEF Whole, Apart, b
  <2> QED
    BY <1>3, <1>5, <2>1 DEF Whole, Apart
<1>10. /\ FreeIn(nfl[d], p) = FreeIn(fl[d], p) \cup {b}
       /\ Cardinality(FreeIn(nfl[d], p)) = ar[p].free_cnt + 1
  <2>1. FreeIn(nfl[d], p) = FreeIn(fl[d], p) \cup {b} /\ b \notin FreeIn(fl[d], p)
    BY <1>3, <1>5 DEF FreeIn, b
  <2>2. PICK S : S = FreeIn(fl[d], p)
    OBVIOUS
  <2>3. Cardinality(S \cup {b}) = Cardinality(S) + 1
    BY ONLY <1>4, <2>1, <2>2, FS_AddElement
  <2> QED
    BY ONLY <1>4, <2>1, <2>2, <2>3
<1>11. Counted(nar, nfl, nus)
  <2> SUFFICES ASSUME NEW q \in FreePage, nar[q].desc \in Descs
               PROVE  /\ nar[q].free_cnt = Cardinality(FreeIn(nfl[nar[q].desc], q))
                      /\ BlockPlaces(q, nar[q].desc) \subseteq
                           ToSet(nfl[nar[q].desc]) \cup InUseAt(nus)
    BY DEF Counted
  <2>0. nar[q].desc = ar[q].desc
    BY <1>6
  <2>1. /\ ar[q].free_cnt = Cardinality(FreeIn(fl[ar[q].desc], q))
        /\ BlockPlaces(q, ar[q].desc) \subseteq ToSet(fl[ar[q].desc]) \cup InUseAt(us)
    BY <2>0 DEF Whole, Counted
  <2>2. ToSet(fl[ar[q].desc]) \subseteq ToSet(nfl[ar[q].desc])
    BY <1>3, <1>5, <2>0
  <2>3. InUseAt(us) \subseteq InUseAt(nus) \cup {b}
    BY DEF InUseAt, b
  <2>4. b \in BlockPlaces(q, ar[q].desc) => q = p
    BY <1>1, <2>0, PlaceIs DEF b, FreePage
  <2>5. b \in ToSet(nfl[d])
    BY <1>3, <1>5
  <2>6. BlockPlaces(q, nar[q].desc) \subseteq ToSet(nfl[nar[q].desc]) \cup InUseAt(nus)
    <3> SUFFICES ASSUME NEW c \in BlockPlaces(q, ar[q].desc)
                 PROVE  c \in ToSet(nfl[ar[q].desc]) \cup InUseAt(nus)
      BY <2>0
    <3> QED
      BY <2>1, <2>2, <2>3, <2>4, <2>5
  <2>7. CASE q = p
    <3>1. nar[q].free_cnt = ar[p].free_cnt + 1 /\ nar[q].desc = d
      BY <1>6, <2>7
    <3>2. Cardinality(FreeIn(nfl[d], q)) = ar[p].free_cnt + 1
      BY <1>10, <2>7
    <3> QED
      BY <2>6, <3>1, <3>2
  <2>8. CASE q # p
    <3>1. FreeIn(nfl[ar[q].desc], q) = FreeIn(fl[ar[q].desc], q)
      BY <1>3, <1>5, <2>0, <2>8 DEF FreeIn, b
    <3> QED
      BY <1>6, <2>0, <2>1, <2>6, <2>8, <3>1
  <2> QED
    BY <2>7, <2>8
<1>12. Busy(nar, {p})
  BY <1>6 DEF Busy
<1> QED
  BY <1>6, <1>7, <1>8, <1>9, <1>11, <1>12 DEF Whole

\* An arena without a block in use goes back.
LEMMA RemoveKeeps ==
  ASSUME NEW ar, NEW fl, NEW us, Whole(ar, fl, us), NEW p \in FreePage, Busy(ar, {p}),
         NEW d \in Descs, ar[p].desc = d, ar[p].free_cnt >= blocks_per_arena(d),
         NEW nar, nar = [ar EXCEPT ![p] = NoArena],
         NEW nfl, nfl = [fl EXCEPT ![d] = delisted(@, p)]
  PROVE  Whole(nar, nfl, us) /\ Busy(nar, {})
<1>1. ar \in [FreePage -> ArenaHeader] /\ fl \in [Descs -> Seq(Int)] /\ fl[d] \in Seq(Int)
  BY DEF Whole, Typed
<1>2. /\ nar \in [FreePage -> ArenaHeader] /\ nar[p] = NoArena
      /\ \A q \in FreePage \ {p} : nar[q] = ar[q]
  <2>1. NoArena \in ArenaHeader
    BY BlocksAssumption DEF NoArena, ArenaHeader
  <2> QED
    BY <1>1, <2>1
<1>3. /\ delisted(fl[d], p) \in Seq(Int) /\ IsInjective(delisted(fl[d], p))
      /\ ToSet(delisted(fl[d], p)) = { b \in ToSet(fl[d]) : block_to_arena(b) # p }
  <2>1. IsInjective(fl[d])
    BY DEF Whole, Typed
  <2> QED
    BY <1>1, <2>1, DelistedIs
<1>4. /\ nfl \in [Descs -> Seq(Int)] /\ nfl[d] = delisted(fl[d], p)
      /\ \A e \in Descs \ {d} : nfl[e] = fl[e]
  BY <1>1, <1>3
<1>5. \A u \in us : block_to_arena(u.at) # p
  <2> SUFFICES ASSUME NEW u \in us, block_to_arena(u.at) = p PROVE FALSE
    OBVIOUS
  <2>1. /\ FreeIn(fl[d], p) \in SUBSET BlockPlaces(p, d) /\ FreeIn(fl[d], p) \subseteq ToSet(fl[d])
        /\ IsFiniteSet(BlockPlaces(p, d))
        /\ ar[p].free_cnt = Cardinality(FreeIn(fl[d], p)) /\ ar[p].free_cnt \in Nat
        /\ Cardinality(BlockPlaces(p, d)) = blocks_per_arena(d)
        /\ ar[p].free_cnt <= blocks_per_arena(d)
    BY FreeOnes
  <2>2. Cardinality(BlockPlaces(p, d)) = Cardinality(FreeIn(fl[d], p))
    <3>1. blocks_per_arena(d) \in Int
      BY DescsAre
    <3> QED BY <2>1, <3>1
  <2>3. BlockPlaces(p, d) = FreeIn(fl[d], p)
    BY <2>1, <2>2, FS_Subset
  <2>4. u.at \in BlockPlaces(p, d)
    <3>1. Holds(ar, u)
      BY DEF Whole, AllPlaced
    <3> QED
      BY <3>1, NotDescs DEF Holds, BigPlaced, PlacedIn
  <2>5. u.at \notin ToSet(fl[d])
    BY DEF Whole, Apart
  <2> QED
    BY <2>1, <2>3, <2>4, <2>5
<1>6. Typed(nar, nfl, us)
  BY <1>2, <1>3, <1>4 DEF Whole, Typed
<1>7. ASSUME NEW u \in us PROVE Holds(nar, u)
  <2> DEFINE r == block_to_arena(u.at)
  <2>1. Holds(ar, u) /\ r \in FreePage /\ r # p
    BY <1>5, BlocksAre DEF Whole, AllPlaced
  <2>2. Same(ar, nar, r)
    BY <1>2, <2>1 DEF Same
  <2>3. ASSUME ar[r].desc = 0, NEW q \in r..r + ar[r].free_cnt - 1 PROVE Same(ar, nar, q)
    <3>1. BigPlaced(ar, u.at)
      BY <2>1, <2>3, NotDescs DEF Holds, PlacedIn
    <3>2. q # r => q \in r + 1..r + ar[r].free_cnt - 1
      BY <2>1 DEF FreePage
    <3>3. q # r => q \in FreePage /\ ar[q] = BigTail
      BY <3>1, <3>2 DEF BigPlaced
    <3>4. q \in FreePage /\ q # p
      BY <2>1, <3>3, NotDescs DEF BigTail
    <3> QED
      BY <1>2, <3>4 DEF Same
  <2> HIDE DEF r
  <2> QED
    BY <2>1, <2>2, <2>3, HoldsStay DEF r
<1>8. ASSUME NEW e \in Descs, NEW b \in ToSet(nfl[e]) PROVE PlacedIn(nar, e, b)
  <2>1. b \in ToSet(fl[e]) /\ (e = d => block_to_arena(b) # p)
    BY <1>3, <1>4
  <2>2. PlacedIn(ar, e, b)
    BY <2>1 DEF Whole, AllPlaced
  <2>3. block_to_arena(b) # p
    BY <2>1, <2>2 DEF PlacedIn
  <2> QED
    BY <1>2, <2>2, <2>3 DEF PlacedIn
<1>9. AllPlaced(nar, nfl, us)
  BY <1>7, <1>8 DEF AllPlaced
<1>10. Apart(nfl, us)
  BY <1>3, <1>4 DEF Whole, Apart
<1>11. \A q \in FreePage : nar[q].desc \in Descs => q # p /\ nar[q] = ar[q]
  BY <1>2, NotDescs DEF NoArena
<1>12. Counted(nar, nfl, us)
  <2> SUFFICES ASSUME NEW q \in FreePage, nar[q].desc \in Descs
               PROVE  /\ nar[q].free_cnt = Cardinality(FreeIn(nfl[nar[q].desc], q))
                      /\ BlockPlaces(q, nar[q].desc) \subseteq
                           ToSet(nfl[nar[q].desc]) \cup InUseAt(us)
    BY DEF Counted
  <2>0. q # p /\ nar[q] = ar[q]
    BY <1>11
  <2>1. /\ ar[q].free_cnt = Cardinality(FreeIn(fl[ar[q].desc], q))
        /\ BlockPlaces(q, ar[q].desc) \subseteq ToSet(fl[ar[q].desc]) \cup InUseAt(us)
    BY <2>0 DEF Whole, Counted
  <2>2. FreeIn(nfl[ar[q].desc], q) = FreeIn(fl[ar[q].desc], q)
    BY <1>3, <1>4, <2>0 DEF FreeIn
  <2>3. ASSUME NEW c \in BlockPlaces(q, ar[q].desc), c \in ToSet(fl[ar[q].desc])
        PROVE  c \in ToSet(nfl[ar[q].desc])
    <3>1. block_to_arena(c) = q
      BY <2>0, PlaceIs DEF FreePage
    <3> QED
      BY <1>3, <1>4, <2>0, <2>3, <3>1
  <2> QED
    BY <2>0, <2>1, <2>2, <2>3
<1>13. Busy(nar, {})
  BY <1>11 DEF Busy
<1> QED
  BY <1>6, <1>9, <1>10, <1>12, <1>13 DEF Whole

\* The pages of a big block go back.
LEMMA BigFreed ==
  ASSUME NEW ar, NEW fl, NEW us, Whole(ar, fl, us), Busy(ar, {}),
         NEW u \in us, NEW p, p = block_to_arena(u.at), ar[p].desc = 0,
         NEW nar, nar = [q \in FreePage |-> IF q \in p..p + ar[p].free_cnt - 1 THEN NoArena
                                            ELSE ar[q]]
  PROVE  Whole(nar, fl, us \ {u}) /\ Busy(nar, {})
<1> DEFINE pages == p..p + ar[p].free_cnt - 1
           nus == us \ {u}
<1>1. /\ ar \in [FreePage -> ArenaHeader] /\ p \in FreePage /\ p \in Int
      /\ ar[p].free_cnt \in Nat
  <2>1. ar \in [FreePage -> ArenaHeader] /\ p \in FreePage
    BY BlocksAre DEF Whole, Typed
  <2>2. ar[p].free_cnt \in Nat
    BY ONLY <2>1, BlocksAssumption DEF ArenaHeader
  <2> QED
    BY <2>1, <2>2 DEF FreePage
<1>2. /\ BigPlaced(ar, u.at) /\ u.at = p * PageBytes + Header
      /\ \A q \in p + 1..p + ar[p].free_cnt - 1 : q \in FreePage /\ ar[q] = BigTail
  <2>1. Holds(ar, u)
    BY DEF Whole, AllPlaced
  <2>2. BigPlaced(ar, u.at)
    BY <2>1, NotDescs DEF Holds, PlacedIn
  <2> QED
    BY <2>2, BigIs DEF BigPlaced
<1>3. \A q \in pages : q \in Int /\ q >= p /\ (q # p => q \in p + 1..p + ar[p].free_cnt - 1)
  BY <1>1
<1>4. \A q \in pages : q # p => ar[q] = BigTail
  BY <1>2, <1>3
<1>5. /\ nar \in [FreePage -> ArenaHeader]
      /\ \A q \in FreePage : q \notin pages => nar[q] = ar[q]
      /\ \A q \in FreePage : nar[q].desc \in Descs => nar[q] = ar[q] /\ q # p
  <2>1. NoArena \in ArenaHeader /\ NoArena.desc = 0
    BY BlocksAssumption DEF NoArena, ArenaHeader
  <2> HIDE DEF ArenaHeader, NoArena
  <2> QED
    BY <1>1, <2>1, NotDescs
<1>6. Typed(nar, fl, nus)
  <2>1. IsFiniteSet(nus)
    BY FS_RemoveElement DEF Whole, Typed
  <2> QED
    BY <1>5, <2>1 DEF Whole, Typed
<1>7. ASSUME NEW v \in nus PROVE Holds(nar, v)
  <2> DEFINE r == block_to_arena(v.at)
  <2>1. Holds(ar, v) /\ r \in FreePage /\ r \in Int /\ ar[r] # BigTail
    BY BlocksAre DEF Whole, AllPlaced, FreePage
  <2>2. r # p
    <3> SUFFICES ASSUME r = p PROVE FALSE
      OBVIOUS
    <3>1. BigPlaced(ar, v.at)
      BY <2>1, NotDescs DEF Holds, PlacedIn
    <3>2. v.at = p * PageBytes + Header
      BY <3>1, BigIs
    <3> QED
      BY <1>2, <3>2 DEF Whole, Apart
  <2>3. r \notin pages
    BY <1>4, <2>1, <2>2
  <2>4. Same(ar, nar, r)
    BY <1>5, <2>1, <2>3 DEF Same
  <2>5. ASSUME ar[r].desc = 0, NEW q \in r..r + ar[r].free_cnt - 1 PROVE Same(ar, nar, q)
    <3>1. BigPlaced(ar, v.at)
      BY <2>1, <2>5, NotDescs DEF Holds, PlacedIn
    <3>2. q \in Int /\ q >= r /\ (q # r => q \in r + 1..r + ar[r].free_cnt - 1)
          /\ ar[r].free_cnt \in Nat
      BY <1>1, <2>1 DEF ArenaHeader
    <3>3. \A x \in r + 1..r + ar[r].free_cnt - 1 : x \in FreePage /\ ar[x] = BigTail
      BY <3>1 DEF BigPlaced
    <3>4. q \in FreePage
      BY <2>1, <3>2, <3>3
    <3>5. q \notin pages
      <4> SUFFICES ASSUME q \in pages PROVE FALSE
        OBVIOUS
      <4>1. q # r
        BY <2>3
      <4>2. CASE r < p
        <5>1. p \in r + 1..r + ar[r].free_cnt - 1
          BY <1>1, <1>3, <2>1, <3>2, <4>1, <4>2
        <5> QED
          BY <3>3, <5>1 DEF BigTail
      <4>3. CASE p < r
        <5>1. r \in pages
          BY <1>1, <1>3, <2>1, <3>2, <4>1, <4>3
        <5> QED
          BY <2>3, <5>1
      <4> QED
        BY <1>1, <2>1, <2>2, <4>2, <4>3
    <3> QED
      BY <1>5, <3>4, <3>5 DEF Same
  <2> HIDE DEF r
  <2> QED
    BY <2>1, <2>4, <2>5, HoldsStay DEF r
<1>8. ASSUME NEW e \in Descs, NEW b \in ToSet(fl[e]) PROVE PlacedIn(nar, e, b)
  <2>1. PlacedIn(ar, e, b)
    BY DEF Whole, AllPlaced
  <2>2. block_to_arena(b) \notin pages
    BY <1>4, <2>1, NotDescs DEF PlacedIn, BigTail
  <2> QED
    BY <1>5, <2>1, <2>2 DEF PlacedIn
<1>9. AllPlaced(nar, fl, nus)
  BY <1>7, <1>8 DEF AllPlaced, Whole
<1>10. Apart(fl, nus)
  BY DEF Whole, Apart
<1>11. Counted(nar, fl, nus)
  <2> SUFFICES ASSUME NEW q \in FreePage, nar[q].desc \in Descs
               PROVE  /\ nar[q].free_cnt = Cardinality(FreeIn(fl[nar[q].desc], q))
                      /\ BlockPlaces(q, nar[q].desc) \subseteq
                           ToSet(fl[nar[q].desc]) \cup InUseAt(nus)
    BY DEF Counted
  <2>0. q # p /\ nar[q] = ar[q]
    BY <1>5
  <2>1. /\ ar[q].free_cnt = Cardinality(FreeIn(fl[ar[q].desc], q))
        /\ BlockPlaces(q, ar[q].desc) \subseteq ToSet(fl[ar[q].desc]) \cup InUseAt(us)
    BY <2>0 DEF Whole, Counted
  <2>2. \A c \in BlockPlaces(q, ar[q].desc) : c # u.at
    <3>1. \A c \in BlockPlaces(q, ar[q].desc) : block_to_arena(c) = q
      BY <2>0, PlaceIs DEF FreePage
    <3> QED
      BY <2>0, <3>1
  <2>3. InUseAt(us) \subseteq InUseAt(nus) \cup {u.at}
    BY DEF InUseAt
  <2> QED
    BY <2>0, <2>1, <2>2, <2>3
<1>12. Busy(nar, {})
  BY <1>5 DEF Busy
<1> QED
  BY <1>6, <1>9, <1>10, <1>11, <1>12 DEF Whole

-----------------------------------------------------------------------------
(* Whole calls.                                                              *)

LEMMA DescForIs ==
  ASSUME NEW size \in Size
  PROVE  DescFor(size) = 0 \/ (DescFor(size) \in Descs /\ size <= DescFor(size))
<1> DEFINE fits == { d \in Descs : d >= size }
<1>1. fits \in SUBSET Nat
  BY DescsAre
<1>2. CASE fits = {}
  BY <1>2 DEF DescFor
<1>3. CASE fits # {}
  <2>1. \E d \in fits : \A e \in fits : d <= e
    <3> HIDE DEF fits
    <3> QED BY <1>1, <1>3, LeastOf
  <2>2. DescFor(size) \in fits
    BY <1>3, <2>1 DEF DescFor
  <2>3. size \in Int
    BY BlocksAssumption DEF Size
  <2> QED
    BY <1>1, <2>2, <2>3
<1> QED
  BY <1>2, <1>3

\* malloc leaves memory sound and takes no block away.
LEMMA AllocationKeeps ==
  ASSUME NEW m, Sound(m), NEW size \in Size, NEW n \in Allocations(m, size)
  PROVE  Sound(n) /\ m.used \subseteq n.used
<1> DEFINE ar == m.arena  fl == m.free_list  us == m.used
           d == DescFor(size)
<1>1. Whole(ar, fl, us) /\ Busy(ar, {})
  BY DEF Sound
<1>2. CASE d = 0
  <2>1. PICK p \in Unused(ar) : /\ p..p + page_cnt(size) - 1 \subseteq Unused(ar)
                                /\ n = big_block(m, size, p)
    BY <1>2 DEF Allocations, Unused
  <2>2. /\ n.arena = [q \in FreePage |->
                        IF q = p THEN [desc |-> 0, free_cnt |-> page_cnt(size)]
                        ELSE IF q \in p..p + page_cnt(size) - 1 THEN BigTail ELSE ar[q]]
        /\ n.free_list = fl /\ n.used = us \cup {[at |-> p * PageBytes + Header, size |-> size]}
    BY <2>1 DEF big_block, Memory
  <2> HIDE DEF ar, fl, us, d
  <2>3. BigTaken(ar, us, size, p, n.arena, n.used)
    BY <2>2 DEF BigTaken
  <2>4. Whole(n.arena, n.free_list, n.used) /\ Busy(n.arena, {})
    BY <1>1, <2>1, <2>2, <2>3, BigKeeps
  <2> QED
    BY <2>2, <2>4 DEF Sound, us
<1>3. CASE d # 0 /\ fl[d] # <<>>
  <2>1. d \in Descs /\ size <= d /\ n = pop_block(m, d, size)
    BY <1>3, DescForIs DEF Allocations
  <2>2. /\ n.arena = [ar EXCEPT ![block_to_arena(Head(fl[d]))].free_cnt = @ - 1]
        /\ n.free_list = [fl EXCEPT ![d] = Tail(@)]
        /\ n.used = us \cup {[at |-> Head(fl[d]), size |-> size]}
    BY <2>1 DEF pop_block, Memory
  <2>3. Busy(ar, {block_to_arena(Head(fl[d]))})
    BY <1>1 DEF Busy
  <2> HIDE DEF ar, fl, us, d
  <2>5. Popped(ar, fl, us, d, size, n.arena, n.free_list, n.used)
    BY <2>2 DEF Popped
  <2>4. Whole(n.arena, n.free_list, n.used) /\ Busy(n.arena, {})
    BY <1>1, <1>3, <2>1, <2>3, <2>5, PopKeeps
  <2> QED
    BY <2>2, <2>4 DEF Sound, us
<1>4. CASE d # 0 /\ fl[d] = <<>>
  <2>1. d \in Descs /\ size <= d
    BY <1>4, DescForIs
  <2>2. PICK p \in Unused(ar) : n = pop_block(new_arena(m, d, p), d, size)
    BY <1>4 DEF Allocations, Unused
  <2> DEFINE nar == [ar EXCEPT ![p] = [desc |-> d, free_cnt |-> blocks_per_arena(d)]]
             nfl == [fl EXCEPT ![d] = @ \o BlocksOf(p, d)]
  <2>3. /\ n.arena = [nar EXCEPT ![block_to_arena(Head(nfl[d]))].free_cnt = @ - 1]
        /\ n.free_list = [nfl EXCEPT ![d] = Tail(@)]
        /\ n.used = us \cup {[at |-> Head(nfl[d]), size |-> size]}
    BY <2>2 DEF pop_block, new_arena, Memory
  <2> HIDE DEF ar, fl, us, d
  <2>8. nar = [ar EXCEPT ![p] = [desc |-> d, free_cnt |-> blocks_per_arena(d)]]
    OBVIOUS
  <2>9. nfl = [fl EXCEPT ![d] = @ \o BlocksOf(p, d)]
    OBVIOUS
  <2> HIDE DEF nar, nfl
  <2>4. /\ Whole(nar, nfl, us) /\ nfl[d] # <<>>
        /\ \A b \in ToSet(nfl[d]) : Busy(nar, {block_to_arena(b)})
    <3>1. d \in Descs /\ fl[d] = <<>> /\ Whole(ar, fl, us) /\ Busy(ar, {})
      BY <1>1, <1>4, <2>1
    <3> QED
      BY ONLY <2>8, <2>9, <3>1, ArenaKeeps
  <2>5. Head(nfl[d]) \in ToSet(nfl[d])
    <3>1. nfl[d] \in Seq(Int)
      BY <2>1, <2>4 DEF Whole, Typed
    <3> QED
      BY <2>4, <3>1, PopFrontFacts
  <2>7. Popped(nar, nfl, us, d, size, n.arena, n.free_list, n.used)
    BY <2>3 DEF Popped
  <2>6. Whole(n.arena, n.free_list, n.used) /\ Busy(n.arena, {})
    BY <2>1, <2>4, <2>5, <2>7, PopKeeps
  <2> QED
    BY <2>3, <2>6 DEF Sound, us
<1> QED
  BY <1>2, <1>3, <1>4

\* free leaves memory sound, in each of its three cases.
LEMMA FreedKeeps ==
  ASSUME NEW m, Sound(m), NEW u \in m.used
  PROVE  Sound(freed(m, u))
<1> DEFINE ar == m.arena  fl == m.free_list  us == m.used
           n == freed(m, u)
           p == block_to_arena(u.at)  d == ar[p].desc
<1>1. Whole(ar, fl, us) /\ Busy(ar, {}) /\ p \in FreePage
  BY BlocksAre DEF Sound
<1>2. CASE d = 0
  <2>1. /\ n.arena = [q \in FreePage |-> IF q \in p..p + ar[p].free_cnt - 1 THEN NoArena
                                          ELSE ar[q]]
        /\ n.free_list = fl /\ n.used = us \ {u}
    BY <1>2 DEF freed, Memory
  <2>2. u \in us
    OBVIOUS
  <2> HIDE DEF ar, fl, us, n
  <2>3. Whole(n.arena, n.free_list, n.used) /\ Busy(n.arena, {})
    BY <1>1, <1>2, <2>1, <2>2, BigFreed
  <2> QED
    BY <2>3 DEF Sound, n
<1>3. CASE d # 0
  <2>1. d \in Descs
    <3>1. Holds(ar, u)
      BY <1>1 DEF Whole, AllPlaced
    <3> QED
      BY <1>3, <3>1 DEF Holds, BigPlaced, PlacedIn
  <2> DEFINE nar == [ar EXCEPT ![p].free_cnt = @ + 1]
             nfl == [fl EXCEPT ![d] = <<u.at>> \o @]
  <2>2. u \in us
    OBVIOUS
  <2>3. /\ Whole(nar, nfl, us \ {u}) /\ Busy(nar, {p})
        /\ nar[p].desc = d /\ nar[p].free_cnt = ar[p].free_cnt + 1
        /\ \A q \in FreePage \ {p} : nar[q] = ar[q]
    <3> HIDE DEF ar, fl, us, nar, nfl
    <3>1. /\ nar = [ar EXCEPT ![p].free_cnt = @ + 1]
          /\ nfl = [fl EXCEPT ![d] = <<u.at>> \o @]
      BY DEF nar, nfl
    <3> HIDE DEF p, d
    <3>2. p = block_to_arena(u.at) /\ d = ar[p].desc
      BY DEF p, d
    <3>4. Returned(ar, fl, us, u, nar, nfl, us \ {u})
      BY <3>1, <3>2 DEF Returned
    <3>3. Whole(ar, fl, us) /\ Busy(ar, {})
      BY <1>1
    <3>5. Whole(nar, nfl, us \ {u})
      BY ONLY <2>1, <2>2, <3>2, <3>3, <3>4, GiveBackKeeps
    <3>6. Busy(nar, {p})
      BY ONLY <2>1, <2>2, <3>2, <3>3, <3>4, GiveBackKeeps
    <3>7. ar \in [FreePage -> ArenaHeader]
      BY <1>1 DEF Whole, Typed
    <3>8. ar[p] \in [desc : Descs \cup {0, -1}, free_cnt : 0..PageBytes]
      BY <1>1, <3>7 DEF ArenaHeader
    <3> HIDE DEF ArenaHeader
    <3>9. /\ nar[p] = [ar[p] EXCEPT !.free_cnt = ar[p].free_cnt + 1]
          /\ \A q \in FreePage \ {p} : nar[q] = ar[q]
      BY <1>1, <3>1, <3>7
    <3>10. nar[p].desc = d /\ nar[p].free_cnt = ar[p].free_cnt + 1
      BY <3>2, <3>8, <3>9
    <3> QED
      BY <3>5, <3>6, <3>9, <3>10
  <2>4. CASE unused(ar[p].free_cnt + 1, d)
    <3>1. /\ n.arena = [ar EXCEPT ![p] = NoArena]
          /\ n.free_list = [fl EXCEPT ![d] = delisted(<<u.at>> \o @, p)]
          /\ n.used = us \ {u}
      BY <1>3, <2>4 DEF freed, Memory
    <3>2. n.arena = [nar EXCEPT ![p] = NoArena]
      <4>1. ar \in [FreePage -> ArenaHeader]
        BY <1>1 DEF Whole, Typed
      <4> QED BY <3>1, <4>1
    <3>3. n.free_list = [nfl EXCEPT ![d] = delisted(@, p)]
      <4>1. fl \in [Descs -> Seq(Int)]
        BY <1>1 DEF Whole, Typed
      <4> HIDE DEF p, d, fl, n
      <4>2. /\ nfl[d] = <<u.at>> \o fl[d] /\ DOMAIN nfl = Descs
            /\ \A e \in Descs : e # d => nfl[e] = fl[e]
        BY <2>1, <4>1
      <4> HIDE DEF nfl
      <4>3. n.free_list = [fl EXCEPT ![d] = delisted(<<u.at>> \o fl[d], p)]
        BY <3>1
      <4> QED BY <2>1, <4>1, <4>2, <4>3
    <3>4. nar[p].desc = d /\ nar[p].free_cnt >= blocks_per_arena(d)
      BY <2>3, <2>4 DEF unused
    <3> HIDE DEF nar, nfl, ar, fl, us, p, d, n
    <3>5. Whole(n.arena, n.free_list, n.used) /\ Busy(n.arena, {})
      BY <1>1, <2>1, <2>3, <3>1, <3>2, <3>3, <3>4, RemoveKeeps
    <3> QED
      BY <3>5 DEF Sound, n
  <2>5. CASE ~unused(ar[p].free_cnt + 1, d)
    <3>1. n.arena = nar /\ n.free_list = nfl /\ n.used = us \ {u}
      BY <1>3, <2>5 DEF freed, Memory
    <3>2. Busy(nar, {})
      <4>1. nar[p].free_cnt < blocks_per_arena(d) /\ nar[p].desc = d
        <5>1. ar[p].free_cnt \in Nat
          BY <1>1, <2>1, FreeOnes
        <5>2. blocks_per_arena(d) \in Int
          BY <2>1, DescsAre
        <5> HIDE DEF nar, p, d, n, ar, fl, us
        <5>3. nar[p].desc = d /\ nar[p].free_cnt = ar[p].free_cnt + 1
          BY <2>3
        <5>4. ~(ar[p].free_cnt + 1 >= blocks_per_arena(d))
          BY <2>5 DEF unused
        <5> QED
          BY ONLY <5>1, <5>2, <5>3, <5>4
      <4> HIDE DEF nar
      <4> QED
        BY <2>3, <4>1 DEF Busy
    <3> HIDE DEF n
    <3> QED
      BY <2>3, <3>1, <3>2 DEF Sound, n
  <2> QED
    BY <2>4, <2>5
<1> QED
  BY <1>2, <1>3

-----------------------------------------------------------------------------
(* The invariant, and what follows from it.                                  *)

LEMMA InitBlocks == BlockInit => BlockInv
<1> SUFFICES ASSUME BlockInit PROVE BlockInv
  OBVIOUS
<1>1. NoArena \in ArenaHeader /\ NoArena.desc = 0
  BY BlocksAssumption DEF NoArena, ArenaHeader
<1>2. arena = [p \in FreePage |-> NoArena] /\ free_list = [d \in Descs |-> <<>>] /\ used = {}
  BY DEF BlockInit
<1>3. Typed(arena, free_list, used)
  <2>1. <<>> \in Seq(Int) /\ IsInjective(<<>>)
    BY DEF IsInjective
  <2> HIDE DEF ArenaHeader, NoArena
  <2> QED
    BY <1>1, <1>2, <2>1, FS_EmptySet DEF Typed
<1>4. \A d \in Descs : ToSet(free_list[d]) = {}
  BY <1>2 DEF ToSet
<1> QED
  BY <1>1, <1>2, <1>3, <1>4, NotDescs DEF BlockInv, Whole, Busy, AllPlaced, Apart, Counted

LEMMA NextBlocks == BlockInv /\ [BlockNext]_blockVars => BlockInv'
<1> SUFFICES ASSUME BlockInv, [BlockNext]_blockVars PROVE BlockInv'
  OBVIOUS
<1>0. Sound(Now) /\ Now.used = used
  BY DEF BlockInv, Sound, Now, Memory
<1>1. ASSUME NEW m, Sound(m), now_is(m) PROVE BlockInv'
  BY <1>1 DEF Sound, now_is, BlockInv
<1>2. ASSUME NEW size \in Size, malloc(size) PROVE BlockInv'
  BY <1>0, <1>1, <1>2, AllocationKeeps DEF malloc
<1>3. ASSUME NEW u \in used, free(u) PROVE BlockInv'
  BY <1>0, <1>1, <1>3, FreedKeeps DEF free
<1>4. ASSUME NEW u \in used, NEW size \in Size, realloc(u, size) PROVE BlockInv'
  <2>1. PICK m \in Allocations(Now, size) : now_is(freed(m, u))
    BY <1>4 DEF realloc
  <2>2. Sound(m) /\ u \in m.used
    BY <1>0, <2>1, AllocationKeeps
  <2>3. Sound(freed(m, u))
    BY <2>2, FreedKeeps
  <2> QED
    BY <1>1, <2>1, <2>3
<1>5. CASE UNCHANGED blockVars
  BY <1>5 DEF blockVars, BlockInv
<1> QED
  BY <1>2, <1>3, <1>4, <1>5 DEF BlockNext

Placed(ar, b) == BigPlaced(ar, b) \/ \E d \in Descs : PlacedIn(ar, d, b)

LEMMA NotLess ==
  ASSUME NEW d \in Nat, NEW i \in Nat, NEW j \in Nat, i <= j
  PROVE  i * d \in Nat /\ j * d \in Nat /\ i * d <= j * d
<1>1. i * d \in Nat /\ j * d \in Nat
  OBVIOUS
<1>2. CASE i = j
  BY <1>1, <1>2
<1>3. CASE i < j
  <2>1. i * d + d <= j * d
    BY <1>3, Spaced
  <2>2. \A x, y \in Nat : x + d <= y => x <= y
    OBVIOUS
  <2> QED
    BY <1>1, <2>1, <2>2
<1> QED
  BY <1>2, <1>3

\* How far a block reaches: in an arena to the end of its page at most, a big
\* one to the end of its last page.
LEMMA Reaches ==
  ASSUME NEW ar \in [FreePage -> ArenaHeader], NEW b, Placed(ar, b)
  PROVE  LET p == block_to_arena(b) IN
         /\ p \in FreePage /\ b \in Int /\ block_size(b, ar) \in Int /\ b % PageBytes >= Header
         /\ p * PageBytes <= b
         /\ ar[p].desc \in Descs => /\ block_size(b, ar) = ar[p].desc /\ b \in BlockPlaces(p, ar[p].desc)
                                    /\ b + block_size(b, ar) <= p * PageBytes + PageBytes
         /\ ar[p].desc \notin Descs =>
              /\ ar[p].desc = 0 /\ BigPlaced(ar, b) /\ ar[p].free_cnt \in Nat \ {0}
              /\ block_size(b, ar) = PageBytes * ar[p].free_cnt - Header
              /\ b + block_size(b, ar) = (p + ar[p].free_cnt) * PageBytes
<1> DEFINE p == block_to_arena(b)
<1>1. PageBytes \in Nat \ {0} /\ Header \in 0..PageBytes - 1
  BY BlocksAssumption
<1>2. CASE BigPlaced(ar, b)
  <2>1. /\ p \in FreePage /\ p \in Int /\ b = p * PageBytes + Header /\ b % PageBytes = Header
    BY <1>2, BigIs DEF FreePage
  <2>2. ar[p].desc = 0 /\ ar[p].desc \notin Descs /\ ar[p].free_cnt \in Nat \ {0}
    <3>1. ar[p].desc = 0 /\ ar[p].free_cnt > 0
      BY <1>2 DEF BigPlaced
    <3>2. ar[p].free_cnt \in 0..PageBytes
      BY <2>1 DEF ArenaHeader
    <3> QED
      BY <1>1, <3>1, <3>2, NotDescs
  <2>3. block_size(b, ar) = PageBytes * ar[p].free_cnt - Header
    BY <2>1, <2>2 DEF block_size
  <2> HIDE DEF p
  <2>4. PICK n \in Nat : n = ar[p].free_cnt
    BY <2>2
  <2>5. PageBytes * n \in Int /\ p * PageBytes \in Int
        /\ (p + n) * PageBytes = p * PageBytes + PageBytes * n
    BY <1>1, <2>1
  <2>6. PICK o \in Int, e \in Int : o = p * PageBytes /\ e = PageBytes * n
    BY <2>5
  <2>7. b = o + Header /\ block_size(b, ar) = e - Header /\ (p + n) * PageBytes = o + e
    BY <2>1, <2>3, <2>4, <2>5, <2>6
  <2>8. b \in Int /\ block_size(b, ar) \in Int /\ o <= b /\ b + block_size(b, ar) = o + e
    BY <1>1, <2>6, <2>7
  <2> QED
    BY <1>1, <1>2, <2>1, <2>2, <2>3, <2>4, <2>6, <2>7, <2>8 DEF p
<1>3. CASE \E d \in Descs : PlacedIn(ar, d, b)
  <2>1. PICK d \in Descs : PlacedIn(ar, d, b)
    BY <1>3
  <2>2. p \in FreePage /\ p \in Int /\ ar[p].desc = d /\ b \in BlockPlaces(p, d)
    BY <2>1 DEF PlacedIn, FreePage
  <2>3. block_size(b, ar) = d /\ d \in Int
    BY <2>2, DescsAre DEF block_size
  <2>4. /\ b \in Int /\ b % PageBytes >= Header
        /\ p * PageBytes <= b /\ b + d <= p * PageBytes + PageBytes
    BY <2>2, PlaceIs
  <2> HIDE DEF p
  <2> QED
    BY <2>2, <2>3, <2>4 DEF p
<1> QED
  BY <1>2, <1>3 DEF Placed

LEMMA Earlier ==
  ASSUME NEW ar \in [FreePage -> ArenaHeader], NEW b, NEW c, Placed(ar, b), Placed(ar, c),
         block_to_arena(b) < block_to_arena(c)
  PROVE  b + block_size(b, ar) <= c
<1> DEFINE p == block_to_arena(b)  q == block_to_arena(c)
<1>1. p \in FreePage /\ q \in FreePage /\ p \in Nat /\ q \in Nat /\ p < q /\ PageBytes \in Nat
  BY Reaches, BlocksAssumption DEF FreePage
<1>2. c \in Int /\ q * PageBytes <= c /\ b + block_size(b, ar) \in Int
  BY Reaches
<1>3. CASE ar[p].desc \in Descs
  <2>1. b + block_size(b, ar) <= p * PageBytes + PageBytes
    BY <1>3, Reaches
  <2> HIDE DEF p, q
  <2>2. p * PageBytes \in Nat /\ p * PageBytes + PageBytes <= q * PageBytes
    BY <1>1, Spaced
  <2>3. PICK x \in Int, y \in Int : x = p * PageBytes + PageBytes /\ y = q * PageBytes
    BY <1>1
  <2> QED
    BY <1>2, <2>1, <2>2, <2>3
<1>4. CASE ar[p].desc \notin Descs
  <2>1. /\ BigPlaced(ar, b) /\ ar[p].free_cnt \in Nat \ {0}
        /\ b + block_size(b, ar) = (p + ar[p].free_cnt) * PageBytes
    BY <1>4, Reaches
  <2>2. ar[q] # BigTail
    BY Reaches, NotDescs DEF BigTail
  <2>3. p + ar[p].free_cnt <= q
    <3> SUFFICES ASSUME q < p + ar[p].free_cnt PROVE FALSE
      BY <1>1, <2>1
    <3>1. q \in p + 1..p + ar[p].free_cnt - 1
      BY <1>1, <2>1
    <3> QED
      BY <2>1, <2>2, <3>1 DEF BigPlaced
  <2> HIDE DEF p, q
  <2>4. (p + ar[p].free_cnt) * PageBytes <= q * PageBytes
    <3>1. p + ar[p].free_cnt \in Nat
      BY <1>1, <2>1
    <3> QED
      BY <1>1, <2>3, <3>1, NotLess
  <2>5. PICK x \in Int, y \in Int : x = (p + ar[p].free_cnt) * PageBytes /\ y = q * PageBytes
    BY <1>1, <2>1
  <2> QED
    BY <1>2, <2>1, <2>4, <2>5
<1> QED
  BY <1>3, <1>4

LEMMA NoOverlap ==
  ASSUME NEW ar \in [FreePage -> ArenaHeader], NEW b, NEW c, Placed(ar, b), Placed(ar, c), b # c
  PROVE  b + block_size(b, ar) <= c \/ c + block_size(c, ar) <= b
<1> DEFINE p == block_to_arena(b)  q == block_to_arena(c)
<1>1. p \in FreePage /\ q \in FreePage /\ p \in Int /\ q \in Int
  BY Reaches DEF FreePage
<1>2. CASE p # q
  <2>1. p < q \/ q < p
    BY <1>1, <1>2
  <2> QED
    BY <2>1, Earlier
<1>3. CASE p = q /\ ar[p].desc \in Descs
  <2>1. PICK d \in Descs : d = ar[p].desc
    BY <1>3
  <2>2. /\ b \in BlockPlaces(p, d) /\ c \in BlockPlaces(p, d)
        /\ block_size(b, ar) = d /\ block_size(c, ar) = d
    BY <1>3, <2>1, Reaches
  <2>3. PICK i \in 0..blocks_per_arena(d) - 1, j \in 0..blocks_per_arena(d) - 1 :
          b = arena_to_block(p, d, i) /\ c = arena_to_block(p, d, j)
    BY <2>2 DEF BlockPlaces
  <2>4. i < j \/ j < i
    BY <2>3
  <2> QED
    BY <1>1, <2>2, <2>3, <2>4, PlacesApart
<1>4. CASE p = q /\ ar[p].desc \notin Descs
  <2>1. BigPlaced(ar, b) /\ BigPlaced(ar, c)
    BY <1>4, Reaches
  <2>2. b = c
    BY <1>4, <2>1, BigIs
  <2> QED
    BY <2>2
<1> QED
  BY <1>2, <1>3, <1>4

LEMMA BlocksAreDisjoint == BlockInv => BlocksDisjoint
<1> SUFFICES ASSUME BlockInv PROVE BlocksDisjoint
  OBVIOUS
<1> DEFINE listed == UNION { ToSet(free_list[d]) : d \in Descs }
           taken == { u.at : u \in used }
<1>1. /\ arena \in [FreePage -> ArenaHeader] /\ IsFiniteSet(used)
      /\ \A u \in used : Holds(arena, u)
      /\ \A d \in Descs : \A b \in ToSet(free_list[d]) : PlacedIn(arena, d, b)
      /\ Apart(free_list, used)
  BY DEF BlockInv, Whole, Typed, AllPlaced
<1>2. /\ \A b \in taken : Placed(arena, b)
      /\ \A b \in listed : Placed(arena, b)
  BY <1>1 DEF Holds, Placed
<1>3. ASSUME NEW b \in taken, NEW c \in taken \cup listed, b # c
      PROVE  Bytes(b) \cap Bytes(c) = {}
  <2>1. Placed(arena, b) /\ Placed(arena, c)
    BY <1>2
  <2> HIDE DEF listed, taken
  <2>2. /\ b \in Int /\ c \in Int
        /\ block_size(b, arena) \in Int /\ block_size(c, arena) \in Int
    BY <1>1, <2>1, Reaches
  <2>3. b + block_size(b, arena) <= c \/ c + block_size(c, arena) <= b
    BY <1>1, <1>3, <2>1, NoOverlap
  <2> QED
    BY <2>2, <2>3 DEF Bytes
<1>4. taken \cap listed = {}
  BY <1>1 DEF Apart
<1>5. Cardinality(taken) = Cardinality(used)
  <2> DEFINE f == [u \in used |-> u.at]
  <2>1. f \in Bijection(used, taken)
    <3>1. f \in [used -> taken] /\ \A b \in taken : \E u \in used : f[u] = b
      OBVIOUS
    <3>2. \A u, v \in used : f[u] = f[v] => u = v
      BY <1>1 DEF Apart
    <3> HIDE DEF f, taken
    <3> QED
      BY <3>1, <3>2 DEF Bijection, Injection, Surjection, IsInjective
  <2> HIDE DEF f, taken
  <2> QED
    BY <1>1, <2>1, FS_Bijection DEF ExistsBijection
<1>6. ASSUME NEW u \in used
      PROVE  u.at % PageBytes >= Header /\ u.size <= block_size(u.at, arena)
  <2>1. Placed(arena, u.at) /\ Holds(arena, u)
    BY <1>1, <1>2
  <2> DEFINE p == block_to_arena(u.at)
  <2>2. /\ u.at % PageBytes >= Header
        /\ arena[p].desc \in Descs => block_size(u.at, arena) = arena[p].desc
        /\ arena[p].desc \notin Descs =>
             block_size(u.at, arena) = PageBytes * arena[p].free_cnt - Header
    BY <1>1, <2>1, Reaches
  <2>3. CASE BigPlaced(arena, u.at) /\ u.size <= PageBytes * arena[p].free_cnt - Header
    <3>1. arena[p].desc \notin Descs
      BY <2>3, NotDescs DEF BigPlaced
    <3> QED
      BY <2>2, <2>3, <3>1
  <2>4. CASE \E d \in Descs : PlacedIn(arena, d, u.at) /\ u.size <= d
    BY <2>2, <2>4 DEF PlacedIn
  <2> QED
    BY <2>1, <2>3, <2>4 DEF Holds
<1> HIDE DEF listed, taken
<1>7. /\ \A b \in taken, c \in taken \cup listed : b # c => Bytes(b) \cap Bytes(c) = {}
      /\ taken \cap listed = {} /\ Cardinality(taken) = Cardinality(used)
      /\ \A u \in used : /\ u.at % PageBytes >= Header
                         /\ u.size <= block_size(u.at, arena)
  BY <1>3, <1>4, <1>5, <1>6
<1> QED
  BY <1>7 DEF BlocksDisjoint, listed, taken

LEMMA ArenasAreBack == BlockInv => ArenasComeBack
<1> SUFFICES ASSUME BlockInv PROVE ArenasComeBack
  OBVIOUS
<1>1. Whole(arena, free_list, used) /\ Busy(arena, {})
  BY DEF BlockInv
<1>2. ASSUME NEW p \in FreePage, arena[p].desc \in Descs
      PROVE  \E u \in used : block_to_arena(u.at) = p
  <2> DEFINE d == arena[p].desc
             listed == FreeIn(free_list[d], p)
  <2>1. /\ listed \subseteq BlockPlaces(p, d)
        /\ Cardinality(listed) \in Nat /\ arena[p].free_cnt = Cardinality(listed)
        /\ Cardinality(BlockPlaces(p, d)) = blocks_per_arena(d)
    BY <1>1, <1>2, FreeOnes
  <2>2. arena[p].free_cnt < blocks_per_arena(d)
    BY <1>1, <1>2 DEF Busy
  <2>3. listed # BlockPlaces(p, d)
    BY <2>1, <2>2
  <2>4. PICK b \in BlockPlaces(p, d) : b \notin listed
    BY <2>1, <2>3
  <2>5. block_to_arena(b) = p
    BY <1>2, PlaceIs DEF FreePage
  <2>6. b \notin ToSet(free_list[d])
    BY <2>4, <2>5 DEF FreeIn
  <2>7. b \in InUseAt(used)
    BY <1>1, <1>2, <2>6 DEF Whole, Counted
  <2> QED
    BY <2>5, <2>7 DEF InUseAt
<1>3. ASSUME NEW d \in Descs, NEW b \in ToSet(free_list[d])
      PROVE  arena[block_to_arena(b)].desc = d
  BY <1>1, BlocksAre
<1> QED
  BY <1>2, <1>3 DEF ArenasComeBack, ArenasInUse

LEMMA BlocksAreSafe == BlockInv => BlocksSafe
<1> SUFFICES ASSUME BlockInv PROVE BlocksSafe
  OBVIOUS
<1>1. Whole(arena, free_list, used)
  BY DEF BlockInv
<1>2. BlockTypeOK
  <2>1. \A p \in FreePage : arena[p] \in ArenaHeader
    BY <1>1 DEF Whole, Typed
  <2>2. \A u \in used : u.size \in Size
    BY <1>1 DEF Whole, Typed
  <2>3. \A u \in used : block_to_arena(u.at) \in FreePage
    BY <1>1, BlocksAre
  <2>4. \A d \in Descs : IsInjective(free_list[d])
    BY <1>1 DEF Whole, Typed
  <2> QED
    BY <2>1, <2>2, <2>3, <2>4 DEF BlockTypeOK, ArenaHeader
<1>3. FreeCountsRight
  BY <1>1 DEF Whole, Counted, FreeIn, FreeCountsRight, ArenasInUse
<1> QED
  BY <1>2, <1>3, BlocksAreDisjoint, ArenasAreBack DEF BlocksSafe

(* Whatever the order of the calls, blocks in use lie apart from each other, *)
(* from free blocks and from headers and are as large as was asked for,      *)
(* arenas count their free blocks, and a page is an arena only while a block *)
(* of it is in use (malloc.c:91-155, 192-260): for any size of pages,        *)
(* headers and blocks, any number of pages and any bound on the blocks.      *)
THEOREM BlocksStaySafe == BlockSpec => []BlocksSafe
<1>1. BlockInv /\ [BlockNext]_blockVars => BlockInv'
  BY NextBlocks
<1> QED
  BY <1>1, InitBlocks, BlocksAreSafe, PTL DEF BlockSpec
=============================================================================
