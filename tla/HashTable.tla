----------------------------- MODULE HashTable -----------------------------
(* The hash table of lib/kernel/hash.c: chained buckets whose number follows *)
(* the number of elements, by powers of two, when there is memory for it.    *)
EXTENDS Integers, FiniteSets, Sequences, SequencesExt, FiniteSetsExt

CONSTANTS Key, Item,     \* numbers; an element's key is its remainder
          HashOf,        \* hash value of each key
          MinBuckets,    \* 4
          BEST_ELEMS_PER_BUCKET

ASSUME HashAssumption ==
  MinBuckets \in Nat \ {0} /\ BEST_ELEMS_PER_BUCKET \in Nat \ {0}

VARIABLES buckets,    \* by number from 0: the elements, front first
          elem_cnt,
          iter,       \* a hash_iterator: its bucket and the elements left in it
          visited     \* what it has returned so far

hashVars == <<buckets, elem_cnt, iter, visited>>

NoItem == 0
KeyOf(e) == e % Cardinality(Key)
bucket_cnt(bs) == Cardinality(DOMAIN bs)
no_buckets(n) == [i \in 0..n - 1 |-> <<>>]
Stored(bs) == UNION { ToSet(bs[i]) : i \in DOMAIN bs }
NoIterator == [bucket |-> -1, rest |-> <<>>]

HashInit == /\ buckets = no_buckets(MinBuckets) /\ elem_cnt = 0
            /\ iter = NoIterator /\ visited = <<>>

-----------------------------------------------------------------------------
\* The bucket of a key among n buckets: the low bits of its hash value.
find_bucket(k, n) == HashOf[k] % n
\* The first element of its bucket that is equal to one of key k.
find_elem(bs, k) ==
  LET bucket == bs[find_bucket(k, bucket_cnt(bs))]
      equal == { i \in DOMAIN bucket : KeyOf(bucket[i]) = k }
  IN  IF equal = {} THEN NoItem ELSE bucket[Min(equal)]
push_front(bs, e) ==
  [bs EXCEPT ![find_bucket(KeyOf(e), bucket_cnt(bs))] = <<e>> \o @]
without(bs, e) == [bs EXCEPT ![find_bucket(KeyOf(e), bucket_cnt(bs))] = Remove(@, e)]

\* As many buckets as rehash wants: elem_cnt over the best ratio with all
\* but its highest bit turned off.
wanted_cnt(n) ==
  LET best == n \div BEST_ELEMS_PER_BUCKET
  IN  IF best < MinBuckets THEN MinBuckets
      ELSE Max({ 2^k : k \in { j \in 0..best : 2^j <= best } })
\* Slip of the next: every bucket keeps its elements.
moved_not(bs, n) == [i \in 0..n - 1 |-> IF i \in DOMAIN bs THEN bs[i] ELSE <<>>]
\* Elements move one by one, in the order of the old buckets, to the front.
moved(bs, n) ==
  LET order == FlattenSeq([i \in 1..bucket_cnt(bs) |-> bs[i - 1]])
  IN  FoldLeft(LAMBDA new, e : push_front(new, e), no_buckets(n), order)
\* What the table may be after rehash, which may find no memory.
rehash(bs, n) ==
  IF wanted_cnt(n) = bucket_cnt(bs) THEN {bs} ELSE {bs, moved(bs, wanted_cnt(n))}

\* A change of the table invalidates iterators.
becomes_table(bs, n) ==
  /\ buckets' \in rehash(bs, n) /\ elem_cnt' = n
  /\ iter' = NoIterator /\ visited' = <<>>

hash_insert(e) ==
  IF find_elem(buckets, KeyOf(e)) # NoItem THEN becomes_table(buckets, elem_cnt)
  ELSE becomes_table(push_front(buckets, e), elem_cnt + 1)

\* An element that is in the table already must not be put in once more.
replaced(e, old) == IF old = NoItem THEN buckets ELSE without(buckets, old)
hash_replace(e) ==
  LET old == find_elem(buckets, KeyOf(e)) IN
  /\ e \notin Stored(buckets)
  /\ becomes_table(push_front(replaced(e, old), e),
                   IF old = NoItem THEN elem_cnt + 1 ELSE elem_cnt)

hash_delete(k) ==
  LET found == find_elem(buckets, k) IN
  /\ found # NoItem
  /\ becomes_table(without(buckets, found), elem_cnt - 1)

hash_clear ==
  /\ buckets' = no_buckets(bucket_cnt(buckets)) /\ elem_cnt' = 0
  /\ iter' = NoIterator /\ visited' = <<>>

hash_first ==
  /\ iter' = [bucket |-> 0, rest |-> buckets[0]] /\ visited' = <<>>
  /\ UNCHANGED <<buckets, elem_cnt>>

\* The next element: of this bucket, or the front of the next that has one.
next_buckets(i) == { j \in DOMAIN buckets : j > i /\ buckets[j] # <<>> }
hash_next ==
  /\ iter.bucket \in DOMAIN buckets
  /\ LET ahead == next_buckets(iter.bucket)
         rest == IF iter.rest # <<>> \/ ahead = {} THEN iter.rest ELSE buckets[Min(ahead)]
         at == IF iter.rest # <<>> THEN iter.bucket
               ELSE IF ahead = {} THEN bucket_cnt(buckets) ELSE Min(ahead)
     IN  IF rest = <<>>
         THEN iter' = [bucket |-> bucket_cnt(buckets), rest |-> <<>>] /\ UNCHANGED visited
         ELSE /\ iter' = [bucket |-> at, rest |-> Tail(rest)]
              /\ visited' = Append(visited, Head(rest))
  /\ UNCHANGED <<buckets, elem_cnt>>

HashNext == \/ \E e \in Item : hash_insert(e) \/ hash_replace(e)
            \/ \E k \in Key : hash_delete(k)
            \/ hash_clear \/ hash_first \/ hash_next
HashSpec == HashInit /\ [][HashNext]_hashVars

-----------------------------------------------------------------------------
(* Properties.                                                               *)

\* The count that decides on the number of buckets is right.
HashTypeOK ==
  /\ elem_cnt = FoldSet(LAMBDA i, n : n + Len(buckets[i]), 0, DOMAIN buckets)
  /\ bucket_cnt(buckets) \in { MinBuckets * 2^k : k \in 0..elem_cnt + Cardinality(Item) }
  /\ Stored(buckets) \subseteq Item

\* A whole iteration returns every element once (hash.c:190-235).
IterationComplete ==
  iter.bucket = bucket_cnt(buckets) =>
    IsInjective(visited) /\ ToSet(visited) = Stored(buckets)

\* Whatever has been inserted, replaced, deleted and rehashed, with and
\* without memory for it, hash_find finds what a table by key would
\* (hash.c:87-157, 325-390).
Table == INSTANCE KeyedTable WITH
  table <- [k \in Key |-> find_elem(buckets, k)]
ImplementsTable == Table!TableSpec
=============================================================================
