------------------------------ MODULE HeapSort ------------------------------
(* sort and binary_search of lib/stdlib.c, comparison by comparison.         *)
(* compare_thunk is a comparison of two numbers.                             *)
EXTENDS Integers, Sequences, SequencesExt

CONSTANTS Values, MaxCnt   \* contents and bound on the length of arrays

ASSUME SortAssumption == Values \subseteq Int /\ MaxCnt \in Nat

VARIABLES unsorted,   \* the array sort was given
          array,      \* the array now
          heap,       \* cnt of the running heapify: 1..heap is (to be) a heap
          next_i,     \* i in the loop of sort that runs
          sift,       \* i in heapify, 0 when it has returned
          doing_sort  \* "build" the heap, "extract" from it, "done"

sortVars == <<unsorted, array, heap, next_i, sift, doing_sort>>

Arrays == UNION { [1..n -> Values] : n \in 0..MaxCnt }

SortInit == /\ unsorted \in Arrays /\ array = unsorted
            /\ heap = Len(array) /\ next_i = Len(array) \div 2
            /\ sift = 0 /\ doing_sort = "build"

do_swap(a, i, j) == [a EXCEPT ![i] = a[j], ![j] = a[i]]

\* The largest among element i of cnt and its children.
left_child(i, cnt) ==
  IF 2 * i <= cnt /\ array[2 * i] > array[i] THEN 2 * i ELSE i
largest(i, cnt) ==
  LET max == left_child(i, cnt)
  IN  IF 2 * i + 1 <= cnt /\ array[2 * i + 1] > array[max] THEN 2 * i + 1 ELSE max

\* One turn of the loop of heapify.
heapify ==
  /\ sift > 0
  /\ LET max == largest(sift, heap)
     IN  IF max = sift THEN sift' = 0 /\ UNCHANGED array
         ELSE array' = do_swap(array, sift, max) /\ sift' = max
  /\ UNCHANGED <<unsorted, heap, next_i, doing_sort>>

build_heap ==
  /\ doing_sort = "build" /\ sift = 0
  /\ IF next_i > 0
     THEN sift' = next_i /\ next_i' = next_i - 1 /\ UNCHANGED doing_sort
     ELSE next_i' = Len(array) /\ doing_sort' = "extract" /\ UNCHANGED sift
  /\ UNCHANGED <<unsorted, array, heap>>

sort_heap ==
  /\ doing_sort = "extract" /\ sift = 0
  /\ IF next_i > 1
     THEN /\ array' = do_swap(array, 1, next_i) /\ heap' = next_i - 1
          /\ sift' = 1 /\ next_i' = next_i - 1 /\ UNCHANGED doing_sort
     ELSE doing_sort' = "done" /\ UNCHANGED <<array, heap, sift, next_i>>
  /\ UNCHANGED unsorted

SortNext == heapify \/ build_heap \/ sort_heap
SortSpec == SortInit /\ [][SortNext]_sortVars

\* binary_search: an index, 0 for a null pointer, -1 if the loop does not end.
after_middle(first, middle) == middle + 1
binary_search(key) ==
  LET ends == 1..Len(array) + 1
      search[first \in ends, last \in ends, turns \in {0} \cup ends] ==
        LET middle == first + (last - first) \div 2
        IN  IF first >= last THEN 0
            ELSE IF turns = 0 THEN -1
            ELSE IF key < array[middle] THEN search[first, middle, turns - 1]
            ELSE IF key > array[middle]
                 THEN search[after_middle(first, middle), last, turns - 1]
            ELSE middle
  IN  search[1, Len(array) + 1, Len(array) + 1]

-----------------------------------------------------------------------------
(* Properties.                                                               *)

\* While sort extracts, what it has extracted is sorted and not below the
\* heap; in the end the array is the given one in order (stdlib.c:120-170).
Count(a, v) == Len(SelectSeq(a, LAMBDA x : x = v))
SortRight ==
  /\ \A v \in Values : Count(array, v) = Count(unsorted, v)
  /\ doing_sort # "build" /\ sift = 0 =>
       \A i, j \in DOMAIN array :
         i < j /\ j > (IF doing_sort = "done" THEN 1 ELSE next_i) => array[i] <= array[j]

\* On a sorted array binary_search ends, and finds what is there and only that
\* (stdlib.c:185-207).
SearchRight ==
  doing_sort = "done" => \A key \in Values \cup {0} :
    LET i == binary_search(key)
    IN  IF key \in ToSet(array) THEN i \in DOMAIN array /\ array[i] = key ELSE i = 0
=============================================================================
