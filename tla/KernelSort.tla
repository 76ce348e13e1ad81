------------------------------ MODULE KernelSort ------------------------------
(***************************************************************************)
(* list_sort and is_sorted of lib/kernel/list.c, pass by pass, for any     *)
(* list_less_func, here a Boolean function less[a, b] of two elements.  It *)
(* need not be an order; with one that is not (the comparison of           *)
(* compare_semaphore_priority), the passes need not end.                   *)
(***************************************************************************)
EXTENDS Integers, Sequences, SequencesExt, Combinatorics

(* No element comes out smaller than the one in front of it.               *)
is_sorted(q, less) == \A i \in 2..Len(q) : ~less[q[i], q[i - 1]]

(* The length of the longest prefix of q that is such a run.               *)
find_end_of_run(q, less) ==
    CHOOSE n \in 1..Len(q) :
        /\ is_sorted(SubSeq(q, 1, n), less)
        /\ n < Len(q) => less[q[n + 1], q[n]]

(* list_insert_ordered, for any comparison.                                *)
list_insert_ordered(q, e, less) ==
    LET stop == { i \in DOMAIN q : less[e, q[i]] }
    IN  IF stop = {} THEN Append(q, e) ELSE InsertAt(q, Min(stop), e)

(* A slip of the next operator: on a tie the later element goes first.     *)
RECURSIVE inplace_merge_unstable(_, _, _)
inplace_merge_unstable(x, y, less) ==
    IF x = <<>> \/ y = <<>> THEN x \o y
    ELSE IF less[Head(x), Head(y)]
         THEN <<Head(x)>> \o inplace_merge_unstable(Tail(x), y, less)
         ELSE <<Head(y)>> \o inplace_merge_unstable(x, Tail(y), less)

(* inplace_merge: an element of the second run moves in front of those of  *)
(* the first that it is less than.                                         *)
RECURSIVE inplace_merge(_, _, _)
inplace_merge(x, y, less) ==
    IF x = <<>> \/ y = <<>> THEN x \o y
    ELSE IF ~less[Head(y), Head(x)]
         THEN <<Head(x)>> \o inplace_merge(Tail(x), y, less)
         ELSE <<Head(y)>> \o inplace_merge(x, Tail(y), less)

(* One turn of list_sort's outer loop: the runs merged two by two, and how *)
(* many runs come out.                                                     *)
RECURSIVE Pass(_, _)
Pass(q, less) ==
    IF q = <<>> THEN [list |-> q, output_run_cnt |-> 0]
    ELSE LET end1 == find_end_of_run(q, less)
             after == SubSeq(q, end1 + 1, Len(q))
         IN  IF after = <<>> THEN [list |-> q, output_run_cnt |-> 1]
             ELSE LET end2 == find_end_of_run(after, less)
                      rest == Pass(SubSeq(after, end2 + 1, Len(after)), less)
                      merged == inplace_merge(SubSeq(q, 1, end1), SubSeq(after, 1, end2), less)
                  IN  [list |-> merged \o rest.list, output_run_cnt |-> rest.output_run_cnt + 1]

(* The list after at most passes turns of the loop, ended or not.          *)
RECURSIVE SortPasses(_, _, _)
SortPasses(q, less, passes) ==
    LET p == Pass(q, less)
    IN  IF p.output_run_cnt <= 1 THEN [list |-> p.list, ends |-> TRUE]
        ELSE IF passes = 0 THEN [list |-> p.list, ends |-> FALSE]
        ELSE SortPasses(p.list, less, passes - 1)

(* list_sort up to its closing ASSERT.  A sort that has not ended after as *)
(* many passes as there are orders of q is back in an order it was in      *)
(* before, and never ends.                                                 *)
list_sort(q, less) == SortPasses(q, less, factorial[Len(q)])
=============================================================================
