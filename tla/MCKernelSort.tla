----------------------------- MODULE MCKernelSort -----------------------------
(***************************************************************************)
(* Every short list of keyed elements through list_sort and                *)
(* list_insert_ordered, against what ThreadSync takes them to do.          *)
(***************************************************************************)
EXTENDS KernelSort
L == INSTANCE KernelLists

CONSTANTS Keys, MaxLen

VARIABLES
    key,   \* the keys of the elements 1..Len(list) of the list
    list   \* the list: the elements in some order

vars == <<key, list>>

Init == key = <<>> /\ list = <<>>

Greater == [a, b \in DOMAIN key |-> key[a] > key[b]]

(* A new element anywhere in the list.                                     *)
Insert ==
    /\ Len(list) < MaxLen
    /\ \E k \in Keys, i \in 1..(Len(list) + 1) :
        /\ key' = Append(key, k)
        /\ list' = InsertAt(list, i, Len(list) + 1)

Sort ==
    /\ list' = list_sort(list, Greater).list
    /\ UNCHANGED key

Next == Insert \/ Sort

Spec == Init /\ [][Next]_vars

(* list_sort ends, and leaves the one stable arrangement of the list by    *)
(* decreasing key that KernelLists calls Sorted; its ASSERT holds.         *)
SortIsSorted ==
    LET s == list_sort(list, Greater)
    IN  /\ s.ends
        /\ L!Sorted(list, key) = {s.list}
        /\ is_sorted(s.list, Greater)

(* Where the loop of list_insert_ordered stops, on a list in any order, is *)
(* where KernelLists puts the element.                                     *)
InsertStopsAtFirstSmaller ==
    \A i \in DOMAIN list :
        L!InsertOrdered(RemoveAt(list, i), list[i], key)
            = list_insert_ordered(RemoveAt(list, i), list[i], Greater)

(* A sorted list stays sorted when an element is inserted in order, and    *)
(* the new element comes last among its equals.                            *)
InsertKeepsSorted ==
    \A i \in DOMAIN list :
        LET q == RemoveAt(list, i)
            r == list_insert_ordered(q, list[i], Greater)
        IN  is_sorted(q, Greater) =>
                /\ is_sorted(r, Greater)
                /\ \A j, k \in DOMAIN r :
                     (r[k] = list[i] /\ key[r[j]] = key[r[k]]) => j <= k
=============================================================================
