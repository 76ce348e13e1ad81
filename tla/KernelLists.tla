----------------------------- MODULE KernelLists -----------------------------
(***************************************************************************)
(* The operations of lib/kernel/list.c that the thread system is built on, *)
(* over sequences of elements.  The code compares two elements with a      *)
(* list_less_func; every comparison used with these operators says "the    *)
(* key of the first is greater than the key of the second", so an operator *)
(* takes the key, a function on elements.                                  *)
(***************************************************************************)
EXTENDS Integers, FiniteSets, Sequences, SequencesExt

(* The lists that hold the elements of q at the positions in K, each once, *)
(* so that the position of an earlier element is Before that of a later    *)
(* one.  There is exactly one when Before is a strict total order on K.    *)
Arrangements(q, K, Before(_, _)) ==
    { [n \in 1..Cardinality(K) |-> q[p[n]]] :
        p \in { f \in Bijection(1..Cardinality(K), K) :
                  \A m, n \in 1..Cardinality(K) : m < n => Before(f[m], f[n]) } }

(* list_insert_ordered walks past the elements whose key is not smaller    *)
(* than that of e, and puts e in front of the first one it stops at.       *)
(* Nothing is assumed of the order q is in.                                *)
WalkedPast(q, e, key) == { i \in DOMAIN q : \A j \in 1..i : key[q[j]] >= key[e] }

InsertOrdered(q, e, key) == InsertAt(q, 1 + Cardinality(WalkedPast(q, e, key)), e)

(* list_sort: the stable arrangement of q by decreasing key.               *)
Sorted(q, key) ==
    Arrangements(q, DOMAIN q,
        LAMBDA i, j : key[q[i]] > key[q[j]] \/ (key[q[i]] = key[q[j]] /\ i < j))

(* A scan that calls list_remove on the elements outside Keep.             *)
Without(q, Keep) ==
    Arrangements(q, { i \in DOMAIN q : q[i] \in Keep }, LAMBDA i, j : i < j)

=============================================================================
