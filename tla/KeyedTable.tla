----------------------------- MODULE KeyedTable -----------------------------
(* What a hash table promises: at most one element of each key.              *)
EXTENDS Integers

CONSTANTS Key, Item, KeyOf(_), NoItem
VARIABLE table   \* the element of each key

Put(e) == table' = [table EXCEPT ![KeyOf(e)] = e]
TableInit == table = [k \in Key |-> NoItem]
Insert(e) == table[KeyOf(e)] = NoItem /\ Put(e)
Delete(k) == table' = [table EXCEPT ![k] = NoItem]
Clear == table' = [k \in Key |-> NoItem]

TableSpec ==
  TableInit /\ [][Clear \/ (\E k \in Key : Delete(k))
                    \/ (\E e \in Item : Insert(e) \/ Put(e))]_table
=============================================================================
