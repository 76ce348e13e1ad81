------------------------------ MODULE PagePool ------------------------------
(* What a memory pool promises: a group of contiguous pages is given out of  *)
(* the available ones in one step, and nobody else gets any page of it until *)
(* it has been given back.                                                   *)
EXTENDS Integers

CONSTANTS Page, Group, Pages(_)
VARIABLES avail,   \* pages that can be given out
          held     \* groups that were

PoolInit == avail = Page /\ held = {}

Get(g) == /\ Pages(g) \subseteq avail
          /\ avail' = avail \ Pages(g)
          /\ held' = held \cup {g}
GiveBack(g) == held' = held \ {g} /\ UNCHANGED avail
Reclaim(p) == /\ p \notin UNION { Pages(g) : g \in held }
              /\ avail' = avail \cup {p} /\ UNCHANGED held

PoolNext == \/ \E p \in Page : Reclaim(p)
            \/ \E g \in held : GiveBack(g)
            \/ \E g \in Group : Get(g)
PoolSpec == PoolInit /\ [][PoolNext]_<<avail, held>>
=============================================================================
