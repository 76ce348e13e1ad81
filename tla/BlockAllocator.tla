--------------------------- MODULE BlockAllocator ---------------------------
(* malloc, realloc and free (threads/malloc.c).  A call holds the lock of    *)
(* the descriptor it works on, and takes and returns pages in one step, as   *)
(* PagePool promises: so a call is one step.  Sizes and addresses are in     *)
(* units of the smallest block.                                              *)
EXTENDS Integers, FiniteSets, Sequences, SequencesExt

CONSTANTS PageBytes, \* bytes in a page (4096)
          Header,    \* sizeof (struct arena)
          MinBlock,  \* the smallest block size (16)
          PoolPages, \* pages that can be had
          MaxBlocks  \* bound: blocks in use at a time

\* A header takes up to half of a page: the other half holds a block of any
\* descriptor.
ASSUME BlocksAssumption ==
  /\ PageBytes \in Nat \ {0, 1} /\ Header \in 0..PageBytes \div 2
  /\ PoolPages \in Nat

VARIABLES arena,     \* the arena header in each page, NoArena where there is none
          free_list, \* of each descriptor: addresses of blocks
          used       \* addresses of the blocks in use, with the size asked for

blockVars == <<arena, free_list, used>>

FreePage == 0..PoolPages - 1
\* Descriptors are named by their block size.
Descs == { d \in 1..PageBytes : /\ d < PageBytes \div 2
                             /\ \E k \in 0..9 : d = MinBlock * 2^k }
Size == 1..2 * PageBytes - Header
NoArena == [desc |-> 0, free_cnt |-> 0]
BigTail == [desc |-> -1, free_cnt |-> 0]   \* a later page of a big block
blocks_per_arena(d) == (PageBytes - Header) \div d

arena_to_block(p, d, i) == p * PageBytes + Header + i * d
BlocksOf(p, d) == [i \in 1..blocks_per_arena(d) |-> arena_to_block(p, d, i - 1)]
block_to_arena(b) == b \div PageBytes

BlockInit == /\ arena = [p \in FreePage |-> NoArena]
             /\ free_list = [d \in Descs |-> <<>>]
             /\ used = {}

-----------------------------------------------------------------------------
\* The smallest descriptor that satisfies the request, 0 for a big block.
DescFor(size) ==
  LET fits == { d \in Descs : d >= size }
  IN  IF fits = {} THEN 0 ELSE CHOOSE d \in fits : \A e \in fits : d <= e
page_cnt(size) == (size + Header + PageBytes - 1) \div PageBytes
block_size(b, ar) == LET a == ar[block_to_arena(b)] IN
  IF a.desc # 0 THEN a.desc ELSE PageBytes * a.free_cnt - (b % PageBytes)

\* Memory after a call: arenas, free lists, blocks in use.
Memory(ar, fl, us) == [arena |-> ar, free_list |-> fl, used |-> us]
Now == Memory(arena, free_list, used)
now_is(m) == arena' = m.arena /\ free_list' = m.free_list /\ used' = m.used

big_block(m, size, p) ==
  LET pages == p..p + page_cnt(size) - 1
  IN  Memory([q \in FreePage |-> IF q = p THEN [desc |-> 0, free_cnt |-> page_cnt(size)]
                                 ELSE IF q \in pages THEN BigTail ELSE m.arena[q]],
             m.free_list, m.used \cup {[at |-> p * PageBytes + Header, size |-> size]})

\* A page that palloc_get_page gave becomes an arena.
new_arena(m, d, p) ==
  Memory([m.arena EXCEPT ![p] = [desc |-> d, free_cnt |-> blocks_per_arena(d)]],
         [m.free_list EXCEPT ![d] = @ \o BlocksOf(p, d)], m.used)
pop_block(m, d, size) ==
  LET b == Head(m.free_list[d])
  IN  Memory([m.arena EXCEPT ![block_to_arena(b)].free_cnt = @ - 1],
             [m.free_list EXCEPT ![d] = Tail(@)],
             m.used \cup {[at |-> b, size |-> size]})

\* What malloc can return: none is the null pointer.
Allocations(m, size) ==
  LET d == DescFor(size)
      unusedPages == { p \in FreePage : m.arena[p] = NoArena }
  IN  IF d = 0
      THEN { big_block(m, size, p) : p \in
               { q \in unusedPages : q..q + page_cnt(size) - 1 \subseteq unusedPages } }
      ELSE IF m.free_list[d] # <<>> THEN {pop_block(m, d, size)}
      ELSE { pop_block(new_arena(m, d, p), d, size) : p \in unusedPages }

\* free: the block goes to the front of its list, and when its arena has no
\* block in use all its blocks leave the list and its page goes back.
unused_too_late(free_cnt, d) == free_cnt > blocks_per_arena(d)
unused(free_cnt, d) == free_cnt >= blocks_per_arena(d)
\* What stays in the list keeps its order; Nth is the j-th of some positions.
Nth(S, j) == CHOOSE i \in S : Cardinality({ k \in S : k <= i }) = j
delisted(list, p) ==
  LET kept == { i \in DOMAIN list : block_to_arena(list[i]) # p }
  IN  [j \in 1..Cardinality(kept) |-> list[Nth(kept, j)]]
freed(m, u) ==
  LET p == block_to_arena(u.at)  a == m.arena[p]  d == a.desc
  IN  IF d = 0
      THEN Memory([q \in FreePage |-> IF q \in p..p + a.free_cnt - 1 THEN NoArena
                                      ELSE m.arena[q]],
                  m.free_list, m.used \ {u})
      ELSE IF unused(a.free_cnt + 1, d)
      THEN Memory([m.arena EXCEPT ![p] = NoArena],
                  [m.free_list EXCEPT ![d] = delisted(<<u.at>> \o @, p)], m.used \ {u})
      ELSE Memory([m.arena EXCEPT ![p].free_cnt = @ + 1],
                  [m.free_list EXCEPT ![d] = <<u.at>> \o @], m.used \ {u})

malloc(size) == /\ Cardinality(used) < MaxBlocks
                /\ \E m \in Allocations(Now, size) : now_is(m)
free(u) == u \in used /\ now_is(freed(Now, u))
\* realloc keeps the old block until the new one is there, and all of it when
\* there is no memory for a new one.
realloc(u, size) == /\ u \in used
                    /\ \E m \in Allocations(Now, size) : now_is(freed(m, u))

BlockNext == \/ \E size \in Size : malloc(size)
             \/ \E u \in used : free(u) \/ \E size \in Size : realloc(u, size)
BlockSpec == BlockInit /\ [][BlockNext]_blockVars

-----------------------------------------------------------------------------
(* Properties.                                                               *)

ArenasInUse == { p \in FreePage : arena[p].desc \in Descs }
BlockTypeOK ==
  /\ \A p \in FreePage : /\ arena[p].desc \in Descs \cup {0, -1}
                         /\ arena[p].free_cnt \in 0..PageBytes
  /\ \A d \in Descs : IsInjective(free_list[d])
  /\ \A u \in used : u.size \in Size /\ block_to_arena(u.at) \in FreePage

\* Blocks in use do not overlap each other, free blocks or arena headers, and
\* each is as large as was asked for (malloc.c:100-110, 137-151, 284-294).
Bytes(b) == b..b + block_size(b, arena) - 1
BlocksDisjoint ==
  LET listed == UNION { ToSet(free_list[d]) : d \in Descs }
      inUse == { u.at : u \in used }
  IN  /\ \A b \in inUse, c \in inUse \cup listed : b # c => Bytes(b) \cap Bytes(c) = {}
      /\ inUse \cap listed = {} /\ Cardinality(inUse) = Cardinality(used)
      /\ \A u \in used : /\ u.at % PageBytes >= Header
                         /\ u.size <= block_size(u.at, arena)

\* Every arena counts its own free blocks, and those are the blocks of it on
\* the free list: the count decides when the page is given back
\* (malloc.c:140-151, 239-252).
FreeCountsRight ==
  \A p \in ArenasInUse :
    arena[p].free_cnt = Cardinality({ b \in ToSet(free_list[arena[p].desc]) :
                                        block_to_arena(b) = p })

\* A page stays an arena only while a block of it is in use, and a free list
\* holds blocks of its own arenas only, so that memory comes back whatever the
\* order of the calls ("if the arena ... now has no in-use blocks, we remove
\* all of the arena's blocks from the free list and give the arena back",
\* malloc.c:27-29).
ArenasComeBack ==
  /\ \A p \in ArenasInUse : \E u \in used : block_to_arena(u.at) = p
  /\ \A d \in Descs : \A b \in ToSet(free_list[d]) : arena[block_to_arena(b)].desc = d

\* The safety of malloc, realloc and free, after any sequence of calls.
BlocksSafe ==
  /\ BlockTypeOK /\ BlocksDisjoint /\ FreeCountsRight /\ ArenasComeBack
=============================================================================
