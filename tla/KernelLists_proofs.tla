-------------------------- MODULE KernelLists_proofs --------------------------
(***************************************************************************)
(* What the list operations of KernelLists return: which elements, how     *)
(* often, and that the result is a list again.                             *)
(***************************************************************************)
EXTENDS KernelLists, FiniteSetTheorems, SequenceTheorems, TLAPS

(* As many positions as the list is long.                                  *)
LEMMA IntervalSize ==
    ASSUME NEW S, NEW q \in Seq(S)
    PROVE  /\ Len(q) \in Nat /\ DOMAIN q = 1..Len(q)
           /\ IsFiniteSet(1..Len(q)) /\ Cardinality(1..Len(q)) = Len(q)
<1> DEFINE n == Len(q)
<1>1. n \in Nat /\ DOMAIN q = 1..n
    OBVIOUS
<1> HIDE DEF n
<1>2. n \in Int /\ 1 \in Int
    BY <1>1
<1>3. IsFiniteSet(1..n) /\ Cardinality(1..n) = IF 1 > n THEN 0 ELSE n - 1 + 1
    BY <1>2, FS_Interval
<1>4. Cardinality(1..n) = n
    BY <1>1, <1>3
<1> QED
    BY <1>1, <1>3, <1>4 DEF n

(* The elements of a list, by their positions.                             *)
LEMMA ElementsOf ==
    ASSUME NEW S, NEW q \in Seq(S)
    PROVE  /\ Len(q) \in Nat
           /\ \A i \in 1..Len(q) : q[i] \in ToSet(q) /\ q[i] \in S
           /\ \A t \in ToSet(q) : t \in S /\ \E i \in 1..Len(q) : q[i] = t
BY DEF ToSet

(* The scan of list_insert_ordered stops at a position of the list.        *)
LEMMA ScanStops ==
    ASSUME NEW S, NEW q \in Seq(S), NEW e \in S, NEW key
    PROVE  1 + Cardinality(WalkedPast(q, e, key)) \in 1..(Len(q) + 1)
<1>1. WalkedPast(q, e, key) \in SUBSET (1..Len(q))
    BY DEF WalkedPast
<1>2. IsFiniteSet(1..Len(q)) /\ Cardinality(1..Len(q)) = Len(q)
    BY IntervalSize
<1>3. IsFiniteSet(WalkedPast(q, e, key)) /\ Cardinality(WalkedPast(q, e, key)) <= Len(q)
    BY <1>1, <1>2, FS_Subset
<1>4. Cardinality(WalkedPast(q, e, key)) \in Nat
    BY <1>3, FS_CardinalityType
<1> QED
    BY <1>3, <1>4

(* list_insert at a position, element by element.                          *)
LEMMA InsertedAt ==
    ASSUME NEW S, NEW q \in Seq(S), NEW e \in S, NEW n \in 1..(Len(q) + 1)
    PROVE  /\ InsertAt(q, n, e) \in Seq(S)
           /\ Len(InsertAt(q, n, e)) = Len(q) + 1
           /\ \A i \in 1..(Len(q) + 1) :
                InsertAt(q, n, e)[i] = IF i < n THEN q[i] ELSE IF i = n THEN e ELSE q[i - 1]
<1> DEFINE front == SubSeq(q, 1, n - 1)
           back == SubSeq(q, n, Len(q))
<1>1. Len(q) \in Nat /\ \A i \in 1..Len(q) : q[i] \in S
    OBVIOUS
<1>2. /\ front \in Seq(S) /\ Len(front) = n - 1
      /\ \A i \in 1..(n - 1) : front[i] = q[i]
    BY <1>1, SubSeqProperties
<1>3. /\ back \in Seq(S) /\ Len(back) = Len(q) - n + 1
      /\ \A i \in 1..(Len(q) - n + 1) : back[i] = q[n + i - 1]
    BY <1>1, SubSeqProperties
<1> HIDE DEF front, back
<1>4. /\ front \o <<e>> \in Seq(S) /\ Len(front \o <<e>>) = n
      /\ \A i \in 1..n : (front \o <<e>>)[i] = IF i < n THEN q[i] ELSE e
    BY <1>2
<1>5. InsertAt(q, n, e) = (front \o <<e>>) \o back
    BY DEF InsertAt, front, back
<1> QED
    BY <1>1, <1>3, <1>4, <1>5

(* list_insert_ordered adds its element, wherever it puts it, and only it. *)
LEMMA InsertOrderedFacts ==
    ASSUME NEW S, NEW q \in Seq(S), NEW e \in S, NEW key
    PROVE  /\ InsertOrdered(q, e, key) \in Seq(S)
           /\ InsertOrdered(q, e, key) # <<>>
           /\ ToSet(InsertOrdered(q, e, key)) = ToSet(q) \cup {e}
           /\ IsInjective(q) /\ e \notin ToSet(q) => IsInjective(InsertOrdered(q, e, key))
<1> DEFINE n == 1 + Cardinality(WalkedPast(q, e, key))
           r == InsertOrdered(q, e, key)
<1>1. n \in 1..(Len(q) + 1)
    BY ScanStops
<1>2. r = InsertAt(q, n, e)
    BY DEF InsertOrdered
<1> HIDE DEF n, r
<1>3. /\ r \in Seq(S) /\ Len(r) = Len(q) + 1
      /\ \A i \in 1..(Len(q) + 1) :
           r[i] = IF i < n THEN q[i] ELSE IF i = n THEN e ELSE q[i - 1]
    <2>1. /\ InsertAt(q, n, e) \in Seq(S) /\ Len(InsertAt(q, n, e)) = Len(q) + 1
          /\ \A i \in 1..(Len(q) + 1) :
               InsertAt(q, n, e)[i] = IF i < n THEN q[i] ELSE IF i = n THEN e ELSE q[i - 1]
        BY <1>1, InsertedAt
    <2> QED
        BY <1>2, <2>1
<1>4. ToSet(r) = ToSet(q) \cup {e}
    <2>0. \A i \in 1..Len(q) : q[i] \in ToSet(q)
        BY DEF ToSet
    <2>1. ASSUME NEW i \in 1..(Len(q) + 1)
          PROVE  r[i] \in ToSet(q) \cup {e}
        <3>1. CASE i < n
            BY <3>1, <2>0, <1>1, <1>3
        <3>2. CASE i = n
            BY <3>2, <1>3
        <3>3. CASE i > n
            <4>1. i - 1 \in 1..Len(q) /\ r[i] = q[i - 1]
                BY <3>3, <1>1, <1>3
            <4> QED
                BY <4>1, <2>0
        <3> QED
            BY <3>1, <3>2, <3>3, <1>1
    <2>2. ASSUME NEW i \in 1..Len(q)
          PROVE  \E j \in 1..(Len(q) + 1) : r[j] = q[i]
        <3>1. CASE i < n
            BY <3>1, <1>1, <1>3
        <3>2. CASE ~(i < n)
            <4>1. i + 1 \in 1..(Len(q) + 1) /\ ~(i + 1 < n) /\ i + 1 # n /\ (i + 1) - 1 = i
                BY <3>2, <1>1
            <4> QED
                BY <4>1, <1>3
        <3> QED
            BY <3>1, <3>2
    <2>3. r[n] = e
        BY <1>1, <1>3
    <2>4. ToSet(r) = { r[i] : i \in 1..(Len(q) + 1) } /\ ToSet(q) = { q[i] : i \in 1..Len(q) }
        BY <1>3 DEF ToSet
    <2>5. ToSet(r) \subseteq ToSet(q) \cup {e}
        BY <2>1, <2>4
    <2>6. ToSet(q) \subseteq ToSet(r)
        BY <2>2, <2>4
    <2>7. e \in ToSet(r)
        <3>1. r[n] \in { r[i] : i \in 1..(Len(q) + 1) }
            BY <1>1
        <3> QED
            BY <2>3, <2>4, <3>1
    <2> QED
        BY <2>5, <2>6, <2>7
<1>5. ASSUME IsInjective(q), e \notin ToSet(q)
      PROVE  IsInjective(r)
    <2> SUFFICES ASSUME NEW a \in 1..(Len(q) + 1), NEW b \in 1..(Len(q) + 1), r[a] = r[b]
                 PROVE  a = b
        BY <1>3 DEF IsInjective
    <2>1. \A i \in 1..Len(q) : q[i] # e
        BY <1>5 DEF ToSet
    <2>2. \A i, j \in 1..Len(q) : q[i] = q[j] => i = j
        BY <1>5 DEF IsInjective
    <2>3. n \in Nat /\ Len(q) \in Nat
        BY <1>1
    <2>4. CASE a = n \/ b = n
        <3>1. \A i \in 1..(Len(q) + 1) : r[i] = e => i = n
            <4> SUFFICES ASSUME NEW i \in 1..(Len(q) + 1), i # n
                         PROVE  r[i] # e
                OBVIOUS
            <4>1. CASE i < n
                BY <4>1, <1>1, <1>3, <2>1, <2>3
            <4>2. CASE i > n
                <5>1. i - 1 \in 1..Len(q) /\ r[i] = q[i - 1]
                    BY <4>2, <1>1, <1>3, <2>3
                <5> QED
                    BY <5>1, <2>1
            <4> QED
                BY <4>1, <4>2, <2>3
        <3>2. r[a] = e /\ r[b] = e
            BY <1>1, <1>3, <2>4
        <3> QED
            BY <3>1, <3>2
    <2>5. CASE a # n /\ b # n
        <3> DEFINE old(i) == IF i < n THEN i ELSE i - 1
        <3>1. /\ old(a) \in 1..Len(q) /\ r[a] = q[old(a)]
              /\ old(b) \in 1..Len(q) /\ r[b] = q[old(b)]
            BY <1>1, <1>3, <2>3, <2>5
        <3>2. old(a) = old(b)
            BY <3>1, <2>2
        <3> QED
            BY <3>2, <1>1, <2>3, <2>5
    <2> QED
        BY <2>4, <2>5
<1> QED
    BY <1>3, <1>4, <1>5 DEF r

(* list_pop_front takes one element off, and only it.                      *)
LEMMA PopFrontFacts ==
    ASSUME NEW S, NEW q \in Seq(S), q # <<>>
    PROVE  /\ Head(q) \in S /\ Head(q) \in ToSet(q)
           /\ Tail(q) \in Seq(S)
           /\ IsInjective(q) => /\ IsInjective(Tail(q))
                                /\ ToSet(Tail(q)) = ToSet(q) \ {Head(q)}
<1>1. /\ Len(q) \in Nat \ {0} /\ DOMAIN q = 1..Len(q) /\ Head(q) = q[1]
      /\ Tail(q) \in Seq(S) /\ Len(Tail(q)) = Len(q) - 1
      /\ DOMAIN Tail(q) = 1..(Len(q) - 1)
      /\ \A i \in 1..(Len(q) - 1) : Tail(q)[i] = q[i + 1]
    OBVIOUS
<1>2. Head(q) \in ToSet(q) /\ Head(q) \in S
    BY <1>1 DEF ToSet
<1>3. ASSUME IsInjective(q)
      PROVE  IsInjective(Tail(q)) /\ ToSet(Tail(q)) = ToSet(q) \ {Head(q)}
    <2>1. \A i, j \in 1..Len(q) : q[i] = q[j] => i = j
        BY <1>1, <1>3 DEF IsInjective
    <2>2. IsInjective(Tail(q))
        BY <1>1, <2>1 DEF IsInjective
    <2>3. \A x \in ToSet(Tail(q)) : x \in ToSet(q) /\ x # q[1]
        BY <1>1, <2>1 DEF ToSet
    <2>4. ASSUME NEW i \in 1..Len(q), q[i] # q[1]
          PROVE  q[i] \in ToSet(Tail(q))
        <3>1. i - 1 \in 1..(Len(q) - 1) /\ Tail(q)[i - 1] = q[i]
            BY <1>1, <2>4
        <3> QED
            BY <1>1, <3>1 DEF ToSet
    <2>5. ASSUME NEW x \in ToSet(q), x # q[1]
          PROVE  x \in ToSet(Tail(q))
        <3>1. PICK i \in 1..Len(q) : x = q[i]
            BY <1>1 DEF ToSet
        <3> QED
            BY <3>1, <2>4, <2>5
    <2>6. ToSet(Tail(q)) = ToSet(q) \ {q[1]}
        <3> HIDE DEF ToSet
        <3> QED
            BY <2>3, <2>5
    <2> QED
        BY <1>1, <2>2, <2>6
<1> QED
    BY <1>1, <1>2, <1>3

(* The elements at some positions of a list, each once, in another order.  *)
Picked(q, K, f) == [m \in 1..Cardinality(K) |-> q[f[m]]]

(* A list picked from the places K of another, in any order, has its elements. *)
LEMMA Rearranged ==
    ASSUME NEW S, NEW q \in Seq(S), NEW K \in SUBSET DOMAIN q,
           NEW f \in Bijection(1..Cardinality(K), K)
    PROVE  /\ Picked(q, K, f) \in Seq(S) /\ Len(Picked(q, K, f)) = Cardinality(K)
           /\ ToSet(Picked(q, K, f)) = { q[i] : i \in K }
           /\ IsInjective(q) => IsInjective(Picked(q, K, f))
<1> DEFINE n == Cardinality(K)
           r == [m \in 1..n |-> q[f[m]]]
<1>1. DOMAIN q = 1..Len(q) /\ IsFiniteSet(1..Len(q)) /\ \A i \in 1..Len(q) : q[i] \in S
    BY IntervalSize
<1>2. n \in Nat
    BY <1>1, FS_Subset, FS_CardinalityType
<1>3. /\ f \in [1..n -> K]
      /\ \A a, b \in 1..n : f[a] = f[b] => a = b
      /\ \A k \in K : \E m \in 1..n : f[m] = k
    BY DEF Bijection, Injection, Surjection, IsInjective
<1> HIDE DEF n
<1>4. r \in Seq(S) /\ Len(r) = n /\ DOMAIN r = 1..n
    BY <1>1, <1>2, <1>3
<1>5. \A m \in 1..n : r[m] = q[f[m]] /\ f[m] \in K
    BY <1>3
<1> HIDE DEF r
<1>7. ToSet(r) = { q[i] : i \in K }
    <2>1. \A x \in ToSet(r) : \E i \in K : x = q[i]
        BY <1>4, <1>5 DEF ToSet
    <2>2. ASSUME NEW i \in K PROVE q[i] \in ToSet(r)
        <3>1. PICK m \in 1..n : f[m] = i
            BY <1>3
        <3>2. r[m] = q[i]
            BY <1>5, <3>1
        <3> QED
            BY <1>4, <3>2 DEF ToSet
    <2> HIDE DEF ToSet
    <2> QED
        BY <2>1, <2>2
<1>8. ASSUME IsInjective(q) PROVE IsInjective(r)
    <2>1. \A i, j \in DOMAIN q : q[i] = q[j] => i = j
        BY <1>8 DEF IsInjective
    <2>2. ASSUME NEW a \in 1..n, NEW b \in 1..n, r[a] = r[b]
          PROVE  a = b
        <3>1. /\ f[a] \in DOMAIN q /\ f[b] \in DOMAIN q
              /\ q[f[a]] = r[a] /\ q[f[b]] = r[b]
            BY <1>5
        <3>2. f[a] = f[b]
            BY <2>1, <2>2, <3>1
        <3> QED
            BY <1>3, <3>2
    <2> QED
        BY <1>4, <2>2 DEF IsInjective
<1> QED
    BY <1>4, <1>7, <1>8 DEF n, r, Picked

(* list_sort returns the same elements, as many, without new duplicates.   *)
LEMMA SortedFacts ==
    ASSUME NEW S, NEW q \in Seq(S), NEW key, NEW r \in Sorted(q, key)
    PROVE  /\ r \in Seq(S) /\ Len(r) = Len(q)
           /\ ToSet(r) = ToSet(q)
           /\ IsInjective(q) => IsInjective(r)
<1> DEFINE K == DOMAIN q
<1>1. Cardinality(K) = Len(q)
    BY IntervalSize
<1>2. PICK f \in Bijection(1..Cardinality(K), K) : r = Picked(q, K, f)
    BY DEF Sorted, Arrangements, Picked
<1>3. K \in SUBSET DOMAIN q /\ ToSet(q) = { q[i] : i \in K }
    BY DEF ToSet
<1> HIDE DEF K
<1>4. /\ r \in Seq(S) /\ Len(r) = Cardinality(K)
      /\ ToSet(r) = { q[i] : i \in K }
      /\ IsInjective(q) => IsInjective(r)
    BY <1>2, <1>3, Rearranged
<1> QED
    BY <1>1, <1>3, <1>4

(* A scan that removes elements keeps the others, each as often.           *)
LEMMA WithoutFacts ==
    ASSUME NEW S, NEW q \in Seq(S), NEW Keep, NEW r \in Without(q, Keep)
    PROVE  /\ r \in Seq(S)
           /\ ToSet(r) = ToSet(q) \cap Keep
           /\ IsInjective(q) => IsInjective(r)
<1> DEFINE K == { i \in DOMAIN q : q[i] \in Keep }
<1>1. PICK f \in Bijection(1..Cardinality(K), K) : r = Picked(q, K, f)
    BY DEF Without, Arrangements, Picked
<1>2. K \in SUBSET DOMAIN q /\ ToSet(q) \cap Keep = { q[i] : i \in K }
    BY DEF ToSet
<1> HIDE DEF K
<1>3. /\ r \in Seq(S) /\ ToSet(r) = { q[i] : i \in K }
      /\ IsInjective(q) => IsInjective(r)
    BY <1>1, <1>2, Rearranged
<1> QED
    BY <1>2, <1>3
-----------------------------------------------------------------------------
(* The least element of a set of naturals: induction over the naturals, as *)
(* well-foundedness of inclusion between initial segments of them.          *)
LEMMA LeastOf ==
    ASSUME NEW T \in SUBSET Nat, T # {}
    PROVE  \E m \in T : \A n \in T : m <= n
<1> DEFINE W == { 0..n : n \in T }
<1>1. IsWellFoundedOn(StrictSubsetOrdering(Nat), FiniteSubsetsOf(Nat))
    BY FS_StrictSubsetOrderingWellFounded
<1>2. W \subseteq FiniteSubsetsOf(Nat)
    <2>1. ASSUME NEW n \in T PROVE 0..n \in SUBSET Nat /\ IsFiniteSet(0..n)
        BY FS_Interval
    <2> QED
        BY <2>1 DEF FiniteSubsetsOf
<1>3. W # {}
    OBVIOUS
<1>4. PICK x \in W : \A y \in W : <<y, x>> \notin StrictSubsetOrdering(Nat)
    <2> HIDE DEF W
    <2> QED BY <1>1, <1>2, <1>3, WFMin
<1>5. PICK m \in T : x = 0..m
    BY <1>4
<1>6. ASSUME NEW n \in T, n < m PROVE FALSE
    <2>1. 0..n \in W /\ 0..n \in SUBSET Nat /\ x \in SUBSET Nat
        BY <1>5
    <2>2. 0..n \subseteq x /\ 0..n # x
        <3>1. m \in x /\ m \notin 0..n
            BY <1>5, <1>6
        <3> QED BY <1>5, <1>6, <3>1
    <2>3. <<0..n, x>> \in StrictSubsetOrdering(Nat)
        BY <2>1, <2>2 DEF StrictSubsetOrdering
    <2> QED
        BY <1>4, <2>1, <2>3
<1> QED
    BY <1>6

(* The first n positions of a list that are walked past, and no other.     *)
LEMMA InitialSegment ==
    ASSUME NEW n \in Nat, NEW K \in SUBSET (1..n),
           \A i \in K : \A j \in 1..i : j \in K
    PROVE  Cardinality(K) \in 0..n /\ K = 1..Cardinality(K)
<1> DEFINE k == Cardinality(K)
<1>0. \A m \in Nat : IsFiniteSet(1..m) /\ Cardinality(1..m) = m
    <2> SUFFICES ASSUME NEW m \in Nat PROVE IsFiniteSet(1..m) /\ Cardinality(1..m) = m
        OBVIOUS
    <2>1. IsFiniteSet(1..m) /\ Cardinality(1..m) = IF 1 > m THEN 0 ELSE m - 1 + 1
        BY FS_Interval
    <2> QED
        BY <2>1
<1>1. IsFiniteSet(K) /\ k \in Nat /\ k <= n
    <2>1. IsFiniteSet(1..n) /\ Cardinality(1..n) = n
        BY <1>0
    <2>2. IsFiniteSet(K) /\ Cardinality(K) <= n
        BY <2>1, FS_Subset, ZenonT(30)
    <2> QED
        BY <2>2, FS_CardinalityType
<1>2. k + 1 \notin K
    <2> SUFFICES ASSUME k + 1 \in K PROVE FALSE
        OBVIOUS
    <2>1. 1..(k + 1) \in SUBSET K
        OBVIOUS
    <2>2. Cardinality(1..(k + 1)) <= k
        BY <1>1, <2>1, FS_Subset
    <2> QED
        BY <1>0, <1>1, <2>2
<1>3. K \in SUBSET (1..k)
    <2> SUFFICES ASSUME NEW i \in K, i > k PROVE FALSE
        BY <1>1
    <2>1. k + 1 \in 1..i
        BY <1>1
    <2> QED
        BY <1>2, <2>1
<1>4. K = 1..k
    <2> HIDE DEF k
    <2>1. IsFiniteSet(1..k) /\ Cardinality(1..k) = k
        BY <1>0, <1>1
    <2>2. Cardinality(K) = k
        BY DEF k
    <2> QED
        BY <1>3, <2>1, <2>2, FS_Subset
<1> QED
    BY <1>1, <1>4

(* list_insert_ordered stops at the first element with a smaller key.      *)
LEMMA InsertedWhere ==
    ASSUME NEW S, NEW q \in Seq(S), NEW e \in S, NEW key, \A x \in S : key[x] \in Int
    PROVE  \E n \in 1..(Len(q) + 1) :
             /\ Len(InsertOrdered(q, e, key)) = Len(q) + 1
             /\ \A i \in 1..(Len(q) + 1) : InsertOrdered(q, e, key)[i] =
                  IF i < n THEN q[i] ELSE IF i = n THEN e ELSE q[i - 1]
             /\ \A i \in 1..(n - 1) : key[q[i]] >= key[e]
             /\ n <= Len(q) => key[q[n]] < key[e]
<1> DEFINE K == WalkedPast(q, e, key)
           n == 1 + Cardinality(K)
<1>1. Len(q) \in Nat /\ DOMAIN q = 1..Len(q) /\ \A i \in 1..Len(q) : q[i] \in S
    OBVIOUS
<1>2. \A i \in 1..Len(q) : key[q[i]] \in Int /\ key[e] \in Int
    BY <1>1
<1>3. K \in SUBSET (1..Len(q)) /\ \A i \in K : \A j \in 1..i : j \in K
    BY <1>1 DEF WalkedPast
<1>4. Cardinality(K) \in 0..Len(q) /\ K = 1..Cardinality(K)
    <2> HIDE DEF K
    <2> QED
        BY <1>1, <1>3, InitialSegment
<1>5. n \in 1..(Len(q) + 1) /\ K = 1..(n - 1)
    <2> HIDE DEF K
    <2> QED
        BY <1>1, <1>4
<1>6. InsertOrdered(q, e, key) = InsertAt(q, n, e)
    BY DEF InsertOrdered
<1>7. \A i \in 1..(n - 1) : key[q[i]] >= key[e]
    <2> SUFFICES ASSUME NEW i \in 1..(n - 1) PROVE key[q[i]] >= key[e]
        OBVIOUS
    <2>1. i \in K /\ i \in 1..i
        BY <1>5
    <2> QED
        BY <2>1 DEF WalkedPast
<1>8. n <= Len(q) => key[q[n]] < key[e]
    <2> SUFFICES ASSUME n <= Len(q), ~(key[q[n]] < key[e]) PROVE FALSE
        OBVIOUS
    <2> HIDE DEF n
    <2>1. n \in 1..Len(q) /\ key[q[n]] >= key[e]
        BY <1>1, <1>2, <1>5
    <2>2. \A j \in 1..n : key[q[j]] >= key[e]
        BY <1>5, <1>7, <2>1
    <2>3. n \in K
        BY <1>1, <2>1, <2>2 DEF WalkedPast
    <2> QED
        BY <1>5, <2>3
<1> HIDE DEF n
<1> HIDE DEF K
<1>9. /\ InsertAt(q, n, e) \in Seq(S)
      /\ Len(InsertAt(q, n, e)) = Len(q) + 1
      /\ \A i \in 1..(Len(q) + 1) :
           InsertAt(q, n, e)[i] = IF i < n THEN q[i] ELSE IF i = n THEN e ELSE q[i - 1]
    <2>1. n \in 1..(Len(q) + 1)
        BY <1>5
    <2> QED
        BY <2>1, InsertedAt
<1> QED
    BY <1>5, <1>6, <1>7, <1>8, <1>9

(* Positions where a list is out of order hold elements of Raised only.    *)
OrderedUpTo(q, key, Raised) ==
    \A i, j \in 1..Len(q) : i < j /\ key[q[i]] < key[q[j]] => q[j] \in Raised

(* Inserting creates no new exception to the order, nor does popping.      *)
LEMMA InsertKeepsOrder ==
    ASSUME NEW S, NEW q \in Seq(S), NEW e \in S, NEW key, \A x \in S : key[x] \in Int,
           NEW Raised, OrderedUpTo(q, key, Raised)
    PROVE  OrderedUpTo(InsertOrdered(q, e, key), key, Raised)
<1> DEFINE r == InsertOrdered(q, e, key)
<1>1. PICK n \in 1..(Len(q) + 1) :
             /\ Len(r) = Len(q) + 1
             /\ \A i \in 1..(Len(q) + 1) :
                  r[i] = IF i < n THEN q[i] ELSE IF i = n THEN e ELSE q[i - 1]
             /\ \A i \in 1..(n - 1) : key[q[i]] >= key[e]
             /\ n <= Len(q) => key[q[n]] < key[e]
    BY InsertedWhere
<1>2. Len(q) \in Nat /\ \A i \in 1..Len(q) : key[q[i]] \in Int
    OBVIOUS
<1>3. key[e] \in Int
    OBVIOUS
<1> HIDE DEF r
<1> SUFFICES ASSUME NEW i \in 1..Len(r), NEW j \in 1..Len(r), i < j, key[r[i]] < key[r[j]]
             PROVE  r[j] \in Raised
    BY DEF OrderedUpTo, r
<1>4. CASE j < n
    <2>1. i \in 1..Len(q) /\ j \in 1..Len(q) /\ r[i] = q[i] /\ r[j] = q[j]
        BY <1>1, <1>2, <1>4
    <2> QED
        BY <2>1 DEF OrderedUpTo
<1>5. CASE j = n
    <2>1. r[j] = e /\ r[i] = q[i] /\ i \in 1..(n - 1) /\ i \in 1..Len(q)
        BY <1>1, <1>2, <1>5
    <2> QED
        BY <1>1, <1>2, <1>3, <2>1
<1>6. CASE j > n /\ i # n
    <2>1. j - 1 \in 1..Len(q) /\ r[j] = q[j - 1]
        BY <1>1, <1>2, <1>6
    <2>2. CASE i < n
        <3>1. i \in 1..Len(q) /\ r[i] = q[i] /\ i < j - 1
            BY <1>1, <1>2, <1>6, <2>2
        <3> QED
            BY <2>1, <3>1 DEF OrderedUpTo
    <2>3. CASE i > n
        <3>1. i - 1 \in 1..Len(q) /\ r[i] = q[i - 1] /\ i - 1 < j - 1
            BY <1>1, <1>2, <1>6, <2>3
        <3> QED
            BY <2>1, <3>1 DEF OrderedUpTo
    <2> QED
        BY <1>6, <2>2, <2>3
<1>7. CASE j > n /\ i = n
    <2>1. j - 1 \in 1..Len(q) /\ r[j] = q[j - 1] /\ r[i] = e /\ n \in 1..Len(q) /\ n <= j - 1
        BY <1>1, <1>2, <1>7
    <2>2. key[q[n]] < key[q[j - 1]]
        BY <1>1, <1>2, <1>3, <2>1
    <2>3. n < j - 1
        BY <1>2, <2>1, <2>2
    <2> QED
        BY <2>1, <2>2, <2>3 DEF OrderedUpTo
<1> QED
    BY <1>1, <1>4, <1>5, <1>6, <1>7

(* Removing the front keeps the order, and shows who may be above it.      *)
LEMMA TailKeepsOrder ==
    ASSUME NEW S, NEW q \in Seq(S), q # <<>>, NEW key, NEW Raised, OrderedUpTo(q, key, Raised)
    PROVE  /\ OrderedUpTo(Tail(q), key, Raised)
           /\ Tail(q) # <<>> /\ key[Head(q)] < key[Head(Tail(q))] => Head(Tail(q)) \in Raised
<1>1. /\ Len(q) \in Nat \ {0} /\ Len(Tail(q)) = Len(q) - 1 /\ Head(q) = q[1]
      /\ Tail(q) \in Seq(S) /\ \A i \in 1..(Len(q) - 1) : Tail(q)[i] = q[i + 1]
    OBVIOUS
<1> DEFINE t == Tail(q)
<1> HIDE DEF t
<1>2. OrderedUpTo(t, key, Raised)
    <2> SUFFICES ASSUME NEW i \in 1..Len(t), NEW j \in 1..Len(t), i < j, key[t[i]] < key[t[j]]
                 PROVE  t[j] \in Raised
        BY DEF OrderedUpTo
    <2>1. i + 1 \in 1..Len(q) /\ j + 1 \in 1..Len(q) /\ t[i] = q[i + 1] /\ t[j] = q[j + 1]
        BY <1>1 DEF t
    <2> QED
        BY <2>1 DEF OrderedUpTo
<1>3. t # <<>> => 2 \in 1..Len(q) /\ Head(t) = q[2]
    BY <1>1 DEF t
<1>4. t # <<>> /\ key[q[1]] < key[q[2]] => q[2] \in Raised
    BY <1>1, <1>3 DEF OrderedUpTo
<1> QED
    BY <1>1, <1>2, <1>3, <1>4 DEF t

(* A list stays in order under keys that order its elements as before.     *)
LEMMA RekeyKeepsOrder ==
    ASSUME NEW S, NEW q \in Seq(S), NEW key, NEW key2, NEW Raised, OrderedUpTo(q, key, Raised),
           \A t, u \in ToSet(q) : key2[t] < key2[u] => key[t] < key[u]
    PROVE  OrderedUpTo(q, key2, Raised)
<1> SUFFICES ASSUME NEW i \in 1..Len(q), NEW j \in 1..Len(q), i < j, key2[q[i]] < key2[q[j]]
             PROVE  q[j] \in Raised
    BY DEF OrderedUpTo
<1>1. q[i] \in ToSet(q) /\ q[j] \in ToSet(q)
    BY ElementsOf
<1> QED
    BY <1>1 DEF OrderedUpTo

(* The front of a list that is in order has the greatest key.              *)
LEMMA FrontIsGreatest ==
    ASSUME NEW S, NEW q \in Seq(S), NEW key, \A x \in S : key[x] \in Int,
           OrderedUpTo(q, key, {})
    PROVE  \A t \in ToSet(q) : key[Head(q)] >= key[t]
<1> SUFFICES ASSUME NEW t \in ToSet(q) PROVE key[Head(q)] >= key[t]
    OBVIOUS
<1>1. PICK i \in 1..Len(q) : q[i] = t
    BY ElementsOf
<1>2. Head(q) = q[1] /\ 1 \in 1..Len(q) /\ Head(q) \in S /\ t \in S
    BY <1>1, ElementsOf
<1>3. ~(i > 1 /\ key[q[1]] < key[q[i]])
    BY <1>2 DEF OrderedUpTo
<1> QED
    BY <1>1, <1>2, <1>3

(* Keys of raised elements may grow, keys of others stay as they are.      *)
RaisesOnly(q, key, key2, Raised, Raised2) ==
    \A t \in ToSet(q) : /\ key2[t] = key[t] \/ (key2[t] > key[t] /\ t \in Raised2)
                        /\ t \in Raised => t \in Raised2

(* That creates no exception to the order but raised elements.             *)
LEMMA RaisedKeepsOrder ==
    ASSUME NEW S, NEW q \in Seq(S), NEW key, \A x \in S : key[x] \in Int,
           NEW key2, \A x \in S : key2[x] \in Int, NEW Raised, NEW Raised2, OrderedUpTo(q, key, Raised),
           RaisesOnly(q, key, key2, Raised, Raised2)
    PROVE  OrderedUpTo(q, key2, Raised2)
<1> SUFFICES ASSUME NEW i \in 1..Len(q), NEW j \in 1..Len(q), i < j, key2[q[i]] < key2[q[j]]
             PROVE  q[j] \in Raised2
    BY DEF OrderedUpTo
<1>1. q[i] \in ToSet(q) /\ q[j] \in ToSet(q) /\ q[i] \in S /\ q[j] \in S
    BY ElementsOf
<1> USE DEF RaisesOnly
<1>2. CASE key2[q[j]] = key[q[j]]
    <2>1. key[q[i]] < key[q[j]]
        BY <1>1, <1>2
    <2> QED
        BY <1>1, <2>1 DEF OrderedUpTo
<1> QED
    BY <1>1, <1>2
=============================================================================
