---------------------------- MODULE MlfqsProofs ----------------------------
(* The multi-level feedback scheduler: priorities stay in their range, and    *)
(* the rounded arithmetic of load_avg and recent_cpu stays within bounds,     *)
(* for any number of threads and any of the scheduler's constants.            *)
EXTENDS Mlfqs, KernelLists_proofs

-----------------------------------------------------------------------------
(* Arithmetic.                                                                *)

\* Division rounds down where the dividend is not negative ...
LEMMA Quotient ==
    ASSUME NEW x \in Nat, NEW n \in Nat \ {0}
    PROVE  x \div n \in Nat /\ (x \div n) * n <= x
OBVIOUS

\* ... and C rounds towards zero, so down there as well ...
LEMMA DividedDown ==
    ASSUME NEW x \in Nat, NEW n \in Nat \ {0}
    PROVE  division_mixed(x, n) \in Nat /\ division_mixed(x, n) * n <= x
BY Quotient DEF division_mixed

\* ... and up where the dividend is negative.
LEMMA DividedUp ==
    ASSUME NEW x \in Int, x < 0, NEW n \in Nat \ {0}
    PROVE  /\ division_mixed(x, n) \in Int /\ division_mixed(x, n) <= 0
           /\ -division_mixed(x, n) \in Nat /\ (-division_mixed(x, n)) * n <= -x
<1> DEFINE q == (-x) \div n
<1>1. -x \in Nat
  OBVIOUS
<1>2. q \in Nat /\ q * n <= -x
  BY <1>1, Quotient
<1>3. division_mixed(x, n) = -q
  BY DEF division_mixed
<1> HIDE DEF q
<1>4. QED BY <1>2, <1>3

\* What a division gives is an integer.
LEMMA DivisionIsInt ==
    ASSUME NEW x \in Int, NEW n \in Nat \ {0}
    PROVE  division_mixed(x, n) \in Int
BY DividedDown, DividedUp

\* Factors keep an order and can be cancelled.
LEMMA TimesKeeps ==
    ASSUME NEW a \in Int, NEW b \in Int, a <= b, NEW c \in Nat
    PROVE  a * c <= b * c
OBVIOUS

\* The other way, a factor can be cancelled.
LEMMA TimesCancels ==
    ASSUME NEW a \in Int, NEW b \in Int, NEW c \in Nat \ {0}, a * c <= b * c
    PROVE  a <= b
OBVIOUS

\* A product of natural numbers is one.
LEMMA ProductNat == ASSUME NEW a \in Nat, NEW b \in Nat PROVE a * b \in Nat
OBVIOUS

\* load_avg, of at most w threads before, is of at most w threads after it is
\* averaged with them: the weights, rounded, are of M - 1 and of 1 part in M.
LEMMA AverageBounded ==
    ASSUME NEW M \in Nat \ {0}, NEW U \in Nat \ {0}, NEW w \in Nat, NEW L \in 0..w * U,
           NEW a \in Nat, a * M <= (M - 1) * U, NEW x \in Nat, x * U <= a * L,
           NEW busy \in 0..w, NEW y \in Nat, y * M <= busy * U
    PROVE  x + y <= w * U
<1>1. a * L <= a * (w * U)
  BY TimesKeeps
<1>2. x * U <= (a * w) * U
  BY <1>1
<1>3. x <= a * w
  BY <1>2, TimesCancels, ProductNat
<1>4. x * M <= (a * w) * M
  BY <1>3, TimesKeeps, ProductNat
<1>5. (a * w) * M = (a * M) * w
  OBVIOUS
<1>6. (a * M) * w <= ((M - 1) * U) * w
  BY TimesKeeps, ProductNat
<1>7. busy * U <= w * U
  BY TimesKeeps
<1>8. x * M + y * M <= ((M - 1) * U) * w + w * U
  BY <1>4, <1>5, <1>6, <1>7, ProductNat
<1>9. ((M - 1) * U) * w + w * U = (w * U) * M
  OBVIOUS
<1>10. (x + y) * M <= (w * U) * M
  BY <1>8, <1>9
<1>11. QED BY <1>10, TimesCancels, ProductNat

\* The factor of decay is at most 2w parts in 2w + 1, when load_avg is of at
\* most w threads.
LEMMA DecayBounded ==
    ASSUME NEW U \in Nat \ {0}, NEW w \in Nat, NEW L \in 0..w * U, NEW c \in Nat,
           c * (2 * L + U) <= 2 * L * U
    PROVE  c * (2 * w + 1) <= 2 * w * U
<1>1. c * (2 * L) + c * U <= U * (2 * L)
  OBVIOUS
<1>2. c <= U
  <2>1. CASE c > U
    <3>1. U * (2 * L) <= c * (2 * L)
      BY <2>1, TimesKeeps
    <3>2. c * U > 0
      BY <2>1
    <3>3. QED BY <1>1, <3>1, <3>2, ProductNat
  <2>2. QED BY <2>1
<1>3. c * U <= (U - c) * (2 * L)
  BY <1>1
<1>4. (U - c) * (2 * L) <= (U - c) * (2 * (w * U))
  BY <1>2, TimesKeeps, ProductNat
<1>5. (U - c) * (2 * (w * U)) = ((U - c) * (2 * w)) * U
  OBVIOUS
<1>6. c * U <= ((U - c) * (2 * w)) * U
  BY <1>3, <1>4, <1>5, ProductNat
<1>7. c <= (U - c) * (2 * w)
  BY <1>2, <1>6, TimesCancels, ProductNat
<1>8. QED BY <1>7

\* What such a factor leaves of k * (2w + 1) is at most k * 2w.
LEMMA DecayedBounded ==
    ASSUME NEW U \in Nat \ {0}, NEW w \in Nat, NEW c \in Nat, c * (2 * w + 1) <= 2 * w * U,
           NEW k \in Nat, NEW r \in 0..k * (2 * w + 1) * U, NEW x \in Nat, x * U <= c * r
    PROVE  x <= 2 * w * k * U
<1>1. c * r <= c * (k * (2 * w + 1) * U)
  BY TimesKeeps, ProductNat
<1>2. c * (k * (2 * w + 1) * U) = ((c * (2 * w + 1)) * k) * U
  OBVIOUS
<1>3. x * U <= ((c * (2 * w + 1)) * k) * U
  BY <1>1, <1>2, ProductNat
<1>4. x <= (c * (2 * w + 1)) * k
  BY <1>3, TimesCancels, ProductNat
<1>5. (c * (2 * w + 1)) * k <= (2 * w * U) * k
  BY TimesKeeps, ProductNat
<1>6. QED BY <1>4, <1>5, ProductNat

\* A set of integers that is finite has a greatest and a least member.
LEMMA GreatestExists ==
    ASSUME NEW S \in SUBSET Int, S # {}, IsFiniteSet(S)
    PROVE  \E m \in S : \A n \in S : n <= m
<1> DEFINE Unbounded(X) == X # {} /\ ~(\E m \in X : \A n \in X : n <= m)
           T == { Cardinality(X) : X \in { Y \in SUBSET S : Unbounded(Y) } }
<1>1. \A X \in SUBSET S : IsFiniteSet(X) /\ Cardinality(X) \in Nat
  BY FS_Subset, FS_CardinalityType
<1>2. T \in SUBSET Nat
  BY <1>1
<1>3. SUFFICES ASSUME T # {} PROVE FALSE
  OBVIOUS
<1>4. PICK k \in T : \A n \in T : k <= n
  BY <1>2, <1>3, LeastOf
<1>5. PICK X \in SUBSET S : Unbounded(X) /\ Cardinality(X) = k
  BY <1>4
<1>6. PICK x \in X : TRUE
  BY <1>5
<1> DEFINE R == X \ {x}
<1>7. Cardinality(R) = k - 1 /\ k \in Nat /\ R \in SUBSET S
  BY <1>1, <1>5, <1>6, FS_RemoveElement
<1>8. ~Unbounded(R)
  <2>1. CASE Unbounded(R)
    <3>1. R \in { Y \in SUBSET S : Unbounded(Y) }
      BY <1>7, <2>1
    <3>2. Cardinality(R) \in T
      BY <3>1
    <3>3. k <= Cardinality(R)
      BY <1>4, <3>2
    <3>4. QED BY <1>7, <3>3
  <2>2. QED BY <2>1
<1>9. CASE R = {}
  <2>1. \A n \in X : n <= x
    BY <1>6, <1>9
  <2>2. QED BY <1>5, <1>6, <2>1
<1>10. CASE R # {}
  <2>1. PICK m \in R : \A n \in R : n <= m
    BY <1>8, <1>10
  <2>2. CASE x <= m
    <3>1. \A n \in X : n <= m
      BY <2>1, <2>2
    <3>2. QED BY <1>5, <2>1, <3>1
  <2>3. CASE ~(x <= m)
    <3>1. \A n \in X : n <= x
      BY <1>6, <2>1, <2>3
    <3>2. QED BY <1>5, <1>6, <3>1
  <2>4. QED BY <2>2, <2>3
<1>11. QED BY <1>9, <1>10

-----------------------------------------------------------------------------
(* The invariant.                                                             *)

\* The most that a thread can have been charged: (2W + 1) seconds of ticks and
\* of the highest nice value.
Ceiling == (TIMER_FREQ + HighestNice) * (2 * W + 1) * F
Floor == LowestNice * (2 * W + 1) * F

\* At the start of a second there is room under the ceiling for its ticks, and
\* a tick takes no more than its share of it.
ChargedWithin ==
    \A t \in Workers :
        /\ recent_cpu[t] + (TIMER_FREQ - (mticks % TIMER_FREQ)) * F <= Ceiling
        /\ recent_cpu[t] >= Floor

\* A thread that is not there has not been charged.
DeadUncharged == \A t \in Workers \ alive : recent_cpu[t] = 0

MlfqsInv ==
    /\ MlfqsTypeOK /\ load_avg \in 0..W * F /\ ChargedWithin /\ DeadUncharged

\* What the constants are.
LEMMA ConstantsAre ==
    /\ F \in Nat \ {0} /\ TIMER_FREQ \in Nat \ {0} /\ RECALCU_FREQ \in Nat \ {0}
    /\ TIME_SLICE \in Nat \ {0} /\ Minute \in Nat \ {0}
    /\ W \in Nat /\ HighestNice \in Nat /\ LowestNice \in Int /\ LowestNice <= 0
    /\ \A n \in Nice \cup {0} : n \in Int /\ LowestNice <= n /\ n <= HighestNice
<1> DEFINE S == Nice \cup {0}
           M == { -n : n \in S }
<1>1. S \in SUBSET Int /\ S # {} /\ IsFiniteSet(S)
  BY MlfqsAssumption, FS_AddElement
<1>2. PICK h \in S : \A n \in S : n <= h
  BY <1>1, GreatestExists
<1>3. M \in SUBSET Int /\ M # {} /\ IsFiniteSet(M)
  <2> DEFINE f == [n \in S |-> -n]
  <2> HIDE DEF S
  <2>1. f \in Surjection(S, M)
    BY <1>1 DEF Surjection
  <2>2. IsFiniteSet(M)
    BY <1>1, <2>1, FS_Surjection
  <2>3. QED BY <1>1, <2>2
<1>4. PICK m \in M : \A n \in M : n <= m
  BY <1>3, GreatestExists
<1>5. \E l \in S : \A n \in S : l <= n
  <2>1. PICK l \in S : m = -l
    BY <1>4
  <2>2. \A n \in S : l <= n
    <3> SUFFICES ASSUME NEW n \in S PROVE l <= n
      OBVIOUS
    <3>1. -n \in M
      OBVIOUS
    <3>2. -n <= m
      BY <1>4, <3>1
    <3> HIDE DEF S, M
    <3>3. n \in Int /\ l \in Int
      BY <1>1, <2>1
    <3>4. QED BY <2>1, <3>2, <3>3
  <2>3. QED BY <2>2
<1>6. HighestNice \in S /\ \A n \in S : n <= HighestNice
  BY <1>2 DEF HighestNice
<1>7. LowestNice \in S /\ \A n \in S : LowestNice <= n
  BY <1>5 DEF LowestNice
<1>8. 0 \in S
  OBVIOUS
<1>9. W \in Nat
  BY MlfqsAssumption, FS_CardinalityType DEF W
<1> HIDE DEF S
<1>10. /\ HighestNice \in Nat /\ LowestNice \in Int /\ LowestNice <= 0
       /\ \A n \in S : n \in Int /\ LowestNice <= n /\ n <= HighestNice
  BY <1>1, <1>6, <1>7, <1>8
<1>11. QED BY <1>9, <1>10, MlfqsAssumption DEF S

\* The priority that a thread is given is in the range, whatever its numbers.
LEMMA PriorityInRange ==
    ASSUME NEW cpu \in Int, NEW n \in Int
    PROVE  mlfqs_calculate_priority(cpu, n) \in PRI_MIN..PRI_MAX
<1> DEFINE p == division_mixed(PRI_MAX * F - division_mixed(cpu, 4) - 2 * n * F, F)
<1>1. F \in Nat \ {0} /\ PRI_MAX \in Nat
  BY ConstantsAre, MlfqsAssumption
<1>2. division_mixed(cpu, 4) \in Int
  BY DivisionIsInt
<1>3. PRI_MAX * F - division_mixed(cpu, 4) - 2 * n * F \in Int
  BY <1>1, <1>2
<1>4. p \in Int
  BY <1>1, <1>3, DivisionIsInt
<1> HIDE DEF p
<1>5. Clamped(p) \in PRI_MIN..PRI_MAX
  BY <1>1, <1>4 DEF Clamped, PRI_MIN
<1>6. QED BY <1>5 DEF mlfqs_calculate_priority, p

\* load_avg stays within the number of threads.
LEMMA LoadAvgStays ==
    ASSUME load_avg \in 0..W * F, NEW busy \in 0..W
    PROVE  mlfqs_calculate_load_avg(busy) \in 0..W * F
<1> DEFINE a == division_mixed((Minute - 1) * F, Minute)
           x == division_mixed(a * load_avg, F)
           y == division_mixed(busy * F, Minute)
<1>1. Minute \in Nat \ {0} /\ F \in Nat \ {0} /\ W \in Nat
  BY ConstantsAre
<1>2. a \in Nat /\ a * Minute <= (Minute - 1) * F
  <2>1. (Minute - 1) * F \in Nat
    BY <1>1, ProductNat
  <2>2. QED BY <1>1, <2>1, DividedDown
<1> HIDE DEF a
<1>3. x \in Nat /\ x * F <= a * load_avg
  <2>1. load_avg \in Nat
    BY <1>1, ProductNat
  <2>2. a * load_avg \in Nat
    BY <1>2, <2>1, ProductNat
  <2>3. QED BY <1>1, <2>2, DividedDown
<1>4. y \in Nat /\ y * Minute <= busy * F
  <2>1. busy * F \in Nat
    BY <1>1, ProductNat
  <2>2. QED BY <1>1, <2>1, DividedDown
<1> HIDE DEF x, y
<1>5. x + y <= W * F
  BY <1>1, <1>2, <1>3, <1>4, AverageBounded
<1>6. mlfqs_calculate_load_avg(busy) = x + y
  BY DEF mlfqs_calculate_load_avg, multiply_float, a, x, y
<1>7. QED BY <1>1, <1>3, <1>4, <1>5, <1>6, ProductNat

\* A second's decay leaves room under the ceiling for the ticks of the next.
LEMMA DecayMakesRoom ==
    ASSUME NEW load \in 0..W * F, NEW n \in Nice \cup {0}, NEW r \in Int,
           r <= Ceiling, r >= Floor
    PROVE  /\ mlfqs_calculation_recent_cpu(r, n, load) \in Int
           /\ mlfqs_calculation_recent_cpu(r, n, load) + TIMER_FREQ * F <= Ceiling
           /\ mlfqs_calculation_recent_cpu(r, n, load) >= Floor
<1> DEFINE c == division_float(2 * load, 2 * load + F)
           x == multiply_float(c, r)
           k == TIMER_FREQ + HighestNice
           l == -LowestNice
<1>1. /\ F \in Nat \ {0} /\ W \in Nat /\ TIMER_FREQ \in Nat /\ HighestNice \in Nat
      /\ load \in Nat /\ k \in Nat /\ l \in Nat /\ LowestNice = -l
      /\ n \in Int /\ -l <= n /\ n <= HighestNice
  BY ConstantsAre, ProductNat
<1>2. c \in Nat /\ c * (2 * load + F) <= 2 * load * F
  <2>1. 2 * load * F \in Nat /\ 2 * load + F \in Nat \ {0}
    BY <1>1, ProductNat
  <2>2. QED BY <2>1, DividedDown DEF division_float
<1> HIDE DEF c
<1>3. c * (2 * W + 1) <= 2 * W * F
  BY <1>1, <1>2, DecayBounded
<1>4. x \in Int /\ x <= 2 * W * k * F /\ -x <= 2 * W * l * F
  <2>0. 2 * W * k * F \in Nat /\ 2 * W * l * F \in Nat
    BY <1>1, ProductNat
  <2>1. CASE r >= 0
    <3>1. c * r \in Nat
      BY <1>2, <2>1, ProductNat
    <3>2. x \in Nat /\ x * F <= c * r
      BY <1>1, <3>1, DividedDown DEF multiply_float
    <3> HIDE DEF x
    <3>3. r \in 0..k * (2 * W + 1) * F
      BY <2>1 DEF Ceiling
    <3> HIDE DEF k
    <3>4. x <= 2 * W * k * F
      BY <1>1, <1>2, <1>3, <3>2, <3>3, DecayedBounded
    <3>5. QED BY <2>0, <3>2, <3>4
  <2>2. CASE r < 0
    <3> DEFINE s == -r
    <3>1. s \in 0..l * (2 * W + 1) * F
      <4>1. s <= -Floor
        BY <1>1, <2>2 DEF Floor
      <4>2. -Floor = l * (2 * W + 1) * F
        BY <1>1 DEF Floor
      <4>3. QED BY <2>2, <4>1, <4>2
    <3>2. -x \in Nat /\ (-x) * F <= c * s /\ x \in Int
      <4>1. CASE c = 0
        <5>1. c * r = 0
          BY <4>1
        <5>2. division_mixed(0, F) \in Nat /\ division_mixed(0, F) * F <= 0
          BY <1>1, DividedDown
        <5>3. division_mixed(0, F) = 0
          BY <1>1, <5>2
        <5>4. multiply_float(c, r) = division_mixed(c * r, F)
          BY DEF multiply_float
        <5>5. x = 0
          BY <5>1, <5>3, <5>4
        <5>6. c * s = 0
          BY <4>1
        <5> HIDE DEF x, s
        <5>7. QED BY <1>1, <5>5, <5>6
      <4>2. CASE c # 0
        <5>1. c * r \in Int /\ c * r < 0 /\ -(c * r) = c * s
          BY <1>2, <2>2, <4>2
        <5>2. x \in Int /\ -x \in Nat /\ (-x) * F <= -(c * r)
          BY <1>1, <5>1, DividedUp DEF multiply_float
        <5>3. QED BY <5>1, <5>2
      <4>3. QED BY <4>1, <4>2
    <3> DEFINE z == -x
    <3> HIDE DEF s, x, l, z
    <3>3. z \in Nat /\ z * F <= c * s
      BY <3>2 DEF z
    <3>4. z <= 2 * W * l * F
      BY <1>1, <1>2, <1>3, <3>1, <3>3, DecayedBounded
    <3>5. QED BY <2>0, <3>2, <3>4 DEF z
  <2>3. QED BY <2>1, <2>2
<1> DEFINE y == mlfqs_calculation_recent_cpu(r, n, load)
<1>5. y = x + n * F
  BY DEF mlfqs_calculation_recent_cpu, c
<1> HIDE DEF x, y
<1>6. -l * F <= n * F /\ n * F <= HighestNice * F
  BY <1>1
<1>7. y + TIMER_FREQ * F <= 2 * W * k * F + HighestNice * F + TIMER_FREQ * F
  BY <1>1, <1>4, <1>5, <1>6
<1>8. 2 * W * k * F + HighestNice * F + TIMER_FREQ * F = Ceiling
  BY <1>1 DEF Ceiling
<1>9. y >= -(2 * W * l * F) - l * F
  BY <1>1, <1>4, <1>5, <1>6
<1>10. -(2 * W * l * F) - l * F = Floor
  BY <1>1 DEF Floor
<1>11. y \in Int
  BY <1>1, <1>4, <1>5
<1>12. QED
  BY <1>1, <1>7, <1>8, <1>9, <1>10, <1>11 DEF y

-----------------------------------------------------------------------------
(* The scheduler.                                                             *)

\* A list without x is a list of the others.
LEMMA ListOfOthers ==
    ASSUME NEW S, NEW q \in Seq(S), NEW x, x \notin ToSet(q)
    PROVE  q \in Seq(S \ {x})
<1>1. \A i \in 1..Len(q) : q[i] \in S \ {x}
  BY ElementsOf
<1>2. QED BY <1>1

\* The threads that are ready and the one that runs, if they are who they
\* should be: threads of A, each once.
Scheduled(run, queue, A) ==
    /\ run \in A \cup {Idle}
    /\ queue \in Seq(A \ {run}) /\ IsInjective(queue)

\* thread_schedule: the front of the list runs, or the idle thread.
LEMMA NextIsScheduled ==
    ASSUME NEW A, NEW queue \in Seq(A), IsInjective(queue), runs_next(queue)
    PROVE  Scheduled(running', ready', A) /\ slice' = 0
<1>1. CASE queue = <<>>
  <2>1. running' = Idle /\ ready' = <<>> /\ slice' = 0
    BY <1>1 DEF runs_next
  <2>2. IsInjective(<<>>)
    BY DEF IsInjective
  <2>3. QED BY <2>1, <2>2 DEF Scheduled
<1>2. CASE queue # <<>>
  <2>1. running' = Head(queue) /\ ready' = Tail(queue) /\ slice' = 0
    BY <1>2 DEF runs_next
  <2>2. /\ Head(queue) \in A /\ Tail(queue) \in Seq(A) /\ IsInjective(Tail(queue))
        /\ ToSet(Tail(queue)) = ToSet(queue) \ {Head(queue)}
    BY <1>2, PopFrontFacts
  <2>3. Tail(queue) \in Seq(A \ {Head(queue)})
    BY <2>2, ListOfOthers
  <2>4. QED BY <2>1, <2>2, <2>3 DEF Scheduled
<1>3. QED BY <1>1, <1>2

\* thread_yield puts the running thread, which is not on it, on the list.
LEMMA YieldIsScheduled ==
    ASSUME NEW A, NEW queue, NEW p, Scheduled(running, queue, A), yields(queue, p)
    PROVE  Scheduled(running', ready', A) /\ slice' = 0
<1>1. queue \in Seq(A) /\ IsInjective(queue)
  BY DEF Scheduled
<1>2. CASE running = Idle
  <2>1. runs_next(queue)
    BY <1>2 DEF yields
  <2>2. QED BY <1>1, <2>1, NextIsScheduled
<1>3. CASE running # Idle
  <2> DEFINE q == InsertOrdered(queue, running, p)
  <2>1. runs_next(q)
    BY <1>3 DEF yields
  <2>2. running \in A /\ running \notin ToSet(queue)
    BY <1>3, ElementsOf DEF Scheduled
  <2>3. q \in Seq(A) /\ IsInjective(q)
    BY <1>1, <2>2, InsertOrderedFacts
  <2> HIDE DEF q
  <2>4. QED BY <2>1, <2>3, NextIsScheduled
<1>4. QED BY <1>2, <1>3

\* iscurrent_thread_has_max_priority yields or leaves all as it is.
LEMMA PreemptIsScheduled ==
    ASSUME NEW A, NEW queue, NEW p, Scheduled(running, queue, A), preempts(queue, p),
           slice \in 0..TIME_SLICE
    PROVE  Scheduled(running', ready', A) /\ slice' \in 0..TIME_SLICE
<1>1. TIME_SLICE \in Nat
  BY ConstantsAre
<1>2. CASE yields(queue, p)
  BY <1>1, <1>2, YieldIsScheduled
<1>3. CASE ready' = queue /\ UNCHANGED <<running, slice>>
  BY <1>3
<1>4. QED BY <1>2, <1>3 DEF preempts

\* The ready threads and the running one are no more than there are threads.
LEMMA BusyIsFewer ==
    ASSUME NEW A \in SUBSET Workers, Scheduled(running, ready, A)
    PROVE  Len(ready) + (IF running = Idle THEN 0 ELSE 1) \in 0..W
<1> DEFINE R == A \ {running}
<1>1. IsFiniteSet(Workers) /\ IsFiniteSet(A) /\ IsFiniteSet(R)
  BY MlfqsAssumption, FS_Subset
<1>2. Cardinality(A) <= W /\ Cardinality(A) \in Nat /\ W \in Nat /\ Cardinality(R) \in Nat
  BY <1>1, MlfqsAssumption, FS_Subset, FS_CardinalityType DEF W
<1>3. Cardinality(R) + (IF running = Idle THEN 0 ELSE 1) <= Cardinality(A)
  <2>1. CASE running \in A
    BY <1>1, <1>2, <2>1, FS_RemoveElement
  <2>2. CASE running \notin A
    <3>1. running = Idle /\ R = A
      BY <2>2 DEF Scheduled
    <3>2. QED BY <1>2, <3>1
  <2>3. QED BY <2>1, <2>2
<1>4. ready \in Seq(R) /\ IsInjective(ready)
  BY DEF Scheduled
<1> HIDE DEF R
<1>5. /\ Len(ready) \in Nat /\ DOMAIN ready = 1..Len(ready)
      /\ IsFiniteSet(1..Len(ready)) /\ Cardinality(1..Len(ready)) = Len(ready)
  BY <1>4, IntervalSize
<1>6. ready \in Injection(1..Len(ready), R)
  BY <1>4, <1>5 DEF Injection, IsInjective
<1>7. Len(ready) <= Cardinality(R)
  BY <1>1, <1>5, <1>6, FS_Injection
<1>8. QED BY <1>2, <1>3, <1>5, <1>7
-----------------------------------------------------------------------------
(* The steps.                                                                 *)

\* The types of the variables, and who is scheduled.
LEMMA TypesAre ==
    ASSUME MlfqsInv
    PROVE  /\ alive \in SUBSET Workers /\ Scheduled(running, ready, alive)
           /\ prio \in [Workers -> PRI_MIN..PRI_MAX] /\ nice \in [Workers -> Nice \cup {0}]
           /\ recent_cpu \in [Workers -> Int]
           /\ slice \in 0..TIME_SLICE /\ mticks \in 0..TIMER_FREQ * RECALCU_FREQ - 1
           /\ PRI_DEFAULT \in PRI_MIN..PRI_MAX
           /\ running # Idle => running \in alive /\ running \in Workers
BY MlfqsAssumption DEF MlfqsInv, MlfqsTypeOK, Scheduled

\* A thread that has not been charged has room for a second of ticks.
LEMMA UnchargedWithin ==
    ASSUME NEW m \in Nat
    PROVE  (TIMER_FREQ - (m % TIMER_FREQ)) * F <= Ceiling /\ 0 >= Floor
<1> DEFINE r == m % TIMER_FREQ
           T == TIMER_FREQ
           H == HighestNice
           w == W
           U == F
           l == -LowestNice
<1>1. T \in Nat \ {0} /\ H \in Nat /\ w \in Nat /\ U \in Nat \ {0} /\ l \in Nat
  BY ConstantsAre
<1>2. r \in 0..T - 1
  BY <1>1
<1>3. Ceiling = (T + H) * (2 * w + 1) * U /\ Floor = LowestNice * (2 * w + 1) * U
  BY DEF Ceiling, Floor
<1>4. LowestNice = -l
  BY ConstantsAre
<1> HIDE DEF r, T, H, w, U, l
<1>5. T - r <= (T + H) * 1 /\ T - r \in Int
  BY <1>1, <1>2
<1>6. 1 * (T + H) <= (2 * w + 1) * (T + H)
  BY <1>1, TimesKeeps
<1>7. (T + H) * (2 * w + 1) \in Nat /\ T - r <= (T + H) * (2 * w + 1)
  BY <1>1, <1>5, <1>6
<1>8. (T - r) * U <= ((T + H) * (2 * w + 1)) * U
  BY <1>1, <1>5, <1>7, TimesKeeps
<1>9. l * (2 * w + 1) * U \in Nat
  BY <1>1, ProductNat
<1>10. (-l) * (2 * w + 1) * U = -(l * (2 * w + 1) * U)
  BY <1>1
<1>11. 0 >= Floor
  BY <1>3, <1>4, <1>9, <1>10
<1>12. QED BY <1>3, <1>8, <1>11 DEF T, r, U

\* A step of the calls: threads stay scheduled and in range, the clock stands,
\* and recent_cpu changes only for who comes or goes, to zero.
LEMMA CallKeeps ==
    ASSUME MlfqsInv, alive' \in SUBSET Workers, Scheduled(running', ready', alive'),
           slice' \in 0..TIME_SLICE, mticks' = mticks, load_avg' = load_avg,
           prio' \in [Workers -> PRI_MIN..PRI_MAX], nice' \in [Workers -> Nice \cup {0}],
           recent_cpu' \in [Workers -> Int],
           \A t \in Workers : recent_cpu'[t] = recent_cpu[t] \/ recent_cpu'[t] = 0,
           \A t \in Workers \ alive' : recent_cpu'[t] = 0
    PROVE  MlfqsInv'
<1>1. MlfqsTypeOK'
  BY TypesAre DEF Scheduled, MlfqsTypeOK
<1>2. ChargedWithin'
  <2>1. mticks \in Nat
    BY TypesAre, ConstantsAre
  <2>2. SUFFICES ASSUME NEW t \in Workers
                 PROVE  /\ recent_cpu'[t] + (TIMER_FREQ - (mticks % TIMER_FREQ)) * F <= Ceiling
                        /\ recent_cpu'[t] >= Floor
    BY DEF ChargedWithin, Ceiling, Floor, W, HighestNice, LowestNice
  <2>3. CASE recent_cpu'[t] = recent_cpu[t]
    BY <2>3 DEF MlfqsInv, ChargedWithin
  <2>4. CASE recent_cpu'[t] = 0
    <3>1. (TIMER_FREQ - (mticks % TIMER_FREQ)) * F \in Int
      BY <2>1, ConstantsAre
    <3>2. QED BY <2>1, <2>4, <3>1, UnchargedWithin
  <2>5. QED BY <2>3, <2>4
<1>3. DeadUncharged'
  BY DEF DeadUncharged
<1>4. (load_avg \in 0..W * F)'
  BY DEF MlfqsInv, W
<1>5. QED BY <1>1, <1>2, <1>3, <1>4 DEF MlfqsInv

\* thread_create: the new thread goes on the list, uncharged.
LEMMA CreateKeeps == ASSUME MlfqsInv, NEW t \in Workers, mlfqs_create(t) PROVE MlfqsInv'
<1>1. /\ t \notin alive /\ alive' = alive \cup {t}
      /\ prio' = [prio EXCEPT ![t] = PRI_DEFAULT]
      /\ nice' = [nice EXCEPT ![t] = 0] /\ recent_cpu' = [recent_cpu EXCEPT ![t] = 0]
      /\ preempts(InsertOrdered(ready, t, prio'), prio')
      /\ load_avg' = load_avg /\ mticks' = mticks
  BY DEF mlfqs_create
<1> DEFINE A == alive \cup {t}
           q == InsertOrdered(ready, t, prio')
<1>2. ready \in Seq(A \ {running}) /\ t \notin ToSet(ready) /\ t \in A \ {running}
  <2>1. ready \in Seq(alive) /\ running # t
    BY <1>1, TypesAre, MlfqsAssumption DEF Scheduled
  <2>2. t \notin ToSet(ready)
    BY <1>1, <2>1, ElementsOf
  <2>3. ready \in Seq(A \ {running})
    BY TypesAre DEF Scheduled
  <2>4. QED BY <2>1, <2>2, <2>3
<1>3. q \in Seq(A \ {running}) /\ IsInjective(q)
  BY <1>2, TypesAre, InsertOrderedFacts DEF Scheduled
<1>4. Scheduled(running, q, A)
  BY <1>3, TypesAre DEF Scheduled
<1> HIDE DEF q
<1>5. Scheduled(running', ready', A) /\ slice' \in 0..TIME_SLICE
  BY <1>1, <1>4, TypesAre, PreemptIsScheduled DEF q
<1>6. /\ prio' \in [Workers -> PRI_MIN..PRI_MAX] /\ nice' \in [Workers -> Nice \cup {0}]
      /\ recent_cpu' \in [Workers -> Int]
      /\ \A u \in Workers : recent_cpu'[u] = recent_cpu[u] \/ recent_cpu'[u] = 0
  BY <1>1, TypesAre
<1>7. \A u \in Workers \ alive' : recent_cpu'[u] = 0
  BY <1>1, TypesAre DEF MlfqsInv, DeadUncharged
<1>8. alive' \in SUBSET Workers
  BY <1>1, TypesAre
<1>9. QED BY <1>1, <1>5, <1>6, <1>7, <1>8, CallKeeps

\* thread_exit: the running thread is gone, and its numbers with it.
LEMMA ExitKeeps == ASSUME MlfqsInv, mlfqs_exit PROVE MlfqsInv'
<1>1. /\ running # Idle /\ alive' = alive \ {running} /\ runs_next(ready)
      /\ prio' = [prio EXCEPT ![running] = PRI_DEFAULT]
      /\ nice' = [nice EXCEPT ![running] = 0]
      /\ recent_cpu' = [recent_cpu EXCEPT ![running] = 0]
      /\ load_avg' = load_avg /\ mticks' = mticks
  BY DEF mlfqs_exit
<1>2. Scheduled(running', ready', alive') /\ slice' \in 0..TIME_SLICE
  <2>1. ready \in Seq(alive \ {running}) /\ IsInjective(ready)
    BY TypesAre DEF Scheduled
  <2>2. Scheduled(running', ready', alive \ {running}) /\ slice' = 0
    BY <1>1, <2>1, NextIsScheduled
  <2>3. QED BY <1>1, <2>2, ConstantsAre
<1>3. /\ prio' \in [Workers -> PRI_MIN..PRI_MAX] /\ nice' \in [Workers -> Nice \cup {0}]
      /\ recent_cpu' \in [Workers -> Int] /\ alive' \in SUBSET Workers
      /\ \A u \in Workers : recent_cpu'[u] = recent_cpu[u] \/ recent_cpu'[u] = 0
  BY <1>1, TypesAre
<1>4. \A u \in Workers \ alive' : recent_cpu'[u] = 0
  BY <1>1, TypesAre DEF MlfqsInv, DeadUncharged
<1>5. QED BY <1>1, <1>2, <1>3, <1>4, CallKeeps

\* thread_block: another thread runs.
LEMMA BlockKeeps == ASSUME MlfqsInv, mlfqs_block PROVE MlfqsInv'
<1>1. /\ runs_next(ready)
      /\ UNCHANGED <<alive, prio, nice, recent_cpu, load_avg, mticks>>
  BY DEF mlfqs_block
<1>2. ready \in Seq(alive) /\ IsInjective(ready)
  BY TypesAre DEF Scheduled
<1>3. Scheduled(running', ready', alive) /\ slice' \in 0..TIME_SLICE
  BY <1>1, <1>2, ConstantsAre, NextIsScheduled
<1>4. \A u \in Workers \ alive : recent_cpu[u] = 0
  BY DEF MlfqsInv, DeadUncharged
<1>5. QED BY <1>1, <1>3, <1>4, TypesAre, CallKeeps

\* thread_unblock: a thread that is on no list goes on the ready list.
LEMMA UnblockKeeps == ASSUME MlfqsInv, NEW t \in Workers, mlfqs_unblock(t) PROVE MlfqsInv'
<1> DEFINE q == InsertOrdered(ready, t, prio)
<1>1. /\ t \in alive /\ t # running /\ t \notin ToSet(ready) /\ preempts(q, prio)
      /\ UNCHANGED <<alive, prio, nice, recent_cpu, load_avg, mticks>>
  BY DEF mlfqs_unblock, Blocked
<1>2. q \in Seq(alive \ {running}) /\ IsInjective(q)
  BY <1>1, TypesAre, InsertOrderedFacts, SMTT(30) DEF Scheduled
<1>3. Scheduled(running, q, alive)
  BY <1>2, TypesAre DEF Scheduled
<1> HIDE DEF q
<1>4. Scheduled(running', ready', alive) /\ slice' \in 0..TIME_SLICE
  BY <1>1, <1>3, TypesAre, PreemptIsScheduled
<1>5. \A u \in Workers \ alive : recent_cpu[u] = 0
  BY DEF MlfqsInv, DeadUncharged
<1>6. QED BY <1>1, <1>4, <1>5, TypesAre, CallKeeps

\* thread_set_nice: the priority that follows is in the range.
LEMMA SetNiceKeeps == ASSUME MlfqsInv, NEW n \in Nice, thread_set_nice(n) PROVE MlfqsInv'
<1> DEFINE p == mlfqs_calculate_priority(recent_cpu[running], n)
<1>1. /\ running # Idle /\ nice' = [nice EXCEPT ![running] = n]
      /\ prio' = [prio EXCEPT ![running] = p] /\ preempts(ready, prio')
      /\ UNCHANGED <<alive, recent_cpu, load_avg, mticks>>
  BY DEF thread_set_nice
<1>2. p \in PRI_MIN..PRI_MAX
  BY <1>1, TypesAre, MlfqsAssumption, PriorityInRange
<1> HIDE DEF p
<1>3. prio' \in [Workers -> PRI_MIN..PRI_MAX] /\ nice' \in [Workers -> Nice \cup {0}]
  BY <1>1, <1>2, TypesAre
<1>4. Scheduled(running', ready', alive) /\ slice' \in 0..TIME_SLICE
  BY <1>1, TypesAre, PreemptIsScheduled
<1>5. \A u \in Workers \ alive : recent_cpu[u] = 0
  BY DEF MlfqsInv, DeadUncharged
<1>6. QED BY <1>1, <1>3, <1>4, <1>5, TypesAre, CallKeeps

\* The tick of the clock within its second.
LEMMA ClockAdvances ==
    ASSUME NEW T \in Nat \ {0}, NEW R \in Nat \ {0}, NEW m \in 0..T * R - 1
    PROVE  /\ (m + 1) % (T * R) \in 0..T * R - 1
           /\ ((m + 1) % (T * R)) % T = IF (m % T) + 1 = T THEN 0 ELSE (m % T) + 1
           /\ m % T \in 0..T - 1
<1> DEFINE q == m \div T
           r == m % T
           P == T * R
<1>1. P \in Nat \ {0} /\ m \in Nat /\ m < P
  BY ProductNat
<1>2. q \in Nat /\ r \in 0..T - 1 /\ m = T * q + r
  BY <1>1
<1> HIDE DEF q, r, P
<1>3. ASSUME NEW k \in Nat, NEW s \in 0..T - 1 PROVE (T * k + s) % T = s
  OBVIOUS
<1>4. (m + 1) % P = IF m + 1 = P THEN 0 ELSE m + 1
  BY <1>1
<1>5. 0 % T = 0
  BY <1>3
<1>6. (m + 1) % T = IF r + 1 = T THEN 0 ELSE r + 1
  <2>1. CASE r + 1 = T
    <3>1. m + 1 = T * (q + 1) + 0
      BY <1>2, <2>1
    <3>2. QED BY <1>2, <1>3, <2>1, <3>1
  <2>2. CASE r + 1 # T
    <3>1. m + 1 = T * q + (r + 1) /\ r + 1 \in 0..T - 1
      BY <1>2, <2>2
    <3>2. QED BY <1>2, <1>3, <2>2, <3>1
  <2>3. QED BY <2>1, <2>2
<1>7. m + 1 = P => (m + 1) % T = 0
  <2>1. (T * R + 0) % T = 0
    BY <1>3
  <2>2. T * R + 0 = P
    BY <1>1 DEF P
  <2>3. QED BY <2>1, <2>2
<1>8. QED BY <1>1, <1>2, <1>4, <1>5, <1>6, <1>7 DEF P, r

\* The most that the charge of this tick can come to: full at the second.
LEMMA ChargeFits ==
    ASSUME MlfqsInv, NEW t \in Workers, NEW r \in Nat, r = mticks % TIMER_FREQ,
           NEW d \in {0, F}, NEW s \in Nat,
           s = IF r + 1 = TIMER_FREQ THEN 0 ELSE r + 1
    PROVE  /\ recent_cpu[t] + d \in Int /\ recent_cpu[t] + d >= Floor
           /\ s = 0 => recent_cpu[t] + d <= Ceiling
           /\ s # 0 => recent_cpu[t] + d + (TIMER_FREQ - s) * F <= Ceiling
<1> DEFINE c == recent_cpu[t]
           T == TIMER_FREQ
           U == F
<1>1. T \in Nat \ {0} /\ U \in Nat \ {0} /\ c \in Int /\ d \in 0..U
  BY TypesAre, ConstantsAre
<1>2. c + (T - r) * U <= Ceiling /\ c >= Floor
  BY DEF MlfqsInv, ChargedWithin
<1>3. Ceiling \in Int /\ Floor \in Int
  BY ConstantsAre, ProductNat DEF Ceiling, Floor
<1> HIDE DEF c, T, U
<1>4. CASE r + 1 = T
  <2>1. (T - r) * U = U
    BY <1>1, <1>4
  <2>2. c + d <= Ceiling
    BY <1>1, <1>2, <1>3, <2>1
  <2>3. s = 0 /\ c + d \in Int /\ c + d >= Floor
    BY <1>1, <1>2, <1>3, <1>4 DEF T
  <2>4. QED BY <2>2, <2>3 DEF c
<1>5. CASE r + 1 # T
  <2>1. (T - r) * U = (T - (r + 1)) * U + U
    BY <1>1
  <2>2. (T - (r + 1)) * U \in Int
    BY <1>1
  <2>3. c + d + (T - (r + 1)) * U <= Ceiling
    BY <1>1, <1>2, <1>3, <2>1, <2>2
  <2>4. s = r + 1 /\ s # 0
    BY <1>5 DEF T
  <2>5. c + d \in Int /\ c + d >= Floor
    BY <1>1, <1>2, <1>3
  <2>6. QED BY <2>3, <2>4, <2>5 DEF c, T, U
<1>6. QED BY <1>4, <1>5

\* The timer interrupt charges the running thread, lets recent_cpu decay and
\* recomputes load_avg and priorities in time, and lets others take turns.
LEMMA TickKeeps == ASSUME MlfqsInv, mlfqs_tick PROVE MlfqsInv'
<1> DEFINE now == (mticks + 1) % (TIMER_FREQ * RECALCU_FREQ)
           s == now % TIMER_FREQ
           second == s = 0
           charged == [t \in Workers |-> recent_cpu[t] + IF t = running THEN F ELSE 0]
           busy == Len(ready) + IF running = Idle THEN 0 ELSE 1
           updated == { t \in alive : second \/ (now % RECALCU_FREQ = 0 /\ t = running) }
           r == mticks % TIMER_FREQ
<1>1. /\ mticks' = now
      /\ load_avg' = IF second THEN mlfqs_calculate_load_avg(busy) ELSE load_avg
      /\ recent_cpu' = [t \in Workers |->
           IF second /\ t \in alive
           THEN mlfqs_calculation_recent_cpu(charged[t], nice[t], load_avg') ELSE charged[t]]
      /\ prio' = [t \in Workers |-> IF t \in updated
           THEN mlfqs_calculate_priority(recent_cpu'[t], nice[t]) ELSE prio[t]]
      /\ alive' = alive /\ nice' = nice
  BY DEF mlfqs_tick
<1>2. \/ UNCHANGED <<running, ready, slice>>
      \/ yields(ready, prio')
      \/ /\ slice' = (IF slice < TIME_SLICE THEN slice + 1 ELSE slice)
         /\ UNCHANGED <<running, ready>>
  BY DEF mlfqs_tick
<1>3. /\ now \in 0..TIMER_FREQ * RECALCU_FREQ - 1 /\ r \in Nat /\ s \in Nat
      /\ s = IF r + 1 = TIMER_FREQ THEN 0 ELSE r + 1
  <2>1. /\ TIMER_FREQ \in Nat \ {0} /\ RECALCU_FREQ \in Nat \ {0}
        /\ mticks \in 0..TIMER_FREQ * RECALCU_FREQ - 1
    BY TypesAre, ConstantsAre
  <2>2. /\ now \in 0..TIMER_FREQ * RECALCU_FREQ - 1 /\ r \in 0..TIMER_FREQ - 1
        /\ s = IF r + 1 = TIMER_FREQ THEN 0 ELSE r + 1
    BY <2>1, ClockAdvances
  <2> HIDE DEF now, r, s
  <2>3. QED BY <2>1, <2>2
<1>4. busy \in 0..W
  BY TypesAre, BusyIsFewer
<1>5. \A t \in Workers : \E d \in {0, F} : charged[t] = recent_cpu[t] + d
  OBVIOUS
<1> HIDE DEF now, s, r, charged, busy
<1>6. load_avg' \in 0..W * F
  BY <1>1, <1>4, LoadAvgStays DEF MlfqsInv
<1>7. ASSUME NEW t \in Workers
      PROVE  /\ charged[t] \in Int /\ charged[t] >= Floor
             /\ second => charged[t] <= Ceiling
             /\ ~second => charged[t] + (TIMER_FREQ - s) * F <= Ceiling
  <2>1. PICK d \in {0, F} : charged[t] = recent_cpu[t] + d
    BY <1>5
  <2>2. QED BY <1>3, <2>1, ChargeFits DEF r
<1>8. ASSUME NEW t \in Workers
      PROVE  /\ recent_cpu'[t] \in Int /\ recent_cpu'[t] >= Floor
             /\ recent_cpu'[t] + (TIMER_FREQ - s) * F <= Ceiling
  <2>1. CASE second /\ t \in alive
    <3>1. recent_cpu'[t] = mlfqs_calculation_recent_cpu(charged[t], nice[t], load_avg')
      BY <1>1, <2>1
    <3>2. (TIMER_FREQ - s) * F = TIMER_FREQ * F
      BY <2>1, ConstantsAre
    <3>3. nice[t] \in Nice \cup {0}
      BY TypesAre
    <3>4. QED BY <1>6, <1>7, <2>1, <3>1, <3>2, <3>3, DecayMakesRoom
  <2>2. CASE second /\ t \notin alive
    <3>1. t # running
      BY <2>2, TypesAre, MlfqsAssumption
    <3>2. recent_cpu'[t] = 0
      BY <1>1, <2>2, <3>1, TypesAre DEF charged, MlfqsInv, DeadUncharged
    <3>3. now \in Nat
      BY <1>3
    <3>4. (TIMER_FREQ - s) * F <= Ceiling /\ 0 >= Floor
      BY <3>3, UnchargedWithin DEF s
    <3>5. (TIMER_FREQ - s) * F \in Int
      BY <1>3, ConstantsAre
    <3>6. QED BY <3>2, <3>4, <3>5
  <2>3. CASE ~second
    <3>1. recent_cpu'[t] = charged[t]
      BY <1>1, <2>3
    <3>2. QED BY <1>7, <2>3, <3>1
  <2>4. QED BY <2>1, <2>2, <2>3
<1>9. recent_cpu' \in [Workers -> Int]
  BY <1>1, <1>8
<1>10. prio' \in [Workers -> PRI_MIN..PRI_MAX]
  <2>1. ASSUME NEW t \in Workers
        PROVE  mlfqs_calculate_priority(recent_cpu'[t], nice[t]) \in PRI_MIN..PRI_MAX
    BY <1>8, TypesAre, ConstantsAre, PriorityInRange
  <2>2. \A t \in Workers : prio[t] \in PRI_MIN..PRI_MAX
    BY TypesAre
  <2> HIDE DEF updated
  <2>3. QED BY <1>1, <2>1, <2>2
<1>11. Scheduled(running', ready', alive') /\ slice' \in 0..TIME_SLICE
  <2>1. CASE UNCHANGED <<running, ready, slice>>
    BY <1>1, <2>1, TypesAre
  <2>2. CASE yields(ready, prio')
    <3>1. Scheduled(running', ready', alive) /\ slice' = 0
      BY <2>2, TypesAre, YieldIsScheduled
    <3>2. QED BY <1>1, <3>1, ConstantsAre
  <2>3. CASE /\ slice' = (IF slice < TIME_SLICE THEN slice + 1 ELSE slice)
             /\ UNCHANGED <<running, ready>>
    BY <1>1, <2>3, TypesAre, ConstantsAre
  <2>4. QED BY <1>2, <2>1, <2>2, <2>3
<1>12. MlfqsTypeOK'
  BY <1>1, <1>3, <1>9, <1>10, <1>11, TypesAre DEF MlfqsTypeOK, Scheduled
<1>13. ChargedWithin'
  BY <1>1, <1>8 DEF s, ChargedWithin, Ceiling, Floor, W, HighestNice, LowestNice
<1>14. DeadUncharged'
  <2> SUFFICES ASSUME NEW t \in Workers \ alive PROVE recent_cpu'[t] = 0
    BY <1>1 DEF DeadUncharged
  <2>1. t # running
    BY TypesAre, MlfqsAssumption
  <2>2. recent_cpu[t] = 0
    BY DEF MlfqsInv, DeadUncharged
  <2>3. QED BY <1>1, <2>1, <2>2 DEF charged
<1>15. (load_avg \in 0..W * F)'
  BY <1>6 DEF W
<1>16. QED BY <1>12, <1>13, <1>14, <1>15 DEF MlfqsInv

\* Initially there is only the initial thread, and nothing is charged.
LEMMA InitMlfqs == MlfqsInit => MlfqsInv
<1> SUFFICES ASSUME MlfqsInit PROVE MlfqsInv
  OBVIOUS
<1>1. PICK main \in Workers : running = main /\ alive = {main}
  BY DEF MlfqsInit
<1>2. /\ ready = <<>> /\ prio = [t \in Workers |-> PRI_DEFAULT]
      /\ nice = [t \in Workers |-> 0] /\ recent_cpu = [t \in Workers |-> 0]
      /\ load_avg = 0 /\ mticks = 0 /\ slice = 0
  BY DEF MlfqsInit
<1>3. TIMER_FREQ * RECALCU_FREQ - 1 \in Nat /\ W * F \in Nat
  BY ConstantsAre, ProductNat
<1>4. IsInjective(<<>>)
  BY DEF IsInjective
<1>5. MlfqsTypeOK
  BY <1>1, <1>2, <1>3, <1>4, ConstantsAre, MlfqsAssumption DEF MlfqsTypeOK
<1>6. ChargedWithin
  <2>1. (TIMER_FREQ - (0 % TIMER_FREQ)) * F <= Ceiling /\ 0 >= Floor
    BY UnchargedWithin
  <2>2. (TIMER_FREQ - (0 % TIMER_FREQ)) * F \in Int
    BY ConstantsAre
  <2>3. QED BY <1>2, <2>1, <2>2 DEF ChargedWithin
<1>7. load_avg \in 0..W * F /\ DeadUncharged
  BY <1>2, <1>3 DEF DeadUncharged
<1>8. QED BY <1>5, <1>6, <1>7 DEF MlfqsInv

\* Every step of the scheduler keeps the invariant.
LEMMA NextMlfqs == MlfqsInv /\ [MlfqsNext]_mlfqsVars => MlfqsInv'
<1> SUFFICES ASSUME MlfqsInv, [MlfqsNext]_mlfqsVars PROVE MlfqsInv'
  OBVIOUS
<1>1. CASE MlfqsNext
  BY <1>1, CreateKeeps, UnblockKeeps, ExitKeeps, BlockKeeps, TickKeeps, SetNiceKeeps
     DEF MlfqsNext
<1>2. CASE UNCHANGED mlfqsVars
  BY <1>2 DEF mlfqsVars, MlfqsInv, MlfqsTypeOK, ChargedWithin, DeadUncharged,
     Ceiling, Floor, W, HighestNice, LowestNice
<1>3. QED BY <1>1, <1>2

\* The invariant says that the numbers are within their bounds.
LEMMA MlfqsInvIsSafe == MlfqsInv => MlfqsSafe
<1> SUFFICES ASSUME MlfqsInv PROVE MlfqsSafe
  OBVIOUS
<1>1. LoadAvgBounded
  BY ConstantsAre, ProductNat DEF MlfqsInv, LoadAvgBounded
<1>2. RecentCpuBounded
  <2> SUFFICES ASSUME NEW t \in Workers
               PROVE  recent_cpu[t] <= Ceiling /\ recent_cpu[t] >= Floor
    BY DEF RecentCpuBounded, Ceiling, Floor
  <2> DEFINE m == TIMER_FREQ - (mticks % TIMER_FREQ)
  <2>1. m \in Nat
    BY TypesAre, ConstantsAre, ClockAdvances
  <2>2. recent_cpu[t] + m * F <= Ceiling /\ recent_cpu[t] >= Floor
    BY DEF MlfqsInv, ChargedWithin
  <2>3. m * F \in Nat /\ recent_cpu[t] \in Int /\ Ceiling \in Int
    BY <2>1, ConstantsAre, TypesAre, ProductNat DEF Ceiling
  <2> HIDE DEF m
  <2>4. QED BY <2>2, <2>3
<1>3. QED BY <1>1, <1>2 DEF MlfqsInv, MlfqsSafe

\* Priorities stay in their range, load_avg within the number of threads and
\* recent_cpu within what its threads can be charged, whatever threads come,
\* go, block and set their nice value, and for any frequency, slice, range of
\* priorities and number of fixed-point digits (thread.c:863-914).
THEOREM FeedbackStaysBounded == MlfqsSpec => []MlfqsSafe
<1>1. QED BY InitMlfqs, NextMlfqs, MlfqsInvIsSafe, PTL DEF MlfqsSpec
=============================================================================
