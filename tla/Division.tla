------------------------------ MODULE Division ------------------------------
(* 64-bit division by 32-bit divisions: lib/arithmetic.c, with the two       *)
(* widths scaled down to 2 * Half and Half bits.                             *)
EXTENDS Integers

CONSTANT Half   \* a power of two (32)

ASSUME DivisionAssumption == Half \in Nat \ {0}

VARIABLES num, den   \* operands, bit patterns of 2 * Half bits

divVars == <<num, den>>

Radix == 2^Half
wide(x) == x % (Radix * Radix)

DivInit == num = 0 /\ den = 1
operands_next == \/ num < Radix * Radix - 1 /\ num' = num + 1 /\ UNCHANGED den
                 \/ num = 0 /\ den < Radix * Radix - 1 /\ den' = den + 1 /\ UNCHANGED num
DivSpec == DivInit /\ [][operands_next]_divVars

-----------------------------------------------------------------------------
\* DIVL traps when the quotient does not fit: no result.
Trap == -1
divl(n, d) == IF n \div d < Radix THEN n \div d ELSE Trap

\* Leading zeros of a nonzero word, by halving: a step of k bits.
nlz(x) ==
  LET count[k \in 0..Half, y \in 0..Radix - 1] ==
        IF k = 0 THEN 0
        ELSE IF y < 2^(Half - k) THEN k + count[k \div 2, (y * 2^k) % Radix]
        ELSE count[k \div 2, y]
  IN  count[Half \div 2, x]

\* The estimate from the leading words is right or one too large.
corrected(n, d, q) == IF wide(n - (q - 1) * d) < d THEN q - 1 ELSE q
udiv64(n, d) ==
  IF d < Radix THEN LET low == divl(Radix * ((n \div Radix) % d) + (n % Radix), d)
                IN  IF low = Trap THEN Trap ELSE low + Radix * ((n \div Radix) \div d)
  ELSE IF n < d THEN 0
  ELSE LET s == nlz(d \div Radix)
           q == divl(n \div 2, wide(d * 2^s) \div Radix)
       IN  IF q = Trap THEN Trap ELSE corrected(n, d, q \div 2^(Half - 1 - s))

\* Signed operands are the same bit patterns.
negative(x) == 2 * x >= Radix * Radix
magnitude(x) == IF negative(x) THEN wide(-x) ELSE x
sdiv64(n, d) ==
  LET q == udiv64(magnitude(n), magnitude(d))
  IN  IF negative(n) = negative(d) THEN q ELSE wide(-q)
\* The remainders are returned in a word of half the width.
umod64(n, d) == wide(n - d * udiv64(n, d)) % Radix
smod64(n, d) == wide(n - d * sdiv64(n, d)) % Radix

-----------------------------------------------------------------------------
(* Properties.                                                               *)

\* For all operands the quotient is right and no DIVL traps, as the proof in
\* the source says for a part of them (arithmetic.c:80-128).
UnsignedDivisionRight == udiv64(num, den) = num \div den

\* Signed division truncates towards zero, for all operands, the most negative
\* one too; and a remainder that fits in a word has the sign of the dividend
\* (arithmetic.c:131-159).
value(x) == IF negative(x) THEN x - Radix * Radix ELSE x
sign(x) == IF negative(x) THEN -1 ELSE 1
SignedDivisionRight ==
  LET q == magnitude(num) \div magnitude(den)
      r == magnitude(num) % magnitude(den)
  IN  /\ sdiv64(num, den) = wide(sign(num) * sign(den) * q)
      /\ umod64(num, den) = (num % den) % Radix
      /\ 2 * r < Radix => smod64(num, den) = (sign(num) * r) % Radix
=============================================================================
