------------------------------- MODULE Floats -------------------------------
(***************************************************************************)
(* The numbers a float can hold, and the rounding of an integer to one of  *)
(* them: to the nearest and, of two that are equally near, to the one with *)
(* the even significand.  All numbers are taken in units of the last place *)
(* of the smallest one that matters, so that they are integers.            *)
(***************************************************************************)
EXTENDS Integers

CONSTANTS
  PRECISION,         \* the bits of a significand (24 in a float)
  LargestExponent    \* bound: of the exponents that numbers are tried with

ASSUME PrecisionAssumption ==
  PRECISION \in Nat \ {0} /\ LargestExponent \in Nat \ {0}

Exponents == 0 .. LargestExponent

HasBits(n, bits) == \E e \in Exponents : /\ n % 2^e = 0
                                         /\ n \div 2^e < 2^bits

IsFloat(n) == HasBits(n, PRECISION)

Distance(m, n) == IF m < n THEN n - m ELSE m - n

\* The float that n is rounded to, as the only element of a set.
Rounded(n) ==
  LET floats  == {p \in 0 .. 2 * n : IsFloat(p)}
      nearest == {p \in floats :
                    \A q \in floats : Distance(n, p) <= Distance(n, q)}
  IN  {p \in nearest : nearest = {p} \/ HasBits(p, PRECISION - 1)}

=============================================================================
