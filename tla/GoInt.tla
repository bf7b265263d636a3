-------------------------------- MODULE GoInt --------------------------------
(***************************************************************************)
(* Go's int as the gc compilers of this tree build it: 32 bits, two's      *)
(* complement, and a sum past the largest int wraps to a negative one.     *)
(* TLC's own integers are 32-bit as well, so the wrap is computed from      *)
(* terms that never leave that range.                                      *)
(***************************************************************************)
EXTENDS Integers

MaxInt == 2147483647
MinInt == -MaxInt - 1

\* a + b in Go's int, for a >= -1 and 0 <= b <= MaxInt: the true sum less
\* 2^32 when it passes MaxInt.
AddInt(a, b) == IF a > MaxInt - b THEN ((a - MaxInt) - 1) + (b - MaxInt - 1) ELSE a + b

\* -a in Go's int: the negation of MinInt is MinInt.
NegInt(a) == IF a = MinInt THEN a ELSE -a
=============================================================================
