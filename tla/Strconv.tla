------------------------------- MODULE Strconv -------------------------------
(***************************************************************************)
(* The number syntax of the strconv functions parse.go calls.  Package    *)
(* strconv is not part of this tree; the design names them only as the    *)
(* parsers of a number token.  What is written here is which tokens each   *)
(* accepts: Atoi64 an optional sign and decimal digits, Atoui64 decimal    *)
(* digits, Atof64 a decimal with optional fraction and exponent.  The      *)
(* tokens the model's texts hold have at most six bytes, so the range      *)
(* errors (a value past 64 bits) never arise and are left out.             *)
(***************************************************************************)
EXTENDS Integers, Sequences

Digits == 48..57

IsDigits(s) == Len(s) > 0 /\ \A k \in 1..Len(s) : s[k] \in Digits

\* s with one leading '+' or '-' removed.
Unsigned(s) == IF Len(s) > 0 /\ s[1] \in {43, 45} THEN Tail(s) ELSE s

Atoui64OK(s) == IsDigits(s)

Atoi64OK(s) == Atoui64OK(Unsigned(s))

\* A mantissa: digits, optionally a '.' and more digits, or '.' and digits.
IsMantissa(m) ==
    \/ IsDigits(m)
    \/ \E k \in 1..Len(m) :
          /\ m[k] = 46
          /\ \A j \in 1..Len(m) \ {k} : m[j] \in Digits
          /\ Len(m) > 1

\* An exponent suffix: 'e' or 'E', an optional sign, digits.
IsExponent(e) == Len(e) > 1 /\ e[1] \in {69, 101} /\ IsDigits(Unsigned(Tail(e)))

Atof64OK(s) ==
    LET u == Unsigned(s)
    IN \/ IsMantissa(u)
       \/ \E k \in 1..Len(u) : IsMantissa(SubSeq(u, 1, k - 1)) /\ IsExponent(SubSeq(u, k, Len(u)))
=============================================================================
