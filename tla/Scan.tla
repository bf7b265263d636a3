--------------------------------- MODULE Scan ---------------------------------
(***************************************************************************)
(* What the loops over doExecute in src/pkg/regexp/regexp.go              *)
(* (allMatches, ReplaceAllStringFunc) share: the Regexp and the string    *)
(* they scan, the rune width at a byte offset, and doExecute, taken from  *)
(* its abstract specification RegexpMatch (the leftmost-longest match at  *)
(* or after an offset), which RegexpExec refines on programs without a    *)
(* literal prefix.                                                         *)
(***************************************************************************)
EXTENDS Integers, Sequences

VARIABLES
    re,         \* the Regexp
    input       \* the string s, as a sequence of code points

\* The operators of RegexpMatch; its variables start and answer are unused.
M == INSTANCE RegexpMatch WITH start <- 0, answer <- [done |-> FALSE, span |-> <<>>]

\* end: len(s) in bytes.
end == M!ByteOffset(input, Len(input))

\* The rune count at byte offset p, a rune boundary.
RuneIndex(p) == CHOOSE k \in 0..Len(input) : M!ByteOffset(input, k) = p

\* utf8.DecodeRuneInString(s[p:end]) width at a rune boundary p: 0 at end.
WidthAt(p) ==
    IF p >= end THEN 0
    ELSE M!RuneWidth(input[RuneIndex(p) + 1])

\* re.doExecute(s, nil, p): the leftmost-longest match at or after p.
doExecute(p) == M!LeftmostLongest(re.inst, input, p)

=============================================================================
