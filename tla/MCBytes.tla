------------------------------- MODULE MCBytes -------------------------------
(***************************************************************************)
(* Inputs for the calls of Bytes.  The bytes are ' ', 'a', 0xC2 and the     *)
(* continuation bytes 0x80 and 0xA0: C2 A0 is NO-BREAK SPACE (a two-byte   *)
(* space), C2 80 is U+0080 (not a space), and a lone 0x80 or 0xA0, or a C2 *)
(* not followed by a continuation byte, is invalid UTF-8 that decodes as   *)
(* RuneError, whose encoding takes three bytes.                            *)
(***************************************************************************)
EXTENDS Bytes

Alphabet == {32, 97, 128, 160, 194}

\* All byte strings of at most k bytes.
Upto(k) == UNION {[1..j -> Alphabet] : j \in 0..k}

MCTexts == Upto(4)
MCSeps == Upto(3)
MCSplitNs == {-1, 0, 1, 2, 3}
MCLists == UNION {[1..j -> {<<>>, <<97>>, <<32>>, <<194, 160>>}] : j \in 0..3}
MCCounts == 0..3
MCSlices == {[mem |-> m, len |-> l] : m \in Upto(3), l \in 0..3} \cap
            {sl \in [mem : Upto(3), len : 0..3] : sl.len <= Len(sl.mem)}
MCMappings == {"DropSpace", "ToUpper"}

\* Long slices, of up to 10^9 bytes, where resize(n) = n + n/2 still fits
\* in an int; len = cap, or cap past len + 17.
MCLongSlices == {[len |-> l, cap |-> c] : l \in {0, 15, 1000000000}, c \in {0, 15, 40, 1000000000}} \cap
                {s \in [len : Nat, cap : Nat] : s.len <= s.cap}
MCLongLens == {0, 1, 17}

\* Longer slices, past two thirds of the largest int, where resize(n)
\* wraps, and one at the largest int, where lens + lent does.
PastTwoThirds == 1431655766
MCWrapSlices == {[len |-> l, cap |-> l] : l \in {PastTwoThirds, MaxInt}}
=============================================================================
