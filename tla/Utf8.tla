-------------------------------- MODULE Utf8 --------------------------------
(***************************************************************************)
(* The functions of package utf8 that bytes.go calls.  Package utf8 is not *)
(* part of this tree; the design takes them as given primitives ("given a  *)
(* byte sequence, decode the first code point returning its value and byte *)
(* width; given a code point, encode to bytes").  They are written here    *)
(* with the behaviour of the Go package of the same release: an invalid or *)
(* truncated sequence decodes as (RuneError, 1), an empty one as           *)
(* (RuneError, 0), and an overlong encoding is invalid.                    *)
(***************************************************************************)
EXTENDS Integers, Sequences

RuneError == 65533
RuneSelf == 128
UTFMax == 4
MaxRune == 1114111

\* The width a leading byte announces; 0 for a continuation byte or 0xF8-0xFF.
LeadWidth(c) ==
    CASE c < 128 -> 1
      [] c < 192 -> 0
      [] c < 224 -> 2
      [] c < 240 -> 3
      [] c < 248 -> 4
      [] OTHER   -> 0

IsCont(c) == c \div 64 = 2

\* The payload bits of the leading byte of a w-byte sequence.
LeadMask == <<128, 32, 16, 8>>

\* The rune a well-formed w-byte sequence stands for.
Payload(p, w) ==
    LET RECURSIVE acc(_)
        acc(k) == IF k = 1 THEN p[1] % LeadMask[w] ELSE acc(k - 1) * 64 + (p[k] % 64)
    IN acc(w)

\* The smallest rune that needs w bytes: anything below is overlong.
MinOfWidth == <<0, 128, 2048, 65536>>

\* utf8.DecodeRune(p): the first rune of p and its width.
DecodeRune(p) ==
    IF p = <<>> THEN <<RuneError, 0>>
    ELSE LET w == LeadWidth(p[1]) IN
         IF w = 0 \/ Len(p) < w \/ \E k \in 2..w : ~IsCont(p[k])
             THEN <<RuneError, 1>>
         ELSE IF Payload(p, w) < MinOfWidth[w] THEN <<RuneError, 1>>
         ELSE <<Payload(p, w), w>>

\* utf8.RuneLen(r): the number of bytes EncodeRune writes for r.
RuneLen(r) ==
    CASE r < 0        -> -1
      [] r < 128      -> 1
      [] r < 2048     -> 2
      [] r < 65536    -> 3
      [] r <= MaxRune -> 4
      [] OTHER        -> -1

\* utf8.EncodeRune(r, p): the bytes it writes; a rune past MaxRune is
\* written as RuneError.
EncodeRune(rune) ==
    LET r == IF rune > MaxRune THEN RuneError ELSE rune
        w == RuneLen(r)
    IN IF w = 1 THEN <<r>>
       ELSE [k \in 1..w |->
               IF k = 1 THEN 256 - 2 ^ (8 - w) + r \div (64 ^ (w - 1))
               ELSE 128 + ((r \div (64 ^ (w - k))) % 64)]

\* utf8.RuneStart(b): b is not a continuation byte.
RuneStart(b) == ~IsCont(b)

\* utf8.RuneCount(p): the number of DecodeRune steps that consume p.
RECURSIVE RuneCount(_)
RuneCount(p) ==
    IF p = <<>> THEN 0
    ELSE 1 + RuneCount(SubSeq(p, DecodeRune(p)[2] + 1, Len(p)))
=============================================================================
