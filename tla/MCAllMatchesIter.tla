--------------------------- MODULE MCAllMatchesIter ---------------------------
(***************************************************************************)
(* Instances of AllMatchesIter: short texts, and texts long enough for    *)
(* more matches than the channel buffers, so that the goroutine blocks.   *)
(***************************************************************************)
EXTENDS AllMatchesIter

P == INSTANCE MCPatterns

\* The empty pattern (a match at every rune boundary), a*, [^b]* and
\* (a+|b)+.
IterPatterns == {<<>>, <<"a", "*">>, <<"[", "^", "b", "]", "*">>,
                 <<"(", "a", "+", "|", "b", ")", "+">>}
IterPrograms == {P!Compile(P!Pattern(p)) : p \in IterPatterns}

ASSUME \A r \in IterPrograms : r.error = P!NoError /\ r.prefix = <<>>

\* Every text of up to two runes, and b followed by ChanCap a's.
LongText == <<98>> \o [k \in 1..ChanCap |-> 97]
IterTexts == UNION {[1..k -> {97, 98, 26085}] : k \in 0..2} \cup {LongText}

\* No limit, and a limit of 2.
IterArgs == {0, 2}
=============================================================================
