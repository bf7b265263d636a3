----------------------------- MODULE MCScanAgree -----------------------------
(***************************************************************************)
(* Instances of ScanAgree: the prefix-free test programs plus the empty   *)
(* pattern and [^b]*, every text of up to MaxText runes, and limits n      *)
(* below, at and above zero.                                               *)
(***************************************************************************)
EXTENDS ScanAgree

P == INSTANCE MCPatterns

\* The empty pattern matches at every rune boundary; [^b]* matches the
\* empty string between two b's and a run of other runes.
ScanPatterns == P!UnprefixedPatterns \cup {<<>>, <<"[", "^", "b", "]", "*">>}
ScanPrograms == {P!Compile(P!Pattern(p)) : p \in ScanPatterns}

ASSUME \A r \in ScanPrograms : r.error = P!NoError /\ r.prefix = <<>>

\* Limits n: negative, zero (no limit) and positive.
LimitArgs == {-1, 0, 1, 2}

MaxText == 3
TextAlphabet == {97, 98, 26085}
AllTexts == UNION {[1..k -> TextAlphabet] : k \in 0..MaxText}
=============================================================================
