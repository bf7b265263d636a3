---------------------------- MODULE MCRegexpExec ----------------------------
(***************************************************************************)
(* Model-checking instances of RegexpExec: programs compiled by the       *)
(* RegexpCompile operators from small patterns, and every text of up to   *)
(* MaxText runes over a small alphabet holding a multi-byte rune.          *)
(***************************************************************************)
EXTENDS RegexpExec, MCPatterns

UnprefixedPrograms == {Compile(Pattern(p)) : p \in UnprefixedPatterns}
PrefixedPrograms == {Compile(Pattern(p)) : p \in PrefixedPatterns}

ASSUME \A r \in UnprefixedPrograms : r.error = NoError /\ r.prefix = <<>>
ASSUME \A r \in PrefixedPrograms : r.error = NoError /\ r.prefix # <<>>

\* Input texts: all sequences of up to MaxText runes of TextAlphabet.
MaxText == 3
TextAlphabet == {97, 98, NL, 26085}
AllTexts == UNION {[1..n -> TextAlphabet] : n \in 0..MaxText}
=============================================================================
