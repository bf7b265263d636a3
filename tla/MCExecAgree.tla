---------------------------- MODULE MCExecAgree ----------------------------
(***************************************************************************)
(* Instances of ExecAgree: the patterns of MCPatterns with and without a  *)
(* literal prefix, on every text of up to MaxText runes over an alphabet  *)
(* with a newline and a multi-byte rune.                                   *)
(***************************************************************************)
EXTENDS ExecAgree

P == INSTANCE MCPatterns

AgreePatterns == {P!Pattern(p) : p \in P!UnprefixedPatterns \cup P!PrefixedPatterns}
AgreePrograms == {Compile(p) : p \in AgreePatterns}

ASSUME \A p \in AgreePatterns : Compile(p).error = NoError /\ TC!CompileRegexp(p).error = TC!NoError

MaxText == 3
TextAlphabet == {97, 98, NL, 26085}
AllTexts == UNION {[1..n -> TextAlphabet] : n \in 0..MaxText}
=============================================================================
