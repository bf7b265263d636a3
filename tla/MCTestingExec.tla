---------------------------- MODULE MCTestingExec ----------------------------
(***************************************************************************)
(* Instances of TestingExec: programs built by testing's CompileRegexp    *)
(* from the patterns of MCPatterns, on every text of up to MaxText runes. *)
(***************************************************************************)
EXTENDS TestingExec, MCPatterns

TC == INSTANCE TestingCompile

\* Patterns without a loop whose body can match the empty string.
TestingPrograms == {TC!CompileRegexp(Pattern(p)) : p \in UnprefixedPatterns \cup PrefixedPatterns}

\* Loops whose body can match the empty string: (a*)* and (b?)+.
NullableLoopPrograms ==
    {TC!CompileRegexp(Pattern(p)) : p \in {<<"(", "a", "*", ")", "*">>,
                                           <<"(", "b", "?", ")", "+">>}}

ASSUME \A r \in TestingPrograms \cup NullableLoopPrograms : r.error = TC!NoError

MaxText == 3
TextAlphabet == {97, 98, NL, 26085}
AllTexts == UNION {[1..n -> TextAlphabet] : n \in 0..MaxText}
ShortTexts == UNION {[1..n -> {97, 98}] : n \in 0..1}
=============================================================================
