------------------------------ MODULE MCPatterns ------------------------------
(***************************************************************************)
(* Test patterns for the model-checking instances, written as tuples of   *)
(* one-character strings and converted to code points.                    *)
(***************************************************************************)
EXTENDS RegexpCompile, TLC

\* The code point of each pattern character used below.
CodeOf == ("a" :> 97) @@ ("b" :> 98) @@ ("c" :> 99) @@ ("n" :> LETTER_N)
          @@ ("日" :> 26085) @@ ("*" :> STAR) @@ ("+" :> PLUS) @@ ("?" :> QUEST)
          @@ ("(" :> LPAR) @@ (")" :> RPAR) @@ ("|" :> BAR) @@ ("[" :> LBKT)
          @@ ("]" :> RBKT) @@ ("^" :> CARET) @@ ("$" :> DOLLAR) @@ ("." :> DOT)
          @@ ("-" :> DASH) @@ ("\\" :> BSLASH)

Pattern(chars) == [k \in DOMAIN chars |-> CodeOf[chars[k]]]

\* Patterns without a literal prefix (setPrefix finds none).
UnprefixedPatterns == {
    <<"a", "*">>,
    <<"(", ".", "*", ")", ".", "*">>,
    <<"a", "*", "(", "|", "(", "b", ")", ")", "b", "*">>,
    <<"(", "a", "|", "a", "b", ")", "(", "b", "*", ")">>,
    <<"[", "^", "a", "]", "+">>,
    <<"^", "a", "|", "b", "$">>,
    <<"[", "^", "\\", "n", "]", "b", "?">>,
    <<"(", "a", "+", "|", "b", ")", "+">>,
    <<"日", "+", "[", "a", "-", "b", "]">> }

\* Patterns with a literal prefix.
PrefixedPatterns == {
    <<"a", "[", "b", "日", "]">>,
    <<"a", "b">>,
    <<"a", "b", "+">>,
    <<"a", "(", "b", ")">>,
    <<"a", "(", "b", "+", "|", "a", ")", "+">> }

\* Every pattern of up to MaxPattern characters over PatternAlphabet.
MaxPattern == 4
PatternAlphabet == {97, 98, STAR, PLUS, QUEST, LPAR, RPAR, BAR, LBKT, RBKT,
                    CARET, DOLLAR, DOT, BSLASH, DASH, LETTER_N}
AllPatterns == UNION {[1..n -> PatternAlphabet] : n \in 0..MaxPattern}
=============================================================================
