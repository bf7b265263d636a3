---------------------------- MODULE MCCompileAgree ----------------------------
(***************************************************************************)
(* Instances of CompileAgree: every pattern of up to MaxPattern symbols,  *)
(* and classes long enough to make addRange grow its slice.                *)
(***************************************************************************)
EXTENDS CompileAgree, MCPatterns

\* Every text of up to two runes over a, b and newline, and of three
\* over a and b.
AgreeTexts == UNION {[1..n -> {97, 98, NL}] : n \in 0..2} \cup [1..3 -> {97, 98}]

\* Classes of 10, 11 and 12 single-letter ranges, from a on (newCharClass's
\* slice holds 10 pairs before addRange grows it), plain and negated.
Letters(n) == [k \in 1..n |-> 96 + k]
LongClasses == {<<LBKT>> \o Letters(n) \o <<RBKT>> : n \in 10..12}
               \cup {<<LBKT, CARET>> \o Letters(n) \o <<RBKT>> : n \in 10..12}
=============================================================================
