---------------------------- MODULE MCCompileCall ----------------------------
(***************************************************************************)
(* Compile on every pattern of up to MaxPattern characters; the prefix    *)
(* property on every text of up to 3 runes over {a, b}.                   *)
(***************************************************************************)
EXTENDS CompileCall, MCPatterns

ShortTexts == UNION {[1..n -> {97, 98}] : n \in 0..3}
=============================================================================
