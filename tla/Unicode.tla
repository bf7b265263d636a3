------------------------------- MODULE Unicode -------------------------------
(***************************************************************************)
(* The functions of package unicode that bytes.go calls.  Package unicode  *)
(* is not part of this tree.  IsSpace is Go's: the Latin-1 switch, then    *)
(* the White_Space table.  The case mappings are Go's on the runes below   *)
(* U+00C0 and on RuneError, which are all the runes the model's texts      *)
(* decode to; no other rune is ever passed to them.                        *)
(***************************************************************************)
EXTENDS Integers

WhiteSpaceTable == {5760, 6158, 8232, 8233, 8239, 8287, 12288} \cup 8192..8202

IsSpace(r) ==
    IF r <= 255 THEN r \in {9, 10, 11, 12, 13, 32, 133, 160}
    ELSE r \in WhiteSpaceTable

\* a-z to A-Z, and MICRO SIGN to GREEK CAPITAL MU.
ToUpper(r) ==
    CASE r \in 97..122 -> r - 32
      [] r = 181       -> 924
      [] OTHER         -> r

ToLower(r) == IF r \in 65..90 THEN r + 32 ELSE r

\* Below U+00C0 the title case of a rune is its upper case.
ToTitle(r) == ToUpper(r)
=============================================================================
