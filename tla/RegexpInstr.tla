----------------------------- MODULE RegexpInstr -----------------------------
(***************************************************************************)
(* The instruction graph of package regexp (src/pkg/regexp/regexp.go).    *)
(* A compiled program is a sequence of instruction records; the Go        *)
(* pointers next and left become 0-based indices into that sequence (the   *)
(* index an instruction got from Regexp.add).  Code points are integers;   *)
(* a pattern or a text is a sequence of code points.                       *)
(***************************************************************************)
EXTENDS Integers, Sequences

\* The instruction kinds (the _START .. _NOP constants).
START     == "START"
END       == "END"
BOT       == "BOT"
EOT       == "EOT"
CHAR      == "CHAR"
CHARCLASS == "CHARCLASS"
ANY       == "ANY"
NOTNL     == "NOTNL"
BRA       == "BRA"
EBRA      == "EBRA"
ALT       == "ALT"
NOP       == "NOP"

Kinds == {START, END, BOT, EOT, CHAR, CHARCLASS, ANY, NOTNL, BRA, EBRA, ALT, NOP}

\* A nil instr pointer, and the endOfFile pseudo-rune (both -1 in the code).
Nil == -1
endOfFile == -1

\* The code points the parser and the matcher compare against.
NL == 10        DOLLAR == 36    LPAR == 40     RPAR == 41
STAR == 42      PLUS == 43      DASH == 45     DOT == 46
QUEST == 63     LBKT == 91      BSLASH == 92   RBKT == 93
CARET == 94     LETTER_N == 110 BAR == 124

\* A fresh instruction of kind k: the zero value of its Go struct.
Instr(k) == [kind |-> k, next |-> Nil, left |-> Nil, char |-> 0,
             negate |-> FALSE, ranges |-> <<>>, n |-> 0]

\* The instruction at 0-based index i of program prog.
At(prog, i) == prog[i + 1]

\* special: the metacharacters outside a character class.
special(c) == c \in {BSLASH, DOT, PLUS, STAR, QUEST, LPAR, RPAR, BAR,
                     LBKT, RBKT, CARET, DOLLAR}

\* specialcclass: the characters that may be escaped inside [...].
specialcclass(c) == c \in {BSLASH, DASH, LBKT, RBKT}

\* _CharClass.matches: the first range holding c decides; none means negate.
matches(cc, c) ==
    IF \E k \in DOMAIN cc.ranges : cc.ranges[k][1] <= c /\ c <= cc.ranges[k][2]
    THEN ~cc.negate
    ELSE cc.negate

\* The number of bytes utf8.EncodeRune writes for code point c.
RuneWidth(c) == CASE c < 128   -> 1
                  [] c < 2048  -> 2
                  [] c < 65536 -> 3
                  [] OTHER     -> 4
=============================================================================
