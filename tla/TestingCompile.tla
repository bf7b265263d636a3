--------------------------- MODULE TestingCompile ---------------------------
(***************************************************************************)
(* CompileRegexp of src/pkg/testing/regexp.go, the reduced copy of the    *)
(* regexp compiler that package testing carries.  Its parser is the one   *)
(* of package regexp (RegexpCompile) with three differences that this     *)
(* module keeps: errors are strings (and the two paren errors are the     *)
(* same string), a class [x] is not turned into the literal x, and a      *)
(* class keeps its ranges in a slice grown by addRange.  There is no      *)
(* setPrefix.  Operators have the names of RegexpCompile's; a module that  *)
(* uses both takes this one by INSTANCE.                                   *)
(***************************************************************************)
EXTENDS RegexpInstr

\* The error strings; "" is no error.
NoError == ""
ErrInternal            == "internal error"
ErrUnmatchedLpar       == "unmatched ''"
ErrUnmatchedRpar       == "unmatched ''"
ErrUnmatchedLbkt       == "unmatched '['"
ErrUnmatchedRbkt       == "unmatched ']'"
ErrBadRange            == "bad range in character class"
ErrExtraneousBackslash == "extraneous backslash"
ErrBadClosure          == "repeated closure **, ++, etc."
ErrBareClosure         == "closure applies to nothing"
ErrBadBackslash        == "illegal backslash escape"

nextc(p) == IF p.pos > Len(p.expr)
            THEN [p EXCEPT !.ch = endOfFile]
            ELSE [p EXCEPT !.ch = p.expr[p.pos], !.pos = @ + 1]

\* newParser, with START already added as instruction 0 (doParse).
newParser(expr) ==
    nextc([expr |-> expr, pos |-> 1, ch |-> endOfFile, nlpar |-> 0, nbra |-> 0,
           error |-> NoError, inst |-> <<Instr(START)>>])

Fail(p, err) == [p EXCEPT !.error = err]

add(p, ins) == [p EXCEPT !.inst = Append(@, ins)]
setNext(p, i, j) == [p EXCEPT !.inst[i + 1].next = j]
setLeft(p, i, j) == [p EXCEPT !.inst[i + 1].left = j]

R(p, s, e) == [p |-> p, s |-> s, e |-> e]
Single(p, ins) == R(add(p, ins), Len(p.inst), Len(p.inst))

\* A class's ranges: the slice's contents and its capacity (newCharClass
\* makes it with capacity 20).
newRanges == [s |-> <<>>, cap |-> 20]

\* Mutant: the grown slice receives the old ranges.
addRangeCopied(rg, a, b) ==
    LET n == Len(rg.s) IN
    [s |-> rg.s \o <<a, b>>, cap |-> IF n >= rg.cap THEN 2 * n ELSE rg.cap]

\* addRange: when the slice is full, a new one of twice the capacity is
\* made and the loop meant to copy the old ranges ranges over the new
\* slice, copying its zeros onto itself; a and b are then appended.
addRange(rg, a, b) ==
    LET n == Len(rg.s) IN
    IF n >= rg.cap THEN [s |-> [j \in 1..n |-> 0] \o <<a, b>>, cap |-> 2 * n]
                   ELSE [s |-> rg.s \o <<a, b>>, cap |-> rg.cap]

\* The CHARCLASS instruction of a class: matches walks the slice pairwise.
classInstr(neg, rg) ==
    [Instr(CHARCLASS) EXCEPT !.negate = neg,
        !.ranges = [k \in 1..Len(rg.s) \div 2 |-> <<rg.s[2 * k - 1], rg.s[2 * k]>>]]

RECURSIVE ccLoop(_, _, _, _), term(_), closure(_), concatLoop(_, _, _),
          concatStep(_, _, _), regexp(_), altLoop(_, _, _), altStep(_, _, _)

ccChar(p, neg, rg, left, c) ==
    LET p1 == nextc(p) IN
    IF left < 0
    THEN IF p1.ch = DASH THEN ccLoop(nextc(p1), neg, rg, c)
                         ELSE ccLoop(p1, neg, addRange(rg, c, c), -1)
    ELSE IF left <= c THEN ccLoop(p1, neg, addRange(rg, left, c), -1)
                      ELSE R(Fail(p1, ErrBadRange), Nil, Nil)

\* charClass's loop, ending with the [^\n] -> NOTNL case.
ccLoop(p, neg, rg, left) ==
    LET c == p.ch IN
    CASE c \in {RBKT, endOfFile} ->
           IF left >= 0 THEN R(Fail(p, ErrBadRange), Nil, Nil)
           ELSE IF neg /\ rg.s = <<NL, NL>> THEN Single(p, Instr(NOTNL))
           ELSE Single(p, classInstr(neg, rg))
      [] c = DASH -> R(Fail(p, ErrBadRange), Nil, Nil)
      [] c = BSLASH ->
           LET p1 == nextc(p) IN
           CASE p1.ch = endOfFile     -> R(Fail(p1, ErrExtraneousBackslash), Nil, Nil)
             [] p1.ch = LETTER_N      -> ccChar(p1, neg, rg, left, NL)
             [] specialcclass(p1.ch)  -> ccChar(p1, neg, rg, left, p1.ch)
             [] OTHER                 -> R(Fail(p1, ErrBadBackslash), Nil, Nil)
      [] OTHER -> ccChar(p, neg, rg, left, c)

charClass(p) ==
    IF p.ch = CARET THEN ccLoop(nextc(p), TRUE, newRanges, -1)
                    ELSE ccLoop(p, FALSE, newRanges, -1)

charTerm(p, c) == Single(nextc(p), [Instr(CHAR) EXCEPT !.char = c])

group(r, nbra) ==
    IF r.p.ch # RPAR THEN R(Fail(r.p, ErrUnmatchedLpar), r.s, r.e)
    ELSE
      LET p1   == nextc([r.p EXCEPT !.nlpar = @ - 1])
          bra  == Len(p1.inst)
          ebra == bra + 1
          p2   == add(add(p1, [Instr(BRA) EXCEPT !.n = nbra]),
                              [Instr(EBRA) EXCEPT !.n = nbra])
      IN IF r.s = Nil
         THEN IF r.e = Nil THEN R(Fail(p2, ErrInternal), Nil, Nil)
                           ELSE R(setNext(p2, bra, ebra), bra, ebra)
         ELSE R(setNext(setNext(p2, r.e, ebra), bra, r.s), bra, ebra)

\* Mutant: the closing ']' is not required.
bracketNoClose(r) ==
    IF r.p.error # NoError THEN R(r.p, r.s, Nil)
    ELSE R(nextc(r.p), r.s, r.s)

bracket(r) ==
    IF r.p.error # NoError THEN R(r.p, r.s, Nil)
    ELSE IF r.p.ch # RBKT THEN R(Fail(r.p, ErrUnmatchedLbkt), r.s, Nil)
    ELSE R(nextc(r.p), r.s, r.s)

term(p) ==
    LET c == p.ch IN
    IF p.error # NoError THEN R(p, Nil, Nil) ELSE
    CASE c \in {BAR, endOfFile}  -> R(p, Nil, Nil)
      [] c \in {STAR, PLUS}      -> R(Fail(p, ErrBareClosure), Nil, Nil)
      [] c = RPAR -> IF p.nlpar = 0 THEN R(Fail(p, ErrUnmatchedRpar), Nil, Nil)
                                    ELSE R(p, Nil, Nil)
      [] c = RBKT                -> R(Fail(p, ErrUnmatchedRbkt), Nil, Nil)
      [] c = CARET               -> Single(nextc(p), Instr(BOT))
      [] c = DOLLAR              -> Single(nextc(p), Instr(EOT))
      [] c = DOT                 -> Single(nextc(p), Instr(ANY))
      [] c = LBKT                -> bracket(charClass(nextc(p)))
      [] c = LPAR ->
           LET p1 == [nextc(p) EXCEPT !.nlpar = @ + 1, !.nbra = @ + 1]
           IN group(regexp(p1), p1.nbra)
      [] c = BSLASH ->
           LET p1 == nextc(p) IN
           CASE p1.ch = endOfFile -> R(Fail(p1, ErrExtraneousBackslash), Nil, Nil)
             [] p1.ch = LETTER_N  -> charTerm(p1, NL)
             [] special(p1.ch)    -> charTerm(p1, p1.ch)
             [] OTHER             -> R(Fail(p1, ErrBadBackslash), Nil, Nil)
      [] OTHER -> charTerm(p, c)

afterClosure(p, s, e) ==
    LET p1 == nextc(p) IN
    R(IF p1.ch \in {STAR, PLUS, QUEST} THEN Fail(p1, ErrBadClosure) ELSE p1, s, e)

closureOf(r) ==
    LET q == r.p
        a == Len(q.inst)          \* index of the ALT the closure adds
    IN IF r.s = Nil \/ q.error # NoError THEN r ELSE
       CASE q.ch = STAR ->
              afterClosure(setLeft(setNext(add(q, Instr(ALT)), r.e, a), a, r.s), a, a)
         [] q.ch = PLUS ->
              afterClosure(setLeft(setNext(add(q, Instr(ALT)), r.e, a), a, r.s), r.s, a)
         [] q.ch = QUEST ->
              afterClosure(setNext(setNext(setLeft(add(add(q, Instr(ALT)), Instr(NOP)),
                                                   a, r.s), a, a + 1), r.e, a + 1),
                           a, a + 1)
         [] OTHER -> r

closure(p) == closureOf(term(p))

concatStep(r, s, e) ==
    IF r.p.error # NoError THEN R(r.p, s, e)
    ELSE IF r.s = Nil THEN IF s = Nil THEN Single(r.p, Instr(NOP)) ELSE R(r.p, s, e)
    ELSE concatLoop(IF s = Nil THEN r.p ELSE setNext(r.p, e, r.s),
                    IF s = Nil THEN r.s ELSE s, r.e)

concatLoop(p, s, e) == concatStep(closure(p), s, e)

concatenation(p) == concatLoop(p, Nil, Nil)

altStep(r, s, e) ==
    LET a == Len(r.p.inst)
        q == add(add(r.p, Instr(ALT)), Instr(NOP))
    IN IF r.p.error # NoError THEN R(r.p, s, e)
       ELSE altLoop(setNext(setNext(setNext(setLeft(q, a, s), a, r.s), e, a + 1),
                            r.e, a + 1),
                    a, a + 1)

altLoop(p, s, e) ==
    IF p.ch # BAR THEN R(p, s, e) ELSE altStep(concatenation(nextc(p)), s, e)

regexpOf(r) == IF r.p.error # NoError THEN r ELSE altLoop(r.p, r.s, r.e)

regexp(p) == regexpOf(concatenation(p))

RECURSIVE unNop(_, _)
unNop(prog, i) == IF At(prog, i).kind = NOP THEN unNop(prog, At(prog, i).next) ELSE i

\* eliminateNops.  The loop rewrites in place, but rewriting a NOP's next
\* to unNop of it does not change where unNop of any other index ends, so
\* the result is the same as this simultaneous rewrite.
eliminateNops(prog) ==
    [k \in DOMAIN prog |->
        IF prog[k].kind = END THEN prog[k]
        ELSE [prog[k] EXCEPT !.next = unNop(prog, @),
                             !.left = IF prog[k].kind = ALT THEN unNop(prog, @) ELSE @]]


\* doParse after p.regexp() returned r: on an error return it, else link
\* START, append END and eliminate the NOPs.
doParse(r) ==
    LET p1 == add(setNext(r.p, 0, r.s), Instr(END))
    IN IF r.p.error # NoError
       THEN [error |-> r.p.error, nbra |-> r.p.nbra, inst |-> <<>>]
       ELSE [error |-> NoError, nbra |-> r.p.nbra,
             inst |-> eliminateNops(setNext(p1, r.e, Len(r.p.inst)).inst)]

CompileRegexp(expr) == doParse(regexp(newParser(expr)))
=============================================================================
