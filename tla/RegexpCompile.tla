---------------------------- MODULE RegexpCompile ----------------------------
(***************************************************************************)
(* The compiler of package regexp: the recursive-descent parser (type      *)
(* parser), NOP elimination, literal-prefix extraction and Compile.        *)
(* The parser's mutable state (re.inst, nbra, pos, ch, nlpar, error) is a  *)
(* record threaded through the operators; every parser method returns     *)
(* [p |-> parser, s |-> start, e |-> end] like the Go (start, end instr).  *)
(* errs records every assignment to p.error, in order, so that a property  *)
(* can compare the error Compile returns with the first one raised.        *)
(***************************************************************************)
EXTENDS RegexpInstr

NoError == "none"
ErrInternal            == "Internal"
ErrUnmatchedLpar       == "UnmatchedLpar"
ErrUnmatchedRpar       == "UnmatchedRpar"
ErrUnmatchedLbkt       == "UnmatchedLbkt"
ErrUnmatchedRbkt       == "UnmatchedRbkt"
ErrBadRange            == "BadRange"
ErrExtraneousBackslash == "ExtraneousBackslash"
ErrBadClosure          == "BadClosure"
ErrBareClosure         == "BareClosure"
ErrBadBackslash        == "BadBackslash"

\* nextc: load the next code point of the pattern, or endOfFile.
nextc(p) == IF p.pos > Len(p.expr)
            THEN [p EXCEPT !.ch = endOfFile]
            ELSE [p EXCEPT !.ch = p.expr[p.pos], !.pos = @ + 1]

\* newParser, with START already added as instruction 0 (doParse).
newParser(expr) ==
    nextc([expr |-> expr, pos |-> 1, ch |-> endOfFile, nlpar |-> 0, nbra |-> 0,
           error |-> NoError, errs |-> <<>>, inst |-> <<Instr(START)>>])

Fail(p, err) == [p EXCEPT !.error = err, !.errs = Append(@, err)]

\* Regexp.add: append; the new instruction's index is the old length.
add(p, ins) == [p EXCEPT !.inst = Append(@, ins)]
setNext(p, i, j) == [p EXCEPT !.inst[i + 1].next = j]
setLeft(p, i, j) == [p EXCEPT !.inst[i + 1].left = j]

R(p, s, e) == [p |-> p, s |-> s, e |-> e]

\* Emit a single instruction and return it as both start and end.
Single(p, ins) == R(add(p, ins), Len(p.inst), Len(p.inst))

RECURSIVE ccLoop(_, _, _, _), term(_), closure(_), concatLoop(_, _, _),
          concatStep(_, _, _), regexp(_), altLoop(_, _, _), altStep(_, _, _)

\* charClass: the body of the for loop after one class character c has
\* been read (the default case, reached also by fallthrough from '\\').
ccChar(p, neg, ranges, left, c) ==
    LET p1 == nextc(p) IN
    IF left < 0
    THEN IF p1.ch = DASH THEN ccLoop(nextc(p1), neg, ranges, c)
                         ELSE ccLoop(p1, neg, Append(ranges, <<c, c>>), -1)
    ELSE IF left <= c THEN ccLoop(p1, neg, Append(ranges, <<left, c>>), -1)
                      ELSE R(Fail(p1, ErrBadRange), Nil, Nil)

\* charClass's loop, ending with the [^\n] -> NOTNL and [a] -> CHAR cases.
ccLoop(p, neg, ranges, left) ==
    LET c == p.ch IN
    CASE c \in {RBKT, endOfFile} ->
           IF left >= 0 THEN R(Fail(p, ErrBadRange), Nil, Nil)
           ELSE IF neg /\ ranges = <<<<NL, NL>>>> THEN Single(p, Instr(NOTNL))
           ELSE IF ~neg /\ Len(ranges) = 1 /\ ranges[1][1] = ranges[1][2]
                THEN Single(p, [Instr(CHAR) EXCEPT !.char = ranges[1][1]])
           ELSE Single(p, [Instr(CHARCLASS) EXCEPT !.negate = neg, !.ranges = ranges])
      [] c = DASH -> R(Fail(p, ErrBadRange), Nil, Nil)
      [] c = BSLASH ->
           LET p1 == nextc(p) IN
           CASE p1.ch = endOfFile     -> R(Fail(p1, ErrExtraneousBackslash), Nil, Nil)
             [] p1.ch = LETTER_N      -> ccChar(p1, neg, ranges, left, NL)
             [] specialcclass(p1.ch)  -> ccChar(p1, neg, ranges, left, p1.ch)
             [] OTHER                 -> R(Fail(p1, ErrBadBackslash), Nil, Nil)
      [] OTHER -> ccChar(p, neg, ranges, left, c)

charClass(p) ==
    IF p.ch = CARET THEN ccLoop(nextc(p), TRUE, <<>>, -1)
                    ELSE ccLoop(p, FALSE, <<>>, -1)

\* term's default case: a literal character.
charTerm(p, c) == Single(nextc(p), [Instr(CHAR) EXCEPT !.char = c])

\* term's '(' case after p.regexp() returned r; nbra is the group number.
group(r, nbra) ==
    IF r.p.ch # RPAR THEN R(Fail(r.p, ErrUnmatchedLpar), r.s, r.e)
    ELSE
      LET p1   == nextc([r.p EXCEPT !.nlpar = @ - 1])
          bra  == Len(p1.inst)
          ebra == bra + 1
          p2   == add(add(p1, [Instr(BRA) EXCEPT !.n = nbra]),
                              [Instr(EBRA) EXCEPT !.n = nbra])
      IN IF r.s = Nil
         THEN IF r.e = Nil THEN R(Fail(p2, ErrInternal), Nil, Nil)
                           ELSE R(setNext(p2, bra, ebra), bra, ebra)
         ELSE R(setNext(setNext(p2, r.e, ebra), bra, r.s), bra, ebra)

\* term's '[' case after p.charClass() returned r.
bracket(r) ==
    IF r.p.error # NoError THEN R(r.p, r.s, Nil)
    ELSE IF r.p.ch # RBKT THEN R(Fail(r.p, ErrUnmatchedLbkt), r.s, Nil)
    ELSE R(nextc(r.p), r.s, r.s)

term(p) ==
    LET c == p.ch IN
    IF p.error # NoError THEN R(p, Nil, Nil) ELSE
    CASE c \in {BAR, endOfFile}  -> R(p, Nil, Nil)
      [] c \in {STAR, PLUS}      -> R(Fail(p, ErrBareClosure), Nil, Nil)
      [] c = RPAR -> IF p.nlpar = 0 THEN R(Fail(p, ErrUnmatchedRpar), Nil, Nil)
                                    ELSE R(p, Nil, Nil)
      [] c = RBKT                -> R(Fail(p, ErrUnmatchedRbkt), Nil, Nil)
      [] c = CARET               -> Single(nextc(p), Instr(BOT))
      [] c = DOLLAR              -> Single(nextc(p), Instr(EOT))
      [] c = DOT                 -> Single(nextc(p), Instr(ANY))
      [] c = LBKT                -> bracket(charClass(nextc(p)))
      [] c = LPAR ->
           LET p1 == [nextc(p) EXCEPT !.nlpar = @ + 1, !.nbra = @ + 1]
           IN group(regexp(p1), p1.nbra)
      [] c = BSLASH ->
           LET p1 == nextc(p) IN
           CASE p1.ch = endOfFile -> R(Fail(p1, ErrExtraneousBackslash), Nil, Nil)
             [] p1.ch = LETTER_N  -> charTerm(p1, NL)
             [] special(p1.ch)    -> charTerm(p1, p1.ch)
             [] OTHER             -> R(Fail(p1, ErrBadBackslash), Nil, Nil)
      [] OTHER -> charTerm(p, c)

\* closure: after a '*', '+' or '?' was applied, a second one is an error.
afterClosure(p, s, e) ==
    LET p1 == nextc(p) IN
    R(IF p1.ch \in {STAR, PLUS, QUEST} THEN Fail(p1, ErrBadClosure) ELSE p1, s, e)

\* closure after p.term() returned r.
closureOf(r) ==
    LET q == r.p
        a == Len(q.inst)          \* index of the ALT the closure adds
    IN IF r.s = Nil \/ q.error # NoError THEN r ELSE
       CASE q.ch = STAR ->
              afterClosure(setLeft(setNext(add(q, Instr(ALT)), r.e, a), a, r.s), a, a)
         [] q.ch = PLUS ->
              afterClosure(setLeft(setNext(add(q, Instr(ALT)), r.e, a), a, r.s), r.s, a)
         [] q.ch = QUEST ->
              afterClosure(setNext(setNext(setLeft(add(add(q, Instr(ALT)), Instr(NOP)),
                                                   a, r.s), a, a + 1), r.e, a + 1),
                           a, a + 1)
         [] OTHER -> r

closure(p) == closureOf(term(p))

\* concatenation's loop; (s, e) is what has been concatenated so far.
concatStep(r, s, e) ==
    IF r.p.error # NoError THEN R(r.p, s, e)
    ELSE IF r.s = Nil THEN IF s = Nil THEN Single(r.p, Instr(NOP)) ELSE R(r.p, s, e)
    ELSE concatLoop(IF s = Nil THEN r.p ELSE setNext(r.p, e, r.s),
                    IF s = Nil THEN r.s ELSE s, r.e)

concatLoop(p, s, e) == concatStep(closure(p), s, e)

concatenation(p) == concatLoop(p, Nil, Nil)

\* regexp's loop over '|' concatenation.
\* One '|' branch after p.concatenation() returned r; (s, e) so far.
altStep(r, s, e) ==
    LET a == Len(r.p.inst)
        q == add(add(r.p, Instr(ALT)), Instr(NOP))
    IN IF r.p.error # NoError THEN R(r.p, s, e)
       ELSE altLoop(setNext(setNext(setNext(setLeft(q, a, s), a, r.s), e, a + 1),
                            r.e, a + 1),
                    a, a + 1)

altLoop(p, s, e) ==
    IF p.ch # BAR THEN R(p, s, e) ELSE altStep(concatenation(nextc(p)), s, e)

\* regexp after its first p.concatenation() returned r.
regexpOf(r) == IF r.p.error # NoError THEN r ELSE altLoop(r.p, r.s, r.e)

regexp(p) == regexpOf(concatenation(p))

RECURSIVE unNop(_, _)
unNop(prog, i) == IF At(prog, i).kind = NOP THEN unNop(prog, At(prog, i).next) ELSE i

\* eliminateNops.  The loop rewrites in place, but rewriting a NOP's next
\* to unNop of it does not change where unNop of any other index ends, so
\* the result is the same as this simultaneous rewrite.
\* Mutant: an ALT's left edge is not moved past NOPs.
eliminateNopsNoLeft(prog) ==
    [k \in DOMAIN prog |->
        IF prog[k].kind = END THEN prog[k]
        ELSE [prog[k] EXCEPT !.next = unNop(prog, @)]]

eliminateNops(prog) ==
    [k \in DOMAIN prog |->
        IF prog[k].kind = END THEN prog[k]
        ELSE [prog[k] EXCEPT !.next = unNop(prog, @),
                             !.left = IF prog[k].kind = ALT THEN unNop(prog, @) ELSE @]]

RECURSIVE prefixLoop(_, _, _), prefixLoopLast(_, _, _)

\* Mutant: prefixStart is left at the last literal instead of after it.
prefixLoopLast(prog, i, b) ==
    LET j    == At(prog, i).next
        more == j < Len(prog) /\ At(prog, j).kind = CHAR
                /\ At(prog, At(prog, j).next).kind \notin {BOT, EOT, ALT}
    IN IF i < Len(prog) /\ At(prog, i).kind = CHAR
                        /\ At(prog, j).kind \notin {BOT, EOT, ALT}
       THEN IF more THEN prefixLoopLast(prog, j, Append(b, At(prog, i).char))
                    ELSE [i |-> i, b |-> Append(b, At(prog, i).char)]
       ELSE [i |-> i, b |-> b]

\* setPrefix's loop: i is the current index, b the literal runes so far.
prefixLoop(prog, i, b) ==
    IF i < Len(prog) /\ At(prog, i).kind = CHAR
                     /\ At(prog, At(prog, i).next).kind \notin {BOT, EOT, ALT}
    THEN prefixLoop(prog, At(prog, i).next, Append(b, At(prog, i).char))
    ELSE [i |-> i, b |-> b]

\* doParse after p.regexp() returned r: on success append END, eliminate
\* the NOPs and run setPrefix.  prefix is kept as runes; its byte length
\* is what the matcher uses.
doParse(r) ==
    LET p1   == add(setNext(r.p, 0, r.s), Instr(END))
        prog == eliminateNops(setNext(p1, r.e, Len(r.p.inst)).inst)
        pre  == prefixLoop(prog, At(prog, 0).next, <<>>)
    IN IF r.p.error # NoError
       THEN [error |-> r.p.error, errs |-> r.p.errs, nbra |-> r.p.nbra,
             inst |-> <<>>, prefixStart |-> Nil, prefix |-> <<>>]
       ELSE [error |-> NoError, errs |-> <<>>, nbra |-> r.p.nbra,
             inst |-> prog, prefixStart |-> pre.i, prefix |-> pre.b]

Compile(expr) == doParse(regexp(newParser(expr)))
=============================================================================
