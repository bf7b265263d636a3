----------------------------- MODULE CompileCall -----------------------------
(***************************************************************************)
(* One call regexp.Compile(str) of src/pkg/regexp/regexp.go, on a pattern *)
(* of Patterns: doParse (the parser, the END it appends, eliminateNops)    *)
(* and setPrefix, as computed by the RegexpCompile operators.  The        *)
(* properties relate the program to the patterns' intent: it is a         *)
(* well-formed instruction graph, its literal prefix is mandatory, and    *)
(* the error it reports is the first one the parser met.                   *)
(***************************************************************************)
EXTENDS RegexpCompile, FiniteSets

CONSTANTS
    Patterns,   \* patterns, as sequences of code points
    Texts       \* texts the prefix property is checked on

VARIABLES
    pattern,    \* the argument str
    re,         \* the *Regexp returned (its fields), or NoRegexp
    called      \* Compile has returned

vars == <<pattern, re, called>>

NoRegexp == [error |-> NoError, errs |-> <<>>, nbra |-> 0, inst |-> <<>>,
             prefixStart |-> Nil, prefix |-> <<>>]

Init == /\ pattern \in Patterns
        /\ re = NoRegexp
        /\ called = FALSE

\* Compile: doParse then, when there was no error, setPrefix.
CompileStep == /\ ~called
               /\ re' = Compile(pattern)
               /\ called' = TRUE
               /\ UNCHANGED pattern

\* The caller holds the result.
Done == called /\ UNCHANGED vars

Next == CompileStep \/ Done

Spec == Init /\ [][Next]_vars /\ WF_vars(CompileStep)

-----------------------------------------------------------------------------
(* Properties *)

Compiled == called /\ re.error = NoError

\* The instruction indices an instruction points at.
Succ(prog, k) ==
    IF prog[k].kind = END THEN {}
    ELSE IF prog[k].kind = ALT THEN {prog[k].next, prog[k].left}
    ELSE {prog[k].next}

\* A compiled program is a well-formed instruction graph: START at 0 and
\* the only END last, every edge lands on an instruction (no dangling nil
\* from a half-built closure or alternation), eliminateNops left no edge
\* into a NOP, and every group 1..nbra has exactly one BRA and one EBRA.
WellFormed ==
    Compiled =>
      LET prog == re.inst
          N    == Len(prog)
      IN /\ N >= 2 /\ prog[1].kind = START /\ prog[N].kind = END
         /\ \A k \in 1..N - 1 : prog[k].kind # END
         /\ \A k \in DOMAIN prog : \A j \in Succ(prog, k) :
               j \in 0..N - 1 /\ prog[j + 1].kind \notin {NOP, START}
         /\ \A g \in 1..re.nbra :
               /\ Cardinality({k \in DOMAIN prog : prog[k].kind = BRA /\ prog[k].n = g}) = 1
               /\ Cardinality({k \in DOMAIN prog : prog[k].kind = EBRA /\ prog[k].n = g}) = 1

Ref == INSTANCE RegexpMatch WITH re <- re, input <- <<>>, start <- 0,
                                 answer <- [done |-> called, span |-> <<>>]

\* The literal prefix is mandatory, which is what doExecute's skip relies
\* on: on every text, a run of the program from rune k reaches END exactly
\* when the prefix occurs at k and a run from prefixStart, right after it,
\* reaches END.
PrefixSound ==
    Compiled =>
      LET prog == re.inst
          L    == Len(re.prefix)
      IN \A text \in Texts : \A k \in 0..Len(text) :
           Ref!Ends(prog, text, k) =
             IF k + L <= Len(text) /\ SubSeq(text, k + 1, k + L) = re.prefix
             THEN Ref!EndsFrom(prog, text, k + L,
                               Ref!Closure(prog, {re.prefixStart},
                                           Ref!ByteOffset(text, k + L),
                                           Ref!ByteOffset(text, Len(text))))
             ELSE {}

\* Section 4.1 and 6 of the design: Compile returns the first error the
\* parser encountered (p.error is set once and the parse unwinds).
FirstErrorReturned ==
    called /\ re.error # NoError => re.error = re.errs[1]
=============================================================================
