----------------------------- MODULE RegexpMatch -----------------------------
(***************************************************************************)
(* What doExecute promises (spec section 4.4, Glossary): the leftmost-    *)
(* longest match of a compiled program in the input at or after byte       *)
(* offset start.  The reference semantics is the set simulation of the    *)
(* program graph: no arena, no deduplication, no priming order and no      *)
(* literal-prefix skip, only which instructions an input run can reach.   *)
(* The abstract machine answers in one step.                               *)
(***************************************************************************)
EXTENDS RegexpInstr, FiniteSets

VARIABLES re, input, start, answer

vars == <<re, input, start, answer>>

\* Byte offset of the boundary after the first j runes of text.
ByteOffset(text, j) ==
    LET RECURSIVE Sum(_)
        Sum(k) == IF k = 0 THEN 0 ELSE RuneWidth(text[k]) + Sum(k - 1)
    IN Sum(j)

\* The epsilon closure of a set of instructions at byte position pos.
EpsStep(prog, S, pos, end) ==
    S \cup {At(prog, i).next : i \in {i \in S : At(prog, i).kind \in {START, NOP, BRA, EBRA}}}
      \cup {At(prog, i).next : i \in {i \in S : At(prog, i).kind = BOT /\ pos = 0}}
      \cup {At(prog, i).next : i \in {i \in S : At(prog, i).kind = EOT /\ pos = end}}
      \cup UNION {{At(prog, i).next, At(prog, i).left} : i \in {i \in S : At(prog, i).kind = ALT}}

RECURSIVE Closure(_, _, _, _)
Closure(prog, S, pos, end) ==
    LET T == EpsStep(prog, S, pos, end)
    IN IF T = S THEN S ELSE Closure(prog, T, pos, end)

\* The instructions that can follow S when rune c is consumed.
Accepts(ins, c) ==
    \/ ins.kind = CHAR /\ ins.char = c
    \/ ins.kind = CHARCLASS /\ matches(ins, c)
    \/ ins.kind = ANY
    \/ ins.kind = NOTNL /\ c # NL

Consume(prog, S, c) == {At(prog, i).next : i \in {i \in S : Accepts(At(prog, i), c)}}

\* The rune counts j >= k at which a run started at rune k, with the
\* closed state set S at rune k, can reach END.
RECURSIVE EndsFrom(_, _, _, _)
EndsFrom(prog, text, k, S) ==
    (IF \E i \in S : At(prog, i).kind = END THEN {k} ELSE {})
    \cup (IF k < Len(text) /\ S # {}
          THEN EndsFrom(prog, text, k + 1,
                        Closure(prog, Consume(prog, S, text[k + 1]),
                                ByteOffset(text, k + 1), ByteOffset(text, Len(text))))
          ELSE {})

Ends(prog, text, k) ==
    EndsFrom(prog, text, k,
             Closure(prog, {At(prog, 0).next}, ByteOffset(text, k),
                     ByteOffset(text, Len(text))))

\* The leftmost-longest match as <<start, end>> byte offsets, or <<>>.
LeftmostLongest(prog, text, from) ==
    LET starts == {k \in 0..Len(text) : ByteOffset(text, k) >= from /\ Ends(prog, text, k) # {}}
        k0 == CHOOSE k \in starts : \A k2 \in starts : k <= k2
        e0 == CHOOSE e \in Ends(prog, text, k0) : \A e2 \in Ends(prog, text, k0) : e >= e2
    IN IF starts = {} THEN <<>> ELSE <<ByteOffset(text, k0), ByteOffset(text, e0)>>

\* The answer before and after the call returns.
Pending == [done |-> FALSE, span |-> <<>>]
Answered(span) == [done |-> TRUE, span |-> span]

Init == answer = Pending

Answer == /\ answer = Pending
          /\ answer' = Answered(LeftmostLongest(re.inst, input, start))
          /\ UNCHANGED <<re, input, start>>

Spec == Init /\ [][Answer]_vars /\ WF_vars(Answer)
=============================================================================
