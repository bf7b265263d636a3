----------------------------- MODULE TestingExec -----------------------------
(***************************************************************************)
(* doExecute of src/pkg/testing/regexp.go, one call, step by step.  Unlike *)
(* package regexp's it has no arena: a match vector is a []int made by     *)
(* make and shared by reference, so the model keeps the slices in a heap   *)
(* (slice ids 1..Len(heap)) and a state holds an id.  Epsilon steps (BOT,  *)
(* EOT, BRA, EBRA, ALT) are taken while the current list s[in] is walked,  *)
(* appending to the list being walked; addState drops a state only when   *)
(* the same instruction is already active with an earlier start.           *)
(***************************************************************************)
EXTENDS RegexpInstr, FiniteSets, SequencesExt

CONSTANTS
    Programs,   \* compiled regexps (CompileRegexp results without error)
    Texts,      \* input texts, sequences of code points
    MaxList     \* bound on the states a list may hold (see ListBounded)

VARIABLES
    re, input,      \* the receiver and the text; every caller passes pos 0
    pc,             \* where doExecute is
    pos,
    cur, nxt,       \* s[in] and s[out]: sequences of [inst, match]
    i,              \* the index of the for loop over s[in]
    c, width,       \* the rune at pos and its charwidth
    final, found,
    heap,           \* the match slices made so far
    result          \* the returned slice (<<>> for nil)

vars == <<re, input, pc, pos, cur, nxt, i, c, width, final, found, heap, result>>

NoState == [inst |-> Nil, match |-> 0]

ByteOff(k) == LET RECURSIVE Sum(_)
                  Sum(j) == IF j = 0 THEN 0 ELSE RuneWidth(input[j]) + Sum(j - 1)
              IN Sum(k)

end == ByteOff(Len(input))

DecodeAt(p) == input[CHOOSE k \in DOMAIN input : ByteOff(k - 1) = p]

Ins(k) == At(re.inst, k)

\* match[j] of slice id v, with the code's 0-based j.
M(h, v, j) == h[v][j + 1]

\* Mutant: every state is appended, active or not.
addStateAlways(s, k, v, h) == Append(s, [inst |-> k, match |-> v])

\* addState: unless the instruction is already active with an earlier
\* start (match[0]), append [inst, match]; the slice is shared, not copied.
addState(s, k, v, h) ==
    IF \E j \in DOMAIN s : s[j].inst = k /\ M(h, s[j].match, 0) < M(h, v, 0)
    THEN s
    ELSE Append(s, [inst |-> k, match |-> v])

Consumes(ins, r) ==
    \/ ins.kind = CHAR /\ r = ins.char
    \/ ins.kind = CHARCLASS /\ matches(ins, r)
    \/ ins.kind \in {ANY, NOTNL} /\ r # endOfFile /\ (ins.kind = NOTNL => r # NL)

-----------------------------------------------------------------------------

Init == /\ re \in Programs
        /\ input \in Texts
        /\ pc = "loop"
        /\ pos = 0
        /\ cur = <<>> /\ nxt = <<>> /\ i = 1
        /\ c = endOfFile /\ width = 1
        /\ final = NoState /\ found = FALSE
        /\ heap = <<>>
        /\ result = <<>>

\* Mutant: the new slice has 2*nbra entries, one pair short.
PrimeShort == /\ pc = "loop" /\ pos <= end /\ ~found
              /\ LET v  == Len(heap) + 1
                     h1 == Append(heap, [j \in 1..2 * re.nbra |-> IF j = 1 THEN pos ELSE -1])
                 IN /\ heap' = h1
                    /\ nxt' = addState(nxt, Ins(0).next, v, h1)
              /\ pc' = "primed"
              /\ UNCHANGED <<re, input, pos, cur, i, c, width, final, found, result>>

\* No match seen yet: a new slice of -1s with match[0] = pos primes the pump.
Prime == /\ pc = "loop" /\ pos <= end /\ ~found
         /\ LET v  == Len(heap) + 1
                h1 == Append(heap, [j \in 1..2 * (re.nbra + 1) |-> IF j = 1 THEN pos ELSE -1])
            IN /\ heap' = h1
               /\ nxt' = addState(nxt, Ins(0).next, v, h1)
         /\ pc' = "primed"
         /\ UNCHANGED <<re, input, pos, cur, i, c, width, final, found, result>>

\* Swap the lists and clear s[out]; stop when s[in] is empty, else decode
\* the rune at pos (endOfFile with charwidth 1 at the end).
Swap == /\ \/ pc = "primed"
           \/ pc = "loop" /\ pos <= end /\ found
        /\ cur' = nxt
        /\ nxt' = <<>>
        /\ IF nxt = <<>>
           THEN /\ pc' = "done"
                /\ UNCHANGED <<i, c, width>>
           ELSE /\ c' = IF pos < end THEN DecodeAt(pos) ELSE endOfFile
                /\ width' = IF pos < end THEN RuneWidth(DecodeAt(pos)) ELSE 1
                /\ i' = 1
                /\ pc' = "step"
        /\ UNCHANGED <<re, input, pos, final, found, heap, result>>

\* The state the walk of s[in] is at, and its instruction.
St == cur[i]
StIns == Ins(cur[i].inst)

\* BOT at pos 0 and EOT at end: its successor joins s[in].
Follow == /\ pc = "step" /\ i <= Len(cur)
          /\ \/ StIns.kind = BOT /\ pos = 0
             \/ StIns.kind = EOT /\ pos = end
          /\ cur' = addState(cur, StIns.next, St.match, heap)
          /\ i' = i + 1
          /\ UNCHANGED <<re, input, pc, pos, nxt, c, width, final, found, heap, result>>

\* BRA n and EBRA n write pos into slot 2n or 2n+1 of the state's slice,
\* seen by every state sharing it; the successor joins s[in].
Mark == /\ pc = "step" /\ i <= Len(cur)
        /\ StIns.kind \in {BRA, EBRA}
        /\ LET slot == IF StIns.kind = BRA THEN 2 * StIns.n ELSE 2 * StIns.n + 1
               h1   == [heap EXCEPT ![St.match][slot + 1] = pos]
           IN /\ heap' = h1
              /\ cur' = addState(cur, StIns.next, St.match, h1)
        /\ i' = i + 1
        /\ UNCHANGED <<re, input, pc, pos, nxt, c, width, final, found, result>>

\* Mutant: both branches share the slice.
ForkShared == /\ pc = "step" /\ i <= Len(cur)
              /\ StIns.kind = ALT
              /\ cur' = addState(addState(cur, StIns.left, St.match, heap),
                                  StIns.next, St.match, heap)
              /\ i' = i + 1
              /\ UNCHANGED <<re, input, pc, pos, nxt, c, width, final, found, heap, result>>

\* ALT: the left branch shares the slice, the other gets a copy.
Fork == /\ pc = "step" /\ i <= Len(cur)
        /\ StIns.kind = ALT
        /\ LET cur1 == addState(cur, StIns.left, St.match, heap)
               v    == Len(heap) + 1
               h1   == Append(heap, heap[St.match])
           IN /\ heap' = h1
              /\ cur' = addState(cur1, StIns.next, v, h1)
        /\ i' = i + 1
        /\ UNCHANGED <<re, input, pc, pos, nxt, c, width, final, found, result>>

\* A consuming instruction accepts c: its successor goes to s[out].
Advance == /\ pc = "step" /\ i <= Len(cur)
           /\ Consumes(StIns, c)
           /\ nxt' = addState(nxt, StIns.next, St.match, heap)
           /\ i' = i + 1
           /\ UNCHANGED <<re, input, pc, pos, cur, c, width, final, found, heap, result>>

\* Nothing to do: BOT away from 0, EOT away from end, a failing test.
Pass == /\ pc = "step" /\ i <= Len(cur)
        /\ \/ StIns.kind = BOT /\ pos # 0
           \/ StIns.kind = EOT /\ pos # end
           \/ StIns.kind \in {CHAR, CHARCLASS, ANY, NOTNL} /\ ~Consumes(StIns, c)
        /\ i' = i + 1
        /\ UNCHANGED <<re, input, pc, pos, cur, nxt, c, width, final, found, heap, result>>

\* Mutant: the "longest" clause is missing.
AcceptFirst == /\ pc = "step" /\ i <= Len(cur)
               /\ StIns.kind = END
               /\ IF ~found \/ M(heap, St.match, 0) < M(heap, final.match, 0)
                  THEN /\ final' = St
                       /\ heap' = [heap EXCEPT ![St.match][2] = pos]
                  ELSE UNCHANGED <<final, heap>>
               /\ found' = TRUE
               /\ i' = i + 1
               /\ UNCHANGED <<re, input, pc, pos, cur, nxt, c, width, result>>

\* END: leftmost-longest choice; final shares the state's slice and its
\* match[1] is set to pos.
Accept == /\ pc = "step" /\ i <= Len(cur)
          /\ StIns.kind = END
          /\ LET better == \/ ~found
                           \/ M(heap, St.match, 0) < M(heap, final.match, 0)
                           \/ /\ M(heap, St.match, 0) = M(heap, final.match, 0)
                              /\ pos > M(heap, final.match, 1)
             IN IF better
                THEN /\ final' = St
                     /\ heap' = [heap EXCEPT ![St.match][2] = pos]
                ELSE UNCHANGED <<final, heap>>
          /\ found' = TRUE
          /\ i' = i + 1
          /\ UNCHANGED <<re, input, pc, pos, cur, nxt, c, width, result>>

\* The walk of s[in] is over: pos += charwidth, back to the loop head.
EndStep == /\ pc = "step" /\ i > Len(cur)
           /\ pos' = pos + width
           /\ pc' = "loop"
           /\ UNCHANGED <<re, input, cur, nxt, i, c, width, final, found, heap, result>>

Exit == /\ pc = "loop" /\ pos > end
        /\ pc' = "done"
        /\ UNCHANGED <<re, input, pos, cur, nxt, i, c, width, final, found, heap, result>>

\* return final.match: nil when no END was reached.
Finish == /\ pc = "done"
          /\ result' = IF final.match = 0 THEN <<>> ELSE heap[final.match]
          /\ pc' = "returned"
          /\ UNCHANGED <<re, input, pos, cur, nxt, i, c, width, final, found, heap>>

Done == pc = "returned" /\ UNCHANGED vars

Next == \/ Prime \/ Swap \/ Follow \/ Mark \/ Fork \/ Advance \/ Pass \/ Accept
        \/ EndStep \/ Exit \/ Finish \/ Done

\* Only safety is checked of this copy: a nullable loop keeps the walk of
\* s[in] going, which ListBounded catches.
Spec == Init /\ [][Next]_vars

-----------------------------------------------------------------------------
(* Properties *)

TypeOK ==
    /\ pc \in {"loop", "primed", "step", "done", "returned"}
    /\ pos \in 0..end + 1
    /\ \A st \in ToSet(cur) \cup ToSet(nxt) \cup {final} :
          st = NoState \/ (st.inst \in 0..Len(re.inst) - 1 /\ st.match \in DOMAIN heap)
    /\ \A v \in DOMAIN heap : Len(heap[v]) = 2 * (re.nbra + 1)

\* The walk of s[in] ends: the list it appends to while walking it never
\* grows past MaxList states.  Each state of a step is one instruction
\* reached from one priming, so a list of a step that ends is bounded
\* by the program length times the number of primings; MaxList is set
\* above that.
ListBounded == Len(cur) <= MaxList /\ Len(nxt) <= MaxList

Match == INSTANCE RegexpMatch
            WITH start <- 0,
                 answer <- [done |-> pc = "returned",
                            span |-> IF pc = "returned" /\ result # <<>>
                                     THEN <<result[1], result[2]>> ELSE <<>>]

\* ExecuteString's comment: the result is the leftmost-longest match, the
\* same answer as package regexp's (RegexpMatch).
TestingRefinesMatch == Match!Init /\ [][Match!Answer]_Match!vars

\* Every group of a returned match is unset or inside the match: the
\* BRA/EBRA writes into slices shared by several states never leave a
\* group half-recorded or outside the match.
CapturesNested ==
    pc = "returned" /\ result # <<>> =>
        \A g \in 1..re.nbra :
            LET a == result[2 * g + 1]
                b == result[2 * g + 2]
            IN /\ (a = -1) = (b = -1)
               /\ a # -1 => result[1] <= a /\ a <= b /\ b <= result[2]

=============================================================================
