----------------------------- MODULE RegexpExec -----------------------------
(***************************************************************************)
(* One call re.doExecute(str, bytes, pos) of src/pkg/regexp/regexp.go:     *)
(* the literal-prefix skip, the two-list NFA simulation (addState and the *)
(* per-rune dispatch) and the matchArena of ref-counted match vectors.    *)
(* The input is a sequence of code points; pos, end and every offset are  *)
(* byte offsets, as in the code.  Vector ids 1..count stand for the       *)
(* *matchVec the arena has allocated; 0 is nil.                            *)
(***************************************************************************)
EXTENDS RegexpInstr, FiniteSets, SequencesExt

CONSTANTS
    Programs,   \* compiled regexps (Compile results without error)
    Texts,      \* input texts, sequences of code points
    BlockN,     \* vectors matchArena.new allocates at once (N = 10)
    MaxVec      \* bound on the vectors one call may allocate

ASSUME BlockN \in Nat \ {0} /\ MaxVec \in Nat

VARIABLES
    re, input, start,   \* the call's arguments: receiver, text, pos argument
    pc,                 \* where doExecute is
    pos,                \* pos
    cur, nxt,           \* s[in] and s[out]: sequences of [inst, match]
    i,                  \* the state of s[in] the dispatch loop is at
    c, width,           \* the rune decoded at the top of this iteration
    final, found, prefixed,
    arena,              \* [head, count, ref, link, m]
    result              \* the returned slice (<<>> for nil or empty)

vars == <<re, input, start, pc, pos, cur, nxt, i, c, width, final, found,
          prefixed, arena, result>>

NoState == [inst |-> Nil, match |-> 0]

end == LET RECURSIVE Sum(_)
           Sum(k) == IF k = 0 THEN 0 ELSE RuneWidth(input[k]) + Sum(k - 1)
       IN Sum(Len(input))

ByteOff(k) == LET RECURSIVE Sum(_)
                  Sum(j) == IF j = 0 THEN 0 ELSE RuneWidth(input[j]) + Sum(j - 1)
              IN Sum(k)

\* utf8.DecodeRune(str[pos:end]): the rune starting at byte offset p.
DecodeAt(p) == input[CHOOSE k \in DOMAIN input : ByteOff(k - 1) = p]

VecLen == 2 * (re.nbra + 1)
Ins(k) == At(re.inst, k)
PrefixBytes == LET RECURSIVE Sum(_)
                   Sum(s) == IF s = <<>> THEN 0 ELSE RuneWidth(Head(s)) + Sum(Tail(s))
               IN Sum(re.prefix)

-----------------------------------------------------------------------------
(* matchArena *)

EmptyArena == [head |-> 0, count |-> 0, ref |-> <<>>, link |-> <<>>, m |-> <<>>]

\* new: refill the free list with a block of BlockN when it is empty (the
\* block's vectors are chained so that the last one is the head), pop the
\* head, reset its ref and give it a zeroed slice the first time.
new(ar) ==
    LET k  == ar.count
        a1 == IF ar.head # 0 THEN ar
              ELSE [head  |-> k + BlockN,
                    count |-> k + BlockN,
                    ref   |-> ar.ref \o [j \in 1..BlockN |-> 0],
                    link  |-> ar.link \o [j \in 1..BlockN |-> IF j = 1 THEN ar.head ELSE k + j - 1],
                    m     |-> ar.m \o [j \in 1..BlockN |-> <<>>]]
        v  == a1.head
    IN [v  |-> v,
        ar |-> [a1 EXCEPT !.head = a1.link[v], !.ref[v] = 0,
                          !.m[v] = IF @ = <<>> THEN [j \in 1..VecLen |-> 0] ELSE @]]

free(ar, v) ==
    LET n == ar.ref[v] - 1 IN
    [ar EXCEPT !.ref[v]  = n,
               !.link[v] = IF n = 0 THEN ar.head ELSE @,
               !.head    = IF n = 0 THEN v ELSE @]

\* Mutant: copy hands back the same vector, so ALT's branches share it.
copyShared(ar, v) == [v |-> v, ar |-> ar]

copy(ar, v) == LET n == new(ar) IN [v |-> n.v, ar |-> [n.ar EXCEPT !.m[n.v] = n.ar.m[v]]]

\* Mutant: the noMatch vector starts with ref 0 instead of 1.
noMatchNoRef(ar) ==
    LET n == new(ar)
    IN [v |-> n.v, ar |-> [n.ar EXCEPT !.m[n.v] = [j \in 1..VecLen |-> -1]]]

noMatch(ar) ==
    LET n == new(ar)
    IN [v |-> n.v, ar |-> [n.ar EXCEPT !.m[n.v] = [j \in 1..VecLen |-> -1], !.ref[n.v] = 1]]

\* m[v][j] with the code's 0-based j.
M(ar, v, j) == ar.m[v][j + 1]
SetM(ar, v, j, x) == [ar EXCEPT !.m[v][j + 1] = x]

\* addState: follow BOT, EOT, BRA and EBRA inline, drop a state whose
\* instruction is already in s, else append it (taking a reference) and,
\* for ALT, add both branches with copies of the vector.
RECURSIVE addState(_, _, _, _, _), addStateEbraSlot(_, _, _, _, _)

\* Mutant: EBRA n records pos in slot 2n, the BRA's, instead of 2n+1.
addStateEbraSlot(s, k, v, p, ar) ==
    LET ins == Ins(k) IN
    CASE ins.kind = BOT  -> IF p = 0 THEN addStateEbraSlot(s, ins.next, v, p, ar) ELSE [s |-> s, ar |-> ar]
      [] ins.kind = EOT  -> IF p = end THEN addStateEbraSlot(s, ins.next, v, p, ar) ELSE [s |-> s, ar |-> ar]
      [] ins.kind = BRA  -> addStateEbraSlot(s, ins.next, v, p, SetM(ar, v, 2 * ins.n, p))
      [] ins.kind = EBRA -> addStateEbraSlot(s, ins.next, v, p, SetM(ar, v, 2 * ins.n, p))
      [] OTHER ->
           IF \E j \in DOMAIN s : s[j].inst = k THEN [s |-> s, ar |-> ar]
           ELSE LET s1 == Append(s, [inst |-> k, match |-> v])
                    a1 == [ar EXCEPT !.ref[v] = @ + 1]
                    c1 == copy(a1, v)
                    r1 == addStateEbraSlot(s1, ins.left, c1.v, p, c1.ar)
                    c2 == copy(r1.ar, v)
                IN IF ins.kind = ALT THEN addStateEbraSlot(r1.s, ins.next, c2.v, p, c2.ar)
                                     ELSE [s |-> s1, ar |-> a1]

addState(s, k, v, p, ar) ==
    LET ins == Ins(k) IN
    CASE ins.kind = BOT  -> IF p = 0 THEN addState(s, ins.next, v, p, ar) ELSE [s |-> s, ar |-> ar]
      [] ins.kind = EOT  -> IF p = end THEN addState(s, ins.next, v, p, ar) ELSE [s |-> s, ar |-> ar]
      [] ins.kind = BRA  -> addState(s, ins.next, v, p, SetM(ar, v, 2 * ins.n, p))
      [] ins.kind = EBRA -> addState(s, ins.next, v, p, SetM(ar, v, 2 * ins.n + 1, p))
      [] OTHER ->
           IF \E j \in DOMAIN s : s[j].inst = k THEN [s |-> s, ar |-> ar]
           ELSE LET s1 == Append(s, [inst |-> k, match |-> v])
                    a1 == [ar EXCEPT !.ref[v] = @ + 1]
                    c1 == copy(a1, v)
                    r1 == addState(s1, ins.left, c1.v, p, c1.ar)
                    c2 == copy(r1.ar, v)
                IN IF ins.kind = ALT THEN addState(r1.s, ins.next, c2.v, p, c2.ar)
                                     ELSE [s |-> s1, ar |-> a1]

\* Free the vector of every state of a list (the clear of the old s[in]).
freeAll(ar, s) == FoldLeft(LAMBDA a, st : free(a, st.match), ar, s)

\* The instruction execution starts from when the pump is primed.
Consumes(ins, r) ==
    \/ ins.kind = CHAR /\ r = ins.char
    \/ ins.kind = CHARCLASS /\ matches(ins, r)
    \/ ins.kind \in {ANY, NOTNL} /\ r # endOfFile /\ (ins.kind = NOTNL => r # NL)

-----------------------------------------------------------------------------
(* doExecute *)

Init == /\ re \in Programs
        /\ input \in Texts
        /\ start \in {ByteOff(k) : k \in 0..Len(input)}
        /\ pc = "prefix"
        /\ pos = start
        /\ cur = <<>> /\ nxt = <<>> /\ i = 1
        /\ c = endOfFile /\ width = 1
        /\ final = NoState /\ found = FALSE /\ prefixed = FALSE
        /\ arena = EmptyArena
        /\ result = <<>>

\* The rune counts k at which the literal prefix occurs at or after pos.
PrefixHits == {k \in 0..Len(input) - Len(re.prefix) :
                  ByteOff(k) >= pos /\ SubSeq(input, k + 1, k + Len(re.prefix)) = re.prefix}

\* No literal prefix: go straight to the loop.
NoPrefix == /\ pc = "prefix" /\ re.prefix = <<>>
            /\ pc' = "loop"
            /\ UNCHANGED <<re, input, start, pos, cur, nxt, i, c, width, final, found,
                           prefixed, arena, result>>

\* strings.Index found the prefix: skip past it; the first priming
\* starts at prefixStart.
SkipPrefix == /\ pc = "prefix" /\ re.prefix # <<>> /\ PrefixHits # {}
              /\ pos' = ByteOff(Min(PrefixHits)) + PrefixBytes
              /\ prefixed' = TRUE
              /\ pc' = "loop"
              /\ UNCHANGED <<re, input, start, cur, nxt, i, c, width, final, found, arena, result>>

\* The prefix does not occur: return []int{}.
PrefixAbsent == /\ pc = "prefix" /\ re.prefix # <<>> /\ PrefixHits = {}
                /\ result' = <<>>
                /\ pc' = "returned"
                /\ UNCHANGED <<re, input, start, pos, cur, nxt, i, c, width, final, found,
                               prefixed, arena>>

\* No match seen yet: prime the pump with a noMatch vector, m[0] = pos.
Prime == /\ pc = "loop" /\ pos <= end /\ ~found
         /\ LET nm == noMatch(arena)
                k  == IF prefixed THEN re.prefixStart ELSE Ins(0).next
                r  == addState(nxt, k, nm.v, pos, SetM(nm.ar, nm.v, 0, pos))
            IN /\ nxt' = r.s
               /\ arena' = free(r.ar, nm.v)
         /\ arena'.count <= MaxVec
         /\ prefixed' = FALSE
         /\ pc' = "primed"
         /\ UNCHANGED <<re, input, start, pos, cur, i, c, width, final, found, result>>

\* Mutant: charwidth stays 0 when pos = end.
SwapZeroWidth ==
     /\ \/ pc = "primed"
        \/ pc = "loop" /\ pos <= end /\ found
     /\ cur' = nxt
     /\ nxt' = <<>>
     /\ arena' = freeAll(arena, cur)
     /\ IF found /\ nxt = <<>>
        THEN /\ pc' = "done"
             /\ UNCHANGED <<pos, i, c, width>>
        ELSE /\ c' = IF pos < end THEN DecodeAt(pos) ELSE endOfFile
             /\ width' = IF pos < end THEN RuneWidth(DecodeAt(pos)) ELSE 0
             /\ pos' = pos + width'
             /\ i' = 1
             /\ pc' = "step"
     /\ UNCHANGED <<re, input, start, final, found, prefixed, result>>

\* Swap the lists and clear the new s[out] (freeing its vectors).  Stop
\* when a match was found and nothing is left; else decode the rune at
\* pos (endOfFile, width 1, at the end) and advance pos past it.
Swap == /\ \/ pc = "primed"
           \/ pc = "loop" /\ pos <= end /\ found
        /\ cur' = nxt
        /\ nxt' = <<>>
        /\ arena' = freeAll(arena, cur)
        /\ IF found /\ nxt = <<>>
           THEN /\ pc' = "done"
                /\ UNCHANGED <<pos, i, c, width>>
           ELSE /\ c' = IF pos < end THEN DecodeAt(pos) ELSE endOfFile
                /\ width' = IF pos < end THEN RuneWidth(DecodeAt(pos)) ELSE 1
                /\ pos' = pos + width'
                /\ i' = 1
                /\ pc' = "step"
        /\ UNCHANGED <<re, input, start, final, found, prefixed, result>>

\* Dispatch of a consuming instruction (CHAR, CHARCLASS, ANY, NOTNL)
\* whose test accepts the rune: add its successor to s[out].
Advance == /\ pc = "step" /\ i <= Len(cur)
           /\ Consumes(Ins(cur[i].inst), c)
           /\ LET r == addState(nxt, Ins(cur[i].inst).next, cur[i].match, pos, arena)
              IN /\ nxt' = r.s
                 /\ arena' = r.ar
           /\ arena'.count <= MaxVec
           /\ i' = i + 1
           /\ UNCHANGED <<re, input, start, pc, pos, cur, c, width, final, found,
                          prefixed, result>>

\* Dispatch of any other non-END instruction: the test fails, or the
\* instruction (BOT, EOT, BRA, EBRA, ALT) does nothing here.
Pass == /\ pc = "step" /\ i <= Len(cur)
        /\ Ins(cur[i].inst).kind # END
        /\ ~Consumes(Ins(cur[i].inst), c)
        /\ i' = i + 1
        /\ UNCHANGED <<re, input, start, pc, pos, cur, nxt, c, width, final, found,
                       prefixed, arena, result>>

\* Mutant: final.match.ref++ is missing.
AcceptNoRef ==
    /\ pc = "step" /\ i <= Len(cur)
    /\ Ins(cur[i].inst).kind = END
    /\ LET st     == cur[i]
           better == \/ ~found
                     \/ M(arena, st.match, 0) < M(arena, final.match, 0)
                     \/ /\ M(arena, st.match, 0) = M(arena, final.match, 0)
                        /\ pos - width > M(arena, final.match, 1)
           a1     == IF final.match # 0 THEN free(arena, final.match) ELSE arena
       IN IF better
          THEN /\ final' = st
               /\ arena' = SetM(a1, st.match, 1, pos - width)
          ELSE UNCHANGED <<final, arena>>
    /\ found' = TRUE
    /\ i' = i + 1
    /\ UNCHANGED <<re, input, start, pc, pos, cur, nxt, c, width, prefixed, result>>

\* Mutant: the "longest" clause of the tie-break is missing.
AcceptFirst ==
    /\ pc = "step" /\ i <= Len(cur)
    /\ Ins(cur[i].inst).kind = END
    /\ LET st     == cur[i]
           better == ~found \/ M(arena, st.match, 0) < M(arena, final.match, 0)
           a1     == IF final.match # 0 THEN free(arena, final.match) ELSE arena
       IN IF better
          THEN /\ final' = st
               /\ arena' = SetM([a1 EXCEPT !.ref[st.match] = @ + 1], st.match, 1, pos - width)
          ELSE UNCHANGED <<final, arena>>
    /\ found' = TRUE
    /\ i' = i + 1
    /\ UNCHANGED <<re, input, start, pc, pos, cur, nxt, c, width, prefixed, result>>

\* Mutant: the end is recorded as pos instead of pos - charwidth.
AcceptAtPos ==
    /\ pc = "step" /\ i <= Len(cur)
    /\ Ins(cur[i].inst).kind = END
    /\ LET st     == cur[i]
           better == \/ ~found
                     \/ M(arena, st.match, 0) < M(arena, final.match, 0)
                     \/ /\ M(arena, st.match, 0) = M(arena, final.match, 0)
                        /\ pos > M(arena, final.match, 1)
           a1     == IF final.match # 0 THEN free(arena, final.match) ELSE arena
       IN IF better
          THEN /\ final' = st
               /\ arena' = SetM([a1 EXCEPT !.ref[st.match] = @ + 1], st.match, 1, pos)
          ELSE UNCHANGED <<final, arena>>
    /\ found' = TRUE
    /\ i' = i + 1
    /\ UNCHANGED <<re, input, start, pc, pos, cur, nxt, c, width, prefixed, result>>

\* END: the state becomes final if it is the first match, starts further
\* left, or starts at the same place and ends (at pos - charwidth) later.
Accept == /\ pc = "step" /\ i <= Len(cur)
          /\ Ins(cur[i].inst).kind = END
          /\ LET st     == cur[i]
                 better == \/ ~found
                           \/ M(arena, st.match, 0) < M(arena, final.match, 0)
                           \/ /\ M(arena, st.match, 0) = M(arena, final.match, 0)
                              /\ pos - width > M(arena, final.match, 1)
                 a1     == IF final.match # 0 THEN free(arena, final.match) ELSE arena
             IN IF better
                THEN /\ final' = st
                     /\ arena' = SetM([a1 EXCEPT !.ref[st.match] = @ + 1], st.match, 1, pos - width)
                ELSE UNCHANGED <<final, arena>>
          /\ found' = TRUE
          /\ i' = i + 1
          /\ UNCHANGED <<re, input, start, pc, pos, cur, nxt, c, width, prefixed, result>>

\* The dispatch loop is over: back to the top of the for loop.
EndStep == /\ pc = "step" /\ i > Len(cur)
           /\ pc' = "loop"
           /\ UNCHANGED <<re, input, start, pos, cur, nxt, i, c, width, final, found,
                          prefixed, arena, result>>

\* The for loop's condition pos <= end fails.
Exit == /\ pc = "loop" /\ pos > end
        /\ pc' = "done"
        /\ UNCHANGED <<re, input, start, pos, cur, nxt, i, c, width, final, found,
                       prefixed, arena, result>>

\* Return nil, or final's vector with m[0] backed up by the prefix length.
Finish == /\ pc = "done"
          /\ IF final.match = 0
             THEN /\ result' = <<>>
                  /\ UNCHANGED arena
             ELSE LET a1 == IF re.prefix # <<>>
                            THEN SetM(arena, final.match, 0, M(arena, final.match, 0) - PrefixBytes)
                            ELSE arena
                  IN /\ arena' = a1
                     /\ result' = a1.m[final.match]
          /\ pc' = "returned"
          /\ UNCHANGED <<re, input, start, pos, cur, nxt, i, c, width, final, found, prefixed>>

\* The call has returned; the caller holds the result.
Done == pc = "returned" /\ UNCHANGED vars

Next == \/ NoPrefix \/ SkipPrefix \/ PrefixAbsent
        \/ Prime \/ Swap \/ Advance \/ Pass \/ Accept \/ EndStep \/ Exit \/ Finish
        \/ Done

\* doExecute is a sequential loop that runs to completion once called:
\* weak fairness of its steps.
Spec == Init /\ [][Next]_vars /\ WF_vars(Next)

\* WF_vars(Next) with ENABLED <<Next>>_vars written out as pc # "returned".
\* TLC evaluates ENABLED without caching, which is exponential in the
\* recursion of addState.  The equivalence is what the runs' deadlock check
\* shows: Done, a stutter, is the only step of a returned call, and every
\* other action changes pc, pos or i.
FairSpec == Init /\ [][Next]_vars /\ (<>[](pc # "returned") => []<><<Next>>_vars)

-----------------------------------------------------------------------------
(* Properties *)

TypeOK ==
    /\ pc \in {"prefix", "loop", "primed", "step", "done", "returned"}
    /\ pos \in start..end + 1
    /\ found \in BOOLEAN /\ prefixed \in BOOLEAN
    /\ arena.count \in 0..MaxVec
    /\ arena.head \in 0..arena.count
    /\ \A v \in 1..arena.count : arena.ref[v] \in Nat /\ arena.link[v] \in 0..arena.count
    /\ \A st \in ToSet(cur) \cup ToSet(nxt) \cup {final} :
          st = NoState \/ (st.inst \in 0..Len(re.inst) - 1 /\ st.match \in 1..arena.count)

\* The states and the final candidate that point at vector v.
Holders(v) ==
    Cardinality({j \in DOMAIN cur : cur[j].match = v})
    + Cardinality({j \in DOMAIN nxt : nxt[j].match = v})
    + (IF final.match = v THEN 1 ELSE 0)

\* The free list from its head, cut where it would repeat a vector.
RECURSIVE FreeList(_, _)
FreeList(v, acc) == IF v = 0 \/ Contains(acc, v) THEN acc
                    ELSE FreeList(arena.link[v], Append(acc, v))

\* The arena's discipline (matchArena.new/free/copy/noMatch, addState's
\* match.ref++, the clear of the old list, the ref++ of final): between
\* steps every vector's ref is exactly the number of states and final
\* candidates pointing at it, and the free list is a proper list (not
\* closed into a cycle by a double free) of vectors nothing points at, so
\* new() never hands out a vector that is still in use.
ArenaSound ==
    /\ \A v \in 1..arena.count : arena.ref[v] = Holders(v)
    /\ LET fl == FreeList(arena.head, <<>>)
       IN /\ fl = <<>> \/ arena.link[Last(fl)] = 0
          /\ \A k \in DOMAIN fl : Holders(fl[k]) = 0

\* The reference semantics of RegexpMatch, on this call's arguments.
Match == INSTANCE RegexpMatch
            WITH answer <- [done |-> pc = "returned",
                            span |-> IF pc = "returned" /\ result # <<>>
                                     THEN <<result[1], result[2]>> ELSE <<>>]

IsMatch(s, e) == \E k \in 0..Len(input) :
                    /\ ByteOff(k) = s
                    /\ \E j \in Match!Ends(re.inst, input, k) : ByteOff(j) = e

\* Every candidate the END case records in final is a real match of the
\* program once read the way the return statement reads it (m[0] backed up
\* by the prefix length, m[1] = pos - charwidth): the shared, recycled
\* vector final points at is never overwritten by a later addState.
CandidateIsMatch ==
    final.match # 0 /\ pc # "returned"
        => IsMatch(M(arena, final.match, 0) - PrefixBytes, M(arena, final.match, 1))

\* doExecute's result is the leftmost-longest match (section 4.4), and it
\* is returned: RegexpExec implements RegexpMatch under the mapping of
\* the returned [m[0], m[1]] to the abstract answer.
ExecRefinesMatch == Match!Init /\ [][Match!Answer]_Match!vars

\* Every parenthesized group of a returned match is unset (both -1) or a
\* sub-interval of the whole match: the BRA/EBRA writes of addState into
\* copied vectors never leave a group half-recorded or outside the match.
CapturesNested ==
    pc = "returned" /\ result # <<>> =>
        \A g \in 1..re.nbra :
            LET a == result[2 * g + 1]
                b == result[2 * g + 2]
            IN /\ (a = -1) = (b = -1)
               /\ a # -1 => result[1] <= a /\ a <= b /\ b <= result[2]

\* Every call returns.
Termination == <>(pc = "returned")
=============================================================================
