------------------------------ MODULE AllMatches ------------------------------
(***************************************************************************)
(* AllMatchesString(s, n) and the loop it runs, Regexp.allMatches          *)
(* (src/pkg/regexp/regexp.go).  The loop calls doExecute from an advancing *)
(* byte offset pos, drops an empty match that starts where the previous   *)
(* match ended, and hands each accepted match to deliver, which stores it *)
(* in the result slice.  doExecute is taken from its abstract             *)
(* specification RegexpMatch (the leftmost-longest match at or after pos), *)
(* which RegexpExec refines on programs without a literal prefix.          *)
(* Matches are byte spans <<start, end>>; s[start:end] is left out.        *)
(***************************************************************************)
EXTENDS Scan

CONSTANTS
    Programs,   \* compiled programs without a literal prefix
    Texts,      \* texts, as sequences of code points
    NArgs       \* values of the argument n

VARIABLES
    nArg,           \* the caller's n
    n,              \* n after AllMatchesString replaced n <= 0
    pos,            \* allMatches' pos
    i,              \* allMatches' i (and the wrapper's, which is always equal)
    prevMatchEnd,   \* allMatches' prevMatchEnd
    matches,        \* allMatches' matches, doExecute's result
    pc,             \* "begin", "loop", "executed", "deliver" or "returned"
    result          \* result[0:i]

vars == <<re, input, nArg, n, pos, i, prevMatchEnd, matches, pc, result>>

Init == /\ re \in Programs
        /\ input \in Texts
        /\ nArg \in NArgs
        /\ n = nArg
        /\ pos = 0
        /\ i = 0
        /\ prevMatchEnd = -1
        /\ matches = <<>>
        /\ pc = "begin"
        /\ result = <<>>

\* Mutant: n <= 0 becomes len(s), one short of every match.
BeginShort == /\ pc = "begin"
              /\ n' = IF nArg <= 0 THEN end ELSE nArg
              /\ pc' = "loop"
              /\ UNCHANGED <<re, input, nArg, pos, i, prevMatchEnd, matches, result>>


\* AllMatchesString: if n <= 0 { n = len(s) + 1 }; make the result slice.
Begin == /\ pc = "begin"
         /\ n' = IF nArg <= 0 THEN end + 1 ELSE nArg
         /\ pc' = "loop"
         /\ UNCHANGED <<re, input, nArg, pos, i, prevMatchEnd, matches, result>>

\* The loop condition i < n && pos <= end fails: allMatches returns.
LoopExit == /\ pc = "loop"
            /\ ~(i < n /\ pos <= end)
            /\ pc' = "returned"
            /\ UNCHANGED <<re, input, nArg, n, pos, i, prevMatchEnd, matches, result>>

\* matches := re.doExecute(s, nil, pos).
Execute == /\ pc = "loop"
           /\ i < n /\ pos <= end
           /\ matches' = doExecute(pos)
           /\ pc' = "executed"
           /\ UNCHANGED <<re, input, nArg, n, pos, i, prevMatchEnd, result>>

\* doExecute found nothing: break.
NoMatch == /\ pc = "executed"
           /\ matches = <<>>
           /\ pc' = "returned"
           /\ UNCHANGED <<re, input, nArg, n, pos, i, prevMatchEnd, matches, result>>

\* Mutant: at the end of the input pos is not forced past end.
nextPosStuck(ms, p) ==
    IF ms[2] = p THEN p + WidthAt(p) ELSE ms[2]

\* The new pos after a match: past one rune after an empty match (past end
\* when there is no rune left), else the match's end.
nextPos(ms, p) ==
    IF ms[2] = p
    THEN IF WidthAt(p) > 0 THEN p + WidthAt(p) ELSE end + 1
    ELSE ms[2]

\* Mutant: every match is accepted.
acceptedAlways(ms, p, prev) == TRUE

\* accept: false for an empty match at pos that starts at prevMatchEnd.
accepted(ms, p, prev) == ~(ms[2] = p /\ ms[1] = prev)

\* doExecute found a match: pos and prevMatchEnd advance, and an accepted
\* match goes to deliver.
Found == /\ pc = "executed"
         /\ matches # <<>>
         /\ pos' = nextPos(matches, pos)
         /\ prevMatchEnd' = matches[2]
         /\ pc' = IF accepted(matches, pos, prevMatchEnd) THEN "deliver" ELSE "loop"
         /\ UNCHANGED <<re, input, nArg, n, i, matches, result>>

\* Mutant: deliver does not count the match.
DeliverNoCount == /\ pc = "deliver"
                  /\ result' = Append(result, matches)
                  /\ pc' = "loop"
                  /\ UNCHANGED <<re, input, nArg, n, pos, i, prevMatchEnd, matches>>


\* deliver: result[i] = s[start:end]; i++ (the loop's i++ as well).
Deliver == /\ pc = "deliver"
           /\ result' = Append(result, matches)
           /\ i' = i + 1
           /\ pc' = "loop"
           /\ UNCHANGED <<re, input, nArg, n, pos, prevMatchEnd, matches>>

\* The call has returned result[0:i].
Done == pc = "returned" /\ UNCHANGED vars

Next == Begin \/ LoopExit \/ Execute \/ NoMatch \/ Found \/ Deliver \/ Done

\* The loop runs to completion once called: weak fairness of its steps.
Spec == Init /\ [][Next]_vars /\ WF_vars(Next)

\* Spec with ENABLED <<Next>>_vars written out as pc # "returned", since
\* TLC evaluates doExecute's recursion uncached under ENABLED.  Every
\* action but Done changes pc, and the guards of LoopExit and Execute, and
\* of NoMatch and Found, are complementary, so the two are equal.
FairSpec == Init /\ [][Next]_vars /\ (<>[](pc # "returned") => []<><<Next>>_vars)

-----------------------------------------------------------------------------
(* Properties *)

TypeOK ==
    /\ pc \in {"begin", "loop", "executed", "deliver", "returned"}
    /\ pos \in 0..end + 1 /\ i \in 0..end + 1 /\ i = Len(result)
    /\ prevMatchEnd \in -1..end
    /\ \A k \in DOMAIN result : result[k] \in (0..end) \X (0..end)

\* Rune starts in the text, and the matches that begin there.
Starts == {M!ByteOffset(input, k) : k \in 0..Len(input)}
MatchAt(p) == M!Ends(re.inst, input, RuneIndex(p))
HasMatch(p) == p \in Starts /\ MatchAt(p) # {}
HasNonEmptyMatch(p) ==
    p \in Starts /\ \E e \in MatchAt(p) : M!ByteOffset(input, e) > p

\* The documented rule of AllMatches: an empty match abutting the
\* preceding match is ignored, so no delivered empty match starts where the
\* delivered match before it ended.
NoEmptyAbutting ==
    \A k \in 2..Len(result) :
        result[k][1] = result[k][2] => result[k][1] # result[k - 1][2]

\* The scan skips no match: before the first delivered match and between
\* two delivered ones no match starts, except an empty one where a match
\* ended; after the last one the same holds once the loop has returned
\* without reaching the limit n (which n <= 0 lifts).  Delivered matches
\* are in order and do not overlap.
NoMatchSkipped ==
    LET gapEnd(k) == IF k <= Len(result) THEN result[k][1] ELSE end + 1
        gapStart(k) == IF k = 1 THEN 0 ELSE result[k - 1][2]
        lastGap == pc = "returned" /\ (nArg <= 0 \/ Len(result) < nArg)
    IN \A k \in 1..Len(result) + (IF lastGap THEN 1 ELSE 0) :
         /\ gapStart(k) <= gapEnd(k)
         /\ k > 1 => result[k - 1][1] < gapEnd(k)
         /\ \A p \in Starts :
              /\ (gapStart(k) < p \/ k = 1) /\ p < gapEnd(k) => ~HasMatch(p)
              /\ k > 1 /\ p = gapStart(k) /\ p < gapEnd(k) => ~HasNonEmptyMatch(p)

\* allMatches returns: the scan makes progress on every input, including
\* an empty match at the very end of the input.
Termination == <>(pc = "returned")
=============================================================================
