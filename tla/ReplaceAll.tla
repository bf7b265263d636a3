------------------------------ MODULE ReplaceAll ------------------------------
(***************************************************************************)
(* ReplaceAllStringFunc(src, repl) of src/pkg/regexp/regexp.go, the loop *)
(* under ReplaceAllString (and, on byte slices, ReplaceAllFunc and         *)
(* ReplaceAll).  The output buffer is a sequence of pieces: a copy of      *)
(* src[from:to] or repl applied to the match src[from:to]; what repl       *)
(* returns is left out.                                                    *)
(***************************************************************************)
EXTENDS Scan

CONSTANTS
    Programs,   \* compiled programs without a literal prefix
    Texts       \* texts, as sequences of code points

VARIABLES
    lastMatchEnd,   \* end position of the most recent match
    searchPos,      \* position where the next match is looked for
    a,              \* doExecute's result
    buf,            \* the bytes.Buffer, as pieces
    rpc             \* "loop", "executed" or "returned"

vars == <<re, input, lastMatchEnd, searchPos, a, buf, rpc>>

Copy(from, to) == [kind |-> "copy", span |-> <<from, to>>]
Repl(span) == [kind |-> "repl", span |-> span]

Init == /\ re \in Programs
        /\ input \in Texts
        /\ lastMatchEnd = 0
        /\ searchPos = 0
        /\ a = <<>>
        /\ buf = <<>>
        /\ rpc = "loop"

\* The loop ends (searchPos > len(src), or break): the unmatched bytes
\* after the last match are copied and buf.String() returned.
Return == /\ buf' = Append(buf, Copy(lastMatchEnd, end))
          /\ rpc' = "returned"
          /\ UNCHANGED <<re, input, lastMatchEnd, searchPos, a>>

LoopExit == rpc = "loop" /\ searchPos > end /\ Return

\* a := re.doExecute(src, nil, searchPos).
Execute == /\ rpc = "loop"
           /\ searchPos <= end
           /\ a' = doExecute(searchPos)
           /\ rpc' = "executed"
           /\ UNCHANGED <<re, input, lastMatchEnd, searchPos, buf>>

NoMatch == rpc = "executed" /\ a = <<>> /\ Return

\* Mutant: the clause for the end of the input is missing.
advanceNoEnd(p, m) ==
    IF p + WidthAt(p) > m[2] THEN p + WidthAt(p) ELSE m[2]

\* The new searchPos: always at least one character past searchPos.
advance(p, m) ==
    CASE p + WidthAt(p) > m[2] -> p + WidthAt(p)
      [] p + 1 > m[2]          -> p + 1
      [] OTHER                 -> m[2]

\* Mutant: an empty match right after a match is replaced too.
replacedAlways(m, last) == TRUE

\* The replacement is written unless the match is empty, starts after 0
\* and starts where the last match ended.
replaced(m, last) == m[2] > last \/ m[1] = 0

\* Mutant: lastMatchEnd is not moved to the match's end.
FoundKeepLast == /\ rpc = "executed"
                 /\ a # <<>>
                 /\ buf' = buf \o <<Copy(lastMatchEnd, a[1])>>
                               \o (IF replaced(a, lastMatchEnd) THEN <<Repl(a)>> ELSE <<>>)
                 /\ searchPos' = advance(searchPos, a)
                 /\ rpc' = "loop"
                 /\ UNCHANGED <<re, input, lastMatchEnd, a>>

\* A match: copy src[lastMatchEnd:a[0]], write repl(src[a[0]:a[1]]) if
\* replaced, and advance.
Found == /\ rpc = "executed"
         /\ a # <<>>
         /\ buf' = buf \o <<Copy(lastMatchEnd, a[1])>>
                       \o (IF replaced(a, lastMatchEnd) THEN <<Repl(a)>> ELSE <<>>)
         /\ lastMatchEnd' = a[2]
         /\ searchPos' = advance(searchPos, a)
         /\ rpc' = "loop"
         /\ UNCHANGED <<re, input, a>>

Done == rpc = "returned" /\ UNCHANGED vars

Next == LoopExit \/ Execute \/ NoMatch \/ Found \/ Done

=============================================================================
