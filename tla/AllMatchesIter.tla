---------------------------- MODULE AllMatchesIter ----------------------------
(***************************************************************************)
(* AllMatchesStringIter(s, n) (and AllMatchesIter on byte slices) of      *)
(* src/pkg/regexp/regexp.go: a goroutine runs allMatches with a deliver   *)
(* that sends each match on a channel of capacity ChanCap (10 in the      *)
(* code) and closes the channel when allMatches returns; the caller       *)
(* ranges over the channel.  The goroutine's allMatches steps are those   *)
(* of AllMatches, with its result slice replaced by what the caller has   *)
(* received followed by what the channel holds (so deliver appends to     *)
(* that slice only through Send).                                          *)
(***************************************************************************)
EXTENDS Scan

CONSTANTS
    Programs, Texts, NArgs,
    ChanCap,        \* the capacity given to make(chan string, 10)
    MayAbandon      \* whether the caller may stop ranging early

VARIABLES
    nArg, n, pos, i, prevMatchEnd, matches, pc,  \* the goroutine's allMatches
    chan,       \* the values buffered in c
    closed,     \* close(c) has run
    received,   \* the matches the caller has received
    cpc         \* the caller: "recv", "done" (range ended) or "abandoned"

pvars == <<nArg, n, pos, i, prevMatchEnd, matches, pc>>
vars == <<re, input, pvars, chan, closed, received, cpc>>

AM == INSTANCE AllMatches WITH result <- received \o chan

Init == /\ chan = <<>>
        /\ closed = FALSE
        /\ received = <<>>
        /\ cpc = "recv"
        /\ AM!Init

\* The goroutine's allMatches steps other than deliver (the wrapper's
\* n <= 0 rule included); channel and caller are untouched.
Producer == /\ UNCHANGED <<chan, closed, received, cpc>>
            /\ AM!Begin \/ AM!LoopExit \/ AM!Execute \/ AM!NoMatch \/ AM!Found

\* Mutant: a select with a default case drops a match the full buffer
\* cannot take.
SendNonBlocking == /\ pc = "deliver"
                   /\ chan' = IF Len(chan) < ChanCap THEN Append(chan, matches) ELSE chan
                   /\ i' = i + 1
                   /\ pc' = "loop"
                   /\ UNCHANGED <<re, input, nArg, n, pos, prevMatchEnd, matches, closed, received, cpc>>


\* deliver: c <- s[start:end], blocking while the buffer is full; then i++.
Send == /\ pc = "deliver"
        /\ Len(chan) < ChanCap
        /\ chan' = Append(chan, matches)
        /\ i' = i + 1
        /\ pc' = "loop"
        /\ UNCHANGED <<re, input, nArg, n, pos, prevMatchEnd, matches, closed, received, cpc>>

\* Mutant: the goroutine returns without close(c).
CloseDropped == /\ pc = "returned"
                /\ ~closed
                /\ UNCHANGED vars

\* close(c) after allMatches returns; the goroutine then exits.
Close == /\ pc = "returned"
         /\ ~closed
         /\ closed' = TRUE
         /\ UNCHANGED <<re, input, pvars, chan, received, cpc>>

\* for m := range c: receive a buffered value.
Receive == /\ cpc = "recv"
           /\ chan # <<>>
           /\ received' = Append(received, Head(chan))
           /\ chan' = Tail(chan)
           /\ UNCHANGED <<re, input, pvars, closed, cpc>>

\* The range loop ends on a closed, drained channel.
RangeEnd == /\ cpc = "recv"
            /\ chan = <<>> /\ closed
            /\ cpc' = "done"
            /\ UNCHANGED <<re, input, pvars, chan, closed, received>>

\* The caller stops ranging (a break out of the loop, a return).
Abandon == /\ MayAbandon
           /\ cpc = "recv"
           /\ cpc' = "abandoned"
           /\ UNCHANGED <<re, input, pvars, chan, closed, received>>

\* The caller has left the range loop and goes on with the rest of the
\* program (left out): after a range that ended both goroutines are
\* finished; after an abandoned one the goroutine may be blocked forever.
Done == \/ closed /\ cpc = "done"
        \/ cpc = "abandoned"
        /\ UNCHANGED vars

Next == Producer \/ Send \/ Close \/ Receive \/ RangeEnd \/ Abandon \/ Done

\* Go runs every runnable goroutine eventually: weak fairness of the
\* goroutine's steps and of the caller's receive and range end.  For the
\* allMatches steps ENABLED is written out (see AllMatches): they can run
\* unless allMatches has returned or is blocked in a send on a full channel.
AllMatchesCanStep ==
    \/ pc \in {"begin", "loop", "executed"}
    \/ pc = "deliver" /\ Len(chan) < ChanCap
FairSpec == /\ Init /\ [][Next]_vars
            /\ <>[]AllMatchesCanStep => []<><<Producer \/ Send>>_vars
            /\ WF_vars(Close)
            /\ WF_vars(Receive \/ RangeEnd)

-----------------------------------------------------------------------------
(* Properties *)

\* A caller that never stops ranging gets to the end of the range: the
\* goroutine eventually closes the channel, however the sends and
\* receives interleave.
RangeEnds == <>[](cpc # "abandoned") => <>(cpc = "done")

\* The goroutine exits (it has run close(c)).
GoroutineExits == <>closed
=============================================================================
