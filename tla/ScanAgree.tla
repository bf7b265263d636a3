------------------------------ MODULE ScanAgree ------------------------------
(***************************************************************************)
(* AllMatchesString(s, n) and ReplaceAllStringFunc(s, repl) called on the *)
(* same Regexp and string, their steps interleaved.  The two loops of      *)
(* src/pkg/regexp/regexp.go each decide on their own which empty matches  *)
(* to drop and how far to advance; AllMatches' comment and ReplaceAll's   *)
(* both say an empty match after a match is ignored.  Once both have     *)
(* returned, the caller ranges over AllMatchesStringIter(s, n) with the    *)
(* same n: the goroutine and channel of AllMatchesIter, on variables of    *)
(* their own.                                                              *)
(***************************************************************************)
EXTENDS AllMatches

CONSTANTS ChanCap, MayAbandon

VARIABLES lastMatchEnd, searchPos, a, buf, rpc,
          iNArg, iN, iPos, iI, iPrev, iMatches, ipc, chan, closed, received, cpc

Rp == INSTANCE ReplaceAll

It == INSTANCE AllMatchesIter
        WITH nArg <- iNArg, n <- iN, pos <- iPos, i <- iI, prevMatchEnd <- iPrev,
             matches <- iMatches, pc <- ipc

rvars == <<lastMatchEnd, searchPos, a, buf, rpc>>
ivars == <<iNArg, iN, iPos, iI, iPrev, iMatches, ipc, chan, closed, received, cpc>>
scanVars == <<vars, rvars, ivars>>

ScanInit == Init /\ Rp!Init /\ It!Init /\ iNArg = nArg

\* A step of the iterator's goroutine or of its caller, after the first two
\* calls have returned.
IterStep(A) == pc = "returned" /\ rpc = "returned" /\ A /\ UNCHANGED <<vars, rvars>>

ScanNext == \/ Next /\ UNCHANGED <<rvars, ivars>>
            \/ Rp!Next /\ UNCHANGED <<vars, ivars>>
            \/ IterStep(It!Next)

\* Both calls run to completion once called.  ENABLED is written out as
\* the call not having returned (see AllMatches; ReplaceAll's actions
\* likewise all change rpc but Done).
\* The iterator's goroutine and caller are fair as in AllMatchesIter.
ScanSpec == /\ ScanInit /\ [][ScanNext]_scanVars
            /\ <>[](pc # "returned") => []<><<Next /\ UNCHANGED <<rvars, ivars>>>>_scanVars
            /\ <>[](rpc # "returned") => []<><<Rp!Next /\ UNCHANGED <<vars, ivars>>>>_scanVars
            /\ <>[](pc = "returned" /\ rpc = "returned" /\ It!AllMatchesCanStep)
                 => []<><<IterStep(It!Producer \/ It!Send)>>_scanVars
            /\ WF_scanVars(IterStep(It!Close))
            /\ WF_scanVars(IterStep(It!Receive \/ It!RangeEnd))

-----------------------------------------------------------------------------
(* Properties *)

\* The matches repl is applied to.
Replaced == LET r == SelectSeq(buf, LAMBDA piece : piece.kind = "repl")
            IN [k \in DOMAIN r |-> r[k].span]

\* With no limit, ReplaceAllStringFunc applies repl to exactly the matches
\* AllMatchesString returns, in the same order: the two loops' rules for
\* empty matches and for advancing past a match agree.
ReplacesAllMatches ==
    pc = "returned" /\ rpc = "returned" /\ nArg <= 0 => Replaced = result

\* The output is src with matches replaced: the copied pieces and the
\* arguments of repl, in order, cover src from 0 to len(src) without a gap
\* or an overlap, so every unmatched byte is copied exactly once.
CopiesUnmatched ==
    rpc = "returned" =>
      /\ buf[1].span[1] = 0
      /\ buf[Len(buf)].span[2] = end
      /\ \A k \in 1..Len(buf) - 1 : buf[k].span[2] = buf[k + 1].span[1]

\* "Advance past this match; always advance at least one character":
\* every match ReplaceAllStringFunc handles moves searchPos forward, also
\* an empty match at the end of the input, where the rune width is 0.
AlwaysAdvances == [][Rp!Found => searchPos' > searchPos]_scanVars

\* The iterator hands its caller what AllMatchesString returns on the same
\* string and n: however the goroutine's blocking sends, the caller's
\* receives and close(c) interleave, and though the buffer fills, every
\* value received so far is the next match of AllMatchesString's result,
\* and a range that has ended has received all of it.  The two calls run
\* allMatches on separate variables; the channel is what could lose,
\* duplicate or reorder a match.
IterDeliversAllMatches ==
    /\ Len(received) <= Len(result)
    /\ received = SubSeq(result, 1, Len(received))
    /\ cpc = "done" => received = result

\* A caller that keeps ranging reaches the end (see AllMatchesIter).
RangeEnds == It!RangeEnds
=============================================================================
