------------------------------ MODULE ExecAgree ------------------------------
(***************************************************************************)
(* A caller holding one pattern and one text runs the matcher of package  *)
(* regexp and then that of package testing on them: re.doExecute(s, nil,  *)
(* pos) on Compile(pattern), then testing's re.ExecuteString(s) on        *)
(* CompileRegexp(pattern).  The first call is RegexpExec step by step,    *)
(* the second TestingExec step by step, on variables of its own; the      *)
(* second starts once the first has returned.                             *)
(***************************************************************************)
EXTENDS RegexpExec, RegexpCompile

CONSTANTS
    Patterns,   \* patterns both packages compile without error
    MaxList     \* bound on testing's state lists (see TestingExec)

VARIABLES
    pattern,
    tre, tpc, tpos, tcur, tnxt, ti, tc, twidth, tfinal, tfound, heap, tresult

tvars == <<tre, tpc, tpos, tcur, tnxt, ti, tc, twidth, tfinal, tfound, heap, tresult>>
allVars == <<pattern, vars, tvars>>

TC == INSTANCE TestingCompile

T == INSTANCE TestingExec
       WITH Programs <- {TC!CompileRegexp(p) : p \in Patterns},
            re <- tre, pc <- tpc, pos <- tpos, cur <- tcur, nxt <- tnxt, i <- ti,
            c <- tc, width <- twidth, final <- tfinal, found <- tfound, result <- tresult

\* Both packages compile the pattern; doExecute gets the text and a
\* starting offset, testing's ExecuteString the same text.
ExecInit == /\ pattern \in Patterns
            /\ re = Compile(pattern)
            /\ tre = TC!CompileRegexp(pattern)
            /\ Init
            /\ T!Init

\* A step of package regexp's doExecute.
RegexpCall == Next /\ UNCHANGED <<pattern, tvars>>

\* testing's ExecuteString(s) is doExecute(s, nil, 0); it runs once the
\* first call has returned.
ExecuteString == pc = "returned" /\ T!Next /\ UNCHANGED <<pattern, vars>>

ExecNext == RegexpCall \/ ExecuteString

\* Fairness as in RegexpExec and TestingExec: a call that has not returned
\* takes its next step (TestingExec's steps all change tpc, tpos or ti).
ExecSpec == /\ ExecInit /\ [][ExecNext]_allVars
            /\ <>[](pc # "returned") => []<><<RegexpCall>>_allVars
            /\ <>[](pc = "returned" /\ tpc # "returned") => []<><<ExecuteString>>_allVars

-----------------------------------------------------------------------------
(* Properties *)

\* The properties of testing's call (see TestingExec).
TestingTypeOK == T!TypeOK
TestingListBounded == T!ListBounded
TestingCapturesNested == T!CapturesNested
TestingRefinesMatch == T!TestingRefinesMatch

\* On a program without a literal prefix, doExecute returns the
\* leftmost-longest match (see ExecRefinesMatch; with a prefix it does not).
UnprefixedRefinesMatch ==
    /\ re.prefix = <<>> => Match!Init
    /\ [][re.prefix = <<>> => Match!Answer]_Match!vars

\* Both calls return.
BothReturn == <>(pc = "returned" /\ tpc = "returned")
=============================================================================
