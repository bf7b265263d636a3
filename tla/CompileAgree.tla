----------------------------- MODULE CompileAgree -----------------------------
(***************************************************************************)
(* regexp.Compile(str), as in CompileCall, and testing.CompileRegexp(str) *)
(* called on the same pattern, in either order.  The package comment of   *)
(* testing/regexp.go calls it a reduced version of package regexp,        *)
(* accepting the same syntax; SameLanguage compares what the two          *)
(* compilers build.                                                        *)
(***************************************************************************)
EXTENDS CompileCall

T == INSTANCE TestingCompile

VARIABLE
    tre         \* testing.CompileRegexp's result, or NoResult before the call

agreeVars == <<pattern, re, called, tre>>

NoResult == [error |-> "uncalled"]

AgreeInit == Init /\ tre = NoResult

\* testing.CompileRegexp.
TestingCompileStep == /\ tre = NoResult
                      /\ tre' = T!CompileRegexp(pattern)
                      /\ UNCHANGED vars

\* The caller holds both results.
AgreeDone == called /\ tre # NoResult /\ UNCHANGED agreeVars

AgreeNext == \/ CompileStep /\ UNCHANGED tre
             \/ TestingCompileStep
             \/ AgreeDone

AgreeSpec == /\ AgreeInit /\ [][AgreeNext]_agreeVars
             /\ WF_agreeVars(CompileStep /\ UNCHANGED tre)
             /\ WF_agreeVars(TestingCompileStep)

-----------------------------------------------------------------------------
(* Properties *)

\* The message testing/regexp.go gives for each error of package regexp.
ErrText(e) ==
    CASE e = NoError                -> T!NoError
      [] e = ErrInternal            -> T!ErrInternal
      [] e = ErrUnmatchedLpar       -> T!ErrUnmatchedLpar
      [] e = ErrUnmatchedRpar       -> T!ErrUnmatchedRpar
      [] e = ErrUnmatchedLbkt       -> T!ErrUnmatchedLbkt
      [] e = ErrUnmatchedRbkt       -> T!ErrUnmatchedRbkt
      [] e = ErrBadRange            -> T!ErrBadRange
      [] e = ErrExtraneousBackslash -> T!ErrExtraneousBackslash
      [] e = ErrBadClosure          -> T!ErrBadClosure
      [] e = ErrBareClosure         -> T!ErrBareClosure
      [] e = ErrBadBackslash        -> T!ErrBadBackslash

\* The two compilers agree: the same pattern fails with the same error
\* (as testing words it), or both compile to programs with the same
\* groups that match the same substrings: from every rune k of every
\* text the runs reach END after the same runes.  The parsers, the class
\* ranges and eliminateNops of both files are compared by it.
SameLanguage ==
    called /\ tre # NoResult =>
      /\ tre.error = ErrText(re.error)
      /\ re.error = NoError =>
           /\ tre.nbra = re.nbra
           /\ \A text \in Texts : \A k \in 0..Len(text) :
                Ref!Ends(re.inst, text, k) = Ref!Ends(tre.inst, text, k)
=============================================================================
