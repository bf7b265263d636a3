----------------------------- MODULE MCLibrary -----------------------------
(***************************************************************************)
(* A caller of the library packages that does one of four things: call   *)
(* one function of bytes or json (Bytes, Json), run a session on a zero    *)
(* bytes.Buffer (Buffer), compile one pattern with both regexp.Compile     *)
(* and testing.CompileRegexp (CompileAgree), or read a gob stream with a   *)
(* gob.Decoder (Gob).  Once one kind of step is                            *)
(* taken the others are not, so each behaviour is one of the separate      *)
(* callers' and their states add up rather than multiply.                  *)
(***************************************************************************)
EXTENDS Json, MCBytes, MCGob

CONSTANTS Bootstrap, MinRead, UTFMax, MaxBytes, MaxChunk, MaxInit, MaxInitCap,
          ReadFromAfterPartialRead

VARIABLES b, nextId, bufOut, pc, pattern, re, called, tre

BUF == INSTANCE Buffer WITH out <- bufOut

bufVars == <<b, nextId, bufOut, pc>>
compileVars == <<pattern, re, called, tre>>

PAT == INSTANCE MCPatterns

\* Every pattern of up to four symbols, and the texts the two compilers'
\* programs are compared on: up to two runes over a, b and newline, and
\* three over a and b.
CompileTexts == UNION {[1..n -> {97, 98, PAT!NL}] : n \in 0..2} \cup [1..3 -> {97, 98}]

CA == INSTANCE CompileAgree WITH Patterns <- PAT!AllPatterns, Texts <- CompileTexts

\* The pattern before the caller has chosen one: not a sequence of runes.
NoPattern == <<-1>>

CompileUntouched == pattern = NoPattern /\ re = CA!NoRegexp /\ called = FALSE /\ tre = CA!NoResult

\* The Buffer is the zero Buffer and nothing has been done with it.
BufferUntouched == b = BUF!NilBuffer /\ nextId = 0 /\ bufOut = BUF!NoOut /\ pc = "idle"

\* No gob.Decoder has been made.
GobUntouched == rd = NoReader

LibInit == Init /\ BUF!Init /\ CompileUntouched /\ GobInit

\* The caller picks the pattern it compiles.
ChoosePattern == /\ Idle /\ BufferUntouched /\ GobUntouched /\ pattern = NoPattern
                 /\ pattern' \in PAT!AllPatterns
                 /\ UNCHANGED <<call, out, bufVars, re, called, tre, gobVars>>

LibNext ==
    \/ BufferUntouched /\ CompileUntouched /\ GobUntouched /\ JsonNext
       /\ UNCHANGED <<bufVars, compileVars, gobVars>>
    \/ Idle /\ CompileUntouched /\ GobUntouched /\ BUF!Next /\ UNCHANGED <<call, out, compileVars, gobVars>>
    \/ ChoosePattern
    \/ pattern # NoPattern /\ CA!AgreeNext /\ UNCHANGED <<call, out, bufVars, gobVars>>
    \/ Idle /\ BufferUntouched /\ CompileUntouched /\ GobNext /\ UNCHANGED <<call, out, bufVars, compileVars>>

LibSpec == LibInit /\ [][LibNext]_<<call, out, bufVars, compileVars, gobVars>>

\* Objects with members, longer than five bytes: one member, a member with
\* a missing colon, a non-string key or a missing value, and two members
\* joined by a comma, a space or nothing, with a trailing comma, or nested
\* in an array.
Member == <<34, 34, 58, 49>>              \* "":1
ArrMember == <<34, 34, 58, 91, 93>>       \* "":[]
BadMembers == {<<34, 34, 49>>, <<49, 58, 49>>, <<34, 34, 58>>, <<34, 34, 58, 49, 58, 49>>}
Obj(m) == <<123>> \o m \o <<125>>
ObjectTexts ==
    {Obj(m) : m \in {Member, ArrMember} \cup BadMembers}
    \cup {Obj(m1 \o sep \o m2) : m1, m2 \in {Member, ArrMember}, sep \in {<<44>>, <<32>>, <<>>}}
    \cup {Obj(Member \o <<44>>), <<91>> \o Obj(Member) \o <<44, 49, 93>>,
          Obj(<<34, 34, 58>> \o Obj(Member))}

\* Parse's texts: every text of up to five bytes over the punctuation, a
\* quote and a digit, and of up to four over these and a space, a minus, a
\* backslash, an invalid byte and a letter; the three literals; and the
\* objects of ObjectTexts.
JsonCore == {91, 93, 123, 125, 44, 58, 34, 49}
JsonFull == JsonCore \cup {32, 45, 92, 128, 116}
UptoOver(k, A) == UNION {[1..j -> A] : j \in 0..k}
MCJsonTexts ==
    UptoOver(5, JsonCore) \cup UptoOver(4, JsonFull)
    \cup {<<116, 114, 117, 101>>, <<91, 110, 117, 108, 108, 93>>, <<102, 97, 108, 115, 101>>}
    \cup ObjectTexts

\* Quote's strings: up to two of ASCII, '"', '\\', control bytes, runes of
\* two, three and four bytes, and an invalid byte.
QuoteRunes == {<<97>>, <<34>>, <<92>>, <<10>>, <<8>>, <<1>>, <<195, 169>>,
               <<226, 130, 172>>, <<240, 159, 152, 128>>, <<128>>}
MCQuoteTexts == {<<>>} \cup QuoteRunes \cup {x \o y : x, y \in QuoteRunes}

\* Unquote's strings: up to two lexicon entries or bad escapes between
\* quotes, and strings its first check refuses.
BodyPieces == DOMAIN Lexicon \cup {<<92, 120>>, <<1>>, <<92, 117, 122>>}
MCQuotedTexts ==
    {<<34>> \o x \o <<34>> : x \in {<<>>} \cup BodyPieces \cup {x \o y : x, y \in BodyPieces}}
    \cup {<<>>, <<34>>, <<34, 92, 34>>, <<97, 34>>}
\* Compile's program is a well-formed instruction graph (CompileCall's
\* WellFormed).
WellFormed == CA!WellFormed

\* Compile's literal prefix is mandatory, as doExecute's skip assumes: a
\* run from rune k reaches END exactly when the prefix occurs at k and a
\* run from prefixStart after it does (CompileCall's PrefixSound).
PrefixSound == CA!PrefixSound

\* testing.CompileRegexp and regexp.Compile report the same error or build
\* programs with the same groups that match alike (CompileAgree's
\* SameLanguage).
SameLanguage == CA!SameLanguage

\* b.buf and b.off stay a slice of their array with the read offset in it.
BufferTypeOK == BUF!TypeOK

\* The Buffer is the byte queue its comments describe (Buffer's
\* BufferRefinesQueue): no write, read, resize or ReadFrom growth loses,
\* duplicates or reorders a byte.
BufferRefinesQueue == BUF!BufferRefinesQueue

\* No call of the library panics on the inputs it is given: Parse returns
\* ok = false on a bad text (ParseReturns), Add and AddByte return a slice
\* of lens+lent bytes however long s is, and Decode returns an error on
\* any bytes (Gob's DecodeReturns).
NoCallPanics ==
    /\ ParseReturns
    /\ call.fn = "AddLen" => ~IsPanic(out)
    /\ DecodeReturns
=============================================================================
