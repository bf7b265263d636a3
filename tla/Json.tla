-------------------------------- MODULE Json --------------------------------
(***************************************************************************)
(* The JSON parser of package json (src/pkg/json/parse.go): _UnHex,       *)
(* _ToHex, Unquote, Quote, the lexer and the recursive-descent parse.      *)
(* Strings are byte sequences as in Bytes.  A lexer is a record            *)
(* [kind, token, i]; the kinds are the code's: 0 at the end, '1' (49) for  *)
(* a number, 'a' (97) for a word, '"' (34) for a string, the punctuation   *)
(* byte itself, and '?' (63) for anything else.  A call that panics leaves *)
(* a lexer of kind PanicKind, which no case of parse accepts, so that the  *)
(* parse unwinds untouched to Parse, which reports the panic.              *)
(* The Builder is the generic tree builder: a value is a record            *)
(* [t, s, kids]; a map's kids are "entry" nodes holding the key in s.      *)
(* Json's callers use the same call/out caller as the Bytes functions.     *)
(***************************************************************************)
EXTENDS Bytes, TLC
LOCAL INSTANCE SequencesExt

PanicKind == -1

\* The result of a call that returns ("", false).
NotOk == <<<<>>, FALSE>>

\* The value of a hex digit, -1 for any other byte.
HexVal(c) ==
    CASE c \in 48..57  -> c - 48
      [] c \in 97..102 -> c - 97 + 10
      [] c \in 65..70  -> c - 65 + 10
      [] OTHER         -> -1

\* _UnHex's loop over p[i:l].
RECURSIVE unHexLoop(_, _, _, _)
unHexLoop(p, i, l, v) ==
    IF i >= l THEN <<v, TRUE>>
    ELSE IF i >= Len(p) \/ HexVal(p[i + 1]) < 0 THEN <<0, FALSE>>
    ELSE unHexLoop(p, i + 1, l, v * 16 + HexVal(p[i + 1]))

_UnHex(p, r, l) == unHexLoop(p, r, l, 0)

HexDigits == <<48, 49, 50, 51, 52, 53, 54, 55, 56, 57, 97, 98, 99, 100, 101, 102>>

\* The four hex digits _ToHex writes: bits 15..0 of rune, the rest lost.
_ToHex(rune) == [k \in 1..4 |-> HexDigits[((rune \div 16 ^ (4 - k)) % 16) + 1]]

\* Mutant: the \' escape is refused.
EscapeOfNoQuote == (34 :> 34) @@ (92 :> 92) @@ (47 :> 47) @@ (98 :> 8)
            @@ (102 :> 12) @@ (110 :> 10) @@ (114 :> 13) @@ (116 :> 9)

\* The byte each one-character escape after a backslash stands for.
EscapeOf == (34 :> 34) @@ (92 :> 92) @@ (47 :> 47) @@ (39 :> 39) @@ (98 :> 8)
            @@ (102 :> 12) @@ (110 :> 10) @@ (114 :> 13) @@ (116 :> 9)

(***************************************************************************)
(* Unquote's loop: r is the read index, b the w bytes written so far into *)
(* a buffer of len(s) bytes; a write past its end panics.                  *)
(***************************************************************************)
RECURSIVE unquoteLoop(_, _, _), unquoteEscape(_, _, _)

\* Write enc at b[w:] and go on reading at r.
unquotePut(s, r, b, enc) == IF Len(b) + Len(enc) > Len(s) THEN Panic ELSE unquoteLoop(s, r, b \o enc)

unquoteLoop(s, r, b) ==
    IF r >= Len(s) - 1 THEN <<b, TRUE>>
    ELSE LET c == s[r + 1] IN
         CASE c = 92              -> unquoteEscape(s, r + 1, b)
           [] c < 32 /\ c # 10    -> NotOk
           [] c < utf8!RuneSelf   -> unquotePut(s, r + 1, b, <<c>>)
           [] OTHER ->
                LET d == utf8!DecodeRune(Slice(s, r, Len(s)))
                IN unquotePut(s, r + d[2], b, utf8!EncodeRune(d[1]))

\* The escape whose letter is at s[r].
unquoteEscape(s, r, b) ==
    IF r >= Len(s) - 1 THEN NotOk
    ELSE LET c == s[r + 1] IN
         CASE c \in DOMAIN EscapeOf -> unquotePut(s, r + 1, b, <<EscapeOf[c]>>)
           [] c = 117 ->
                LET h == _UnHex(s, r + 1, r + 5)
                IN IF h[2] THEN unquotePut(s, r + 5, b, utf8!EncodeRune(h[1])) ELSE NotOk
           [] OTHER -> NotOk

Unquote(s) ==
    IF Len(s) < 2 \/ s[1] # 34 \/ s[Len(s)] # 34 THEN NotOk
    ELSE unquoteLoop(s, 1, <<>>)

\* The escape Quote writes for a rune other than '"' and '\\'.
ShortEscape == (8 :> 98) @@ (12 :> 102) @@ (10 :> 110) @@ (13 :> 114) @@ (9 :> 116)

\* Mutant: a backslash is written unescaped.
QuoteRuneNoBackslash(rune) ==
    CASE rune = 34                 -> <<92, rune>>
      [] rune \in DOMAIN ShortEscape -> <<92, ShortEscape[rune]>>
      [] 32 <= rune /\ rune < utf8!RuneSelf -> <<rune>>
      [] OTHER -> <<92, 117>> \o _ToHex(rune)

\* The bytes Quote writes for one rune of s.
QuoteRune(rune) ==
    CASE rune \in {34, 92}         -> <<92, rune>>
      [] rune \in DOMAIN ShortEscape -> <<92, ShortEscape[rune]>>
      [] 32 <= rune /\ rune < utf8!RuneSelf -> <<rune>>
      [] OTHER -> <<92, 117>> \o _ToHex(rune)

\* for _, rune := range s: invalid UTF-8 ranges as RuneError, width 1.
RECURSIVE quoteLoop(_, _, _)
quoteLoop(s, i, acc) ==
    IF i >= Len(s) THEN acc
    ELSE LET d == utf8!DecodeRune(Slice(s, i, Len(s)))
         IN quoteLoop(s, i + d[2], acc \o QuoteRune(d[1]))

Quote(s) == <<34>> \o quoteLoop(s, 0, <<>>) \o <<34>>
-----------------------------------------------------------------------------
(***************************************************************************)
(* The lexer.                                                              *)
(***************************************************************************)
strconv == INSTANCE Strconv

punct(c) == c \in {34, 91, 93, 58, 123, 125, 44}

white(c) == c \in {32, 9, 13, 10, 11}

RECURSIVE skipwhite(_, _)
skipwhite(p, i) == IF i < Len(p) /\ white(p[i + 1]) THEN skipwhite(p, i + 1) ELSE i

RECURSIVE skiptoken(_, _)
skiptoken(p, i) ==
    IF i < Len(p) /\ ~punct(p[i + 1]) /\ ~white(p[i + 1]) THEN skiptoken(p, i + 1) ELSE i

\* The loop of skipstring from index i: a backslash skips the next byte,
\* even when it is the last one, so that i may end at len(p) + 1.
RECURSIVE skipstringLoop(_, _)
skipstringLoop(p, i) ==
    IF i >= Len(p) \/ p[i + 1] = 34 THEN i
    ELSE IF p[i + 1] = 92 THEN skipstringLoop(p, i + 2)
    ELSE skipstringLoop(p, i + 1)

skipstring(p, i) == LET j == skipstringLoop(p, i + 1) IN IF j >= Len(p) THEN j ELSE j + 1

\* A lexer whose last call panicked.
Panicked(lex) == [lex EXCEPT !.kind = PanicKind]

\* A token s[i:j] of kind k; s[i:j] panics when j is past the end of s.
Token(s, k, i, j) ==
    IF j > Len(s) THEN [kind |-> PanicKind, token |-> <<>>, i |-> i]
    ELSE [kind |-> k, token |-> Slice(s, i, j), i |-> j]

\* (*_Lexer).Next, from index i0 of s (Next names the caller's next-state relation).
lexNext(s, i0) ==
    LET i == skipwhite(s, i0) IN
    IF i >= Len(s) THEN [kind |-> 0, token |-> <<>>, i |-> Len(s)]
    ELSE LET c == s[i + 1] IN
         CASE c = 45 \/ c \in 48..57        -> Token(s, 49, i, skiptoken(s, i))
           [] c \in 97..122 \/ c \in 65..90 -> Token(s, 97, i, skiptoken(s, i))
           [] c = 34                       -> Token(s, 34, i, skipstring(s, i))
           [] c \in {91, 93, 58, 123, 125, 44} -> Token(s, c, i, i + 1)
           [] OTHER -> [kind |-> 63, token |-> Slice(s, i, i + 1), i |-> i]
-----------------------------------------------------------------------------
(***************************************************************************)
(* The parser.  parse returns [ok, lex, tree]: whether it succeeded, the   *)
(* lexer after it, and the value its Builder calls made.                   *)
(***************************************************************************)
Leaf(t, str) == [t |-> t, s |-> str, kids |-> <<>>]
Node(t, kids) == [t |-> t, s |-> <<>>, kids |-> kids]
NoValue == Leaf("none", <<>>)

\* The Builder call a number token makes: Int64 if Atoi64 takes it, then
\* Uint64, then Float64; none if no parser takes it.
NumberCall(tok) ==
    CASE strconv!Atoi64OK(tok)  -> "Int64"
      [] strconv!Atoui64OK(tok) -> "Uint64"
      [] strconv!Atof64OK(tok)  -> "Float64"
      [] OTHER                  -> "none"

Words == ("true" :> <<116, 114, 117, 101>>) @@ ("false" :> <<102, 97, 108, 115, 101>>)
         @@ ("null" :> <<110, 117, 108, 108>>)

\* ok: the tree is built and the lexer moves past the value.
Done(s, lex, tree) == [ok |-> TRUE, lex |-> lexNext(s, lex.i), tree |-> tree]
Failed(lex) == [ok |-> FALSE, lex |-> lex, tree |-> NoValue]

RECURSIVE parse(_, _), arrayLoop(_, _, _, _), objectLoop(_, _, _, _)

\* Mutant: array elements need no comma between them.
arrayLoopNoComma(s, lex, n, kids) ==
    IF lex.kind = 93 THEN Done(s, lex, Node("array", kids))
    ELSE LET r == parse(s, lex)
         IN IF ~r.ok THEN Failed(r.lex) ELSE arrayLoop(s, r.lex, n + 1, Append(kids, r.tree))

\* for lex.kind != ']' { ... }: the elements after the '['.
arrayLoop(s, lex, n, kids) ==
    IF lex.kind = 93 THEN Done(s, lex, Node("array", kids))
    ELSE IF n > 0 /\ lex.kind # 44 THEN Failed(lex)
    ELSE LET l == IF n > 0 THEN lexNext(s, lex.i) ELSE lex
             r == parse(s, l)
         IN IF ~r.ok THEN Failed(r.lex) ELSE arrayLoop(s, r.lex, n + 1, Append(kids, r.tree))

\* Mutant: members need no comma between them.
objectLoopNoComma(s, lex, n, kids) ==
    IF lex.kind = 125 THEN Done(s, lex, Node("map", kids))
    ELSE LET key == Unquote(lex.token)
             colon == lexNext(s, lex.i)
             r == parse(s, lexNext(s, colon.i))
         IN CASE lex.kind # 34  -> Failed(lex)
              [] key = Panic     -> Failed(Panicked(lex))
              [] ~key[2]         -> Failed(lex)
              [] colon.kind # 58 -> Failed(colon)
              [] ~r.ok           -> Failed(r.lex)
              [] OTHER -> objectLoop(s, r.lex, n + 1,
                                  Append(kids, [t |-> "entry", s |-> key[1], kids |-> <<r.tree>>]))

\* for lex.kind != '}' { ... }: the "key": value members after the '{'.
objectLoop(s, lex, n, kids) ==
    IF lex.kind = 125 THEN Done(s, lex, Node("map", kids))
    ELSE IF n > 0 /\ lex.kind # 44 THEN Failed(lex)
    ELSE LET l == IF n > 0 THEN lexNext(s, lex.i) ELSE lex
             key == Unquote(l.token)
             colon == lexNext(s, l.i)
             r == parse(s, lexNext(s, colon.i))
         IN CASE l.kind # 34    -> Failed(l)
              [] key = Panic    -> Failed(Panicked(l))
              [] ~key[2]        -> Failed(l)
              [] colon.kind # 58 -> Failed(colon)
              [] ~r.ok          -> Failed(r.lex)
              [] OTHER -> objectLoop(s, r.lex, n + 1,
                                  Append(kids, [t |-> "entry", s |-> key[1], kids |-> <<r.tree>>]))

parse(s, lex) ==
    CASE lex.kind = 49 ->
            IF NumberCall(lex.token) = "none" THEN Failed(lex)
            ELSE Done(s, lex, Leaf(NumberCall(lex.token), lex.token))
      [] lex.kind = 97 ->
            IF \E w \in DOMAIN Words : Words[w] = lex.token
            THEN Done(s, lex, Leaf(CHOOSE w \in DOMAIN Words : Words[w] = lex.token, <<>>))
            ELSE Failed(lex)
      [] lex.kind = 34 ->
            LET u == Unquote(lex.token)
            IN CASE u = Panic -> Failed(Panicked(lex))
                 [] u[2]      -> Done(s, lex, Leaf("String", u[1]))
                 [] OTHER     -> Failed(lex)
      [] lex.kind = 91  -> arrayLoop(s, lexNext(s, lex.i), 0, <<>>)
      [] lex.kind = 123 -> objectLoop(s, lexNext(s, lex.i), 0, <<>>)
      [] OTHER -> Failed(lex)

\* Parse(s, builder): ok, errindx and errtok, the value built, and whether
\* the call panicked.
Parse(s) ==
    LET r == parse(s, lexNext(s, 0))
    IN IF r.lex.kind = PanicKind
       THEN [ok |-> FALSE, errindx |-> 0, errtok |-> <<>>, tree |-> NoValue, panic |-> TRUE]
       ELSE IF r.ok /\ r.lex.kind = 0
       THEN [ok |-> TRUE, errindx |-> 0, errtok |-> <<>>, tree |-> r.tree, panic |-> FALSE]
       ELSE [ok |-> FALSE, errindx |-> r.lex.i, errtok |-> r.lex.token, tree |-> NoValue, panic |-> FALSE]
-----------------------------------------------------------------------------
(***************************************************************************)
(* Json's callers, beside those of the Bytes functions.                    *)
(***************************************************************************)
CONSTANTS JsonTexts,    \* the s of Parse
          QuoteTexts,   \* the raw strings given to Quote
          QuotedTexts   \* the quoted strings given to Unquote

CallParse == Idle /\ \E s \in JsonTexts : Call("Parse", <<s>>, Parse(s))
CallQuote == Idle /\ \E s \in QuoteTexts : Call("Quote", <<s>>, Quote(s))
CallUnquote == Idle /\ \E s \in QuotedTexts : Call("Unquote", <<s>>, Unquote(s))

JsonNext == Next \/ CallParse \/ CallQuote \/ CallUnquote

JsonSpec == Init /\ [][JsonNext]_vars

-----------------------------------------------------------------------------
(***************************************************************************)
(* Reference definitions: the JSON grammar over the lexer's tokens, and    *)
(* the meaning of the escapes of a quoted string.                          *)
(***************************************************************************)

\* The tokens of s up to the end, or up to a '?' or a panic, which end it.
RECURSIVE tokensFrom(_, _, _)
tokensFrom(s, lex, acc) ==
    CASE lex.kind = 0                  -> acc
      [] lex.kind \in {63, PanicKind} -> Append(acc, lex)
      [] OTHER -> tokensFrom(s, lexNext(s, lex.i), Append(acc, lex))

Tokens(s) == tokensFrom(s, lexNext(s, 0), <<>>)

\* The values one token stands for: a number some strconv parser takes, a
\* literal word, or a string Unquote takes.
ScalarValues(tok) ==
    CASE tok.kind = 49 /\ NumberCall(tok.token) # "none" -> {Leaf(NumberCall(tok.token), tok.token)}
      [] tok.kind = 97 -> {Leaf(w, <<>>) : w \in {w \in DOMAIN Words : Words[w] = tok.token}}
      [] tok.kind = 34 /\ Unquote(tok.token) # Panic /\ Unquote(tok.token)[2] ->
            {Leaf("String", Unquote(tok.token)[1])}
      [] OTHER -> {}

Commas(ts) == {k \in 1..Len(ts) : ts[k].kind = 44}
Before(ts, k) == SubSeq(ts, 1, k - 1)
After(ts, k) == SubSeq(ts, k + 1, Len(ts))

\* value = scalar | '[' [value {',' value}] ']' | '{' [member {',' member}] '}'
\* member = string ':' value; each as the set of trees the tokens denote.
RECURSIVE ValuesOf(_), ElemsOf(_), MembersOf(_), MemberOf(_)
ValuesOf(ts) ==
    IF Len(ts) = 1 THEN ScalarValues(ts[1])
    ELSE IF Len(ts) >= 2 /\ ts[1].kind = 91 /\ ts[Len(ts)].kind = 93
    THEN LET in == SubSeq(ts, 2, Len(ts) - 1)
         IN {Node("array", l) : l \in IF in = <<>> THEN {<<>>} ELSE ElemsOf(in)}
    ELSE IF Len(ts) >= 2 /\ ts[1].kind = 123 /\ ts[Len(ts)].kind = 125
    THEN LET in == SubSeq(ts, 2, Len(ts) - 1)
         IN {Node("map", l) : l \in IF in = <<>> THEN {<<>>} ELSE MembersOf(in)}
    ELSE {}

ElemsOf(ts) ==
    {<<v>> : v \in ValuesOf(ts)}
    \cup UNION {{<<v>> \o r : v \in ValuesOf(Before(ts, k)), r \in ElemsOf(After(ts, k))} : k \in Commas(ts)}

MemberOf(ts) ==
    IF Len(ts) >= 3 /\ ts[1].kind = 34 /\ ts[2].kind = 58
       /\ Unquote(ts[1].token) # Panic /\ Unquote(ts[1].token)[2]
    THEN {[t |-> "entry", s |-> Unquote(ts[1].token)[1], kids |-> <<v>>] : v \in ValuesOf(After(ts, 2))}
    ELSE {}

MembersOf(ts) ==
    {<<m>> : m \in MemberOf(ts)}
    \cup UNION {{<<m>> \o r : m \in MemberOf(Before(ts, k)), r \in MembersOf(After(ts, k))} : k \in Commas(ts)}
\* The escapes and bytes of a quoted string's body and the bytes each stands
\* for: a backslash escape, ASCII and UTF-8 as they are, and an invalid byte
\* coerced to RuneError ("Coerce to well-formed UTF-8").
Lexicon ==
    (<<97>> :> <<97>>) @@ (<<10>> :> <<10>>) @@ (<<195, 169>> :> <<195, 169>>)
    @@ (<<128>> :> utf8!EncodeRune(utf8!RuneError))
    @@ (<<92, 110>> :> <<10>>) @@ (<<92, 39>> :> <<39>>) @@ (<<92, 34>> :> <<34>>)
    @@ (<<92, 117, 48, 48, 101, 57>> :> <<195, 169>>)

\* The byte strings a body denotes, cutting it into lexicon entries.
RECURSIVE Decodings(_)
Decodings(body) ==
    IF body = <<>> THEN {<<>>}
    ELSE UNION {{Lexicon[c] \o m : m \in Decodings(SubSeq(body, Len(c) + 1, Len(body)))} :
                   c \in {c \in DOMAIN Lexicon : IsPrefix(c, body)}}

\* s is valid UTF-8 and has no rune past U+FFFF.
IsBMPText(s) ==
    \A k \in DOMAIN RuneSeqs(s) :
        LET d == utf8!DecodeRune(RuneSeqs(s)[k]) IN d # <<utf8!RuneError, 1>> /\ d[1] < 65536

JsonFns == {"Parse", "Quote", "Unquote"}

\* Every call of the library returns a value of its result type; Unquote
\* and Parse may panic (see ParseReturns).
JsonTypeOK ==
    /\ call.fn \notin JsonFns => TypeOK
    /\ call.fn = "Quote" => out \in Seq(0..255)
    /\ call.fn = "Unquote" => out = Panic \/ out \in Seq(0..255) \X BOOLEAN
    /\ call.fn = "Parse" =>
          /\ DOMAIN out = {"ok", "errindx", "errtok", "tree", "panic"}
          /\ out.ok \in BOOLEAN /\ out.panic \in BOOLEAN /\ ~(out.ok /\ out.panic)
          /\ out.errindx \in 0..Len(call.args[1]) /\ out.errtok \in Seq(0..255)

\* Whenever Parse returns, it succeeds exactly on the texts the JSON grammar
\* derives from the lexer's tokens, and its Builder calls build the value
\* the grammar gives them: parse's array and map loops, with their comma,
\* key and colon checks, 'break Switch' and the final lex.Next, accept the
\* grammar and nothing else.
ParseMatchesGrammar ==
    call.fn = "Parse" /\ ~out.panic =>
        LET vs == ValuesOf(Tokens(call.args[1]))
        IN /\ out.ok <=> vs # {}
           /\ out.ok => out.tree \in vs

\* Parse returns ok, errindx and errtok on every text, as its doc says; it
\* never panics (skipstring running past the end, Unquote writing past b).
ParseReturns == call.fn = "Parse" => ~out.panic

\* Quote writes one string token: skipstring ends at its end and Unquote
\* takes it; on valid UTF-8 without runes past U+FFFF, Unquote gives s back.
QuoteIsStringToken ==
    call.fn = "Quote" =>
        LET u == Unquote(out)
        IN /\ skipstring(out, 0) = Len(out)
           /\ u # Panic /\ u[2]
           /\ IsBMPText(call.args[1]) => u[1] = call.args[1]

\* Quote's doc: Unquote(Quote(s)) = s, true, for every raw string s.
QuoteRoundTrip == call.fn = "Quote" => Unquote(out) = <<call.args[1], TRUE>>

\* Whenever Unquote returns, it decodes each escape and byte of the body as
\* the lexicon says, and returns ok false exactly when the body is not a
\* sequence of lexicon entries (an unknown escape, a control byte, a short
\* \u, a backslash at the end).
UnquoteMatchesReference ==
    call.fn = "Unquote" /\ out # Panic =>
        LET s == call.args[1]
            ds == IF Len(s) >= 2 /\ s[1] = 34 /\ s[Len(s)] = 34
                  THEN Decodings(SubSeq(s, 2, Len(s) - 1)) ELSE {}
        IN IF ds = {} THEN out = NotOk ELSE out \in {<<d, TRUE>> : d \in ds}
=============================================================================
