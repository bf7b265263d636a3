-------------------------------- MODULE Bytes --------------------------------
(***************************************************************************)
(* The functions of package bytes (src/pkg/bytes/bytes.go).  A []byte is a *)
(* sequence of numbers in 0..255; s[i:j] of Go is Slice(s, i, j), with Go's *)
(* 0-based indices.  Each loop of the code is a RECURSIVE operator whose    *)
(* parameters are the loop's variables, so that every early return, guard  *)
(* and index step is kept.                                                *)
(* A slice with spare capacity (for Add) is [mem |-> array, len |-> n].     *)
(***************************************************************************)
EXTENDS Integers, Sequences, GoInt
LOCAL INSTANCE SequencesExt

utf8 == INSTANCE Utf8
unicode == INSTANCE Unicode

\* The result of a call that panics (Map and Join indexing out of range, Add
\* on a long slice),
\* a sequence no []byte equals, since -1 is not a byte.
Panic == <<-1>>

\* v is a panic; a result of another shape is compared by its domain first.
IsPanic(v) == DOMAIN v = DOMAIN Panic /\ v = Panic

Slice(s, i, j) == SubSeq(s, i + 1, j)

Zeros(n) == [k \in 1..n |-> 0]

\* Mutant: a longer a with b as prefix compares equal.
CompareNoLonger(a, b) ==
    LET diff == {i \in 0..(IF Len(a) < Len(b) THEN Len(a) ELSE Len(b)) - 1 : a[i + 1] # b[i + 1]}
        i == CHOOSE i \in diff : \A j \in diff : i <= j
    IN IF diff # {} THEN IF a[i + 1] > b[i + 1] THEN 1 ELSE -1
       ELSE IF Len(a) < Len(b) THEN -1 ELSE 0

\* Compare: the first differing byte decides, then the lengths.
Compare(a, b) ==
    LET diff == {i \in 0..(IF Len(a) < Len(b) THEN Len(a) ELSE Len(b)) - 1 : a[i + 1] # b[i + 1]}
        i == CHOOSE i \in diff : \A j \in diff : i <= j
    IN IF diff # {} THEN IF a[i + 1] > b[i + 1] THEN 1 ELSE -1
       ELSE CASE Len(a) < Len(b) -> -1
              [] Len(a) > Len(b) -> 1
              [] OTHER           -> 0

Equal(a, b) == Len(a) = Len(b) /\ \A i \in 1..Len(a) : a[i] = b[i]

\* The test of Count, Index, LastIndex and genSplit: the first byte, then
\* the whole separator unless it is one byte long.
MatchAt(s, i, sep) ==
    s[i + 1] = sep[1] /\ (Len(sep) = 1 \/ Equal(Slice(s, i, i + Len(sep)), sep))

RECURSIVE explodeLoop(_, _, _)
explodeLoop(s, n, a) ==
    IF Len(s) = 0 THEN a
    ELSE IF Len(a) + 1 >= n THEN Append(a, s)
    ELSE LET size == utf8!DecodeRune(s)[2]
         IN explodeLoop(Slice(s, size, Len(s)), n, Append(a, Slice(s, 0, size)))

explode(s, n) == explodeLoop(s, IF n <= 0 THEN Len(s) ELSE n, <<>>)

RECURSIVE countLoop(_, _, _, _)
countLoop(s, sep, i, n) ==
    IF i + Len(sep) > Len(s) THEN n
    ELSE IF MatchAt(s, i, sep) THEN countLoop(s, sep, i + Len(sep), n + 1)
    ELSE countLoop(s, sep, i + 1, n)

Count(s, sep) == IF Len(sep) = 0 THEN utf8!RuneCount(s) + 1 ELSE countLoop(s, sep, 0, 0)

RECURSIVE indexLoop(_, _, _)
indexLoop(s, sep, i) ==
    IF i + Len(sep) > Len(s) THEN -1
    ELSE IF MatchAt(s, i, sep) THEN i
    ELSE indexLoop(s, sep, i + 1)

Index(s, sep) == IF Len(sep) = 0 THEN 0 ELSE indexLoop(s, sep, 0)

RECURSIVE indexByteLoop(_, _, _)
indexByteLoop(s, c, i) ==
    IF i >= Len(s) THEN -1
    ELSE IF s[i + 1] = c THEN i
    ELSE indexByteLoop(s, c, i + 1)

\* IndexByte is assembly; this is its portable Go version.
indexBytePortable(s, c) == indexByteLoop(s, c, 0)

RECURSIVE lastIndexLoop(_, _, _)
lastIndexLoop(s, sep, i) ==
    IF i < 0 THEN -1
    ELSE IF MatchAt(s, i, sep) THEN i
    ELSE lastIndexLoop(s, sep, i - 1)

\* Mutant: the backward loop starts one byte too early.
LastIndexShort(s, sep) == IF Len(sep) = 0 THEN Len(s) ELSE lastIndexLoop(s, sep, Len(s) - Len(sep) - 1)

LastIndex(s, sep) == IF Len(sep) = 0 THEN Len(s) ELSE lastIndexLoop(s, sep, Len(s) - Len(sep))

\* The loop of genSplit; a holds the pieces a[0:na].
RECURSIVE splitLoop(_, _, _, _, _, _, _)
splitLoop(s, sep, sepSave, n, i, start, a) ==
    IF i + Len(sep) <= Len(s) /\ Len(a) + 1 < n
    THEN IF MatchAt(s, i, sep)
         THEN splitLoop(s, sep, sepSave, n, i + Len(sep), i + Len(sep),
                        Append(a, Slice(s, start, i + sepSave)))
         ELSE splitLoop(s, sep, sepSave, n, i + 1, start, a)
    ELSE Append(a, Slice(s, start, Len(s)))

\* Mutant: with n <= 0 the array is sized by Count alone.
genSplitCountOff(s, sep, sepSave, n) ==
    IF Len(sep) = 0 THEN explode(s, n)
    ELSE splitLoop(s, sep, sepSave, IF n <= 0 THEN Count(s, sep) ELSE n, 0, 0, <<>>)

genSplit(s, sep, sepSave, n) ==
    IF Len(sep) = 0 THEN explode(s, n)
    ELSE splitLoop(s, sep, sepSave, IF n <= 0 THEN Count(s, sep) + 1 ELSE n, 0, 0, <<>>)

Split(s, sep, n) == genSplit(s, sep, 0, n)

SplitAfter(s, sep, n) == genSplit(s, sep, Len(sep), n)

\* The first loop of Fields counts the fields ...
RECURSIVE fieldsCount(_, _, _, _)
fieldsCount(s, i, inField, n) ==
    IF i >= Len(s) THEN n
    ELSE LET d == utf8!DecodeRune(Slice(s, i, Len(s)))
             in == ~unicode!IsSpace(d[1])
         IN fieldsCount(s, i + d[2], in, IF in /\ ~inField THEN n + 1 ELSE n)

\* ... the second collects at most that many, ending a field at a space or
\* at the end of s (where DecodeRune returns size 0).
RECURSIVE fieldsLoop(_, _, _, _, _)
fieldsLoop(s, n, i, fieldStart, a) ==
    IF ~(i <= Len(s) /\ Len(a) < n) THEN a
    ELSE LET d == utf8!DecodeRune(Slice(s, i, Len(s)))
             ends == fieldStart >= 0 /\ (d[2] = 0 \/ unicode!IsSpace(d[1]))
             a2 == IF ends THEN Append(a, Slice(s, fieldStart, i)) ELSE a
         IN IF fieldStart < 0 /\ d[2] > 0 /\ ~unicode!IsSpace(d[1])
            THEN fieldsLoop(s, n, i + d[2], i, a)
            ELSE IF d[2] = 0 THEN a2
            ELSE fieldsLoop(s, n, i + d[2], IF ends THEN -1 ELSE fieldStart, a2)

\* Mutant: the counting loop starts inside a field.
FieldsInFieldAtStart(s) == fieldsLoop(s, fieldsCount(s, 0, TRUE, 0), 0, -1, <<>>)

Fields(s) == fieldsLoop(s, fieldsCount(s, 0, FALSE, 0), 0, -1, <<>>)

RECURSIVE joinLoop(_, _, _, _)
joinLoop(a, sep, i, b) ==
    IF i > Len(a) THEN b
    ELSE joinLoop(a, sep, i + 1, b \o a[i] \o (IF i < Len(a) THEN sep ELSE <<>>))

\* Join sizes b as len(sep)*(len(a)-1) plus the pieces, then fills it: a
\* byte written past that size is an index out of range.
joinFill(n, w) == IF Len(w) > n THEN Panic ELSE w \o Zeros(n - Len(w))

Join(a, sep) ==
    CASE Len(a) = 0 -> <<>>
      [] Len(a) = 1 -> a[1]
      [] OTHER -> joinFill(Len(sep) * (Len(a) - 1) + FoldLeft(LAMBDA n, p : n + Len(p), 0, a),
                           joinLoop(a, sep, 1, <<>>))

HasPrefix(s, prefix) == Len(s) >= Len(prefix) /\ Equal(Slice(s, 0, Len(prefix)), prefix)

HasSuffix(s, suffix) ==
    Len(s) >= Len(suffix) /\ Equal(Slice(s, Len(s) - Len(suffix), Len(s)), suffix)

\* The mapping functions passed to Map: the three of package unicode, and a
\* caller's mapping that drops white space by returning a negative value.
Apply(mapping, r) ==
    CASE mapping = "ToUpper" -> unicode!ToUpper(r)
      [] mapping = "ToLower" -> unicode!ToLower(r)
      [] mapping = "ToTitle" -> unicode!ToTitle(r)
      [] mapping = "DropSpace" -> IF unicode!IsSpace(r) THEN -1 ELSE r

\* Mutant: byte 0x80 is taken as the rune U+0080.
runeAtAboveSelf(s, i) ==
    IF s[i + 1] > utf8!RuneSelf THEN utf8!DecodeRune(Slice(s, i, Len(s))) ELSE <<s[i + 1], 1>>

\* The rune at s[i] and its width: ASCII directly, else DecodeRune.
runeAt(s, i) ==
    IF s[i + 1] >= utf8!RuneSelf THEN utf8!DecodeRune(Slice(s, i, Len(s))) ELSE <<s[i + 1], 1>>

\* Mutant: the buffer doubles without the UTFMax of slack.
mapGrowNoSlack(b, nbytes, maxbytes, r) ==
    IF nbytes + utf8!RuneLen(r) > maxbytes
    THEN <<Slice(b, 0, nbytes) \o Zeros(maxbytes * 2 - nbytes), maxbytes * 2>>
    ELSE <<b, maxbytes>>

\* Map's buffer before encoding r: <<b, maxbytes>>, grown to maxbytes*2+UTFMax
\* with b[0:nbytes] copied when r's encoding does not fit.
mapGrow(b, nbytes, maxbytes, r) ==
    IF nbytes + utf8!RuneLen(r) > maxbytes
    THEN <<Slice(b, 0, nbytes) \o Zeros(maxbytes * 2 + utf8!UTFMax - nbytes),
           maxbytes * 2 + utf8!UTFMax>>
    ELSE <<b, maxbytes>>

\* EncodeRune(rune, b[nbytes:maxbytes]) writes e at nbytes.
put(b, nbytes, e) == Slice(b, 0, nbytes) \o e \o Slice(b, nbytes + Len(e), Len(b))

RECURSIVE mapLoop(_, _, _, _, _, _)
mapLoop(mapping, s, i, b, nbytes, maxbytes) ==
    IF i >= Len(s) THEN Slice(b, 0, nbytes)
    ELSE LET d == runeAt(s, i)
             r == Apply(mapping, d[1])
             g == mapGrow(b, nbytes, maxbytes, r)
             e == utf8!EncodeRune(r)
         IN IF r < 0 THEN mapLoop(mapping, s, i + d[2], b, nbytes, maxbytes)
            ELSE IF nbytes + Len(e) > g[2] THEN Panic
            ELSE mapLoop(mapping, s, i + d[2], put(g[1], nbytes, e), nbytes + Len(e), g[2])

Map(mapping, s) == mapLoop(mapping, s, 0, Zeros(Len(s)), 0, Len(s))

RECURSIVE repeatLoop(_, _, _, _)
repeatLoop(b, count, i, nb) ==
    IF i >= count THEN nb ELSE repeatLoop(b, count, i + 1, nb \o b)

Repeat(b, count) == repeatLoop(b, count, 0, <<>>)

ToUpper(s) == Map("ToUpper", s)

ToLower(s) == Map("ToLower", s)

ToTitle(s) == Map("ToTitle", s)

\* TrimSpace's forward loop: start moves past leading space runes.
RECURSIVE trimFront(_, _, _)
trimFront(s, start, end) ==
    IF start >= end THEN start
    ELSE LET d == IF s[start + 1] >= utf8!RuneSelf
                  THEN utf8!DecodeRune(Slice(s, start, end)) ELSE <<s[start + 1], 1>>
         IN IF ~unicode!IsSpace(d[1]) THEN start ELSE trimFront(s, start + d[2], end)

\* for wid = 2; start <= end-wid && !utf8.RuneStart(s[end-wid]); wid++ {}
RECURSIVE backUp(_, _, _, _)
backUp(s, start, end, wid) ==
    IF start <= end - wid /\ ~utf8!RuneStart(s[end - wid + 1]) THEN backUp(s, start, end, wid + 1)
    ELSE wid

\* TrimSpace's backward loop: end moves before trailing space runes.  A
\* non-ASCII last byte backs up to a rune start and decodes s[end-wid:end];
\* end then moves back by the width DecodeRune returns.
RECURSIVE trimBack(_, _, _), trimBackRune(_, _, _, _)
trimBack(s, start, end) ==
    IF start >= end THEN end
    ELSE IF s[end] < utf8!RuneSelf
         THEN IF unicode!IsSpace(s[end]) THEN trimBack(s, start, end - 1) ELSE end
         ELSE trimBackRune(s, start, end, backUp(s, start, end, 2))

trimBackRune(s, start, end, wid) ==
    IF start > end - wid THEN end
    ELSE LET d == utf8!DecodeRune(Slice(s, end - wid, end))
         IN IF ~unicode!IsSpace(d[1]) THEN end ELSE trimBack(s, start, end - d[2])

trimmed(s, start) == Slice(s, start, trimBack(s, start, Len(s)))

TrimSpace(s) == trimmed(s, trimFront(s, 0, Len(s)))

\* The capacity of Add's new array, computed in Go's int.
resize(n) == LET m == IF n < 16 THEN 16 ELSE n IN AddInt(m, m \div 2)

\* Mutant: the new array is allocated but s is not copied into it.
grownNoCopy(s, n) == IF n <= Len(s.mem) THEN s.mem ELSE Zeros(resize(n))

\* Add and AddByte: extend in place when cap(s) allows, else copy s into a
\* new array of capacity resize(len); then copy t after s's bytes.
grown(s, n) ==
    IF n <= Len(s.mem) THEN s.mem
    ELSE Slice(s.mem, 0, s.len) \o Zeros(resize(n) - s.len)

appended(mem, lens, t) ==
    [mem |-> Slice(mem, 0, lens) \o t \o Slice(mem, lens + Len(t), Len(mem)),
     len |-> lens + Len(t)]

Add(s, t) == appended(grown(s, s.len + Len(t)), s.len, t)

AddByte(s, t) == appended(grown(s, s.len + 1), s.len, <<t>>)

\* Add on a slice too long for its bytes to be written out: the slice as
\* its len and cap and t as its length lent (AddByte is lent = 1).
\* lens+lent is a Go int; s[0:n] with n < 0 panics, and so does make when
\* resize(n) has wrapped below n.
AddLen(s, lent) ==
    LET n == AddInt(s.len, lent)
    IN IF n <= s.cap THEN IF n < 0 THEN Panic ELSE [len |-> n, cap |-> s.cap]
       ELSE IF resize(n) < n THEN Panic ELSE [len |-> n, cap |-> resize(n)]

RECURSIVE runesLoop(_, _)
runesLoop(s, t) ==
    IF Len(s) = 0 THEN t
    ELSE LET d == utf8!DecodeRune(s) IN runesLoop(Slice(s, d[2], Len(s)), Append(t, d[1]))

Runes(s) == runesLoop(s, <<>>)

-----------------------------------------------------------------------------
(***************************************************************************)
(* A caller makes one call of one function on inputs drawn from the        *)
(* constant sets; out is what the call returns.                            *)
(***************************************************************************)
CONSTANTS Texts,     \* the s arguments
          Seps,      \* separators, prefixes, suffixes and appended slices
          Octets,    \* single bytes
          SplitNs,   \* the n of Split and SplitAfter
          Lists,     \* the [][]byte arguments of Join
          Counts,    \* the count of Repeat
          Slices,    \* slices with spare capacity, for Add and AddByte
          Mappings,  \* mapping functions passed to Map
          LongSlices,\* slices as [len, cap], for Add and AddByte on long slices
          LongLens   \* lengths of the slice appended to a long slice

VARIABLES call, out
vars == <<call, out>>

NoCall == [fn |-> "none", args |-> <<>>]

Init == call = NoCall /\ out = <<>>

\* The caller has not called yet.
Idle == call = NoCall

Call(fn, args, result) == call' = [fn |-> fn, args |-> args] /\ out' = result

CallCompare == Idle /\ \E a \in Texts, b \in Seps : Call("Compare", <<a, b>>, Compare(a, b))
CallEqual == Idle /\ \E a \in Texts, b \in Seps : Call("Equal", <<a, b>>, Equal(a, b))
CallCount == Idle /\ \E s \in Texts, sep \in Seps : Call("Count", <<s, sep>>, Count(s, sep))
CallIndex == Idle /\ \E s \in Texts, sep \in Seps : Call("Index", <<s, sep>>, Index(s, sep))
CallIndexByte == Idle /\ \E s \in Texts, c \in Octets : Call("IndexByte", <<s, c>>, indexBytePortable(s, c))
CallLastIndex == Idle /\ \E s \in Texts, sep \in Seps : Call("LastIndex", <<s, sep>>, LastIndex(s, sep))
CallSplit == Idle /\ \E s \in Texts, sep \in Seps, n \in SplitNs : Call("Split", <<s, sep, n>>, Split(s, sep, n))
CallSplitAfter ==
    Idle /\ \E s \in Texts, sep \in Seps, n \in SplitNs : Call("SplitAfter", <<s, sep, n>>, SplitAfter(s, sep, n))
CallFields == Idle /\ \E s \in Texts : Call("Fields", <<s>>, Fields(s))
CallJoin == Idle /\ \E a \in Lists, sep \in Seps : Call("Join", <<a, sep>>, Join(a, sep))
CallHasPrefix == Idle /\ \E s \in Texts, p \in Seps : Call("HasPrefix", <<s, p>>, HasPrefix(s, p))
CallHasSuffix == Idle /\ \E s \in Texts, p \in Seps : Call("HasSuffix", <<s, p>>, HasSuffix(s, p))
CallMap == Idle /\ \E m \in Mappings, s \in Texts : Call("Map", <<m, s>>, Map(m, s))
CallRepeat == Idle /\ \E b \in Seps, c \in Counts : Call("Repeat", <<b, c>>, Repeat(b, c))
CallToUpper == Idle /\ \E s \in Texts : Call("ToUpper", <<s>>, ToUpper(s))
CallToLower == Idle /\ \E s \in Texts : Call("ToLower", <<s>>, ToLower(s))
CallToTitle == Idle /\ \E s \in Texts : Call("ToTitle", <<s>>, ToTitle(s))
CallTrimSpace == Idle /\ \E s \in Texts : Call("TrimSpace", <<s>>, TrimSpace(s))
CallAdd == Idle /\ \E s \in Slices, t \in Seps : Call("Add", <<s, t>>, Add(s, t))
CallAddByte == Idle /\ \E s \in Slices, c \in Octets : Call("AddByte", <<s, c>>, AddByte(s, c))
CallAddLen == Idle /\ \E s \in LongSlices, n \in LongLens : Call("AddLen", <<s, n>>, AddLen(s, n))
CallRunes == Idle /\ \E s \in Texts : Call("Runes", <<s>>, Runes(s))

\* After its one call the caller stops; the call has returned.
Returned == call # NoCall /\ UNCHANGED vars

Next == \/ CallCompare \/ CallEqual \/ CallCount \/ CallIndex \/ CallIndexByte
        \/ CallLastIndex \/ CallSplit \/ CallSplitAfter \/ CallFields \/ CallJoin
        \/ CallHasPrefix \/ CallHasSuffix \/ CallMap \/ CallRepeat \/ CallToUpper
        \/ CallToLower \/ CallToTitle \/ CallTrimSpace \/ CallAdd \/ CallAddByte
        \/ CallAddLen \/ CallRunes \/ Returned

Spec == Init /\ [][Next]_vars

-----------------------------------------------------------------------------
(***************************************************************************)
(* Reference definitions, from the doc comments of bytes.go, over the      *)
(* runes of s read from the front, and the properties that compare each    *)
(* call's result with them.                                                *)
(***************************************************************************)

\* s cut into the byte sequences of its runes, decoding from the front.
RECURSIVE RuneSeqs(_)
RuneSeqs(s) ==
    IF s = <<>> THEN <<>>
    ELSE LET w == utf8!DecodeRune(s)[2] IN <<Slice(s, 0, w)>> \o RuneSeqs(Slice(s, w, Len(s)))

IsSpaceSeq(p) == unicode!IsSpace(utf8!DecodeRune(p)[1])

\* Every offset at which sep occurs in s.
Occurrences(s, sep) == {i \in 0..Len(s) - Len(sep) : Slice(s, i, i + Len(sep)) = sep}

\* s split at the leftmost occurrence of sep, again and again, into at most
\* n pieces (no limit when n <= 0), keeping save bytes of sep in a piece.
RECURSIVE RefSplit(_, _, _, _)
RefSplit(s, sep, save, n) ==
    IF Occurrences(s, sep) = {} \/ n = 1 THEN <<s>>
    ELSE LET i == Min(Occurrences(s, sep))
         IN <<Slice(s, 0, i + save)>> \o RefSplit(Slice(s, i + Len(sep), Len(s)), sep, save, n - 1)

\* s split after each UTF-8 sequence, the last of at most n pieces keeping
\* the rest.
RefExplode(s, n) ==
    LET rs == RuneSeqs(s)
    IN IF n <= 0 \/ Len(rs) <= n THEN rs
       ELSE SubSeq(rs, 1, n - 1) \o <<FlattenSeq(SubSeq(rs, n, Len(rs)))>>

\* The maximal runs of non-space runes of rs, each as one byte sequence.
RECURSIVE RefFields(_, _, _)
RefFields(rs, cur, acc) ==
    LET acc2 == IF cur = <<>> THEN acc ELSE Append(acc, cur) IN
    IF rs = <<>> THEN acc2
    ELSE IF IsSpaceSeq(Head(rs)) THEN RefFields(Tail(rs), <<>>, acc2)
    ELSE RefFields(Tail(rs), cur \o Head(rs), acc)

\* The runes of s each mapped, negative ones dropped, re-encoded.
RefMap(m, s) ==
    LET rs == RuneSeqs(s)
        mapped == SelectSeq([k \in DOMAIN rs |-> Apply(m, utf8!DecodeRune(rs[k])[1])],
                            LAMBDA r : r >= 0)
    IN FlattenSeq([k \in DOMAIN mapped |-> utf8!EncodeRune(mapped[k])])

LexLess(a, b) ==
    \/ IsStrictPrefix(a, b)
    \/ \E k \in 1..Len(a) : k <= Len(b) /\ SubSeq(a, 1, k - 1) = SubSeq(b, 1, k - 1) /\ a[k] < b[k]

Contents(sl) == Slice(sl.mem, 0, sl.len)

ResultType(fn) ==
    CASE fn \in {"Compare", "Count", "Index", "IndexByte", "LastIndex"} -> Int
      [] fn \in {"Equal", "HasPrefix", "HasSuffix"} -> BOOLEAN
      [] fn \in {"Split", "SplitAfter", "Fields"} -> Seq(Seq(0..255))
      [] fn \in {"Add", "AddByte"} -> [mem : Seq(0..255), len : Nat]
      [] fn = "AddLen" -> [len : Nat, cap : Nat]
      [] fn = "Runes" -> Seq(Int)
      [] OTHER -> Seq(0..255)

\* Every call returns a value of its result type: none indexes out of range
\* (Map's encode into b[nbytes:maxbytes], Join's fill of b).
TypeOK == call = NoCall \/ out \in ResultType(call.fn)

\* Split and SplitAfter cut s at the leftmost non-overlapping instances of
\* sep, at most n pieces when n > 0 with the remainder in the last, and
\* after each UTF-8 sequence when sep is empty (genSplit, explode).
SplitMatchesReference ==
    call.fn \in {"Split", "SplitAfter"} =>
        LET s == call.args[1]  sep == call.args[2]  n == call.args[3]
        IN out = IF sep = <<>> THEN RefExplode(s, n)
                 ELSE RefSplit(s, sep, IF call.fn = "Split" THEN 0 ELSE Len(sep), n)

\* Index, IndexByte and LastIndex find the first and last instance, and
\* Count the number of non-overlapping ones (the runes plus one when sep
\* is empty).
IndexMatchesReference ==
    LET s == call.args[1]
        occ == Occurrences(s, IF call.fn = "IndexByte" THEN <<call.args[2]>> ELSE call.args[2])
    IN /\ call.fn \in {"Index", "IndexByte"} => out = IF occ = {} THEN -1 ELSE Min(occ)
       /\ call.fn = "LastIndex" => out = IF occ = {} THEN -1 ELSE Max(occ)
       /\ call.fn = "Count" =>
             out = IF call.args[2] = <<>> THEN Len(RuneSeqs(s)) + 1
                   ELSE Len(RefSplit(s, call.args[2], 0, 0)) - 1

\* Compare orders byte strings lexicographically; Equal, HasPrefix and
\* HasSuffix agree with equality, prefix and suffix.
CompareIsLexicographic ==
    LET a == call.args[1]  b == call.args[2]
    IN /\ call.fn = "Compare" => out = CASE a = b -> 0 [] LexLess(a, b) -> -1 [] OTHER -> 1
       /\ call.fn = "Equal" => out = (a = b)
       /\ call.fn = "HasPrefix" => out = IsPrefix(b, a)
       /\ call.fn = "HasSuffix" => out = IsSuffix(b, a)

\* Fields returns the maximal runs of non-space runes, although it counts
\* them in one pass and collects them in another.
FieldsMatchesReference ==
    call.fn = "Fields" => out = RefFields(RuneSeqs(call.args[1]), <<>>, <<>>)

\* Map, ToUpper, ToLower and ToTitle re-encode every mapped rune, however
\* much longer the result grows than s; Runes returns the runes.
MapMatchesReference ==
    /\ call.fn = "Map" => out = RefMap(call.args[1], call.args[2])
    /\ call.fn \in {"ToUpper", "ToLower", "ToTitle"} => out = RefMap(call.fn, call.args[1])
    /\ call.fn = "Runes" =>
          out = [k \in DOMAIN RuneSeqs(call.args[1]) |-> utf8!DecodeRune(RuneSeqs(call.args[1])[k])[1]]

\* Join, Repeat, Add and AddByte return their pieces concatenated in order,
\* and Add's result has room for its length.
ConcatenatesInOrder ==
    LET x == call.args[1]  y == call.args[2]
    IN /\ call.fn = "Join" =>
             out = IF x = <<>> THEN <<>>
                   ELSE FlattenSeq([k \in 1..2 * Len(x) - 1 |-> IF k % 2 = 1 THEN x[(k + 1) \div 2] ELSE y])
       /\ call.fn = "Repeat" => out = FlattenSeq([k \in 1..y |-> x])
       /\ call.fn \in {"Add", "AddByte"} =>
             /\ Contents(out) = Contents(x) \o (IF call.fn = "Add" THEN y ELSE <<y>>)
             /\ out.len <= Len(out.mem)

\* TrimSpace removes exactly the leading and trailing white-space runes of
\* s read from the front (its doc: "all leading and trailing white space
\* removed"), also when s holds invalid UTF-8.
TrimSpaceMatchesReference ==
    call.fn = "TrimSpace" =>
        LET rs == RuneSeqs(call.args[1])
            keep == {k \in DOMAIN rs : ~IsSpaceSeq(rs[k])}
        IN out = IF keep = {} THEN <<>> ELSE FlattenSeq(SubSeq(rs, Min(keep), Max(keep)))
=============================================================================
