--------------------------------- MODULE Gob ---------------------------------
(***************************************************************************)
(* gob.Decoder reading a stream of messages from an io.Reader               *)
(* (decoder.go, decode.go).  A message is a count, then that many bytes:   *)
(* a type id, signed; a negative id defines a type, whose wireType         *)
(* follows; a positive one is a value of that type, whose struct fields    *)
(* follow as (field delta, value) pairs ended by a zero delta.             *)
(*                                                                         *)
(* The decoder's state is what is left of the Reader's bytes and the map   *)
(* of received types.  Decode is one action (it holds dec.mutex for the    *)
(* whole call).  The value decoded into is a struct whose fields, the      *)
(* names LocalFields, are Go ints (decInt32, int being 32 bits).  The      *)
(* wireType a type message carries is abstracted to one byte naming one of *)
(* WireStructs; everything else is the bytes the code reads.  The          *)
(* decoderCache only memoizes compileDec on a wireType that never changes  *)
(* once received, so compileDec is evaluated afresh instead.               *)
(***************************************************************************)
EXTENDS Integers, Sequences, FiniteSets, GoInt, TLC
LOCAL INSTANCE SequencesExt

CONSTANTS
    LocalFields,  \* the field names of the struct type Decode fills
    WireStructs,  \* the struct type each wireType byte describes
    SenderType,   \* the wireType byte the sender defines each type id with
    Feeds,        \* [items, cut]: the sender's messages, cut after cut bytes
    ReadEnds,     \* what Read returns after the last byte: "EOF" or "ReadErr"
    MaxDecodes,   \* bound on the Decode calls of the caller
    FirstUserId   \* the first id past builtinIdToType's, given to user types

\* Type ids of the basic types, none of them a struct (gob's type.go:
\* tBool, tInt, tUint, tFloat, tBytes, tString).  builtinIdToType also
\* holds tWireType and the struct types it is made of, ids from 7 up to
\* FirstUserId - 1; the streams of the model define none of them.
tInt == 2
tBytes == 5
tString == 6
BasicIds == 1..6

ASSUME FirstUserId > 6
ASSUME \A c \in DOMAIN WireStructs :
         \A k \in DOMAIN WireStructs[c].field : WireStructs[c].field[k].id \in BasicIds

Uint64Size == 8
NoErr == "nil"

\* A received wireType: its struct, or none (nil strct).
NilWire == [nil |-> TRUE, field |-> <<>>]

ZeroVal == [n \in LocalFields |-> 0]

-----------------------------------------------------------------------------
(* A uint64 is held as the big-endian bytes decodeUint assembled.          *)

\* Byte k of x, counted from the least significant.
ByteAt(x, k) == IF k < Len(x) THEN x[Len(x) - k] ELSE 0

\* x < 2^32, that is, decodeInt(x) is an int32.
FitsIn32(x) == \A k \in 4..Len(x) : ByteAt(x, k) = 0

\* int(x): the low 32 bits of x as a Go int.
Low32(x) ==
    (IF ByteAt(x, 3) >= 128 THEN ByteAt(x, 3) - 256 ELSE ByteAt(x, 3)) * 16777216
    + ByteAt(x, 2) * 65536 + ByteAt(x, 1) * 256 + ByteAt(x, 0)

\* x >> 1, truncated to 32 bits.
Half32(x) ==
    (IF ByteAt(x, 4) % 2 = 1 THEN MinInt ELSE 0) + ByteAt(x, 3) * 8388608
    + ByteAt(x, 2) * 32768 + ByteAt(x, 1) * 128 + ByteAt(x, 0) \div 2

\* decodeInt's result, truncated to 32 bits: ^(x >> 1) when x is odd.
decodeInt(x) == IF ByteAt(x, 0) % 2 = 1 THEN -1 - Half32(x) ELSE Half32(x)

\* decodeUint on the unread bytes b of a bytes.Buffer.  ReadByte on an
\* empty Buffer returns 0 and os.EOF; a byte above 0x7f is minus the count
\* of bytes that follow; Read returns what is left of them, and os.EOF
\* only when nothing is.
decodeUint(b) ==
    IF b = <<>> THEN [x |-> <<>>, b |-> b, err |-> "EOF"]
    ELSE IF Head(b) <= 127 THEN [x |-> <<Head(b)>>, b |-> Tail(b), err |-> NoErr]
    ELSE LET nb == 256 - Head(b)
             t == Tail(b)
             n == IF nb < Len(t) THEN nb ELSE Len(t)
         IN IF nb > Uint64Size THEN [x |-> <<>>, b |-> t, err |-> "BadUint"]
            ELSE IF t = <<>> THEN [x |-> <<>>, b |-> t, err |-> "EOF"]
            ELSE [x |-> SubSeq(t, 1, n), b |-> SubSeq(t, n + 1, Len(t)), err |-> NoErr]

\* io.ReadFull of n bytes from a Reader holding r and then returning end:
\* os.EOF if none was read, ErrUnexpectedEOF if some were.
readFull(r, end, n) ==
    IF n <= Len(r) THEN [data |-> SubSeq(r, 1, n), r |-> SubSeq(r, n + 1, Len(r)), err |-> NoErr]
    ELSE [data |-> r, r |-> <<>>,
          err |-> IF end = "EOF" /\ r # <<>> THEN "UnexpectedEOF" ELSE end]

\* decodeUintReader: the message count, read from the Reader itself.
decodeUintReader(r, end) ==
    IF r = <<>> THEN [x |-> <<>>, r |-> r, err |-> end]
    ELSE IF Head(r) <= 127 THEN [x |-> <<Head(r)>>, r |-> Tail(r), err |-> NoErr]
    ELSE LET nb == 256 - Head(r)
             f == readFull(Tail(r), end, nb)
         IN IF nb > Uint64Size THEN [x |-> <<>>, r |-> Tail(r), err |-> "BadUint"]
            ELSE [x |-> f.data, r |-> f.r, err |-> IF f.err = "EOF" THEN "UnexpectedEOF" ELSE f.err]

-----------------------------------------------------------------------------
(* The ops of a compiled engine, on the unread bytes b of the message.     *)

\* decInt32: decodeInt, which yields 0 on an error, stored unless it is
\* out of an int32's range.
decInt32(name, b, val) ==
    LET u == decodeUint(b)
    IN IF u.err # NoErr THEN [err |-> u.err, b |-> u.b, val |-> [val EXCEPT ![name] = 0]]
       ELSE IF ~FitsIn32(u.x) THEN [err |-> "Overflow", b |-> u.b, val |-> val]
       ELSE [err |-> NoErr, b |-> u.b, val |-> [val EXCEPT ![name] = decodeInt(u.x)]]

ignoreUint(b, val) == LET u == decodeUint(b) IN [err |-> u.err, b |-> u.b, val |-> val]

\* ignoreUint8Array: make([]byte, count), then a Read whose result is not
\* looked at; a count that is no int panics in make.
ignoreUint8Array(b, val) ==
    LET u == decodeUint(b)
        n == Low32(u.x)
    IN IF ~FitsIn32(u.x) \/ n < 0 THEN [err |-> "panic", b |-> u.b, val |-> val]
       ELSE [err |-> u.err, b |-> SubSeq(u.b, n + 1, Len(u.b)), val |-> val]

execOp(instr, b, val) ==
    CASE instr.op = "int"        -> decInt32(instr.name, b, val)
      [] instr.op = "ignoreUint" -> ignoreUint(b, val)
      [] OTHER                   -> ignoreUint8Array(b, val)

\* decodeStruct: read a delta, add it to the last field number, run that
\* field's op; a zero delta or an error ends the struct.  delta is
\* int(decodeUint) and fieldnum + delta a Go int; engine.instr[fieldnum]
\* with fieldnum < 0 is an index out of range.
RECURSIVE structLoop(_, _, _, _), structLoopNoAdvance(_, _, _, _)

\* Mutant: state.fieldnum is not advanced after a field.
structLoopNoAdvance(instr, b, fieldnum, val) ==
    LET u == decodeUint(b)
        delta == Low32(u.x)
        f == AddInt(fieldnum, delta)
    IN IF delta < 0 THEN [err |-> "NegDelta", val |-> val]
       ELSE IF u.err # NoErr \/ delta = 0 THEN [err |-> u.err, val |-> val]
       ELSE IF f >= Len(instr) THEN [err |-> "Range", val |-> val]
       ELSE IF f < 0 THEN [err |-> "panic", val |-> val]
       ELSE LET r == execOp(instr[f + 1], u.b, val)
            IN IF r.err # NoErr THEN [err |-> r.err, val |-> r.val]
               ELSE structLoop(instr, r.b, fieldnum, r.val)

structLoop(instr, b, fieldnum, val) ==
    LET u == decodeUint(b)
        delta == Low32(u.x)
        f == AddInt(fieldnum, delta)
    IN IF delta < 0 THEN [err |-> "NegDelta", val |-> val]
       ELSE IF u.err # NoErr \/ delta = 0 THEN [err |-> u.err, val |-> val]
       ELSE IF f >= Len(instr) THEN [err |-> "Range", val |-> val]
       ELSE IF f < 0 THEN [err |-> "panic", val |-> val]
       ELSE LET r == execOp(instr[f + 1], u.b, val)
            IN IF r.err # NoErr THEN [err |-> r.err, val |-> r.val]
               ELSE structLoop(instr, r.b, f, r.val)

decodeStruct(instr, b) == structLoop(instr, b, -1, ZeroVal)

-----------------------------------------------------------------------------
(* Compiling the engine for a received struct type, and Decode.            *)

\* compatibleType for an int field: the wire type is int.
compatibleType(fw) == fw = tInt

\* decIgnoreOpMap: bytes and strings are skipped as a length and that many
\* bytes, the other basic types as one uint.
decIgnoreOpMap == [fw \in BasicIds |-> IF fw \in {tBytes, tString} THEN "ignoreUint8Array" ELSE "ignoreUint"]

\* decIgnoreOpFor on a basic id, the only field ids of WireStructs: the op
\* of decIgnoreOpMap (the array, slice and struct cases are not reached).
decIgnoreOpFor(fw) == decIgnoreOpMap[fw]

\* compileDec: a basic id is in builtinIdToType but not a *structType
\* (the type assertion panics), nor is a nil strct (len of its field panics); a field of the
\* local type whose wire type is not int is an error; the others are
\* ignored.
compileDec(id, wt) ==
    LET fs == wt[id].field
        wrong == {k \in DOMAIN fs : fs[k].name \in LocalFields /\ ~compatibleType(fs[k].id)}
    IN IF id \in BasicIds \/ wt[id].nil THEN [err |-> "panic"]
       ELSE IF wrong # {} THEN [err |-> "WrongType"]
       ELSE [err |-> NoErr,
             instr |-> [k \in DOMAIN fs |->
                          IF fs[k].name \in LocalFields THEN [op |-> "int", name |-> fs[k].name]
                          ELSE [op |-> decIgnoreOpFor(fs[k].id), name |-> fs[k].name]],
             numInstr |-> Cardinality({k \in DOMAIN fs : fs[k].name \in LocalFields})]

\* dec.decode(id, e) on the rest b of the message.
decode(id, b, wt) ==
    LET c == compileDec(id, wt)
    IN IF c.err # NoErr THEN [err |-> c.err, val |-> ZeroVal]
       ELSE IF c.numInstr = 0 /\ LocalFields # {} /\ Len(wt[id].field) > 0
            THEN [err |-> "Mismatch", val |-> ZeroVal]
       ELSE decodeStruct(c.instr, b)

\* dec.decode(tWireType, wire): the wireType the byte names, os.EOF when
\* the message has no byte left, an error with a nil strct otherwise.
decodeWire(b) ==
    IF b = <<>> THEN [err |-> "EOF", wire |-> NilWire]
    ELSE IF Head(b) \in DOMAIN WireStructs THEN [err |-> NoErr, wire |-> WireStructs[Head(b)]]
    ELSE [err |-> "BadWire", wire |-> NilWire]

\* recvType: a second definition of an id is an error; otherwise the
\* wireType is stored even when decoding it failed.
recvType(id, b, wt) ==
    IF id \in DOMAIN wt THEN [err |-> "Duplicate", wt |-> wt]
    ELSE LET w == decodeWire(b) IN [err |-> w.err, wt |-> (id :> w.wire) @@ wt]

\* Decode's loop: read a count and that many bytes, then the type id;
\* receive a type and go round again, or decode a value of a known type.
RECURSIVE decodeLoop(_, _, _), decodeLoopNoNegate(_, _, _)

\* Mutant: recvType(id) where Decode calls recvType(-id).
decodeLoopNoNegate(r, end, wt) ==
    LET cnt == decodeUintReader(r, end)
        f == readFull(cnt.r, end, Low32(cnt.x))
        u == decodeUint(f.data)
        id == decodeInt(u.x)
        t == recvType(id, u.b, wt)
        d == decode(id, u.b, wt)
        Stop(err, rest, wt2) == [err |-> err, val |-> ZeroVal, r |-> rest, wt |-> wt2]
    IN IF cnt.err # NoErr THEN Stop(cnt.err, cnt.r, wt)
       ELSE IF f.err # NoErr THEN Stop(IF f.err = "EOF" THEN "UnexpectedEOF" ELSE f.err, f.r, wt)
       ELSE IF u.err # NoErr THEN Stop(u.err, f.r, wt)
       ELSE IF id < 0 THEN IF t.err # NoErr THEN Stop(t.err, f.r, t.wt) ELSE decodeLoop(f.r, end, t.wt)
       ELSE IF id \notin DOMAIN wt THEN Stop("BadType", f.r, wt)
       ELSE [err |-> d.err, val |-> d.val, r |-> f.r, wt |-> wt]

decodeLoop(r, end, wt) ==
    LET cnt == decodeUintReader(r, end)
        f == readFull(cnt.r, end, Low32(cnt.x))
        u == decodeUint(f.data)
        id == decodeInt(u.x)
        t == recvType(NegInt(id), u.b, wt)
        d == decode(id, u.b, wt)
        Stop(err, rest, wt2) == [err |-> err, val |-> ZeroVal, r |-> rest, wt |-> wt2]
    IN IF cnt.err # NoErr THEN Stop(cnt.err, cnt.r, wt)
       ELSE IF f.err # NoErr THEN Stop(IF f.err = "EOF" THEN "UnexpectedEOF" ELSE f.err, f.r, wt)
       ELSE IF u.err # NoErr THEN Stop(u.err, f.r, wt)
       ELSE IF id < 0 THEN IF t.err # NoErr THEN Stop(t.err, f.r, t.wt) ELSE decodeLoop(f.r, end, t.wt)
       ELSE IF id \notin DOMAIN wt THEN Stop("BadType", f.r, wt)
       ELSE [err |-> d.err, val |-> d.val, r |-> f.r, wt |-> wt]

-----------------------------------------------------------------------------
(***************************************************************************)
(* The sender, as the decoder reads it: a uint is one byte up to 0x7f, else *)
(* minus its byte count and its big-endian bytes; an int n is the uint 2n, *)
(* or 2(-n)-1 when negative; a struct sends its non-zero fields as (delta  *)
(* from the last field number sent, value) and ends with a zero delta; a   *)
(* string is its length and its bytes.  An item is a type definition, a    *)
(* value, or raw message bytes.                                            *)
(***************************************************************************)
RECURSIVE BigEndian(_)
BigEndian(n) == IF n = 0 THEN <<>> ELSE BigEndian(n \div 256) \o <<n % 256>>

EncUint(n) == IF n <= 127 THEN <<n>> ELSE <<256 - Len(BigEndian(n))>> \o BigEndian(n)
EncInt(v) == EncUint(IF v >= 0 THEN 2 * v ELSE -2 * v - 1)

ZeroOf(f) == IF f.id = tInt THEN 0 ELSE <<>>
EncField(f, v) == IF f.id = tInt THEN EncInt(v) ELSE EncUint(Len(v)) \o v

RECURSIVE EncFields(_, _, _, _)
EncFields(fs, vals, k, last) ==
    IF k > Len(fs) THEN <<0>>
    ELSE IF vals[fs[k].name] = ZeroOf(fs[k]) THEN EncFields(fs, vals, k + 1, last)
    ELSE EncUint(k - last) \o EncField(fs[k], vals[fs[k].name]) \o EncFields(fs, vals, k + 1, k)

Body(item) ==
    CASE item.kind = "type"  -> EncInt(-item.id) \o <<SenderType[item.id]>>
      [] item.kind = "value" -> EncInt(item.id) \o EncFields(WireStructs[SenderType[item.id]].field, item.vals, 1, 0)
      [] OTHER               -> item.body

Frame(item) == EncUint(Len(Body(item))) \o Body(item)
Encode(items) == FlattenSeq([k \in DOMAIN items |-> Frame(items[k])])

\* What Decode should return for each complete message, in order: a value
\* of a known type with the local fields the wire type has; the error of
\* a duplicate type, an unknown type, a field of another type, or a type
\* sharing no field; type definitions return nothing.
RECURSIVE Expect(_, _, _)
Expect(items, defs, acc) ==
    IF items = <<>> THEN acc
    ELSE LET it == Head(items)
             w == WireStructs[SenderType[it.id]].field
             names == {w[k].name : k \in DOMAIN w}
         IN IF it.kind = "type"
            THEN IF it.id \in defs THEN Expect(Tail(items), defs, Append(acc, [err |-> "Duplicate", val |-> ZeroVal]))
                 ELSE Expect(Tail(items), defs \cup {it.id}, acc)
            ELSE Expect(Tail(items), defs, Append(acc,
                   CASE it.id \notin defs -> [err |-> "BadType", val |-> ZeroVal]
                     [] \E k \in DOMAIN w : w[k].name \in LocalFields /\ w[k].id # tInt ->
                            [err |-> "WrongType", val |-> ZeroVal]
                     [] LocalFields \cap names = {} /\ LocalFields # {} /\ w # <<>> ->
                            [err |-> "Mismatch", val |-> ZeroVal]
                     [] OTHER -> [err |-> NoErr,
                                  val |-> [n \in LocalFields |-> IF n \in names THEN it.vals[n] ELSE 0]]))

\* The whole messages among the first cut bytes, and what the Reader
\* reports after them: its own end at a message boundary, a truncated
\* message otherwise.
Complete(items, cut) ==
    SubSeq(items, 1, Max({k \in 0..Len(items) : Len(Encode(SubSeq(items, 1, k))) <= cut}))

Expected(f, end) ==
    LET w == Complete(f.items, f.cut)
        tail == IF Len(Encode(w)) = f.cut THEN end ELSE IF end = "EOF" THEN "UnexpectedEOF" ELSE end
    IN Append(Expect(w, {}, <<>>), [err |-> tail, val |-> ZeroVal])

-----------------------------------------------------------------------------
(* A caller that makes a Decoder on a Reader and calls Decode until the    *)
(* Reader fails or the program panics.                                     *)

VARIABLES rd, rend, wireType, results, feed
gobVars == <<rd, rend, wireType, results, feed>>

NoReader == <<-1>>
ReaderErrs == {"EOF", "UnexpectedEOF", "ReadErr", "panic"}

GobInit == rd = NoReader /\ rend = "EOF" /\ wireType = <<>> /\ results = <<>>
           /\ feed = [items |-> <<>>, cut |-> 0]

\* NewDecoder(r): no type received yet.
NewDecoder == /\ rd = NoReader
              /\ \E f \in Feeds, e \in ReadEnds :
                    rd' = SubSeq(Encode(f.items), 1, f.cut) /\ rend' = e /\ feed' = f
              /\ UNCHANGED <<wireType, results>>

Stopped == results # <<>> /\ results[Len(results)].err \in ReaderErrs
Calling == rd # NoReader /\ ~Stopped /\ Len(results) < MaxDecodes

\* Decode(e) with e not a pointer: an error, nothing read.
DecodeNonPointer == Calling /\ results' = Append(results, [err |-> "NotPointer", val |-> ZeroVal])
                    /\ UNCHANGED <<rd, rend, wireType, feed>>

Decode == /\ Calling
          /\ LET d == decodeLoop(rd, rend, wireType)
             IN /\ rd' = d.r /\ wireType' = d.wt
                /\ results' = Append(results, [err |-> d.err, val |-> d.val])
          /\ UNCHANGED <<rend, feed>>

\* The caller is done.
GobDone == rd # NoReader /\ ~Calling /\ UNCHANGED gobVars

GobNext == NewDecoder \/ DecodeNonPointer \/ Decode \/ GobDone
GobSpec == GobInit /\ [][GobNext]_gobVars

-----------------------------------------------------------------------------
(* Properties *)

\* Received types are kept under positive ids, with a wireType the
\* stream named; results are errors and values of the local struct.
GobTypeOK ==
    /\ DOMAIN wireType \subseteq 1..MaxInt
    /\ wireType \in [DOMAIN wireType -> {NilWire} \cup {WireStructs[c] : c \in DOMAIN WireStructs}]
    /\ results \in Seq([err : STRING, val : [LocalFields -> Int]])
    /\ Len(results) <= MaxDecodes

\* Decode returns, call after call, the values the sender sent and the
\* errors of its bad messages, in order, taking in the type definitions
\* between them (the loop in Decode, decodeUintReader, the deltas of
\* decodeStruct, decodeInt's sign, ignoreUint8Array skipping a string);
\* once the caller stops on the Reader's error it has had them all.
DecodesSentValues ==
    rd # NoReader =>
        LET got == SelectSeq(results, LAMBDA r : r.err # "NotPointer")
            exp == Expected(feed, rend)
        IN IsPrefix(got, exp) /\ (Stopped => got = exp)

\* Decode returns an error on any bytes and never panics.
DecodeReturns == \A k \in DOMAIN results : results[k].err # "panic"
=============================================================================
