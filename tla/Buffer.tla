------------------------------- MODULE Buffer -------------------------------
(***************************************************************************)
(* bytes.Buffer of src/pkg/bytes/buffer.go.  b.buf is a Go slice: an      *)
(* array (mem), the index in it where the slice starts (base), its length *)
(* and whether it is nil; cap(b.buf) is what the array holds past base.   *)
(* b.off is the read offset.  The bytes written are numbered 1, 2, ...    *)
(* (nextId counts them), so that the contents can be compared with the    *)
(* queue of ByteQueue.  ReadFrom's loop calls r.Read, which returns any   *)
(* number of bytes up to the room it is given, and then EOF or not; each *)
(* iteration is one step.  WriteTo's writer keeps the io.Writer contract:  *)
(* it returns an error when it writes less than it was given.             *)
(***************************************************************************)
EXTENDS Naturals, Sequences

CONSTANTS
    Bootstrap,      \* len(b.bootstrap) (64)
    MinRead,        \* MinRead (512)
    UTFMax,         \* utf8.UTFMax (4)
    MaxBytes,       \* bound on the bytes written in a behaviour
    MaxChunk,       \* bound on len(p) of one Write or Read, and on what r.Read returns
    MaxInit,        \* bound on the length of NewBuffer's and NewBufferString's argument
    MaxInitCap,     \* bound on the capacity of NewBuffer's argument
    ReadFromAfterPartialRead  \* whether ReadFrom may be called with unread bytes after b.off > 0

VARIABLES
    b,          \* [mem, base, len, nil, off]: b.buf and b.off
    nextId,     \* the number of bytes written so far
    out,        \* the bytes the last Read, ReadByte or WriteTo handed out, and EOF
    pc          \* "idle" or "readFrom" (inside ReadFrom's loop)

vars == <<b, nextId, out, pc>>

Zeros(n) == [k \in 1..n |-> 0]
NoOut == [bytes |-> <<>>, eof |-> FALSE]
Fresh(n) == [k \in 1..n |-> nextId + k]
MinOf(x, y) == IF x < y THEN x ELSE y

Cap(s) == Len(s.mem) - s.base
Unread(s) == s.len - s.off
Contents(s) == SubSeq(s.mem, s.base + s.off + 1, s.base + s.len)

\* copy: the array mem with p copied to its 0-based index at.
CopyAt(mem, at, p) == [k \in DOMAIN mem |-> IF k - at \in DOMAIN p THEN p[k - at] ELSE mem[k]]

NilBuffer == [mem |-> <<>>, base |-> 0, len |-> 0, nil |-> TRUE, off |-> 0]

\* The zero Buffer, NewBuffer(buf) and NewBufferString(s).
Init == /\ \/ b = NilBuffer /\ nextId = 0
           \/ \E L \in 0..MaxInit, C \in 0..MaxInitCap :
                 /\ L <= C
                 /\ b = [mem |-> [k \in 1..L |-> k] \o Zeros(C - L), base |-> 0,
                         len |-> L, nil |-> FALSE, off |-> 0]
                 /\ nextId = L
           \/ \E L \in 0..MaxInit :
                 /\ b = [mem |-> [k \in 1..L |-> k], base |-> 0, len |-> L,
                         nil |-> FALSE, off |-> 0]
                 /\ nextId = L
        /\ out = NoOut
        /\ pc = "idle"

\* Truncate(n): n = 0 also resets off; b.buf = b.buf[0 : b.off+n].
Truncate(s, n) == LET o == IF n = 0 THEN 0 ELSE s.off
                  IN [s EXCEPT !.off = o, !.len = o + n]

\* Mutant: the new array is 2*cap(b.buf) long, without room for n.
resizeNoN(s, n) ==
    IF s.nil /\ n <= Bootstrap
    THEN [mem |-> Zeros(Bootstrap), base |-> 0, len |-> Bootstrap, nil |-> FALSE, off |-> 0]
    ELSE [mem |-> Contents(s) \o Zeros(2 * Cap(s) - Unread(s)), base |-> 0,
          len |-> 2 * Cap(s), nil |-> FALSE, off |-> 0]

\* Mutant: the whole slice is copied, the bytes already read included.
resizeFromStart(s, n) ==
    IF s.nil /\ n <= Bootstrap
    THEN [mem |-> Zeros(Bootstrap), base |-> 0, len |-> Bootstrap, nil |-> FALSE, off |-> 0]
    ELSE [mem |-> SubSeq(s.mem, s.base + 1, s.base + s.len) \o Zeros(2 * Cap(s) + n - s.len),
          base |-> 0, len |-> 2 * Cap(s) + n, nil |-> FALSE, off |-> 0]

\* resize(n): the bootstrap array for a nil buffer when n fits, else a new
\* array of 2*cap+n holding b.buf[b.off:]; the slice is the whole array.
resize(s, n) ==
    IF s.nil /\ n <= Bootstrap
    THEN [mem |-> Zeros(Bootstrap), base |-> 0, len |-> Bootstrap, nil |-> FALSE, off |-> 0]
    ELSE [mem |-> Contents(s) \o Zeros(2 * Cap(s) + n - Unread(s)), base |-> 0,
          len |-> 2 * Cap(s) + n, nil |-> FALSE, off |-> 0]

\* Write(p) (WriteString is the same): reset an empty buffer, resize when
\* p does not fit after len(b.buf), extend the slice and copy p after the
\* unread bytes.
write(s, p) ==
    LET m  == Unread(s)
        s1 == IF m = 0 /\ s.off # 0 THEN Truncate(s, 0) ELSE s
        s2 == IF s1.len + Len(p) > Cap(s1) THEN resize(s1, Len(p)) ELSE s1
    IN [s2 EXCEPT !.len = s2.off + m + Len(p),
                  !.mem = CopyAt(s2.mem, s2.base + s2.off + m, p)]

\* A write of n fresh bytes.
Written(n) == /\ pc = "idle"
              /\ nextId + n <= MaxBytes
              /\ b' = write(b, Fresh(n))
              /\ nextId' = nextId + n
              /\ UNCHANGED <<out, pc>>

Write == \E n \in 0..MaxChunk : Written(n)

WriteString == \E n \in 0..MaxChunk : Written(n)

WriteByte == Written(1)

\* WriteRune(r): one byte below utf8.RuneSelf, else EncodeRune's 2..UTFMax.
WriteRune == \E n \in 1..UTFMax : Written(n)

\* An empty buffer: Truncate(0) and os.EOF (Read, ReadByte).
ReadEOF == /\ pc = "idle"
           /\ b.off >= b.len
           /\ b' = Truncate(b, 0)
           /\ out' = [bytes |-> <<>>, eof |-> TRUE]
           /\ UNCHANGED <<nextId, pc>>

\* Read(p): copy min(len(p), b.Len()) bytes out and advance off.
Read == \/ ReadEOF
        \/ /\ pc = "idle"
           /\ b.off < b.len
           /\ \E k \in 0..MaxChunk :
                 LET n == MinOf(k, Unread(b)) IN
                 /\ out' = [bytes |-> SubSeq(Contents(b), 1, n), eof |-> FALSE]
                 /\ b' = [b EXCEPT !.off = @ + n]
           /\ UNCHANGED <<nextId, pc>>

\* ReadByte: the byte at off.
ReadByte == \/ ReadEOF
            \/ /\ pc = "idle"
               /\ b.off < b.len
               /\ out' = [bytes |-> <<b.mem[b.base + b.off + 1]>>, eof |-> FALSE]
               /\ b' = [b EXCEPT !.off = @ + 1]
               /\ UNCHANGED <<nextId, pc>>

\* Truncate(n) for n <= b.Len(), and Reset, which is Truncate(0).
TruncateN == /\ pc = "idle"
             /\ \E n \in 0..Unread(b) : b' = Truncate(b, n)
             /\ UNCHANGED <<nextId, out, pc>>

Reset == /\ pc = "idle"
         /\ b' = Truncate(b, 0)
         /\ UNCHANGED <<nextId, out, pc>>

\* ReadFrom(r): an empty buffer is reset, then the loop starts.
ReadFromCall == /\ pc = "idle"
                /\ ReadFromAfterPartialRead \/ b.off = 0 \/ b.off >= b.len
                /\ b' = IF b.off >= b.len THEN Truncate(b, 0) ELSE b
                /\ pc' = "readFrom"
                /\ UNCHANGED <<nextId, out>>

\* Less than MinRead free at the end: move the unread bytes to the front
\* of the array when that frees MinRead, else to a new array of
\* 2*(cap-off)+MinRead; off becomes 0.
readFromRoom(s) ==
    IF Cap(s) - s.len >= MinRead THEN s
    ELSE IF s.off + Cap(s) - s.len >= MinRead
    THEN [s EXCEPT !.mem = CopyAt(@, s.base, Contents(s)), !.len = Unread(s), !.off = 0]
    ELSE [mem |-> Contents(s) \o Zeros(2 * (Cap(s) - s.off) + MinRead - Unread(s)),
          base |-> 0, len |-> Unread(s), nil |-> FALSE, off |-> 0]

\* One iteration: make room, r.Read(b.buf[len(b.buf):cap(b.buf)]) returns
\* k bytes, b.buf = b.buf[b.off : len(b.buf)+k]; on EOF (or an error)
\* ReadFrom returns.
ReadFromLoop ==
    /\ pc = "readFrom"
    /\ LET s == readFromRoom(b) IN
       \E k \in 0..MinOf(Cap(s) - s.len, MaxChunk) :
          /\ nextId + k <= MaxBytes
          /\ b' = [s EXCEPT !.mem = CopyAt(@, s.base + s.len, Fresh(k)),
                            !.base = s.base + s.off,
                            !.len = s.len + k - s.off]
          /\ nextId' = nextId + k
          /\ \E eof \in BOOLEAN : pc' = IF eof THEN "idle" ELSE "readFrom"
    /\ UNCHANGED out

\* WriteTo(w): w.Write(b.buf[b.off:]) takes m bytes; a short write comes
\* with an error and WriteTo returns; else the drained buffer is reset.
WriteTo == /\ pc = "idle"
           /\ \E m \in 0..Unread(b), fail \in BOOLEAN :
                 /\ m = Unread(b) \/ fail
                 /\ fail => Unread(b) > 0
                 /\ out' = [bytes |-> SubSeq(Contents(b), 1, m), eof |-> FALSE]
                 /\ b' = IF fail THEN [b EXCEPT !.off = @ + m]
                         ELSE Truncate([b EXCEPT !.off = @ + m], 0)
           /\ UNCHANGED <<nextId, pc>>

Next == \/ Write \/ WriteString \/ WriteByte \/ WriteRune
        \/ Read \/ ReadByte \/ TruncateN \/ Reset
        \/ ReadFromCall \/ ReadFromLoop \/ WriteTo

Spec == Init /\ [][Next]_vars

-----------------------------------------------------------------------------
(* Properties *)

TypeOK ==
    /\ pc \in {"idle", "readFrom"}
    /\ 0 <= b.off /\ b.off <= b.len /\ b.len <= Cap(b)
    /\ b.nil => b.mem = <<>>
    /\ nextId \in 0..MaxBytes

Q == INSTANCE ByteQueue WITH q <- Contents(b), wrote <- nextId, InitLens <- 0..MaxInit

\* The Buffer is the queue its comments describe: every write appends
\* exactly the bytes given, every Read, ReadByte and WriteTo hands out the
\* first unread bytes (and os.EOF exactly when there are none), Truncate
\* keeps a prefix; resize, the reuse of space at the front and ReadFrom's
\* growth lose, duplicate and reorder nothing.
BufferRefinesQueue == Q!Spec
=============================================================================
