------------------------------ MODULE ByteQueue ------------------------------
(***************************************************************************)
(* What a bytes.Buffer promises (src/pkg/bytes/buffer.go): its contents,  *)
(* the unread portion, are a queue of bytes.  Writes (Write, WriteString, *)
(* WriteByte, WriteRune, ReadFrom) append the bytes given; reads (Read,   *)
(* ReadByte, WriteTo) remove bytes from the front and hand them out;      *)
(* Truncate keeps a prefix.  Every byte ever written is the next of the   *)
(* numbers 1, 2, ..., so a byte lost, duplicated or moved shows.           *)
(***************************************************************************)
EXTENDS Naturals, Sequences

CONSTANT
    InitLens    \* lengths the initial contents may have

VARIABLES
    q,          \* the unread bytes
    wrote,      \* the number of bytes put so far (initial contents included)
    out         \* what the last read handed out: [bytes, eof]

vars == <<q, wrote, out>>

NoOut == [bytes |-> <<>>, eof |-> FALSE]

\* The bytes wrote + 1 .. w, in order.
Fresh(w) == [k \in 1..w - wrote |-> wrote + k]

Init == /\ \E L \in InitLens : q = [k \in 1..L |-> k] /\ wrote = L
        /\ out = NoOut

\* Bytes are appended.
Put == /\ wrote' >= wrote
       /\ q' = q \o Fresh(wrote')
       /\ UNCHANGED out

\* The first n bytes are handed out and removed; eof reports a queue that
\* was empty (Read's os.EOF).
Get == \E n \in 0..Len(q) :
          /\ out' = [bytes |-> SubSeq(q, 1, n), eof |-> q = <<>>]
          /\ q' = SubSeq(q, n + 1, Len(q))
          /\ UNCHANGED wrote

\* The first n bytes are handed to a writer (no eof).
Take == \E n \in 0..Len(q) :
           /\ out' = [bytes |-> SubSeq(q, 1, n), eof |-> FALSE]
           /\ q' = SubSeq(q, n + 1, Len(q))
           /\ UNCHANGED wrote

\* All but the first n bytes are discarded.
Keep == \E n \in 0..Len(q) :
           /\ q' = SubSeq(q, 1, n)
           /\ UNCHANGED <<wrote, out>>

Next == Put \/ Get \/ Take \/ Keep

Spec == Init /\ [][Next]_vars
=============================================================================
