-------------------------------- MODULE MCGob --------------------------------
(***************************************************************************)
(* Inputs for Gob.  The local struct has int fields A and B.  User type   *)
(* ids start at FirstUserId = 65, past every builtin id.  The sender      *)
(* defines type 65 as {A int; B int}, 66 as {C string; B int} (a string   *)
(* the decoder skips), 67 as {B string} (B of the wrong type) and 68 as   *)
(* {C int} (no field in common).  The values take one- to three-byte       *)
(* encodings, negative ones and strings.  Every session of up to three     *)
(* messages is fed whole; those of up to two are also cut after every      *)
(* byte, and the Reader then reports os.EOF or a read error.               *)
(***************************************************************************)
EXTENDS Gob

IntField(n) == [name |-> n, id |-> tInt]
StringField(n) == [name |-> n, id |-> tString]

MCLocalFields == {"A", "B"}
MCWireStructs ==
    (1 :> [nil |-> FALSE, field |-> <<IntField("A"), IntField("B")>>]) @@
    (2 :> [nil |-> FALSE, field |-> <<StringField("C"), IntField("B")>>]) @@
    (3 :> [nil |-> FALSE, field |-> <<StringField("B")>>]) @@
    (4 :> [nil |-> FALSE, field |-> <<IntField("C")>>]) @@
    (5 :> [nil |-> TRUE, field |-> <<>>])
MCFirstUserId == 65
MCSenderType == (65 :> 1) @@ (66 :> 2) @@ (67 :> 3) @@ (68 :> 4) @@ (69 :> 5) @@ (2 :> 1) @@ (70 :> 99)
MCReadEnds == {"EOF", "ReadErr"}

TypeMsg(id) == [kind |-> "type", id |-> id]
ValueMsg(id, vals) == [kind |-> "value", id |-> id, vals |-> vals]
RawMsg(body) == [kind |-> "raw", body |-> body]

Items ==
    {TypeMsg(id) : id \in 65..68}
    \cup {ValueMsg(65, [A |-> a, B |-> b]) : <<a, b>> \in {<<0, 0>>, <<1, -1>>, <<300, 5>>}}
    \cup {ValueMsg(66, [C |-> c, B |-> b]) : <<c, b>> \in {<<<<>>, 2>>, <<<<97, 98>>, -70000>>}}
    \cup {ValueMsg(67, [B |-> <<97>>]), ValueMsg(68, [C |-> 3])}

Sessions(k) == UNION {[1..j -> Items] : j \in 0..k}

MCFeeds ==
    UNION {{[items |-> s, cut |-> c] : c \in 0..Len(Encode(s))} : s \in Sessions(2)}
    \cup {[items |-> s, cut |-> Len(Encode(s))] : s \in [1..3 -> Items]}

\* Messages no sender writes: a type defined twice over a builtin id, a
\* type that is no struct or whose wireType fails to decode, followed by a
\* value of it; a delta that takes the field number past the largest int.
BadItems ==
    {TypeMsg(2), ValueMsg(2, [A |-> 1, B |-> 0]), TypeMsg(69), ValueMsg(69, <<>>),
     TypeMsg(70), RawMsg(EncInt(70) \o <<0>>), TypeMsg(65),
     RawMsg(EncInt(65) \o <<2, 2>> \o <<252, 127, 255, 255, 255>> \o <<2, 0>>)}

MCBadFeeds == {[items |-> s, cut |-> Len(Encode(s))] : s \in [1..2 -> BadItems]}

\* No stream defines a builtin struct id (tWireType and its parts).
ASSUME \A f \in MCFeeds \cup MCBadFeeds : \A k \in DOMAIN f.items :
         f.items[k].kind # "raw" => (f.items[k].id \in BasicIds \/ f.items[k].id >= MCFirstUserId)
=============================================================================
