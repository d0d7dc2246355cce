-------------------------------- MODULE Wire --------------------------------
(***************************************************************************)
(* Messages on a stream: the generated protocol buffer code of every       *)
(* protocol (pkg/**/pb) under the length-delimited reader and writer of    *)
(* pkg/p2p/protobuf.                                                       *)
(*                                                                         *)
(* The generated functions differ in their fields only, so a message type  *)
(* is here its fields: a function from field numbers to kinds, which       *)
(* Marshal and Unmarshal interpret the way the generated code handles a    *)
(* field of that kind.  A message is a function from the field numbers to  *)
(* values.  Bytes are 0..255; integers are the small ones TLC has.         *)
(***************************************************************************)
EXTENDS Integers, Sequences, FiniteSets, TLC

CONSTANTS Uints,     \* the integers of the messages sent
          Lengths,   \* the lengths of the byte strings of the messages sent
          MaxSize    \* delimitedReaderMaxSize, in bytes

VARIABLES type,      \* the type of the messages of the stream
          sent,      \* the messages written to it
          stream,    \* the bytes the reader can still get
          broken,    \* the stream was closed or reset: no more bytes will come
          got,       \* the messages read
          readErr    \* ReadMsg returned an error

wireVars == <<type, sent, stream, broken, got, readErr>>

Scalar(k) == [kind |-> k, of |-> <<>>]
Uint == Scalar("uint")
Bool == Scalar("bool")
Bytes == Scalar("bytes")
Uints64 == Scalar("uints")
Message(fields) == [kind |-> "message", of |-> fields]
Repeated(fields) == [kind |-> "repeated", of |-> fields]

---------------------------------------------------------------------------
(* The message types.                                                      *)

PseudosettlePayment == <<Bytes>>
PseudosettlePaymentAck == <<Bytes, Uint>>
SwapEmitCheque == <<Bytes>>
SwapHandshake == <<Bytes>>
Ping == <<Bytes>>
Pong == <<Bytes>>
RetrievalRequest == <<Bytes>>
RetrievalDelivery == <<Bytes, Bytes>>
TrustSign == <<Uint, Uint, Bytes, Bytes, Uint, Bool>>
Trust == <<Uint, Bytes>>
PullSyn == <<>>
PullAck == <<Uints64>>
PullRuid == <<Uint>>
PullCancel == <<Uint>>
PullGetRange == <<Uint, Uint, Uint>>
PullOffer == <<Uint, Bytes>>
PullWant == <<Bytes>>
PullDelivery == <<Bytes, Bytes, Bytes>>
HiveBzzAddress == <<Bytes, Bytes, Bytes, Bytes>>
HivePeers == <<Repeated(HiveBzzAddress)>>
PushDelivery == <<Bytes, Bytes, Bytes>>
PushReceipt == <<Bytes, Bytes, Bytes>>
HandshakeSyn == <<Bytes>>
HandshakeBzzAddress == <<Bytes, Bytes, Bytes>>
HandshakeAck == [f \in {1, 2, 3, 4, 99} |->
                    CASE f = 1 -> Message(HandshakeBzzAddress)
                      [] f = 2 -> Uint
                      [] f = 3 -> Bool
                      [] OTHER -> Bytes]
HandshakeSynAck == <<Message(HandshakeSyn), Message(HandshakeAck)>>
Header == <<Bytes, Bytes>>
Headers == <<Repeated(Header)>>
AnnouncePaymentThreshold == <<Bytes>>

(***************************************************************************)
(* The encoding half of a package names its fields once more: what its     *)
(* Marshal functions write and its Size functions count.                   *)
(***************************************************************************)
PseudosettleMarshal == [Payment |-> <<Bytes>>, PaymentAck |-> <<Bytes, Uint>>]
SwapMarshal == [EmitCheque |-> <<Bytes>>, Handshake |-> <<Bytes>>]
PingpongMarshal == [Ping |-> <<Bytes>>, Pong |-> <<Bytes>>]
RetrievalMarshal == [Request |-> <<Bytes>>, Delivery |-> <<Bytes, Bytes>>]
PullsyncMarshal == [Syn |-> <<>>, Ack |-> <<Uints64>>, Ruid |-> <<Uint>>, Cancel |-> <<Uint>>,
                    GetRange |-> <<Uint, Uint, Uint>>, Offer |-> <<Uint, Bytes>>,
                    Want |-> <<Bytes>>, Delivery |-> <<Bytes, Bytes, Bytes>>]
HiveMarshal == [Peers |-> <<Repeated(<<Bytes, Bytes, Bytes, Bytes>>)>>]
PushsyncMarshal == [Delivery |-> <<Bytes, Bytes, Bytes>>, Receipt |-> <<Bytes, Bytes, Bytes>>]
HandshakeMarshal ==
    LET syn == <<Bytes>>
        ack == 1 :> Message(<<Bytes, Bytes, Bytes>>) @@ 2 :> Uint @@ 3 :> Bool @@ 4 :> Bytes @@ 99 :> Bytes
    IN  [Syn |-> syn, Ack |-> ack, SynAck |-> <<Message(syn), Message(ack)>>]
HeadersMarshal == [Headers |-> <<Repeated(<<Bytes, Bytes>>)>>]
PricingMarshal == [AnnouncePaymentThreshold |-> <<Bytes>>]

Type(enc, dec) == [enc |-> enc, dec |-> dec]

Types == {Type(PseudosettleMarshal.Payment, PseudosettlePayment),
          Type(PseudosettleMarshal.PaymentAck, PseudosettlePaymentAck),
          Type(SwapMarshal.EmitCheque, SwapEmitCheque), Type(SwapMarshal.Handshake, SwapHandshake),
          Type(PingpongMarshal.Ping, Ping), Type(PingpongMarshal.Pong, Pong),
          Type(RetrievalMarshal.Request, RetrievalRequest), Type(RetrievalMarshal.Delivery, RetrievalDelivery),
          Type(TrustSign, TrustSign), Type(Trust, Trust),
          Type(PullsyncMarshal.Syn, PullSyn), Type(PullsyncMarshal.Ack, PullAck),
          Type(PullsyncMarshal.Ruid, PullRuid), Type(PullsyncMarshal.Cancel, PullCancel),
          Type(PullsyncMarshal.GetRange, PullGetRange), Type(PullsyncMarshal.Offer, PullOffer),
          Type(PullsyncMarshal.Want, PullWant), Type(PullsyncMarshal.Delivery, PullDelivery),
          Type(HiveMarshal.Peers, HivePeers),
          Type(PushsyncMarshal.Delivery, PushDelivery), Type(PushsyncMarshal.Receipt, PushReceipt),
          Type(HandshakeMarshal.Syn, HandshakeSyn), Type(HandshakeMarshal.Ack, HandshakeAck),
          Type(HandshakeMarshal.SynAck, HandshakeSynAck), Type(HeadersMarshal.Headers, Headers),
          Type(PricingMarshal.AnnouncePaymentThreshold, AnnouncePaymentThreshold)}

---------------------------------------------------------------------------
(* Encoding.                                                               *)

\* The embedded message is nil.  Embedded types have fields.
Absent == <<>>

Default(k) ==
    CASE k.kind = "uint" -> 0
      [] k.kind = "bool" -> FALSE
      [] k.kind = "message" -> Absent
      [] OTHER -> <<>>

WireType(k) == IF k.kind \in {"uint", "bool"} THEN 0 ELSE 2

RECURSIVE EncodeVarint(_)
EncodeVarint(v) == IF v < 128 THEN <<v>> ELSE <<128 + (v % 128)>> \o EncodeVarint(v \div 128)

Delimited(b) == EncodeVarint(Len(b)) \o b

RECURSIVE Concat(_)
Concat(bs) == IF bs = <<>> THEN <<>> ELSE Head(bs) \o Concat(Tail(bs))

RECURSIVE Sov(_)
Sov(v) == IF v < 128 THEN 1 ELSE 1 + Sov(v \div 128)

RECURSIVE Sum(_)
Sum(ns) == IF ns = <<>> THEN 0 ELSE Head(ns) + Sum(Tail(ns))

RECURSIVE Size(_, _)

(***************************************************************************)
(* The bytes a field takes, counted before anything is written.            *)
(***************************************************************************)
SizeField(n, k, v) ==
    LET WithLength(l) == Sov(8 * n) + l + Sov(l)
    IN  IF k.kind = "repeated" THEN Sum([i \in DOMAIN v |-> WithLength(Size(k.of, v[i]))])
        ELSE IF v = Default(k) THEN 0
        ELSE CASE k.kind = "uint" -> Sov(8 * n) + Sov(v)
               [] k.kind = "bool" -> Sov(8 * n) + 1
               [] k.kind = "bytes" -> WithLength(Len(v))
               [] k.kind = "uints" -> WithLength(Sum([i \in DOMAIN v |-> Sov(v[i])]))
               [] k.kind = "message" -> WithLength(Size(k.of, v))

Size(t, m) ==
    LET F[ns \in SUBSET DOMAIN t] ==
          IF ns = {} THEN 0
          ELSE LET n == CHOOSE x \in ns : TRUE IN SizeField(n, t[n], m[n]) + F[ns \ {n}]
    IN  F[DOMAIN t]

(***************************************************************************)
(* A buffer of that size is filled from its end, and as many bytes as were *)
(* written are taken from its front.  A buffer too small panics: nothing   *)
(* is sent.                                                                *)
(***************************************************************************)
SizedBuffer(size, b) ==
    IF size < Len(b) THEN <<>> ELSE SubSeq([i \in 1..size - Len(b) |-> 0] \o b, 1, Len(b))

RECURSIVE Marshal(_, _), MarshalFrom(_, _, _)

(***************************************************************************)
(* A field with its default value is left out.                             *)
(***************************************************************************)
MarshalField(n, k, v) ==
    LET tag == EncodeVarint(8 * n + WireType(k))
    IN  IF k.kind = "repeated" THEN Concat([i \in DOMAIN v |-> tag \o Delimited(Marshal(k.of, v[i]))])
        ELSE IF v = Default(k) THEN <<>>
        ELSE tag \o CASE k.kind = "uint" -> EncodeVarint(v)
                      [] k.kind = "bool" -> <<1>>
                      [] k.kind = "bytes" -> Delimited(v)
                      [] k.kind = "uints" -> Delimited(Concat([i \in DOMAIN v |-> EncodeVarint(v[i])]))
                      [] k.kind = "message" -> Delimited(Marshal(k.of, v))

MarshalFrom(t, m, ns) ==
    IF ns = {} THEN <<>>
    ELSE LET n == CHOOSE x \in ns : \A y \in ns : x <= y
         IN  MarshalField(n, t[n], m[n]) \o MarshalFrom(t, m, ns \ {n})

Marshal(t, m) == SizedBuffer(Size(t, m), MarshalFrom(t, m, DOMAIN t))

---------------------------------------------------------------------------
(* Decoding.  A result is [ok, v, i]: whether it succeeded, the value, the *)
(* index after it.                                                         *)

Error == [ok |-> FALSE, v |-> 0, i |-> 0]
Ok(v, i) == [ok |-> TRUE, v |-> v, i |-> i]

RECURSIVE Varint(_, _, _)
Varint(b, i, shift) ==
    IF shift >= 64 \/ i > Len(b) THEN Error
    ELSE IF b[i] < 128 THEN Ok(b[i], i + 1)
    ELSE LET r == Varint(b, i + 1, shift + 7)
         IN  IF r.ok THEN Ok(b[i] - 128 + 128 * r.v, r.i) ELSE Error

(***************************************************************************)
(* The bytes after a length.                                               *)
(***************************************************************************)
Slice(b, i) ==
    LET r == Varint(b, i, 0)
    IN  IF r.ok /\ r.i + r.v - 1 <= Len(b) THEN Ok(SubSeq(b, r.i, r.i + r.v - 1), r.i + r.v) ELSE Error

(***************************************************************************)
(* skipXxx: past an unknown field, groups included.                        *)
(***************************************************************************)
RECURSIVE Skip(_, _, _)
Skip(b, i, depth) ==
    LET tag == Varint(b, i, 0)
        past == CASE tag.v % 8 = 0 -> Varint(b, tag.i, 0)
                  [] tag.v % 8 = 1 -> Ok(0, tag.i + 8)
                  [] tag.v % 8 = 2 -> LET r == Varint(b, tag.i, 0) IN IF r.ok THEN Ok(0, r.i + r.v) ELSE Error
                  [] tag.v % 8 = 5 -> Ok(0, tag.i + 4)
                  [] tag.v % 8 \in {3, 4} -> Ok(0, tag.i)
                  [] OTHER -> Error
        deeper == depth + (IF tag.v % 8 = 3 THEN 1 ELSE IF tag.v % 8 = 4 THEN -1 ELSE 0)
    IN  IF ~tag.ok THEN Error
        ELSE IF ~past.ok \/ deeper < 0 THEN Error
        ELSE IF deeper > 0 THEN Skip(b, past.i, deeper)
        ELSE IF past.i - 1 > Len(b) THEN Error ELSE past

RECURSIVE Varints(_, _)
Varints(b, i) ==
    IF i > Len(b) THEN Ok(<<>>, i)
    ELSE LET r == Varint(b, i, 0)
             rest == Varints(b, r.i)
         IN  IF ~r.ok THEN Error
             ELSE IF rest.ok THEN Ok(<<r.v>> \o rest.v, rest.i) ELSE Error

RECURSIVE UnmarshalInto(_, _, _, _)

Reset(t) == [n \in DOMAIN t |-> Default(t[n])]

(***************************************************************************)
(* A field of the message: the value so far is old.  Packed and unpacked   *)
(* integers are both appended, a repeated message is appended, an embedded *)
(* one is merged into, anything else is replaced.                          *)
(***************************************************************************)
UnmarshalField(k, wire, old, b, i) ==
    LET value == IF wire = 0 THEN Varint(b, i, 0) ELSE Slice(b, i)
        Part(m) == UnmarshalInto(k.of, m, value.v, 1)
    IN  IF k.kind = "uints"
        THEN IF wire = 0 THEN (IF value.ok THEN Ok(Append(old, value.v), value.i) ELSE Error)
             ELSE IF wire = 2 /\ value.ok /\ Varints(value.v, 1).ok
             THEN Ok(old \o Varints(value.v, 1).v, value.i) ELSE Error
        ELSE IF wire # WireType(k) \/ ~value.ok THEN Error
        ELSE CASE k.kind \in {"uint", "bytes"} -> value
               [] k.kind = "bool" -> Ok(value.v # 0, value.i)
               [] k.kind = "message" ->
                    LET m == Part(IF old = Absent THEN Reset(k.of) ELSE old)
                    IN  IF m.ok THEN Ok(m.v, value.i) ELSE Error
               [] k.kind = "repeated" ->
                    LET m == Part(Reset(k.of))
                    IN  IF m.ok THEN Ok(Append(old, m.v), value.i) ELSE Error

\* Mutant: an unknown field ends the message.
StopAtUnknown(t, m, b, i) ==
    IF i > Len(b) THEN Ok(m, i)
    ELSE LET tag == Varint(b, i, 0)
             n == tag.v \div 8
             r == UnmarshalField(t[n], tag.v % 8, m[n], b, tag.i)
         IN  IF ~tag.ok \/ n = 0 THEN Error
             ELSE IF n \notin DOMAIN t THEN Error
             ELSE IF r.ok THEN UnmarshalInto(t, [m EXCEPT ![n] = r.v], b, r.i) ELSE Error

UnmarshalInto(t, m, b, i) ==
    IF i > Len(b) THEN Ok(m, i)
    ELSE LET tag == Varint(b, i, 0)
             n == tag.v \div 8
             unknown == Skip(b, i, 0)
             r == UnmarshalField(t[n], tag.v % 8, m[n], b, tag.i)
         IN  IF ~tag.ok \/ tag.v % 8 = 4 \/ n = 0 THEN Error
             ELSE IF n \notin DOMAIN t
             THEN IF unknown.ok THEN UnmarshalInto(t, m, b, unknown.i) ELSE Error
             ELSE IF r.ok THEN UnmarshalInto(t, [m EXCEPT ![n] = r.v], b, r.i) ELSE Error

Unmarshal(t, b) == UnmarshalInto(t, Reset(t), b, 1)

---------------------------------------------------------------------------
(* The messages a peer sends: every message of a type once, and a message  *)
(* of a newer peer, with a field this node does not know, of every wire    *)
(* type and a group.                                                       *)

RECURSIVE Values(_), Choices(_, _)

Values(k) ==
    CASE k.kind = "uint" -> Uints
      [] k.kind = "bool" -> BOOLEAN
      [] k.kind = "bytes" -> {[i \in 1..l |-> 200] : l \in Lengths}
      [] k.kind = "uints" -> {<<>>} \union {<<u, v>> : u, v \in Uints}
      [] k.kind = "message" -> {Absent} \union Choices(k.of, DOMAIN k.of)
      [] k.kind = "repeated" -> {<<>>} \union {<<m, Reset(k.of)>> : m \in Choices(k.of, DOMAIN k.of)}

Choices(t, ns) ==
    IF ns = {} THEN {<<>>}
    ELSE LET n == CHOOSE x \in ns : TRUE
         IN  {(n :> v) @@ m : v \in Values(t[n]), m \in Choices(t, ns \ {n})}

Messages(t) == Choices(t, DOMAIN t)

Unknown == {<<120, 200, 1>>, <<121, 1, 2, 3, 4, 5, 6, 7, 8>>, <<122, 2, 8, 9>>,
            <<123, 8, 1, 124>>, <<125, 1, 2, 3, 4>>}

---------------------------------------------------------------------------

NoType == Type(<<Scalar("none")>>, <<Scalar("none")>>)

Full(t) == CHOOSE m \in Messages(t) : \A n \in DOMAIN t : m[n] # Default(t[n])

Init ==
    /\ type = NoType /\ sent = <<>> /\ stream = <<>> /\ broken = FALSE
    /\ got = <<>> /\ readErr = FALSE

OpenStream ==
    /\ type = NoType /\ type' \in Types
    /\ UNCHANGED <<sent, stream, broken, got, readErr>>

WriteMsg(m, extra) ==
    /\ ~broken
    /\ sent' = Append(sent, [m |-> m, size |-> Len(Marshal(type.enc, m) \o extra)])
    /\ stream' = stream \o Delimited(Marshal(type.enc, m) \o extra)
    /\ UNCHANGED <<type, broken, got, readErr>>

Write ==
    /\ type # NoType
    /\ \/ sent = <<>> /\ \E m \in Messages(type.dec) : WriteMsg(m, <<>>)
       \/ sent = <<>> /\ \E extra \in Unknown : WriteMsg(Full(type.dec), extra)
       \/ Len(sent) = 1 /\ WriteMsg(Full(type.dec), <<>>)

Break ==
    /\ ~broken /\ broken' = TRUE
    /\ \E c \in 0..Len(stream) : stream' = SubSeq(stream, 1, c)
    /\ UNCHANGED <<type, sent, got, readErr>>

(***************************************************************************)
(* ReadMsg: the length, then so many bytes, then Unmarshal.  It waits for  *)
(* the bytes as long as more can come.                                     *)
(***************************************************************************)
ReadMsg ==
    LET size == Varint(stream, 1, 0)
        body == Slice(stream, 1)
        m == Unmarshal(type.dec, body.v)
    IN  /\ ~readErr
        /\ broken \/ body.ok \/ (size.ok /\ size.v > MaxSize)
        /\ IF size.ok /\ size.v <= MaxSize /\ body.ok /\ m.ok
           THEN /\ got' = Append(got, m.v)
                /\ stream' = SubSeq(stream, body.i, Len(stream))
                /\ UNCHANGED readErr
           ELSE readErr' = TRUE /\ UNCHANGED <<got, stream>>
        /\ UNCHANGED <<type, sent, broken>>

Next == OpenStream \/ Write \/ Break \/ ReadMsg

Spec == Init /\ [][Next]_wireVars

---------------------------------------------------------------------------
(***************************************************************************)
(* For every message type, wherever the stream breaks and whatever fields  *)
(* a newer peer adds: what is read is what was written, in order and       *)
(* nothing else, and reading only fails where the stream broke or at a     *)
(* message that is too large (the generated Marshal and Unmarshal,         *)
(* protobuf.NewReader).                                                    *)
(***************************************************************************)
ReadIsWritten ==
    /\ \A i \in DOMAIN got : i <= Len(sent) /\ got[i] = sent[i].m
    /\ readErr => broken \/ sent[Len(got) + 1].size > MaxSize
=============================================================================
