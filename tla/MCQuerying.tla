---------------------------- MODULE MCQuerying ------------------------------
(***************************************************************************)
(* An instance of Querying for TLC: a client's life, and bytes of every    *)
(* message type read on their own, as those inside an Any are.             *)
(***************************************************************************)
EXTENDS Querying, ProtoCodec, ProtoTypes

\* A definition of its own, so that TLC uses the table it has computed.
MCSchema == AllSchemas

\* merlion.ve names a type that the repository does not have.
MissingType == "cosmos.nft.v1beta1.NFT"

IsReadable(fields) == \A field \in fields : field.message # MissingType

-----------------------------------------------------------------------------
(* Sample messages; n tells their values apart.                              *)

RECURSIVE SampleOf(_, _, _)

\* Nested messages are filled down to the given depth.
Value(field, n, depth) ==
  CASE field.message # "" -> SampleOf(field.message, n, depth - 1)
    [] field.message = "" /\ field.wireType = "LengthDelimited" -> <<Text(n)>>
    [] OTHER -> n

Filled(field, value, other) ==
  IF IsList(field) THEN <<value, other>>
  ELSE IF field.rule = "oneof" THEN [kind |-> field.name, value |-> value]
       ELSE value

FilledTo(field, n, depth) == Filled(field, Value(field, n, depth), Value(field, n + 1, 0))

\* Every slot filled, or none.
Sample(fields, n, depth) ==
  IF depth < 0 THEN Blank(fields)
  ELSE [slot \in Slots(fields) |->
         IF slot = "unknown" THEN <<>>
         ELSE FilledTo(CHOOSE field \in fields : Slot(field) = slot, n, depth)]

SampleOf(type, n, depth) == Sample(FieldsOf(type), n, depth)

\* One field filled.
Single(fields, field, n) ==
  [Blank(fields) EXCEPT ![Slot(field)] = FilledTo(field, n, 1)]

\* A number and a text under field numbers that no schema has.
NewNumber == <<Tag(1000, "Varint"), Number(1)>>
NewText == <<Tag(1001, "LengthDelimited"), Length(1), Text(1)>>

\* A type without fields skips none, either.
WithNew(fields, message) ==
  IF fields = {} THEN message
  ELSE [message EXCEPT !["unknown"] = <<NewNumber, NewText>>]

FullWithNew(fields) == WithNew(fields, Sample(fields, 1, 1))

\* Of each type: the empty message, all of it with new fields before a single
\* field, and each field or oneof member twice.
Pairs(fields) ==
  {<<FullWithNew(fields), b>> :
     b \in {Blank(fields)} \cup {Single(fields, field, 3) : field \in fields}} \cup
  {<<Single(fields, p[1], 1), Single(fields, p[2], 3)>> :
     p \in {p \in fields \X fields : Slot(p[1]) = Slot(p[2])}}

ReadTwice(type, fields, p) ==
  [type |-> type,
   wire |-> WriteFields(fields, p[1]) \o WriteFields(fields, p[2]),
   message |-> MergeFields(Range(fields), p[1], p[2])]

\* Bytes that were cut short: what is left of a message of one field is nothing,
\* or not a message.
Cut(type, wire, n, blank) ==
  [type |-> type, wire |-> SubSeq(wire, 1, n),
   message |-> IF n = 0 THEN blank ELSE None]

Cuts(type, fields, blank) ==
  UNION {LET wire == WriteFields(fields, Single(Range(fields), field, 1)) IN
         {Cut(type, wire, n, blank) : n \in 0..(Len(wire) - 1)} :
         field \in {field \in Range(fields) : ~IsList(field)}}

\* Bytes of a type that are not an answer.
ReadOf(type, fields) ==
  {ReadTwice(type, fields, p) : p \in Pairs(Range(fields))}
    \cup Cuts(type, fields, Blank(Range(fields)))

\* Answers: an empty one, and a full one of a newer server.
AnswersWith(fields) ==
  {Blank(fields)} \cup (IF IsReadable(fields) THEN {FullWithNew(fields)} ELSE {})

Sent(fields, message) == [wire |-> WriteFields(fields, message), message |-> message]

SentOf(fields) == {Sent(fields, message) : message \in AnswersWith(Range(fields))}

SampleAnswers(type) == SentOf(Schema[type])

-----------------------------------------------------------------------------
(* What core writes with one class and reads with another.                   *)

EthKey == "ethermint.crypto.v1.ethsecp256k1.PubKey"
CosmosKeys == {"cosmos.crypto.secp256k1.PubKey", "cosmos.crypto.ed25519.PubKey"}

\* pub-key.ts:113 and 147: the key classes of one another.
Borrowed(written, read, key) ==
  [type |-> read, wire |-> Write(written, key), message |-> key]

\* client.ts:306 and 315: a TxRaw is sent, and found again as a Tx.
SentAs(body, authInfo, tx) ==
  LET raw == [body_bytes |-> Write("cosmos.tx.v1beta1.TxBody", body),
              auth_info_bytes |-> Write("cosmos.tx.v1beta1.AuthInfo", authInfo),
              signatures |-> tx["signatures"], unknown |-> <<>>]
  IN [type |-> "cosmos.tx.v1beta1.Tx",
      wire |-> Write("cosmos.tx.v1beta1.TxRaw", raw),
      message |-> [tx EXCEPT !["body"] = body, !["auth_info"] = authInfo]]

SentAsTxRaw(n) ==
  SentAs(SampleOf("cosmos.tx.v1beta1.TxBody", n, 1),
         SampleOf("cosmos.tx.v1beta1.AuthInfo", n, 2),
         SampleOf("cosmos.tx.v1beta1.Tx", n, 0))

Across ==
  (CosmosKeys \X {EthKey}) \cup ({EthKey} \X CosmosKeys)

ReadAcross(type) ==
  {Borrowed(k[1], k[2], SampleOf(k[1], 1, 0)) : k \in {k \in Across : k[2] = type}} \cup
  {SentAsTxRaw(n) : n \in IF type = "cosmos.tx.v1beta1.Tx" THEN 1..2 ELSE {}}

-----------------------------------------------------------------------------
(* The instance.                                                             *)

SampleReadings(type) ==
  (IF IsReadable(FieldsOf(type)) THEN ReadOf(type, Schema[type]) ELSE {})
    \cup ReadAcross(type)

\* A method's signature is that of the procedure at its place.
ASSUME TablesAgree

-----------------------------------------------------------------------------
(* What the bytes of the instance mean.                                      *)

RECURSIVE ParsesOf(_, _)

\* TLC has evaluated the message of p.
Evaluated(p) == [p EXCEPT ![4] = @ @@ <<>>]

\* p, whose result is what the rest of its bytes come to; and the rest.
Onto(p, rest) ==
  [result |-> rest.result, all |-> {[p EXCEPT ![5] = rest.result]} \cup rest.all]

\* The parses a parse without a result consists of.
ParsesOf(wire, lazy) ==
  LET p == Evaluated(lazy) IN
  IF StartOf(p) = EndIn(p)
  THEN [result |-> Before(p), all |-> {[p EXCEPT ![5] = Before(p)]}]
  ELSE IF FieldsAt(wire, p) = {} THEN Onto(p, ParsesOf(wire, Skipped(wire, p)))
  ELSE LET field == CHOOSE field \in FieldsAt(wire, p) : TRUE IN
       IF field.message = "" THEN Onto(p, ParsesOf(wire, Taken(wire, p, field)))
       ELSE LET inner == ParsesOf(wire, Enclosed(wire, p, field, None))
                rest == ParsesOf(wire, BehindNested(wire, p, field, inner.result))
            IN Onto(p, [rest EXCEPT !.all = @ \cup inner.all])

IsMeant(type, wire, message) ==
  LET P == ParsesOf(wire, WholeParse(type, wire, None)).all IN
  IsParse(P, wire) /\ WholeParse(type, wire, message) \in P

\* The bytes of the instance mean what they were written from: BytesMeanMessages,
\* with the parses that make it so.
ASSUME \A type \in DOMAIN Schema :
  \A r \in ReadingsOf(type) \cup AnswersOf(type) :
    r.message # None => IsMeant(type, r.wire, r.message)
=============================================================================
