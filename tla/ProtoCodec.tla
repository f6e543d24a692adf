----------------------------- MODULE ProtoCodec -----------------------------
(***************************************************************************)
(* How the generated classes write messages: internalBinaryWrite.  What is *)
(* written is read by ProtoReader.                                         *)
(***************************************************************************)
EXTENDS ProtoReader

-----------------------------------------------------------------------------
(* Writing.                                                                  *)

Delimited(content) == <<Length(Len(content))>> \o content

RECURSIVE Write(_, _)

WriteValue(field, value) ==
  CASE field.message # "" -> Delimited(Write(field.message, value))
    [] field.message = "" /\ field.wireType = "LengthDelimited" -> Delimited(value)
    [] OTHER -> <<Number(value)>>

WriteField(field, message) ==
  LET value == message[Slot(field)]
      tagged(x) == <<Tag(field.no, field.wireType)>> \o WriteValue(field, x)
  IN CASE field.rule = "repeated" ->
            FlattenSeq([i \in DOMAIN value |-> tagged(value[i])])
       [] field.rule = "packed" ->
            IF value = <<>> THEN <<>>
            ELSE <<Tag(field.no, "LengthDelimited")>>
                 \o Delimited([i \in DOMAIN value |-> Number(value[i])])
       [] field.rule = "oneof" ->
            IF value.kind = field.name THEN tagged(value.value) ELSE <<>>
       [] OTHER -> IF value = Nothing(field) THEN <<>> ELSE tagged(value)

WriteFields(fields, message) ==
  FlattenSeq([i \in DOMAIN fields |-> WriteField(fields[i], message)])
  \o FlattenSeq(message["unknown"])

Write(type, message) == WriteFields(Schema[type], message)

-----------------------------------------------------------------------------
(* What bytes mean.                                                          *)

\* What two messages written one after the other mean, by the messages alone.
RECURSIVE Merge(_, _, _)

MergeValue(field, a, b) ==
  CASE IsList(field) -> a \o b
    [] field.rule = "oneof" ->
         IF b.kind = None THEN a
         ELSE IF a.kind = b.kind /\ b.kind = field.name /\ field.message # ""
              THEN [kind |-> b.kind, value |-> Merge(field.message, a.value, b.value)]
              ELSE b
    [] OTHER ->
         IF b = Nothing(field) THEN a
         ELSE IF field.message = "" \/ a = None THEN b
              ELSE Merge(field.message, a, b)

MergeFields(fields, a, b) ==
  [slot \in Slots(fields) |->
    IF slot = "unknown" THEN a[slot] \o b[slot]
    ELSE LET here == {field \in fields : Slot(field) = slot}
             field == IF \E f \in here : f.rule = "oneof" /\ f.name = b[slot].kind
                      THEN CHOOSE f \in here : f.name = b[slot].kind
                      ELSE CHOOSE f \in here : TRUE
         IN MergeValue(field, a[slot], b[slot])]

Merge(type, a, b) == MergeFields(FieldsOf(type), a, b)
=============================================================================
