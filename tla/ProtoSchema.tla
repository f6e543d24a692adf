---------------------------- MODULE ProtoSchema -----------------------------
(***************************************************************************)
(* What a generated message class (packages/proto/src) says of itself: its *)
(* type name and its fields, in the order they are written.  Of a class's  *)
(* lines, the schema stands for the field list of the constructor, the     *)
(* zero values of create, the cases of internalBinaryRead and the branches *)
(* of internalBinaryWrite; ProtoCodec gives these their meaning.           *)
(***************************************************************************)
EXTENDS Naturals, Sequences

\* A field holds a scalar of some wire type, or another message: its number, its
\* name, its wire type and the message, if that is what it holds.
Str(no, name) == <<no, name, "LengthDelimited", "">>
Bytes(no, name) == <<no, name, "LengthDelimited", "">>
Int64(no, name) == <<no, name, "Varint", "">>
Uint64(no, name) == <<no, name, "Varint", "">>
Int32(no, name) == <<no, name, "Varint", "">>
Uint32(no, name) == <<no, name, "Varint", "">>
Bool(no, name) == <<no, name, "Varint", "">>
Enum(no, name) == <<no, name, "Varint", "">>
Double(no, name) == <<no, name, "Bit64", "">>
Nested(no, name, type) == <<no, name, "LengthDelimited", type>>

\* repeat: 2 (of messages also 1), repeat: 1, opt: true, oneof: group.
Repeated(field) == field \o <<"repeated">>
Packed(field) == field \o <<"packed">>
Optional(field) == field \o <<"optional">>
OneOf(group, field) == field \o <<"oneof", group>>

\* What a field's declaration says.
Field(declared) ==
  [no |-> declared[1], name |-> declared[2], wireType |-> declared[3],
   message |-> declared[4],
   rule |-> IF Len(declared) > 4 THEN declared[5] ELSE "single",
   group |-> IF Len(declared) > 5 THEN declared[6] ELSE ""]

MessageType(name, fields) == <<name, fields>>

\* The name and the fields of a type.
NameOf(type) == type[1]
FieldList(type) == [i \in DOMAIN type[2] |-> Field(type[2][i])]
=============================================================================
