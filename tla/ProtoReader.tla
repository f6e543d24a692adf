----------------------------- MODULE ProtoReader ----------------------------
(***************************************************************************)
(* How the generated classes read messages: internalBinaryRead and create, *)
(* for the types of a schema.                                              *)
(*                                                                         *)
(* Bytes are tokens: a tag, the length of what follows it, a number, or a  *)
(* piece of text.  A message maps the slots of its type, the fields and    *)
(* the oneof groups, to values, and keeps the fields it does not know.     *)
(*                                                                         *)
(* All the readers of one message share one position in the bytes.  Each   *)
(* reads until the end it was given, so each must be left exactly there.   *)
(***************************************************************************)
EXTENDS Naturals, SequencesExt

CONSTANTS
  Schema,          \* the fields of every message type, by its name
  None,            \* undefined
  ReadingsOf(_)    \* bytes that are read as a type, and what they mean

VARIABLES
  reading,         \* bytes, the type to read them as, and what they mean; None
  pos,             \* reader.pos
  frames,          \* the active calls of internalBinaryRead
  outcome          \* "idle", "reading", "done", or "garbled"

codecVars == <<reading, pos, frames, outcome>>

-----------------------------------------------------------------------------
(* Messages.                                                                 *)

FieldsOf(type) == Range(Schema[type])

Slot(field) == IF field.rule = "oneof" THEN field.group ELSE field.name

Slots(fields) == {Slot(field) : field \in fields} \cup {"unknown"}

\* What a slot holds when nothing was put into it.
Nothing(field) ==
  CASE field.rule \in {"repeated", "packed"} -> <<>>
    [] field.rule = "oneof" -> [kind |-> None]
    [] field.rule = "optional" -> None
    [] field.rule = "single" /\ field.message # "" -> None
    [] field.rule = "single" /\ field.message = "" ->
         IF field.wireType = "LengthDelimited" THEN <<>> ELSE 0

\* A message nothing was put into.
Blank(fields) ==
  [slot \in Slots(fields) |->
    IF slot = "unknown" THEN <<>>
    ELSE Nothing(CHOOSE field \in fields : Slot(field) = slot)]

Create(type) == Blank(FieldsOf(type))

\* A value that was read is pushed, or takes the place of the one before.
Put(message, field, value) ==
  [message EXCEPT ![Slot(field)] =
    CASE field.rule \in {"repeated", "packed"} -> Append(@, value)
      [] field.rule = "oneof" -> [kind |-> field.name, value |-> value]
      [] OTHER -> value]

\* The message a nested reader goes on with, if there is one.
Target(message, field) ==
  LET there == message[Slot(field)] IN
  CASE field.rule = "repeated" -> None
    [] field.rule = "oneof" -> IF there.kind = field.name THEN there.value ELSE None
    [] OTHER -> there

\* The fields of a type have numbers and slots of their own, but for the slots of
\* one group.
ASSUME SchemaType ==
  /\ "" \notin DOMAIN Schema
  /\ \A type \in DOMAIN Schema :
       /\ \A field \in FieldsOf(type) :
            /\ field.rule \in {"single", "optional", "oneof", "repeated", "packed"}
            /\ field.message # "" => field.rule # "packed"
            /\ field.name # None /\ Slot(field) # "unknown"
       /\ \A f, g \in FieldsOf(type) : f.no = g.no => f = g
       /\ \A f, g \in FieldsOf(type) :
            f # g /\ Slot(f) = Slot(g) =>
              f.rule = "oneof" /\ g.rule = "oneof" /\ f.name # g.name

-----------------------------------------------------------------------------
(* Bytes.                                                                    *)

Tag(no, wireType) == [token |-> "tag", no |-> no, wireType |-> wireType]
Length(n) == [token |-> "length", value |-> n]
Number(n) == [token |-> "number", value |-> n]
Text(x) == [token |-> "text", value |-> x]

Lengths(wire) == {i \in DOMAIN wire : wire[i].token = "length"}

\* Where what the length at i announces ends.
EndOf(wire, i) == i + wire[i].value

IsWire(wire) ==
  /\ wire \in Seq(Range(wire))
  /\ \A i \in Lengths(wire) : wire[i].value \in Nat

\* What has a length ends inside of what it is in, and not after a tag.
IsWhole(wire) ==
  /\ wire # <<>> => Last(wire).token # "tag"
  /\ \A i \in Lengths(wire) :
       /\ EndOf(wire, i) <= Len(wire)
       /\ wire[EndOf(wire, i)].token # "tag"
       /\ \A j \in Lengths(wire) :
            i < j /\ j <= EndOf(wire, i) => EndOf(wire, j) <= EndOf(wire, i)

\* The last field of a message is cut short, after its tag at t; if it is itself
\* a message, one of a type with fields.
IsCutAt(type, wire, t) ==
  /\ wire[t].token = "tag"
  /\ \A i \in Lengths(wire) : i < t => EndOf(wire, i) < t
  /\ \/ t = Len(wire)
     \/ /\ t + 1 \in Lengths(wire) /\ EndOf(wire, t + 1) > Len(wire)
        /\ \A field \in FieldsOf(type) :
             field.no = wire[t].no /\ field.message \in DOMAIN Schema =>
               FieldsOf(field.message) # {}

IsCut(type, wire) ==
  FieldsOf(type) # {} /\ \E t \in DOMAIN wire : IsCutAt(type, wire, t)

\* Bytes mean a message, or were cut and mean none.
ASSUME ReadingsType ==
  \A type \in DOMAIN Schema : \A r \in ReadingsOf(type) :
    /\ r # None /\ r.type = type /\ IsWire(r.wire)
    /\ IF r.message = None THEN IsCut(type, r.wire) ELSE IsWhole(r.wire)

TokenAt(wire, i) == IF i \in DOMAIN wire THEN wire[i] ELSE [token |-> "end"]

-----------------------------------------------------------------------------
(* Reading.                                                                  *)

Token(i) == TokenAt(reading.wire, i)

Top == Last(frames)

\* A type without fields has no loop: its reader returns where it is.
AtEnd == Top.fields = {} \/ pos >= Top.end

InLoop == outcome = "reading" /\ ~AtEnd

\* The tag, and what follows it.
Here == Token(pos + 1)
After == Token(pos + 2)

Known == {field \in Top.fields : Here.token = "tag" /\ field.no = Here.no}

\* Faulty variant: the length is taken to count its own token.
EndAtLength == pos + 1 + After.value

\* Faulty variant: a value ends where the bytes do, at the latest.
EndWithBytes ==
  IF pos + 2 + After.value > Len(reading.wire) THEN Len(reading.wire)
  ELSE pos + 2 + After.value

\* Where a length-delimited value ends.
EndOfValue == pos + 2 + After.value

Content == SubSeq(reading.wire, pos + 3, EndOfValue)

IsDelimited == After.token = "length" /\ EndOfValue <= Len(reading.wire)

\* No reader is active.
Idle == reading = None /\ pos = 0 /\ frames = <<>> /\ outcome = "idle"

\* Faulty variant: what there was is forgotten.
CalledAnew(fields, field, end, target) ==
  [fields |-> fields, field |-> field, end |-> end, message |-> Blank(fields)]

\* internalBinaryRead of a class, for the bytes up to end, into a message or
\* into one of its own.
Called(fields, field, end, target) ==
  [fields |-> fields, field |-> field, end |-> end,
   message |-> IF target = None THEN Blank(fields) ELSE target]

FirstCall(r) == Called(FieldsOf(r.type), None, Len(r.wire), None)

Reading(r) ==
  reading = r /\ pos = 0 /\ frames = <<FirstCall(r)>> /\ outcome = "reading"

\* fromBinary is called, and returns.
Begin(r) ==
  /\ outcome = "idle" /\ outcome' = "reading"
  /\ reading' = r /\ pos' = 0 /\ frames' = <<FirstCall(r)>>

End == reading' = None /\ pos' = 0 /\ frames' = <<>> /\ outcome' = "idle"

WithMessage(call, message) ==
  [fields |-> call.fields, field |-> call.field, end |-> call.end,
   message |-> message]

\* The message of the last call is another one.
WithLast(active, message) ==
  [active EXCEPT ![Len(active)] = WithMessage(Last(active), message)]

PutOnTop(field, value) ==
  frames' = WithLast(frames, Put(Top.message, field, value))

\* string, bytes
CanReadContent(field) ==
  field.message = "" /\ field.wireType = "LengthDelimited" /\ IsDelimited

ReadContent ==
  /\ InLoop
  /\ \E field \in Known :
       /\ CanReadContent(field)
       /\ PutOnTop(field, Content)
  /\ pos' = EndOfValue
  /\ UNCHANGED <<reading, outcome>>

\* Numbers, booleans and enums; a list of them takes both forms of itself.
IsList(field) == field.rule \in {"repeated", "packed"}

CanReadNumber(field) ==
  /\ field.message = "" /\ field.wireType # "LengthDelimited"
  /\ IF IsList(field) /\ Here.wireType = "LengthDelimited"
     THEN IsDelimited /\ \A i \in DOMAIN Content : Content[i].token = "number"
     ELSE After.token = "number"

ReadNumber ==
  /\ InLoop
  /\ \E field \in Known :
       /\ CanReadNumber(field)
       /\ IF IsList(field) /\ Here.wireType = "LengthDelimited"
          THEN /\ frames' = WithLast(frames,
                    [Top.message EXCEPT ![Slot(field)] =
                      @ \o [i \in DOMAIN Content |-> Content[i].value]])
               /\ pos' = EndOfValue
          ELSE /\ PutOnTop(field, After.value)
               /\ pos' = pos + 2
  /\ UNCHANGED <<reading, outcome>>

\* The reader of a nested message is called.
CanEnter(field) ==
  /\ field.message \in DOMAIN Schema
  /\ After.token = "length"

Enter ==
  /\ InLoop
  /\ \E field \in Known :
       /\ CanEnter(field)
       /\ frames' = Append(frames,
            Called(FieldsOf(field.message), field, EndOfValue,
                   Target(Top.message, field)))
  /\ pos' = pos + 2
  /\ UNCHANGED <<reading, outcome>>

\* It returns.
Leave ==
  /\ outcome = "reading" /\ AtEnd /\ Len(frames) > 1
  /\ LET callers == Front(frames) IN
     frames' = WithLast(callers, Put(Last(callers).message, Top.field, Top.message))
  /\ UNCHANGED <<reading, pos, outcome>>

\* UnknownFieldHandler.onRead keeps what reader.skip went over.
CanSkip ==
  /\ Here.token = "tag" /\ Known = {}
  /\ IF Here.wireType = "LengthDelimited" THEN IsDelimited
     ELSE After.token = "number"

Skip ==
  /\ InLoop
  /\ CanSkip
  /\ pos' = IF Here.wireType = "LengthDelimited" THEN EndOfValue ELSE pos + 2
  /\ frames' = WithLast(frames,
       [Top.message EXCEPT !["unknown"] =
         Append(@, SubSeq(reading.wire, pos + 1, pos'))])
  /\ UNCHANGED <<reading, outcome>>

Finish ==
  /\ outcome = "reading" /\ AtEnd /\ Len(frames) = 1
  /\ outcome' = "done"
  /\ UNCHANGED <<reading, pos, frames>>

\* What is here is not what a reader of this type can make sense of: it throws,
\* or takes the bytes for something they are not.
Garble ==
  /\ InLoop
  /\ ~CanSkip
  /\ ~\E field \in Known :
        CanReadContent(field) \/ CanReadNumber(field) \/ CanEnter(field)
  /\ outcome' = "garbled"
  /\ UNCHANGED <<reading, pos, frames>>

ReadStep ==
  ReadContent \/ ReadNumber \/ Enter \/ Leave \/ Skip \/ Finish \/ Garble

-----------------------------------------------------------------------------
(* What bytes mean, whoever reads them.                                      *)

\* Bytes from start to end, as a type, make a message another one, the result.
Parse(type, start, end, message, result) ==
  <<type, start, end, message, result>>

TypeIn(p) == p[1]
StartOf(p) == p[2]
EndIn(p) == p[3]
Before(p) == p[4]
Result(p) == p[5]

\* The rest of them, when what is before a place has made this message.
Behind(p, place, message) == Parse(TypeIn(p), place, EndIn(p), message, Result(p))

TagOf(wire, p) == TokenAt(wire, StartOf(p) + 1)
ValueOf(wire, p) == TokenAt(wire, StartOf(p) + 2)
Stop(wire, p) == EndOf(wire, StartOf(p) + 2)
Inside(wire, p) == SubSeq(wire, StartOf(p) + 3, Stop(wire, p))

FieldsAt(wire, p) == {field \in FieldsOf(TypeIn(p)) : field.no = TagOf(wire, p).no}

HasLength(wire, p) == ValueOf(wire, p).token = "length"
HasNumber(wire, p) == ValueOf(wire, p).token = "number"
HasContent(wire, p) == HasLength(wire, p) /\ Stop(wire, p) <= Len(wire)

IsDelimitedTag(wire, p) == TagOf(wire, p).wireType = "LengthDelimited"

\* A field of a newer schema.
MaySkip(wire, p) ==
  IF IsDelimitedTag(wire, p) THEN HasContent(wire, p) ELSE HasNumber(wire, p)

Skipped(wire, p) ==
  LET stop == IF IsDelimitedTag(wire, p) THEN Stop(wire, p) ELSE StartOf(p) + 2 IN
  Behind(p, stop, [Before(p) EXCEPT !["unknown"] =
                    Append(@, SubSeq(wire, StartOf(p) + 1, stop))])

\* A text, a list of numbers, or a number.
MayTake(wire, p, field) ==
  IF field.wireType = "LengthDelimited" THEN HasContent(wire, p)
  ELSE IF IsList(field) /\ IsDelimitedTag(wire, p)
       THEN /\ HasContent(wire, p)
            /\ \A i \in DOMAIN Inside(wire, p) : Inside(wire, p)[i].token = "number"
       ELSE HasNumber(wire, p)

Taken(wire, p, field) ==
  IF field.wireType = "LengthDelimited"
  THEN Behind(p, Stop(wire, p), Put(Before(p), field, Inside(wire, p)))
  ELSE IF IsList(field) /\ IsDelimitedTag(wire, p)
       THEN Behind(p, Stop(wire, p),
              [Before(p) EXCEPT ![Slot(field)] =
                @ \o [i \in DOMAIN Inside(wire, p) |-> Inside(wire, p)[i].value]])
       ELSE Behind(p, StartOf(p) + 2, Put(Before(p), field, ValueOf(wire, p).value))

\* A message: its bytes, and what is behind them.
Enclosed(wire, p, field, result) ==
  LET there == Target(Before(p), field) IN
  Parse(field.message, StartOf(p) + 2, Stop(wire, p),
        IF there = None THEN Create(field.message) ELSE there, result)

BehindNested(wire, p, field, result) ==
  Behind(p, Stop(wire, p), Put(Before(p), field, result))

\* Nothing is left, or what is left starts with a field.
IsParsed(P, wire, p) ==
  \/ StartOf(p) = EndIn(p) /\ Result(p) = Before(p)
  \/ /\ StartOf(p) < EndIn(p) /\ FieldsOf(TypeIn(p)) # {} /\ TagOf(wire, p).token = "tag"
     /\ \/ FieldsAt(wire, p) = {} /\ MaySkip(wire, p) /\ Skipped(wire, p) \in P
        \/ \E field \in FieldsAt(wire, p) :
             field.message = "" /\ MayTake(wire, p, field) /\ Taken(wire, p, field) \in P
        \/ \E field \in FieldsAt(wire, p) :
             /\ field.message \in DOMAIN Schema /\ HasLength(wire, p)
             /\ \E q \in P :
                  /\ q = Enclosed(wire, p, field, Result(q))
                  /\ BehindNested(wire, p, field, Result(q)) \in P

\* Each parse is made of others of the set, which all start behind it: none is made
\* of itself.
IsParse(P, wire) == \A p \in P : IsParsed(P, wire, p)

WholeParse(type, wire, message) == Parse(type, 0, Len(wire), Create(type), message)

Means(type, wire, message) ==
  \E P : IsParse(P, wire) /\ WholeParse(type, wire, message) \in P

-----------------------------------------------------------------------------
(* Properties.                                                               *)

ReaderTypeOK ==
  /\ outcome \in {"idle", "reading", "done", "garbled"}
  /\ outcome = "idle" <=> reading = None
  /\ outcome # "idle" => reading.type \in DOMAIN Schema /\ pos \in 0..Len(reading.wire)
  /\ \A i \in DOMAIN frames :
       /\ DOMAIN frames[i].message = Slots(frames[i].fields)
       /\ i > 1 => frames[i].field \in frames[i - 1].fields

\* Bytes written with these classes, one message after the other, or with a
\* class that shares their layout, are read as what they mean, and no field the
\* reader does not know is lost (internalBinaryRead against internalBinaryWrite).
ReadsWhatIsMeant ==
  outcome # "idle" /\ reading.message # None =>
    /\ outcome # "garbled"
    /\ outcome = "done" => frames[1].message = reading.message

\* The end of a message is never passed by the readers inside it, all of which
\* move one position: no reader takes a byte of its caller for its own, unless
\* the bytes were cut.
ReadersStayInside ==
  outcome # "idle" /\ reading.message # None =>
    /\ pos <= Top.end
    /\ \A i \in 2..Len(frames) : frames[i].end <= frames[i - 1].end

\* Bytes that end in the middle of a field mean no message (None): they are
\* refused, not read as less than was written (the reader's bounds check, in
\* every internalBinaryRead).
CutsAreNoticed == outcome = "done" => reading.message # None
=============================================================================
