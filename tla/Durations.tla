------------------------------ MODULE Durations ------------------------------
(***************************************************************************)
(* google.protobuf.Duration and its JSON form (duration.ts): a span of     *)
(* time that is written as text, by this client or another, and read.      *)
(***************************************************************************)
EXTENDS Integers

CONSTANTS
  Spans,           \* durations there may be first
  SpanTexts,       \* texts other writers send
  MaxSpan          \* 315,576,000,000, and its negative

IsPart(nanos) == nanos \in Int /\ 0 <= nanos /\ nanos < 1000000000

\* The sign of the seconds is that of the nanoseconds.
IsSpan(d) ==
  /\ d \in [seconds: Int, nanos: Int]
  /\ IsPart(d.nanos) \/ IsPart(-d.nanos)
  /\ d.seconds > 0 => d.nanos >= 0
  /\ d.seconds < 0 => d.nanos <= 0

\* What the last of nine or fewer digits counts.
PlaceValues == <<100000000, 10000000, 1000000, 100000, 10000, 1000, 100, 10, 1>>

PlaceValue(digits) == PlaceValues[digits]

\* A text has as many digits as it says, and 0 stands for no fraction.
IsText(text) ==
  /\ text.negative \in BOOLEAN /\ text.seconds \in Nat
  /\ text.digits \in Nat /\ text.fraction \in Nat
  /\ text.digits \in 1..9 => IsPart(text.fraction * PlaceValue(text.digits))

ASSUME SpansType ==
  /\ \A d \in Spans : IsSpan(d)
  /\ \A text \in SpanTexts : IsText(text)

VARIABLES
  spanOrigin,      \* the duration there was first
  spanForm,        \* what is held now: "message", "text", "error"
  spanHeld

spanVars == <<spanOrigin, spanForm, spanHeld>>

Duration(seconds, nanos) == [seconds |-> seconds, nanos |-> nanos]

-----------------------------------------------------------------------------
(* Text: a sign, whole seconds and the digits of a fraction.                 *)

\* The duration a text stands for.
Meaning(text) ==
  LET sign == IF text.negative THEN -1 ELSE 1
      nanos == IF text.digits = 0 THEN 0 ELSE text.fraction * PlaceValue(text.digits)
  IN Duration(sign * text.seconds, sign * nanos)

Abs(n) == IF n < 0 THEN -n ELSE n

\* Faulty variant: milliseconds are enough.
DigitsOfMillis(nanos) == IF nanos = 0 THEN 0 ELSE 3

SpanDigits(nanos) ==
  CASE nanos = 0 -> 0
    [] nanos # 0 /\ nanos % 1000000 = 0 -> 3
    [] nanos % 1000000 # 0 /\ nanos % 1000 = 0 -> 6
    [] OTHER -> 9

InRange(seconds) == -MaxSpan <= seconds /\ seconds <= MaxSpan

\* The sign of the text is the one `seconds` has, which is a decimal string.
SpanToText(d) ==
  LET nanos == Abs(d.nanos)
      digits == SpanDigits(nanos)
  IN [negative |-> d.seconds < 0, seconds |-> Abs(d.seconds), digits |-> digits,
      fraction |-> IF digits = 0 THEN 0 ELSE nanos \div PlaceValue(digits)]

\* "0".repeat(9 - length) throws when there are more than nine.
CanReadSpan(text) == InRange(text.seconds) /\ text.digits <= 9

\* Faulty variant: the sign of the seconds is not that of the nanoseconds.
SpanFromUnsigned(text) ==
  Duration(IF text.negative THEN -text.seconds ELSE text.seconds,
           IF text.digits = 0 THEN 0 ELSE text.fraction * PlaceValue(text.digits))

\* PbLong.from("-0") is not negative.
SpanFromText(text) ==
  LET negative == text.negative /\ text.seconds # 0
      nanos == IF text.digits = 0 THEN 0 ELSE text.fraction * PlaceValue(text.digits)
  IN Duration(IF negative THEN -text.seconds ELSE text.seconds,
              IF negative THEN -nanos ELSE nanos)

-----------------------------------------------------------------------------
(* The steps.                                                                *)

InitSpan ==
  /\ spanOrigin \in Spans
  /\ spanForm = "message"
  /\ spanHeld = spanOrigin

InitSpanText ==
  /\ spanForm = "text"
  /\ spanHeld \in SpanTexts
  /\ spanOrigin = IF spanHeld.digits <= 9 THEN Meaning(spanHeld) ELSE Duration(0, 0)

SpanInit == InitSpan \/ InitSpanText

SpanBecomes(newForm, value) == spanForm' = newForm /\ spanHeld' = value /\ UNCHANGED spanOrigin

SpanThrow == SpanBecomes("error", spanOrigin)

WriteSpan ==
  /\ spanForm = "message"
  /\ IF InRange(spanHeld.seconds) THEN SpanBecomes("text", SpanToText(spanHeld)) ELSE SpanThrow

ReadSpan ==
  /\ spanForm = "text"
  /\ IF CanReadSpan(spanHeld) THEN SpanBecomes("message", SpanFromText(spanHeld)) ELSE SpanThrow

SpanNext == WriteSpan \/ ReadSpan

SpanSpec == SpanInit /\ [][SpanNext]_spanVars

-----------------------------------------------------------------------------
(* Properties.                                                               *)

SpanTypeOK ==
  /\ spanForm \in {"message", "text", "error"}
  /\ spanForm = "message" => IsSpan(spanHeld)
  /\ spanForm = "text" => spanHeld.digits \in Nat /\ spanHeld.seconds \in Nat

\* A text means the duration it was written from, and a duration read is what
\* the text means (internalJsonWrite, internalJsonRead), whoever wrote it.  Of a
\* negative span shorter than a second the sign is lost: it is the sign of the
\* seconds' text, and they are 0.
DurationIsKept ==
  LET short == spanOrigin.seconds = 0 /\ spanOrigin.nanos < 0
      Kept(d) == d = spanOrigin \/ (short /\ d = Duration(0, -spanOrigin.nanos))
  IN /\ spanForm = "message" => Kept(spanHeld)
     /\ spanForm = "text" /\ spanHeld.digits <= 9 => Kept(Meaning(spanHeld))
=============================================================================
