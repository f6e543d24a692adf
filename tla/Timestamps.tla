----------------------------- MODULE Timestamps ------------------------------
(***************************************************************************)
(* google.protobuf.Timestamp and its custom methods (timestamp.ts): an     *)
(* instant that is converted again and again between a Date, a message and *)
(* JSON text, as it is when it is shown, edited and sent back.             *)
(***************************************************************************)
EXTENDS Integers

CONSTANTS
  Seconds,         \* the seconds an instant may start with
  Nanos,           \* and its nanoseconds
  MinSecond,       \* 0001-01-01T00:00:00Z
  MaxSecond        \* 9999-12-31T23:59:59Z

IsFraction(nanos) == nanos \in Int /\ 0 <= nanos /\ nanos < 1000000000

ASSUME StartsType ==
  /\ Seconds \subseteq Int
  /\ \A n \in Nanos : IsFraction(n)
  /\ MinSecond \in Int /\ MaxSecond \in Int

VARIABLES
  origin,          \* the timestamp there was first
  form,            \* what is held now: "message", "date", "text", "error"
  held             \* a timestamp, milliseconds, or a text

timeVars == <<origin, form, held>>

Timestamp(seconds, nanos) == [seconds |-> seconds, nanos |-> nanos]

TimeInit ==
  /\ \E s \in Seconds, n \in Nanos : origin = Timestamp(s, n)
  /\ form = "message"
  /\ held = origin

-----------------------------------------------------------------------------
(* Dates.                                                                    *)

\* The remainder of JavaScript has the sign of the dividend.
Rem(a, b) == IF a >= 0 THEN a % b ELSE -((-a) % b)

\* Math.ceil(a / b)
Ceil(a, b) == -((-a) \div b)

\* Faulty variant: Math.floor.
ToDateDown(t) == t.seconds * 1000 + t.nanos \div 1000000

ToDate(t) == t.seconds * 1000 + Ceil(t.nanos, 1000000)

FromDate(ms) == Timestamp(ms \div 1000, Rem(ms, 1000) * 1000000)

-----------------------------------------------------------------------------
(* JSON.  A text has whole seconds, and a fraction of 0, 3, 6 or 9 digits.   *)

Scale(digits) ==
  CASE digits = 3 -> 1000000 [] digits = 6 -> 1000 [] OTHER -> 1

Text(seconds, digits, fraction) ==
  [seconds |-> seconds, digits |-> digits, fraction |-> fraction]

CanWrite(t) == t.seconds \in MinSecond..MaxSecond /\ t.nanos >= 0

\* Faulty variant: six digits are enough.
DigitsOfMicros(nanos) ==
  CASE nanos = 0 -> 0 [] nanos # 0 /\ nanos % 1000000 = 0 -> 3 [] OTHER -> 6

\* Faulty variant: as few as will do.
FewestDigits(nanos) ==
  CASE nanos = 0 -> 0
    [] nanos # 0 /\ nanos % 100000000 = 0 -> 1
    [] OTHER -> 9

\* As many as the nanoseconds need.
Digits(nanos) ==
  CASE nanos = 0 -> 0
    [] nanos # 0 /\ nanos % 1000000 = 0 -> 3
    [] nanos % 1000000 # 0 /\ nanos % 1000 = 0 -> 6
    [] OTHER -> 9

JsonWrite(t) ==
  LET digits == Digits(t.nanos) IN
  Text(t.seconds, digits, IF digits = 0 THEN 0 ELSE t.nanos \div Scale(digits))

CanRead(text) == text.seconds \in MinSecond..MaxSecond

JsonRead(text) ==
  Timestamp(text.seconds,
            IF text.digits = 0 THEN 0 ELSE text.fraction * Scale(text.digits))

-----------------------------------------------------------------------------
(* The steps.                                                                *)

Become(newForm, value) == form' = newForm /\ held' = value /\ UNCHANGED origin

Throw == Become("error", origin)

TakeDate == form = "message" /\ Become("date", ToDate(held))

TakeMessage == form = "date" /\ Become("message", FromDate(held))

Write ==
  /\ form = "message"
  /\ IF CanWrite(held) THEN Become("text", JsonWrite(held)) ELSE Throw

Read ==
  /\ form = "text"
  /\ IF CanRead(held) THEN Become("message", JsonRead(held)) ELSE Throw

TimeNext == TakeDate \/ TakeMessage \/ Write \/ Read

TimeSpec == TimeInit /\ [][TimeNext]_timeVars

-----------------------------------------------------------------------------
(* Properties.                                                               *)

\* The instant that is held, as a timestamp.
Instant ==
  CASE form = "message" -> held
    [] form = "date" -> Timestamp(held \div 1000, (held % 1000) * 1000000)
    [] form = "text" -> JsonRead(held)
    [] OTHER -> origin

TimeTypeOK ==
  /\ origin \in [seconds: Int, nanos: Int] /\ IsFraction(origin.nanos)
  /\ form \in {"message", "date", "text", "error"}
  /\ form = "message" => held \in [seconds: Int, nanos: Int]
  /\ form = "date" => held \in Int
  /\ form = "text" =>
       /\ held \in [seconds: Int, digits: {0, 3, 6, 9}, fraction: Int]
       /\ IsFraction(held.fraction)

\* How far t is after u, when it is less than a second.
NanosBetween(u, t) ==
  IF t.seconds = u.seconds THEN t.nanos - u.nanos
  ELSE IF t.seconds = u.seconds + 1 THEN t.nanos + 1000000000 - u.nanos
  ELSE -1

\* However often an instant is converted, it is never early, and never late by a
\* millisecond or more: Math.ceil in toDate rounds once, not at every turn.
DriftsLessThanAMillisecond ==
  LET drift == NanosBetween(origin, Instant) IN 0 <= drift /\ drift < 1000000

\* Nothing but toDate loses precision (internalJsonWrite picks as many digits as
\* the nanoseconds need, fromDate has nothing to lose).
OnlyDatesRound == [][form' \in {"message", "text"} => Instant' = Instant]_timeVars

\* timestamp.ts:157 "Negative second values with fractions must still have
\* non-negative nanos values that count forward in time."
NanosCountForward == form = "message" => held.nanos >= 0
=============================================================================
