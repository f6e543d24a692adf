------------------------------ MODULE TimesProofs ------------------------------
(***************************************************************************)
(* Theorems about Timestamps and Durations.  For any instants from 1970    *)
(* on, conversions back and forth round once, and by less than a           *)
(* millisecond; for any durations and texts, text and duration say the     *)
(* same, up to the sign of a short one.                                    *)
(***************************************************************************)
EXTENDS Timestamps, Durations, TLAPS

-----------------------------------------------------------------------------
(* Timestamps.                                                               *)

\* A timestamp from 1970 on.
Modern(t) ==
  t \in [seconds: Int, nanos: Int] /\ t.seconds >= 0 /\ IsFraction(t.nanos)

\* It is the first one, or the first one rounded up to a whole millisecond.
Sound(t) ==
  /\ Modern(t)
  /\ t = origin \/ t.nanos % 1000000 = 0
  /\ 0 <= NanosBetween(origin, t) /\ NanosBetween(origin, t) < 1000000

HeldIsSound ==
  /\ form = "message" => Sound(held)
  /\ form = "date" => held \in Nat /\ Sound(FromDate(held))
  /\ form = "text" =>
       /\ held \in [seconds: Int, digits: {0, 3, 6, 9}, fraction: Int]
       /\ IsFraction(held.fraction)
       /\ Sound(JsonRead(held))

TimeInv ==
  /\ Modern(origin)
  /\ form \in {"message", "date", "text", "error"}
  /\ HeldIsSound

-----------------------------------------------------------------------------
(* The conversions.                                                          *)

LEMMA CeilMillis ==
  ASSUME NEW n \in Int, 0 <= n, n < 1000000000
  PROVE  /\ Ceil(n, 1000000) \in Int
         /\ 0 <= Ceil(n, 1000000) /\ Ceil(n, 1000000) <= 1000
         /\ n <= Ceil(n, 1000000) * 1000000
         /\ Ceil(n, 1000000) * 1000000 < n + 1000000
         /\ n % 1000000 = 0 => Ceil(n, 1000000) * 1000000 = n
BY SMT DEF Ceil

LEMMA MillisSplit ==
  ASSUME NEW s \in Int, NEW c \in Int, 0 <= c, c < 1000
  PROVE  /\ (s * 1000 + c) \div 1000 = s
         /\ (s * 1000 + c) % 1000 = c
BY SMT

LEMMA FromDateIs ==
  ASSUME NEW ms \in Int, ms >= 0
  PROVE  FromDate(ms) = Timestamp(ms \div 1000, (ms % 1000) * 1000000)
BY SMT DEF FromDate, Rem, Timestamp

\* What fromDate makes of the Date of t: t, rounded up to a millisecond.
LEMMA DateOf ==
  ASSUME NEW t, Modern(t)
  PROVE  LET c == Ceil(t.nanos, 1000000) IN
         /\ ToDate(t) \in Nat
         /\ c < 1000 => FromDate(ToDate(t)) = Timestamp(t.seconds, c * 1000000)
         /\ c = 1000 => FromDate(ToDate(t)) = Timestamp(t.seconds + 1, 0)
<1> DEFINE c == Ceil(t.nanos, 1000000)
<1>1. c \in Int /\ 0 <= c /\ c <= 1000
  BY CeilMillis, SMT DEF Modern, IsFraction
<1>2. ToDate(t) = t.seconds * 1000 + c /\ t.seconds \in Int /\ t.seconds >= 0
  BY SMT DEF ToDate, Modern
<1> HIDE DEF c
<1>3. ToDate(t) \in Nat
  BY <1>1, <1>2, SMT
<1>4. FromDate(ToDate(t)) =
        Timestamp(ToDate(t) \div 1000, (ToDate(t) % 1000) * 1000000)
  BY <1>3, FromDateIs, SMT
<1>5. ASSUME c < 1000
      PROVE  FromDate(ToDate(t)) = Timestamp(t.seconds, c * 1000000)
  BY <1>1, <1>2, <1>4, <1>5, MillisSplit, SMT
<1>6. ASSUME c = 1000
      PROVE  FromDate(ToDate(t)) = Timestamp(t.seconds + 1, 0)
  <2>1. ToDate(t) = (t.seconds + 1) * 1000 + 0
    BY <1>2, <1>6, SMT
  <2>2. ToDate(t) \div 1000 = t.seconds + 1 /\ ToDate(t) % 1000 = 0
    BY <1>2, <2>1, SMT
  <2> QED BY <1>4, <2>2, SMT
<1> QED BY <1>3, <1>5, <1>6, SMT DEF c

LEMMA JsonKeeps ==
  ASSUME NEW t, Modern(t)
  PROVE  /\ JsonWrite(t) \in [seconds: Int, digits: {0, 3, 6, 9}, fraction: Int]
         /\ IsFraction(JsonWrite(t).fraction)
         /\ JsonRead(JsonWrite(t)) = t
<1> DEFINE n == t.nanos
<1>1. CASE n = 0
  BY <1>1, SMT DEF JsonWrite, JsonRead, Digits, Scale, Text, Timestamp, Modern, IsFraction
<1>2. CASE n # 0 /\ n % 1000000 = 0
  BY <1>2, SMT DEF JsonWrite, JsonRead, Digits, Scale, Text, Timestamp, Modern, IsFraction
<1>3. CASE n % 1000000 # 0 /\ n % 1000 = 0
  BY <1>3, SMT DEF JsonWrite, JsonRead, Digits, Scale, Text, Timestamp, Modern, IsFraction
<1>4. CASE n % 1000000 # 0 /\ n % 1000 # 0
  BY <1>4, SMT DEF JsonWrite, JsonRead, Digits, Scale, Text, Timestamp, Modern, IsFraction
<1> QED BY <1>1, <1>2, <1>3, <1>4, SMT

-----------------------------------------------------------------------------
(* The invariant.                                                            *)

\* The Date of a sound timestamp is sound: rounding happens to origin only.
LEMMA DateIsSound ==
  ASSUME NEW t, Sound(t), Modern(origin)
  PROVE  ToDate(t) \in Nat /\ Sound(FromDate(ToDate(t)))
<1> DEFINE c == Ceil(t.nanos, 1000000)
           u == FromDate(ToDate(t))
<1>1. Modern(t)
  BY SMT DEF Sound
<1>2. /\ ToDate(t) \in Nat
      /\ c < 1000 => u = Timestamp(t.seconds, c * 1000000)
      /\ c = 1000 => u = Timestamp(t.seconds + 1, 0)
  BY <1>1, DateOf, SMT
<1>3. /\ c \in Int /\ 0 <= c /\ c <= 1000
      /\ t.nanos <= c * 1000000 /\ c * 1000000 < t.nanos + 1000000
      /\ t.nanos % 1000000 = 0 => c * 1000000 = t.nanos
  BY <1>1, CeilMillis, SMT DEF Modern, IsFraction
<1> SUFFICES Sound(u)
  BY <1>2, SMT
<1> HIDE DEF c, u
<1>4. CASE c < 1000
  <2>1. u = [seconds |-> t.seconds, nanos |-> c * 1000000]
    BY <1>2, <1>4, SMT DEF Timestamp
  <2>2. Modern(u) /\ u.nanos % 1000000 = 0
    BY <1>1, <1>3, <1>4, <2>1, SMT DEF Modern, IsFraction
  <2>3. CASE t = origin
    BY <1>1, <1>3, <2>1, <2>2, <2>3, SMT DEF Sound, NanosBetween, Modern, IsFraction
  <2>4. CASE t.nanos % 1000000 = 0
    <3>1. u.seconds = t.seconds /\ u.nanos = t.nanos
      BY <1>3, <2>1, <2>4, SMT
    <3>2. NanosBetween(origin, u) = NanosBetween(origin, t)
      BY <3>1, SMT DEF NanosBetween
    <3> QED BY <2>2, <3>2, SMT DEF Sound
  <2> QED BY <1>4, <2>3, <2>4, SMT DEF Sound
<1>5. CASE c = 1000
  <2>1. u = [seconds |-> t.seconds + 1, nanos |-> 0]
    BY <1>2, <1>5, SMT DEF Timestamp
  <2>2. Modern(u) /\ u.nanos % 1000000 = 0
    BY <1>1, <2>1, SMT DEF Modern, IsFraction
  <2>3. t = origin
    BY <1>1, <1>3, <1>5, SMT DEF Sound, Modern, IsFraction
  <2> QED BY <1>1, <1>2, <1>3, <1>5, <2>1, <2>2, <2>3, SMT
          DEF Sound, NanosBetween, Modern, IsFraction
<1> QED BY <1>3, <1>4, <1>5, SMT

LEMMA OriginIsSound ==
  ASSUME Modern(origin)
  PROVE  Sound(origin)
BY SMT DEF Sound, Modern, NanosBetween

LEMMA TimeInvInit ==
  ASSUME Seconds \subseteq Nat, TimeInit
  PROVE  TimeInv
<1>1. PICK s \in Seconds, n \in Nanos : origin = Timestamp(s, n)
  BY SMT DEF TimeInit
<1>2. Modern(origin)
  <2>1. s \in Nat /\ IsFraction(n)
    BY StartsType, SMT
  <2>2. origin = [seconds |-> s, nanos |-> n]
    BY <1>1, SMT DEF Timestamp
  <2> QED BY <2>1, <2>2, SMT DEF Modern, IsFraction
<1> QED BY <1>2, OriginIsSound, SMT DEF TimeInv, HeldIsSound, TimeInit

LEMMA TimeInvNext == TimeInv /\ [TimeNext]_timeVars => TimeInv'
<1> SUFFICES ASSUME TimeInv, [TimeNext]_timeVars PROVE TimeInv'
  OBVIOUS
<1>1. CASE TakeDate
  <2>1. Sound(held) /\ Modern(origin)
    BY <1>1, SMT DEF TakeDate, TimeInv, HeldIsSound
  <2>2. ToDate(held) \in Nat /\ Sound(FromDate(ToDate(held)))
    BY <2>1, DateIsSound, SMT
  <2>3. form' = "date" /\ held' = ToDate(held) /\ origin' = origin
    BY <1>1, SMT DEF TakeDate, Become
  <2> QED BY <2>1, <2>2, <2>3, SMT DEF TimeInv, HeldIsSound, Sound, Modern
<1>2. CASE TakeMessage
  <2>1. Sound(FromDate(held)) /\ Modern(origin)
    BY <1>2, SMT DEF TakeMessage, TimeInv, HeldIsSound
  <2>2. form' = "message" /\ held' = FromDate(held) /\ origin' = origin
    BY <1>2, SMT DEF TakeMessage, Become
  <2> QED BY <2>1, <2>2, SMT DEF TimeInv, HeldIsSound, Sound, Modern
<1>3. CASE Write
  <2>1. Sound(held) /\ Modern(held) /\ Modern(origin) /\ origin' = origin
    BY <1>3, SMT DEF Write, TimeInv, HeldIsSound, Sound, Become, Throw
  <2>2. CASE form' = "error"
    BY <2>1, <2>2, SMT DEF TimeInv, HeldIsSound, Modern
  <2>3. CASE form' = "text" /\ held' = JsonWrite(held)
    <3>1. /\ held' \in [seconds: Int, digits: {0, 3, 6, 9}, fraction: Int]
          /\ IsFraction(held'.fraction)
          /\ JsonRead(held') = held
      BY <2>1, <2>3, JsonKeeps, SMT
    <3> QED BY <2>1, <2>3, <3>1, SMT DEF TimeInv, HeldIsSound, Sound, Modern
  <2> QED BY <1>3, <2>2, <2>3, SMT DEF Write, Become, Throw
<1>4. CASE Read
  <2>1. Sound(JsonRead(held)) /\ Modern(origin) /\ origin' = origin
    BY <1>4, SMT DEF Read, TimeInv, HeldIsSound, Become, Throw
  <2>2. CASE form' = "error"
    BY <2>1, <2>2, SMT DEF TimeInv, HeldIsSound, Modern
  <2>3. CASE form' = "message" /\ held' = JsonRead(held)
    BY <2>1, <2>3, SMT DEF TimeInv, HeldIsSound, Sound, Modern
  <2> QED BY <1>4, <2>2, <2>3, SMT DEF Read, Become, Throw
<1>5. CASE UNCHANGED timeVars
  BY <1>5, SMT DEF timeVars, TimeInv, HeldIsSound, Sound, Modern
<1> QED BY <1>1, <1>2, <1>3, <1>4, <1>5, SMT DEF TimeNext

LEMMA TimeInvCorrect ==
  ASSUME Seconds \subseteq Nat
  PROVE  TimeSpec => []TimeInv
<1>1. TimeInit => TimeInv
  BY TimeInvInit, SMT
<1> QED BY <1>1, TimeInvNext, PTL DEF TimeSpec

-----------------------------------------------------------------------------
(* What follows.                                                             *)

LEMMA InstantIsSound ==
  ASSUME TimeInv
  PROVE  Sound(Instant)
<1>1. CASE form = "message"
  BY <1>1, SMT DEF TimeInv, HeldIsSound, Instant
<1>2. CASE form = "date"
  <2>1. held \in Int /\ held >= 0 /\ Sound(FromDate(held))
    BY <1>2, SMT DEF TimeInv, HeldIsSound
  <2>2. Instant = FromDate(held)
    BY <1>2, <2>1, FromDateIs, SMT DEF Instant
  <2> QED BY <2>1, <2>2, SMT
<1>3. CASE form = "text"
  BY <1>3, SMT DEF TimeInv, HeldIsSound, Instant
<1>4. CASE form = "error"
  BY <1>4, OriginIsSound, SMT DEF TimeInv, Instant
<1> QED BY <1>1, <1>2, <1>3, <1>4, SMT DEF TimeInv

\* However often an instant from 1970 on is taken to a Date, to JSON and back
\* (timestamp.ts), it stays within a millisecond after what it was.
THEOREM ConversionsDoNotDrift ==
  ASSUME Seconds \subseteq Nat
  PROVE  TimeSpec => []DriftsLessThanAMillisecond
<1>1. TimeInv => DriftsLessThanAMillisecond
  BY InstantIsSound, SMT DEF Sound, DriftsLessThanAMillisecond
<1> QED BY <1>1, TimeInvCorrect, PTL

\* The type invariant, under the same assumption.
THEOREM TimestampTypes ==
  ASSUME Seconds \subseteq Nat
  PROVE  TimeSpec => []TimeTypeOK
<1>1. TimeInv => TimeTypeOK
  BY SMT DEF TimeInv, HeldIsSound, TimeTypeOK, Sound, Modern
<1> QED BY <1>1, TimeInvCorrect, PTL

LEMMA StepRoundsAtDates ==
  ASSUME TimeInv, [TimeNext]_timeVars
  PROVE  [form' \in {"message", "text"} => Instant' = Instant]_timeVars
<1>1. CASE TakeDate
  BY <1>1, SMT DEF TakeDate, Become
<1>2. CASE TakeMessage
  <2>1. held \in Int /\ held >= 0 /\ form = "date"
    BY <1>2, SMT DEF TakeMessage, TimeInv, HeldIsSound
  <2>2. Instant = FromDate(held)
    BY <2>1, FromDateIs, SMT DEF Instant
  <2>3. form' = "message" /\ held' = FromDate(held)
    BY <1>2, SMT DEF TakeMessage, Become
  <2> QED BY <2>2, <2>3, SMT DEF Instant
<1>3. CASE Write
  <2>1. Modern(held) /\ form = "message"
    BY <1>3, SMT DEF Write, TimeInv, HeldIsSound, Sound
  <2>2. JsonRead(JsonWrite(held)) = held
    BY <2>1, JsonKeeps, SMT
  <2>3. \/ form' = "text" /\ held' = JsonWrite(held)
        \/ form' = "error"
    BY <1>3, SMT DEF Write, Become, Throw
  <2> QED BY <2>1, <2>2, <2>3, SMT DEF Instant
<1>4. CASE Read
  <2>1. form = "text"
    BY <1>4, SMT DEF Read
  <2>2. \/ form' = "message" /\ held' = JsonRead(held)
        \/ form' = "error"
    BY <1>4, SMT DEF Read, Become, Throw
  <2> QED BY <2>1, <2>2, SMT DEF Instant
<1> QED BY <1>1, <1>2, <1>3, <1>4, SMT DEF TimeNext

\* fromDate and the JSON methods lose nothing of an instant from 1970 on.
THEOREM OnlyDatesRoundEver ==
  ASSUME Seconds \subseteq Nat
  PROVE  TimeSpec => OnlyDatesRound
<1>1. TimeInv /\ [TimeNext]_timeVars =>
        [form' \in {"message", "text"} => Instant' = Instant]_timeVars
  BY StepRoundsAtDates, SMT
<1> QED BY <1>1, TimeInvCorrect, PTL DEF TimeSpec, OnlyDatesRound

-----------------------------------------------------------------------------
(* Durations.                                                                *)

\* The duration there was first, or, of a short negative one, its opposite.
Kept(d) ==
  \/ d = spanOrigin
  \/ /\ spanOrigin.seconds = 0 /\ spanOrigin.nanos < 0
     /\ d = Duration(0, -spanOrigin.nanos)

DurationInv ==
  /\ IsSpan(spanOrigin)
  /\ spanForm \in {"message", "text", "error"}
  /\ spanForm = "message" => IsSpan(spanHeld) /\ Kept(spanHeld)
  /\ spanForm = "text" =>
       /\ IsText(spanHeld)
       /\ spanHeld.digits <= 9 => Kept(Meaning(spanHeld))

-----------------------------------------------------------------------------
(* Texts.                                                                    *)

\* The nanoseconds of a text that can be read.
NanosOf(text) ==
  IF text.digits = 0 THEN 0 ELSE text.fraction * PlaceValue(text.digits)

LEMMA NanosAreFraction ==
  ASSUME NEW text, IsText(text), text.digits <= 9
  PROVE  NanosOf(text) \in Int /\ IsPart(NanosOf(text))
<1>1. CASE text.digits = 0
  BY <1>1, SMT DEF NanosOf, IsPart
<1>2. CASE text.digits # 0
  <2>1. text.digits \in 1..9
    BY <1>2, SMT DEF IsText
  <2>2. IsPart(text.fraction * PlaceValue(text.digits))
    BY <2>1, SMT DEF IsText
  <2> QED BY <1>2, <2>2, SMT DEF NanosOf, IsPart
<1> QED BY <1>1, <1>2, SMT

LEMMA MeaningIs ==
  ASSUME NEW text, IsText(text), text.digits <= 9
  PROVE  /\ IsSpan(Meaning(text))
         /\ text.negative =>
              Meaning(text) = [seconds |-> -text.seconds, nanos |-> -NanosOf(text)]
         /\ ~text.negative =>
              Meaning(text) = [seconds |-> text.seconds, nanos |-> NanosOf(text)]
<1>1. NanosOf(text) \in Int /\ 0 <= NanosOf(text) /\ NanosOf(text) < 1000000000
  BY NanosAreFraction, SMT DEF IsPart
<1>2. text.seconds \in Nat /\ text.negative \in BOOLEAN
  BY SMT DEF IsText
<1>3. Meaning(text) =
        [seconds |-> (IF text.negative THEN -1 ELSE 1) * text.seconds,
         nanos |-> (IF text.negative THEN -1 ELSE 1) * NanosOf(text)]
  BY SMT DEF Meaning, Duration, NanosOf
<1>4. CASE text.negative
  <2>1. Meaning(text) = [seconds |-> -text.seconds, nanos |-> -NanosOf(text)]
    BY <1>1, <1>2, <1>3, <1>4, SMT
  <2> QED BY <1>1, <1>2, <1>4, <2>1, SMT DEF IsSpan, IsPart
<1>5. CASE ~text.negative
  <2>1. Meaning(text) = [seconds |-> text.seconds, nanos |-> NanosOf(text)]
    BY <1>1, <1>2, <1>3, <1>5, SMT
  <2> QED BY <1>1, <1>2, <1>5, <2>1, SMT DEF IsSpan, IsPart
<1> QED BY <1>4, <1>5, SMT

LEMMA ReadIs ==
  ASSUME NEW text, IsText(text), text.digits <= 9
  PROVE  /\ text.negative /\ text.seconds # 0 =>
              SpanFromText(text) = [seconds |-> -text.seconds, nanos |-> -NanosOf(text)]
         /\ ~text.negative \/ text.seconds = 0 =>
              SpanFromText(text) = [seconds |-> text.seconds, nanos |-> NanosOf(text)]
BY SMT DEF SpanFromText, Duration, NanosOf, IsText

\* What is read is what was meant, or has lost its sign.
LEMMA ReadIsKept ==
  ASSUME NEW text, IsText(text), text.digits <= 9,
         IsSpan(spanOrigin), Kept(Meaning(text))
  PROVE  IsSpan(SpanFromText(text)) /\ Kept(SpanFromText(text))
<1>1. CASE ~text.negative \/ text.seconds # 0
  <2>1. SpanFromText(text) = Meaning(text)
    BY <1>1, MeaningIs, ReadIs, SMT DEF IsText
  <2> QED BY <2>1, MeaningIs, SMT
<1>2. CASE text.negative /\ text.seconds = 0
  <2> DEFINE n == NanosOf(text)
  <2>1. n \in Int /\ 0 <= n /\ n < 1000000000
    BY NanosAreFraction, SMT DEF IsPart
  <2>2. Meaning(text) = [seconds |-> 0, nanos |-> -n]
    BY <1>2, <2>1, MeaningIs, SMT
  <2>3. SpanFromText(text) = [seconds |-> 0, nanos |-> n]
    BY <1>2, ReadIs, SMT
  <2> HIDE DEF n
  <2>4. IsSpan(SpanFromText(text))
    BY <2>1, <2>3, SMT DEF IsSpan, IsPart
  <2>5. spanOrigin = [seconds |-> 0, nanos |-> -n]
    BY <2>1, <2>2, SMT DEF Kept, Duration, IsSpan
  <2>6. CASE n = 0
    BY <2>1, <2>3, <2>4, <2>5, <2>6, SMT DEF Kept
  <2>7. CASE n # 0
    <3>1. spanOrigin.seconds = 0 /\ spanOrigin.nanos = -n /\ -spanOrigin.nanos = n
      BY <2>1, <2>5, SMT
    <3>2. SpanFromText(text) = [seconds |-> 0, nanos |-> -spanOrigin.nanos]
      BY <2>3, <3>1, SMT
    <3>3. spanOrigin.nanos < 0
      BY <2>1, <2>7, <3>1, SMT
    <3>4. SpanFromText(text) = Duration(0, -spanOrigin.nanos)
      BY <3>2, SMT DEF Duration
    <3>5. Kept(SpanFromText(text))
      BY <3>1, <3>3, <3>4, SMT DEF Kept
    <3> QED BY <2>4, <3>5, SMT
  <2> QED BY <2>6, <2>7, SMT
<1> QED BY <1>1, <1>2, SMT

\* Nothing is lost by the digits that are left out.
LEMMA DigitsSuffice ==
  ASSUME NEW n \in Int, 0 <= n, n < 1000000000
  PROVE  /\ SpanDigits(n) \in {0, 3, 6, 9}
         /\ SpanDigits(n) = 0 => n = 0
         /\ SpanDigits(n) # 0 => (n \div PlaceValue(SpanDigits(n))) * PlaceValue(SpanDigits(n)) = n
         /\ SpanDigits(n) # 0 => n \div PlaceValue(SpanDigits(n)) \in Nat
<1>1. PlaceValue(3) = 1000000 /\ PlaceValue(6) = 1000 /\ PlaceValue(9) = 1
  BY SMT DEF PlaceValue, PlaceValues
<1>2. CASE n = 0
  BY <1>2, SMT DEF SpanDigits
<1>3. CASE n # 0 /\ n % 1000000 = 0
  BY <1>1, <1>3, SMT DEF SpanDigits
<1>4. CASE n % 1000000 # 0 /\ n % 1000 = 0
  BY <1>1, <1>4, SMT DEF SpanDigits
<1>5. CASE n % 1000000 # 0 /\ n % 1000 # 0
  BY <1>1, <1>5, SMT DEF SpanDigits
<1> QED BY <1>2, <1>3, <1>4, <1>5, SMT

LEMMA WrittenIs ==
  ASSUME NEW d, IsSpan(d)
  PROVE  /\ IsText(SpanToText(d)) /\ SpanToText(d).digits <= 9
         /\ SpanToText(d).negative <=> d.seconds < 0
         /\ SpanToText(d).seconds = Abs(d.seconds)
         /\ NanosOf(SpanToText(d)) = Abs(d.nanos)
<1> DEFINE n == Abs(d.nanos)
           text == SpanToText(d)
<1>1. n \in Int /\ 0 <= n /\ n < 1000000000 /\ d.seconds \in Int
  BY SMT DEF Abs, IsSpan, IsPart
<1>2. /\ SpanDigits(n) \in {0, 3, 6, 9}
      /\ SpanDigits(n) = 0 => n = 0
      /\ SpanDigits(n) # 0 => (n \div PlaceValue(SpanDigits(n))) * PlaceValue(SpanDigits(n)) = n
      /\ SpanDigits(n) # 0 => n \div PlaceValue(SpanDigits(n)) \in Nat
  BY <1>1, DigitsSuffice, SMT
<1>3. text = [negative |-> d.seconds < 0, seconds |-> Abs(d.seconds),
              digits |-> SpanDigits(n),
              fraction |-> IF SpanDigits(n) = 0 THEN 0 ELSE n \div PlaceValue(SpanDigits(n))]
  BY SMT DEF SpanToText
<1>4. Abs(d.seconds) \in Nat
  BY <1>1, SMT DEF Abs
<1> HIDE DEF n, text
<1>5. text.digits = SpanDigits(n) /\ text.fraction \in Nat
  BY <1>2, <1>3, SMT
<1>6. NanosOf(text) = n
  BY <1>2, <1>3, SMT DEF NanosOf
<1>7. IsText(text)
  <2>1. ASSUME SpanDigits(n) # 0
        PROVE  text.fraction * PlaceValue(text.digits) = n
    <3>1. text.fraction = n \div PlaceValue(SpanDigits(n)) /\ text.digits = SpanDigits(n)
      BY <1>3, <2>1, SMT
    <3> QED BY <1>2, <2>1, <3>1, SMT
  <2>2. text.digits \in 1..9 => IsPart(text.fraction * PlaceValue(text.digits))
    <3>1. IsPart(n)
      BY <1>1, SMT DEF IsPart
    <3>2. text.digits \in 1..9 => text.fraction * PlaceValue(text.digits) = n
      BY <1>5, <2>1, SMT
    <3> QED BY <3>1, <3>2, SMT
  <2> QED BY <1>2, <1>3, <1>4, <1>5, <2>2, SMT DEF IsText
<1>8. text.digits <= 9
  BY <1>2, <1>5, SMT
<1>9. text.seconds = Abs(d.seconds) /\ (text.negative <=> d.seconds < 0)
  <2>1. text.seconds = Abs(d.seconds) /\ text.negative = (d.seconds < 0)
    BY <1>3, SMT
  <2>2. CASE d.seconds < 0
    BY <2>1, <2>2, Zenon
  <2>3. CASE ~(d.seconds < 0)
    BY <2>1, <2>3, Zenon
  <2> QED BY <2>2, <2>3, SMT
<1>10. /\ IsText(SpanToText(d)) /\ SpanToText(d).digits <= 9
       /\ NanosOf(SpanToText(d)) = Abs(d.nanos)
  BY <1>6, <1>7, <1>8, SMT DEF n, text
<1>11. /\ SpanToText(d).negative <=> d.seconds < 0
       /\ SpanToText(d).seconds = Abs(d.seconds)
  BY <1>9, SMT DEF text
<1> QED BY <1>10, <1>11, SMT

\* What is written means what was held, or has lost its sign.
LEMMA WrittenIsKept ==
  ASSUME NEW d, IsSpan(d), IsSpan(spanOrigin), Kept(d)
  PROVE  Kept(Meaning(SpanToText(d)))
<1> DEFINE text == SpanToText(d)
<1>1. /\ text.negative <=> d.seconds < 0
      /\ text.seconds = Abs(d.seconds) /\ NanosOf(text) = Abs(d.nanos)
      /\ IsText(text) /\ text.digits <= 9
  BY WrittenIs, SMT
<1>2. d \in [seconds: Int, nanos: Int]
  BY SMT DEF IsSpan
<1> HIDE DEF text
<1>3. CASE d.seconds < 0
  <2>1. Meaning(text) = [seconds |-> -Abs(d.seconds), nanos |-> -Abs(d.nanos)]
    BY <1>1, <1>3, MeaningIs, SMT
  <2>2. -Abs(d.seconds) = d.seconds /\ -Abs(d.nanos) = d.nanos
    BY <1>2, <1>3, SMT DEF Abs, IsSpan
  <2>3. Meaning(text) = d
    BY <1>2, <2>1, <2>2, SMT
  <2> QED BY <2>3, SMT DEF text
<1>4. CASE d.seconds >= 0
  <2>1. Meaning(text) = [seconds |-> Abs(d.seconds), nanos |-> Abs(d.nanos)]
    BY <1>1, <1>2, <1>4, MeaningIs, SMT
  <2>2. CASE d.nanos >= 0
    <3>1. Meaning(text) = d
      BY <1>2, <1>4, <2>1, <2>2, SMT DEF Abs
    <3> QED BY <3>1, SMT DEF text
  <2>3. CASE d.nanos < 0
    <3>1. d.seconds = 0 /\ Meaning(text) = [seconds |-> 0, nanos |-> -d.nanos]
      BY <1>2, <1>4, <2>1, <2>3, SMT DEF Abs, IsSpan
    <3>2. d = spanOrigin
      BY <1>2, <2>3, SMT DEF Kept, Duration, IsSpan
    <3> QED BY <2>3, <3>1, <3>2, SMT DEF Kept, Duration, text
  <2> QED BY <1>2, <2>2, <2>3, SMT
<1> QED BY <1>2, <1>3, <1>4, SMT

-----------------------------------------------------------------------------
(* The invariant.                                                            *)

LEMMA DurationInit ==
  ASSUME SpanInit
  PROVE  DurationInv
<1>1. CASE InitSpan
  BY <1>1, SpansType, SMT DEF InitSpan, DurationInv, Kept
<1>2. CASE InitSpanText
  <2>1. IsText(spanHeld) /\ spanForm = "text"
    BY <1>2, SpansType, SMT DEF InitSpanText
  <2>2. CASE spanHeld.digits <= 9
    <3>1. spanOrigin = Meaning(spanHeld) /\ IsSpan(spanOrigin)
      BY <1>2, <2>1, <2>2, MeaningIs, SMT DEF InitSpanText
    <3> QED BY <2>1, <3>1, SMT DEF DurationInv, Kept
  <2>3. CASE ~(spanHeld.digits <= 9)
    <3>1. spanOrigin = [seconds |-> 0, nanos |-> 0]
      BY <1>2, <2>3, SMT DEF InitSpanText, Duration
    <3> QED BY <2>1, <2>3, <3>1, SMT DEF DurationInv, IsSpan, IsPart
  <2> QED BY <2>2, <2>3, SMT
<1> QED BY <1>1, <1>2, SMT DEF SpanInit

LEMMA DurationNext ==
  ASSUME DurationInv, [SpanNext]_spanVars
  PROVE  DurationInv'
<1>1. CASE WriteSpan
  <2>1. CASE InRange(spanHeld.seconds)
    <3>1. /\ spanForm' = "text" /\ spanHeld' = SpanToText(spanHeld) /\ spanOrigin' = spanOrigin
          /\ IsSpan(spanHeld) /\ IsSpan(spanOrigin) /\ Kept(spanHeld)
      BY <1>1, <2>1, SMT DEF WriteSpan, SpanBecomes, DurationInv
    <3>2. IsText(spanHeld') /\ Kept(Meaning(spanHeld'))
      BY <3>1, WrittenIs, WrittenIsKept, SMT
    <3> QED BY <3>1, <3>2, SMT DEF DurationInv, Kept
  <2>2. CASE ~InRange(spanHeld.seconds)
    BY <1>1, <2>2, SMT DEF WriteSpan, SpanThrow, SpanBecomes, DurationInv
  <2> QED BY <2>1, <2>2, SMT
<1>2. CASE ReadSpan
  <2>1. CASE CanReadSpan(spanHeld)
    <3>1. /\ spanForm' = "message" /\ spanHeld' = SpanFromText(spanHeld) /\ spanOrigin' = spanOrigin
          /\ IsText(spanHeld) /\ spanHeld.digits <= 9
          /\ IsSpan(spanOrigin) /\ Kept(Meaning(spanHeld))
      BY <1>2, <2>1, SMT DEF ReadSpan, CanReadSpan, SpanBecomes, DurationInv
    <3>2. IsSpan(spanHeld') /\ Kept(spanHeld')
      BY <3>1, ReadIsKept, SMT
    <3> QED BY <3>1, <3>2, SMT DEF DurationInv, Kept
  <2>2. CASE ~CanReadSpan(spanHeld)
    BY <1>2, <2>2, SMT DEF ReadSpan, SpanThrow, SpanBecomes, DurationInv
  <2> QED BY <2>1, <2>2, SMT
<1>3. CASE UNCHANGED spanVars
  BY <1>3, SMT DEF spanVars, DurationInv, Kept
<1> QED BY <1>1, <1>2, <1>3, SMT DEF SpanNext

LEMMA DurationInvCorrect == SpanSpec => []DurationInv
<1>1. SpanInit => DurationInv
  BY DurationInit, SMT
<1>2. DurationInv /\ [SpanNext]_spanVars => DurationInv'
  BY DurationNext, SMT
<1> QED BY <1>1, <1>2, PTL DEF SpanSpec

\* However often a duration is written and read (duration.ts), text and duration
\* say what was said first; the sign of a negative one shorter than a second is
\* the one thing that is lost, for any duration and any text of another writer.
THEOREM DurationsAreKept == SpanSpec => []DurationIsKept
<1>1. DurationInv => DurationIsKept
  BY SMT DEF DurationInv, DurationIsKept, Kept
<1> QED BY <1>1, DurationInvCorrect, PTL

\* The type invariant: nanoseconds never disagree with the sign of the seconds.
THEOREM DurationTypes == SpanSpec => []SpanTypeOK
<1>1. DurationInv => SpanTypeOK
  BY SMT DEF DurationInv, SpanTypeOK, IsText
<1> QED BY <1>1, DurationInvCorrect, PTL
=============================================================================
