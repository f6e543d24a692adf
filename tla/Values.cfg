\* All the components; two calls with one message of each class, changed twice;
\* instants from 1970 on, at all four precisions and at the ends of a second.
CONSTANTS
  Subjects = {"messages", "time", "durations", "keys", "any", "numbers"}
  Calls = {c1, c2}
  Keys = {k1, k2}
  Coins = {oneCoin, twoCoins}
  Descriptions = {described}
  Amounts = {some}
  Rates <- SomeRates
  Commissions <- SomeCommissions
  One = 100
  MaxChanges = 2
  Empty = Empty
  None = None
  Seconds <- SecondsFrom1970
  Nanos <- SomeNanos
  MinSecond <- FirstSecond
  MaxSecond = 8
  Spans <- SomeSpans
  SpanTexts <- OtherTexts
  MaxSpan = 2
  RawKeys <- SomeRaw
  KeyAnys <- SomeAnys
  KeyGroups <- SomeGroups
  MaxMembers = 3
  Thresholds = {1, 2}
  Types <- SomeTypes
  Shapes <- SomeShapes
  WellKnown <- SomeWellKnown
  Registry <- SomeRegistry
  AccountTypes <- SomeAccounts
  Paths = {"", "/", "type.googleapis.com/", "example.com/a/"}
  NoName = NoName
  Limit = 4096
  Scales <- SomeScales
  GasLimits <- SomeGasLimits
  Prices <- SomePrices
  Sequences <- SomeSequences
SYMMETRY Symmetry
SPECIFICATION MCSpec
INVARIANTS
  TypeOK
  TimeTypeOK
  SpanTypeOK
  KeyTypeOK
  AnyTypeOK
  NumberTypeOK
  SignedMessageIsSent
  DriftsLessThanAMillisecond
  DurationIsKept
  KeyIsKept
  KeysAreWellFormed
  MessageIsKept
  AskedFeeIsPaid
  LittleIsOverpaid
  SequenceIsExact
PROPERTY OnlyDatesRound
CHECK_DEADLOCK FALSE
