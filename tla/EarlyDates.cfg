\* Instants before 1970.
CONSTANTS
  Subjects = {"time"}
  Calls = {c1}
  Keys = {k1, k2}
  Coins = {oneCoin, twoCoins}
  Descriptions = {described}
  Amounts = {some}
  Rates <- SomeRates
  Commissions <- SomeCommissions
  One = 100
  MaxChanges = 1
  Empty = Empty
  None = None
  Seconds <- SecondsBefore1970
  Nanos <- SomeNanos
  MinSecond <- FirstSecond
  MaxSecond = 8
  Spans <- SomeSpans
  SpanTexts <- OtherTexts
  MaxSpan = 2
  RawKeys <- SomeRaw
  KeyAnys <- SomeAnys
  KeyGroups <- SomeGroups
  MaxMembers = 3
  Thresholds = {1, 2}
  Types <- SomeTypes
  Shapes <- SomeShapes
  WellKnown <- SomeWellKnown
  Registry <- SomeRegistry
  AccountTypes <- SomeAccounts
  Paths = {"", "/", "type.googleapis.com/", "example.com/a/"}
  NoName = NoName
  Limit = 4096
  Scales <- SomeScales
  GasLimits <- SomeGasLimits
  Prices <- SomePrices
  Sequences <- SomeSequences
SPECIFICATION MCSpec
INVARIANT NanosCountForward
CHECK_DEADLOCK FALSE
