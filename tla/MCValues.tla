------------------------------ MODULE MCValues -------------------------------
(***************************************************************************)
(* An instance for TLC of the components that turn a value into another    *)
(* form and back.  A behaviour is one of a single component, its subject;  *)
(* the variables of the others keep a state of rest.                       *)
(***************************************************************************)
EXTENDS Messages, Timestamps, Durations, PubKeys, AnyValues, Numbers, TLC

CONSTANT Subjects  \* the components that are run

VARIABLE subject

-----------------------------------------------------------------------------
(* Messages: rates of two decimals, 0 and 100% among them.                   *)

SomeRates == {0, 10, 99, 100}

\* No rate is there twice; a maximum of 100%.
SomeCommissions ==
  {[rate |-> 10, maxRate |-> 99, maxChangeRate |-> 0],
   [rate |-> 99, maxRate |-> 100, maxChangeRate |-> 10]}

\* Nothing tells two of these apart.
Symmetry ==
  Permutations(Calls) \cup Permutations(Keys) \cup Permutations(Coins)

MessagesRest ==
  /\ kind = "MsgSend" /\ message = CHOOSE m \in Constructed("MsgSend") : TRUE
  /\ changes = 0 /\ touched = {}
  /\ stage = [c \in Calls |-> "idle"]
  /\ read = [c \in Calls |-> None] /\ doc = read /\ body = read

-----------------------------------------------------------------------------
(* Timestamps.                                                               *)

SecondsFrom1970 == 0..9
SecondsBefore1970 == -2..-1
FirstSecond == -10

SomeNanos ==
  {0, 1, 999, 1000, 999999, 1000000, 1000001, 1500000, 500000000, 999000000,
   998999999, 999000001, 999999000, 999999999}

TimeRest == origin = Timestamp(0, 0) /\ form = "error" /\ held = origin

-----------------------------------------------------------------------------
(* Durations: -3s to 3s, both bounds among them, and the texts of others:    *)
(* "1.5s", "-0.05s", "2.0000000001s".                                        *)

Fractions == {0, 1, 1000, 1000000, 1001, 120000000, 500000000, 999999000, 999999999}

SomeSpans ==
  {d \in [seconds: -3..3, nanos: Fractions \cup {-n : n \in Fractions}] :
     /\ d.seconds > 0 => d.nanos >= 0
     /\ d.seconds < 0 => d.nanos <= 0}

OtherTexts ==
  {[negative |-> sign, seconds |-> s, digits |-> digits, fraction |-> fraction] :
     sign \in BOOLEAN, s \in 0..3, digits \in {1, 2, 4, 5, 7, 8, 10}, fraction \in {1, 5, 9}}

SpanRest ==
  /\ spanOrigin = Duration(0, 0)
  /\ spanForm = "error" /\ spanHeld = spanOrigin

-----------------------------------------------------------------------------
(* Keys: compressed, of either sign; Edwards; uncompressed; too long; with a *)
(* wrong prefix.                                                             *)

Bytes(length, prefix, id) == [length |-> length, first |-> prefix, id |-> id]

SomeRaw ==
  {Bytes(33, 2, 1), Bytes(33, 3, 2), Bytes(32, 2, 3), Bytes(65, 4, 4),
   Bytes(34, 2, 5), Bytes(33, 4, 6)}

SomeUrls ==
  {"/cosmos.crypto.secp256k1.PubKey", "/cosmos.crypto.ed25519.PubKey",
   "/ethermint.crypto.v1.ethsecp256k1.PubKey"}

SomeAnys == [typeUrl: SomeUrls, value: SomeRaw]

Group(threshold, keys) ==
  [typeUrl |-> "/cosmos.crypto.multisig.LegacyAminoPubKey",
   value |-> [threshold |-> threshold, publicKeys |-> keys]]

SomeGroups ==
  {Group(2, <<a, b>>) : a, b \in SomeAnys} \cup {Group(1, <<a>>) : a \in SomeAnys}

KeyRest ==
  /\ keyOrigin = Single("Secp256k1", Bytes(33, 2, 1))
  /\ keyForm = "error" /\ keyHeld = keyOrigin

-----------------------------------------------------------------------------
(* Any: plain, well known and account types.                                 *)

SomeTypes ==
  {"ethermint.types.v1.EthAccount", "cosmos.auth.v1beta1.BaseAccount",
   "cosmos.vesting.v1beta1.ContinuousVestingAccount",
   "cosmos.staking.v1beta1.MsgCreateValidator",
   "google.protobuf.Timestamp", "google.protobuf.EnumDescriptorProto"}

\* MsgCreateValidator and EnumDescriptorProto have a field "value".
SomeShapes ==
  [t \in SomeTypes |->
     CASE t = "google.protobuf.Timestamp" -> {"scalar"}
       [] t = "google.protobuf.EnumDescriptorProto" -> {"object", "objectWithValue"}
       [] t = "cosmos.staking.v1beta1.MsgCreateValidator" -> {"objectWithValue"}
       [] OTHER -> {"object"}]

SomeWellKnown == {"google.protobuf.Timestamp", "google.protobuf.EnumDescriptorProto"}

SomeRegistry == SomeTypes \ {"cosmos.auth.v1beta1.BaseAccount"}

SomeAccounts == {"ethermint.types.v1.EthAccount", "cosmos.auth.v1beta1.BaseAccount"}

AnyRest ==
  /\ anyOrigin = [type |-> "ethermint.types.v1.EthAccount", shape |-> "object"]
  /\ anyForm = "error" /\ anyHeld = anyOrigin
  /\ url = EmptyUrl /\ wrapped = FALSE /\ wanted = NoName

-----------------------------------------------------------------------------
(* Numbers: doubles of 12 bits; tenths and hundredths of a coin; the first   *)
(* and the last sequences up to 2^12.                                        *)

SomeScales == {<<2^k, 1>> : k \in 0..17} \cup {<<1, 2>>, <<1, 4>>}

SomeGasLimits == 1..20 \cup {25}

SomePrices ==
  {<<n, 10>> : n \in 1..12} \cup {<<n, 100>> : n \in {7, 14, 25, 29, 33, 81}}

SomeSequences == 0..2 \cup 4094..4096

ASSUME BitsToSpare /\ FeesAreSmall

NumbersRest ==
  /\ gas = 1 /\ price = <<1, 10>> /\ fee = 0
  /\ sequence = 4094 /\ signedSequence = 0 /\ payStage = "asked"

-----------------------------------------------------------------------------
(* One of them.                                                              *)

allVars == <<messageVars, timeVars, spanVars, keyVars, anyVars, numberVars>>

MCInit ==
  /\ subject \in Subjects
  /\ IF subject = "messages" THEN Init ELSE MessagesRest
  /\ IF subject = "time" THEN TimeInit ELSE TimeRest
  /\ IF subject = "durations" THEN SpanInit ELSE SpanRest
  /\ IF subject = "keys" THEN KeyInit ELSE KeyRest
  /\ IF subject = "any" THEN AnyInit ELSE AnyRest
  /\ IF subject = "numbers" THEN NumberInit ELSE NumbersRest

MCNext ==
  /\ UNCHANGED subject
  /\ \/ /\ subject = "messages" /\ Next
        /\ UNCHANGED <<timeVars, spanVars, keyVars, anyVars, numberVars>>
     \/ /\ subject = "time" /\ TimeNext
        /\ UNCHANGED <<messageVars, spanVars, keyVars, anyVars, numberVars>>
     \/ /\ subject = "durations" /\ SpanNext
        /\ UNCHANGED <<messageVars, timeVars, keyVars, anyVars, numberVars>>
     \/ /\ subject = "keys" /\ KeyNext
        /\ UNCHANGED <<messageVars, timeVars, spanVars, anyVars, numberVars>>
     \/ /\ subject = "any" /\ AnyNext
        /\ UNCHANGED <<messageVars, timeVars, spanVars, keyVars, numberVars>>
     \/ /\ subject = "numbers" /\ NumberNext
        /\ UNCHANGED <<messageVars, timeVars, spanVars, keyVars, anyVars>>

MCSpec == MCInit /\ [][MCNext]_<<subject, allVars>>
=============================================================================
