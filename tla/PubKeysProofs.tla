---------------------------- MODULE PubKeysProofs -----------------------------
(***************************************************************************)
(* Theorems about PubKeys: for any byte strings, groups and thresholds, a  *)
(* key that is encoded and decoded again is the key it was, and has bytes  *)
(* of its curve.                                                           *)
(***************************************************************************)
EXTENDS PubKeys, TLAPS

\* A key of one signer whose bytes have been checked.
Checked(key) == key \in SingleKeys /\ Accepts(key.type, key.value)

IsMultisig(key, threshold, members) ==
  /\ key = Multisig(threshold, members)
  /\ threshold \in Thresholds
  /\ members \in Seq(SingleKeys)

\* A PubKey in full: a record, its members a sequence.
Sound(key) ==
  \/ key \in SingleKeys
  \/ IsMultisig(key, key.value.threshold, key.value.pubKeys)

\* And all of its bytes checked.
SoundAndChecked(key) ==
  \/ Checked(key)
  \/ /\ IsMultisig(key, key.value.threshold, key.value.pubKeys)
     /\ \A i \in DOMAIN key.value.pubKeys : Checked(key.value.pubKeys[i])

KeyInv ==
  /\ keyForm \in {"pubKey", "any", "error"}
  /\ Sound(keyOrigin)
  /\ keyForm = "pubKey" => keyHeld = keyOrigin /\ SoundAndChecked(keyHeld)
  /\ keyForm = "any" => MeaningOf(keyHeld) = keyOrigin

LEMMA SingleIs ==
  ASSUME NEW key \in SingleKeys
  PROVE  /\ key.type \in SingleTypes /\ key.value \in RawKeys
         /\ key = Single(key.type, key.value)
         /\ key.type # "MultisigThreshold"
BY DEF SingleKeys, Single, SingleTypes

LEMMA CheckedIsSound ==
  ASSUME NEW key, SoundAndChecked(key)
  PROVE  Sound(key)
BY DEF SoundAndChecked, Sound, Checked

-----------------------------------------------------------------------------
(* What is encoded stands for what it was.                                   *)

LEMMA EncodedSingle ==
  ASSUME NEW key \in SingleKeys, key.type \in Encodable
  PROVE  /\ ~IsLegacy(EncodeSingle(key))
         /\ Single(TypeOf(EncodeSingle(key).typeUrl), EncodeSingle(key).value) = key
<1>1. EncodeSingle(key).typeUrl = UrlOf(key.type) /\ EncodeSingle(key).value = key.value
  BY DEF EncodeSingle, Packed
<1>2. TypeOf(UrlOf(key.type)) = key.type
  BY DEF TypeOf, UrlOf, Encodable
<1>3. UrlOf(key.type) # "/cosmos.crypto.multisig.LegacyAminoPubKey"
  BY DEF UrlOf
<1> QED BY <1>1, <1>2, <1>3, SingleIs DEF IsLegacy

LEMMA EncodedMeansKey ==
  ASSUME NEW key, Sound(key), CanEncode(key)
  PROVE  MeaningOf(EncodePubKey(key)) = key
<1>1. CASE key \in SingleKeys
  <2>1. key.type # "MultisigThreshold" /\ key.type \in Encodable
    BY <1>1, SingleIs DEF CanEncode
  <2>2. EncodePubKey(key) = EncodeSingle(key)
    BY <2>1 DEF EncodePubKey
  <2> QED BY <1>1, <2>1, <2>2, EncodedSingle DEF MeaningOf
<1>2. CASE IsMultisig(key, key.value.threshold, key.value.pubKeys)
  <2> DEFINE members == key.value.pubKeys
             encoded == [i \in DOMAIN members |-> EncodeSingle(members[i])]
             any == EncodePubKey(key)
  <2>1. key.type = "MultisigThreshold" /\ members \in Seq(SingleKeys)
    BY <1>2 DEF IsMultisig, Multisig
  <2>2. any = Legacy(key.value.threshold, encoded)
    BY <2>1 DEF EncodePubKey
  <2>3. /\ IsLegacy(any) /\ any.value.threshold = key.value.threshold
        /\ any.value.publicKeys = encoded
    BY <2>2 DEF IsLegacy, Legacy, Packed
  <2>4. ASSUME NEW i \in DOMAIN members
        PROVE  Single(TypeOf(encoded[i].typeUrl), encoded[i].value) = members[i]
    <3>1. members[i] \in SingleKeys
      BY <2>1
    <3>2. members[i].type \in Encodable
      BY <2>1 DEF CanEncode
    <3> QED BY <3>1, <3>2, EncodedSingle
  <2>5. [i \in DOMAIN encoded |->
           Single(TypeOf(encoded[i].typeUrl), encoded[i].value)] = members
    <3>1. members = [i \in DOMAIN members |-> members[i]]
      BY <2>1
    <3> QED BY <2>4, <3>1
  <2> HIDE DEF encoded, any
  <2>6. MeaningOf(any) = Multisig(key.value.threshold, members)
    BY <2>3, <2>5 DEF MeaningOf
  <2> QED BY <1>2, <2>6 DEF IsMultisig, any
<1> QED BY <1>1, <1>2 DEF Sound

\* What is decoded is what the Any stands for.
LEMMA DecodedIsMeant ==
  ASSUME NEW any
  PROVE  DecodePubKey(any) = MeaningOf(any)
BY DEF DecodePubKey, MeaningOf, DecodeSingle

\* And has been checked.
LEMMA DecodedIsChecked ==
  ASSUME NEW any, CanDecode(any), Sound(MeaningOf(any))
  PROVE  SoundAndChecked(MeaningOf(any))
<1>1. CASE IsLegacy(any)
  <2> DEFINE keys == any.value.publicKeys
             members == [i \in DOMAIN keys |-> Single(TypeOf(keys[i].typeUrl), keys[i].value)]
             key == MeaningOf(any)
  <2>1. key = Multisig(any.value.threshold, members)
    BY <1>1 DEF MeaningOf
  <2>2. key.type = "MultisigThreshold" /\ key.value.pubKeys = members
    BY <2>1 DEF Multisig
  <2>3. IsMultisig(key, key.value.threshold, key.value.pubKeys)
    BY <2>2, SingleIs DEF Sound
  <2>4. ASSUME NEW i \in DOMAIN members
        PROVE  Checked(members[i])
    <3>1. members \in Seq(SingleKeys)
      BY <2>2, <2>3 DEF IsMultisig
    <3>2. members[i] \in SingleKeys
      BY <3>1
    <3>3. Accepts(TypeOf(keys[i].typeUrl), keys[i].value)
      BY <1>1 DEF CanDecode, CanDecodeSingle
    <3> QED BY <3>2, <3>3 DEF Checked, Single
  <2> QED BY <2>2, <2>3, <2>4 DEF SoundAndChecked
<1>2. CASE ~IsLegacy(any)
  <2>1. Accepts(TypeOf(any.typeUrl), any.value) /\ any.typeUrl \in Decodable
    BY <1>2 DEF CanDecode, CanDecodeSingle
  <2>2. MeaningOf(any) = Single(TypeOf(any.typeUrl), any.value)
    BY <1>2 DEF MeaningOf
  <2>3. MeaningOf(any).type # "MultisigThreshold"
    BY <2>1, <2>2 DEF Single, TypeOf, Decodable
  <2>4. MeaningOf(any) \in SingleKeys
    BY <2>3 DEF Sound, IsMultisig, Multisig
  <2> QED BY <2>1, <2>2, <2>4 DEF SoundAndChecked, Checked, Single
<1> QED BY <1>1, <1>2

-----------------------------------------------------------------------------
(* The invariant.                                                            *)

LEMMA KeyInvInit ==
  ASSUME KeyInit
  PROVE  KeyInv
<1>1. CASE InitRaw
  <2>1. PICK type \in SingleTypes, raw \in RawKeys :
          /\ keyOrigin = Single(type, raw) /\ keyHeld = keyOrigin
          /\ keyForm = IF Accepts(type, raw) THEN "pubKey" ELSE "error"
    BY <1>1 DEF InitRaw
  <2>2. keyOrigin \in SingleKeys /\ keyOrigin.type = type /\ keyOrigin.value = raw
    BY <2>1 DEF SingleKeys, Single
  <2> QED BY <2>1, <2>2 DEF KeyInv, Sound, SoundAndChecked, Checked
<1>2. CASE InitAny
  <2>1. keyForm = "any" /\ keyOrigin = MeaningOf(keyHeld) /\ keyHeld \in KeyAnys \cup KeyGroups
    BY <1>2 DEF InitAny
  <2>2. ASSUME NEW a \in KeyAnys
        PROVE  /\ ~IsLegacy(a) /\ a.value \in RawKeys
               /\ Single(TypeOf(a.typeUrl), a.value) \in SingleKeys
    <3>1. a.typeUrl \in KeyUrls /\ a.value \in RawKeys
      BY KeysType
    <3>2. TypeOf(a.typeUrl) \in SingleTypes
      BY <3>1 DEF KeyUrls, TypeOf, SingleTypes
    <3> QED BY <3>1, <3>2 DEF IsLegacy, KeyUrls, SingleKeys
  <2>3. CASE keyHeld \in KeyAnys
    BY <2>1, <2>2, <2>3 DEF MeaningOf, KeyInv, Sound
  <2>4. CASE keyHeld \in KeyGroups
    <3> DEFINE keys == keyHeld.value.publicKeys
               members == [i \in DOMAIN keys |-> Single(TypeOf(keys[i].typeUrl), keys[i].value)]
    <3>1. /\ IsLegacy(keyHeld) /\ keyHeld.value.threshold \in Thresholds
          /\ keys \in Seq(KeyAnys)
      BY <2>4, KeysType DEF IsLegacy
    <3>2. members \in Seq(SingleKeys)
      <4>1. \A i \in DOMAIN keys : members[i] \in SingleKeys
        BY <2>2, <3>1
      <4>2. DOMAIN keys = 1..Len(keys) /\ Len(keys) \in Nat
        BY <3>1
      <4>3. members \in [1..Len(keys) -> SingleKeys]
        BY <4>1, <4>2
      <4> HIDE DEF members
      <4> QED BY <4>2, <4>3
    <3>3. keyOrigin = Multisig(keyHeld.value.threshold, members)
      BY <2>1, <3>1 DEF MeaningOf
    <3> HIDE DEF members
    <3>4. IsMultisig(keyOrigin, keyOrigin.value.threshold, keyOrigin.value.pubKeys)
      BY <3>1, <3>2, <3>3 DEF IsMultisig, Multisig
    <3> QED BY <2>1, <3>4 DEF KeyInv, Sound
  <2> QED BY <2>1, <2>3, <2>4
<1> QED BY <1>1, <1>2 DEF KeyInit

LEMMA OneIsSequence ==
  ASSUME NEW S, NEW x \in S
  PROVE  <<x>> \in Seq(S)
OBVIOUS

\* The members of a multisig key, or the key itself.
LEMMA JoinedIsSound ==
  ASSUME NEW key, SoundAndChecked(key), NEW type \in SingleTypes, NEW raw \in RawKeys,
         NEW threshold \in Thresholds, Accepts(type, raw),
         NEW members,
         members = IF key.type = "MultisigThreshold" THEN key.value.pubKeys ELSE <<key>>
  PROVE  SoundAndChecked(Multisig(threshold, Append(members, Single(type, raw))))
<1> DEFINE next == Single(type, raw)
           joined == Append(members, next)
<1>1. Checked(next)
  BY DEF Checked, SingleKeys, Single
<1>2. members \in Seq(SingleKeys) /\ \A i \in DOMAIN members : Checked(members[i])
  <2>1. CASE Checked(key)
    <3>1. members = <<key>> /\ key \in SingleKeys
      BY <2>1, SingleIs DEF Checked
    <3>2. members \in Seq(SingleKeys)
      BY <3>1, OneIsSequence
    <3>3. \A i \in DOMAIN members : members[i] = key
      <4>1. Len(members) = 1 /\ members[1] = key
        BY <3>1
      <4>2. \A i \in DOMAIN members : i = 1
        BY <3>2, <4>1
      <4> QED BY <4>1, <4>2
    <3> QED BY <2>1, <3>2, <3>3
  <2>2. CASE ~Checked(key)
    <3>1. /\ IsMultisig(key, key.value.threshold, key.value.pubKeys)
          /\ \A i \in DOMAIN key.value.pubKeys : Checked(key.value.pubKeys[i])
      BY <2>2 DEF SoundAndChecked
    <3>2. key.type = "MultisigThreshold"
      BY <3>1 DEF IsMultisig, Multisig
    <3> QED BY <3>1, <3>2 DEF IsMultisig
  <2> QED BY <2>1, <2>2
<1>3. next \in SingleKeys
  BY <1>1 DEF Checked
<1> HIDE DEF next
<1>4. joined \in Seq(SingleKeys)
  BY <1>2, <1>3
<1>5. ASSUME NEW i \in DOMAIN joined
      PROVE  Checked(joined[i])
  BY <1>1, <1>2, <1>3, <1>5
<1> HIDE DEF joined
<1> DEFINE key2 == Multisig(threshold, joined)
<1>6. key2.value.threshold = threshold /\ key2.value.pubKeys = joined
  BY DEF Multisig
<1>7. IsMultisig(key2, key2.value.threshold, key2.value.pubKeys)
  BY <1>4, <1>6 DEF IsMultisig
<1>8. SoundAndChecked(key2)
  BY <1>5, <1>6, <1>7 DEF SoundAndChecked
<1> QED BY <1>8 DEF joined, next

LEMMA KeyInvNext ==
  ASSUME KeyInv, [KeyNext]_keyVars
  PROVE  KeyInv'
<1>1. CASE EncodeKey
  <2>1. CASE CanEncode(keyHeld)
    <3>1. MeaningOf(EncodePubKey(keyHeld)) = keyHeld
      BY <1>1, <2>1, CheckedIsSound, EncodedMeansKey DEF EncodeKey, KeyInv
    <3> QED BY <1>1, <2>1, <3>1 DEF EncodeKey, KeyBecomes, KeyInv, Sound, IsMultisig
  <2>2. CASE ~CanEncode(keyHeld)
    BY <1>1, <2>2 DEF EncodeKey, KeyThrow, KeyBecomes, KeyInv, Sound, IsMultisig
  <2> QED BY <2>1, <2>2
<1>2. CASE DecodeKey
  <2>1. CASE CanDecode(keyHeld)
    <3>1. DecodePubKey(keyHeld) = keyOrigin /\ SoundAndChecked(keyOrigin)
      BY <1>2, <2>1, DecodedIsMeant, DecodedIsChecked DEF DecodeKey, KeyInv
    <3> QED BY <1>2, <2>1, <3>1
            DEF DecodeKey, KeyBecomes, KeyInv, Sound, SoundAndChecked, Checked, IsMultisig
  <2>2. CASE ~CanDecode(keyHeld)
    BY <1>2, <2>2 DEF DecodeKey, KeyThrow, KeyBecomes, KeyInv, Sound, IsMultisig
  <2> QED BY <2>1, <2>2
<1>3. CASE JoinKeys
  <2>1. PICK type \in SingleTypes, raw \in RawKeys, threshold \in Thresholds :
          LET members == IF keyHeld.type = "MultisigThreshold"
                         THEN keyHeld.value.pubKeys ELSE <<keyHeld>>
              joined == Multisig(threshold, Append(members, Single(type, raw)))
          IN /\ Accepts(type, raw)
             /\ keyForm' = "pubKey" /\ keyHeld' = joined /\ keyOrigin' = joined
    BY <1>3 DEF JoinKeys
  <2>2. SoundAndChecked(keyHeld)
    BY <1>3 DEF JoinKeys, KeyInv
  <2>3. SoundAndChecked(keyHeld') /\ keyHeld' = keyOrigin' /\ keyForm' = "pubKey"
    BY <2>1, <2>2, JoinedIsSound
  <2>4. Sound(keyOrigin')
    BY <2>3, CheckedIsSound
  <2> QED BY <2>3, <2>4 DEF KeyInv, Sound, SoundAndChecked, Checked, IsMultisig
<1>4. CASE UNCHANGED keyVars
  BY <1>4 DEF keyVars, KeyInv, Sound, SoundAndChecked, Checked, IsMultisig
<1> QED BY <1>1, <1>2, <1>3, <1>4 DEF KeyNext

LEMMA KeyInvCorrect == KeySpec => []KeyInv
<1>1. KeyInit => KeyInv
  BY KeyInvInit
<1>2. KeyInv /\ [KeyNext]_keyVars => KeyInv'
  BY KeyInvNext
<1> QED BY <1>1, <1>2, PTL DEF KeySpec

-----------------------------------------------------------------------------
(* What follows.                                                             *)

\* A key that encodePubKey and decodePubKey let through is the key it was, with
\* its members in their order, for any bytes, groups and thresholds.
THEOREM KeysAreKept == KeySpec => []KeyIsKept
<1>1. KeyInv => KeyIsKept
  BY DEF KeyInv, KeyIsKept
<1> QED BY <1>1, KeyInvCorrect, PTL

\* Its bytes are a point of its curve, whoever made it (decodeSinglePubKey).
THEOREM KeysAreOfTheirCurve == KeySpec => []KeysAreWellFormed
<1>1. ASSUME NEW key, Checked(key)
      PROVE  IF key.type = "Ed25519" THEN key.value.length = 32
             ELSE key.value.length = 33 /\ key.value.first \in {2, 3}
  BY <1>1 DEF Checked, Accepts, IsCompressed, IsEdwards
<1>2. KeyInv => KeysAreWellFormed
  <2> SUFFICES ASSUME KeyInv, keyForm = "pubKey" PROVE KeysAreWellFormed
    BY DEF KeysAreWellFormed
  <2>1. CASE Checked(keyHeld)
    <3>1. keyHeld.type # "MultisigThreshold"
      BY <2>1, SingleIs DEF Checked
    <3> QED BY <1>1, <2>1, <3>1 DEF KeysAreWellFormed
  <2>2. CASE ~Checked(keyHeld)
    <3>1. /\ keyHeld.type = "MultisigThreshold"
          /\ \A i \in DOMAIN keyHeld.value.pubKeys : Checked(keyHeld.value.pubKeys[i])
      BY <2>2 DEF KeyInv, SoundAndChecked, IsMultisig, Multisig
    <3> QED BY <1>1, <3>1 DEF KeysAreWellFormed
  <2> QED BY <2>1, <2>2
<1> QED BY <1>2, KeyInvCorrect, PTL

\* The type invariant: there is always a PubKey, single or of single ones.
THEOREM KeyTypes == KeySpec => []KeyTypeOK
<1>1. ASSUME NEW key, Sound(key)
      PROVE  IsPubKey(key)
  <2>1. CASE key \in SingleKeys
    BY <2>1 DEF IsPubKey
  <2>2. CASE IsMultisig(key, key.value.threshold, key.value.pubKeys)
    BY <2>2 DEF IsMultisig, Multisig, IsPubKey
  <2> QED BY <1>1, <2>1, <2>2 DEF Sound
<1>2. KeyInv => KeyTypeOK
  BY <1>1, CheckedIsSound DEF KeyInv, KeyTypeOK
<1> QED BY <1>2, KeyInvCorrect, PTL
=============================================================================
