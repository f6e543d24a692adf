------------------------------- MODULE PubKeys --------------------------------
(***************************************************************************)
(* Public keys (pub-key.ts): bytes of a wallet or of the chain become a    *)
(* PubKey, the amino form of a key, which becomes an Any, the protobuf     *)
(* form, and back.  The three forms accept different keys: what one writes *)
(* another may refuse, but none may read as another key.  (A missing key   *)
(* decodes to null, which is no key, and is left out.)                     *)
(***************************************************************************)
EXTENDS Integers, Sequences

CONSTANTS
  RawKeys,         \* byte strings of keys
  KeyAnys,         \* keys other programs wrote, of one signer
  KeyGroups,       \* LegacyAminoPubKeys other programs wrote
  MaxMembers,      \* bound: the members of a multisig key made here
  Thresholds       \* how many of a multisig key's members must sign

SingleTypes == {"EthSecp256k1", "Secp256k1", "Ed25519", "Sr25519"}

\* The keys of one signer that the chain has.
KeyUrls ==
  {"/cosmos.crypto.secp256k1.PubKey", "/cosmos.crypto.ed25519.PubKey",
   "/ethermint.crypto.v1.ethsecp256k1.PubKey"}

\* A byte string of a key: its length, its first byte, and which one it is.
ASSUME KeysType ==
  /\ RawKeys \subseteq [length: Nat, first: 0..255, id: Nat]
  /\ KeyAnys \subseteq [typeUrl: KeyUrls, value: RawKeys]
  /\ \A g \in KeyGroups :
       /\ g = [typeUrl |-> "/cosmos.crypto.multisig.LegacyAminoPubKey",
               value |-> [threshold |-> g.value.threshold,
                          publicKeys |-> g.value.publicKeys]]
       /\ g.value.threshold \in Thresholds
       /\ g.value.publicKeys \in Seq(KeyAnys)

\* PubKey
Single(type, raw) == [type |-> type, value |-> raw]

\* Faulty variant: all of the members must sign.
MultisigOfAll(threshold, pubKeys) ==
  [type |-> "MultisigThreshold",
   value |-> [threshold |-> Len(pubKeys), pubKeys |-> pubKeys]]

Multisig(threshold, pubKeys) ==
  [type |-> "MultisigThreshold",
   value |-> [threshold |-> threshold, pubKeys |-> pubKeys]]

\* Any
Packed(typeUrl, key) == [typeUrl |-> typeUrl, value |-> key]

Legacy(threshold, publicKeys) ==
  Packed("/cosmos.crypto.multisig.LegacyAminoPubKey",
         [threshold |-> threshold, publicKeys |-> publicKeys])

VARIABLES
  keyOrigin,       \* the key there was first, as the PubKey it stands for
  keyForm,         \* what is held now: "pubKey", "any", "error"
  keyHeld

keyVars == <<keyOrigin, keyForm, keyHeld>>

-----------------------------------------------------------------------------
(* From bytes to PubKey.                                                     *)

\* Faulty variant: the first byte is not looked at.
IsLongEnough(raw) == raw.length = 33

IsCompressed(raw) == raw.length = 33 /\ raw.first \in {2, 3}

IsEdwards(raw) == raw.length = 32

\* encodeEthSecp256k1PubKey, encodeSecp256k1PubKey, encodeEd25519PubKey: the
\* bytes each accepts.
Accepts(type, raw) ==
  CASE type \in {"EthSecp256k1", "Secp256k1"} -> IsCompressed(raw)
    [] type = "Ed25519" -> IsEdwards(raw)
    [] OTHER -> FALSE

-----------------------------------------------------------------------------
(* From PubKey to Any.                                                       *)

\* encodePubKey knows these, and multisig keys of them.
Encodable == {"Secp256k1", "EthSecp256k1"}

\* Faulty variant: both kinds of secp256k1 are the same.
UrlOfCosmos(type) == "/cosmos.crypto.secp256k1.PubKey"

\* The codec of cosmos' secp256k1 writes either: they have the same field.
UrlOf(type) ==
  IF type = "Secp256k1" THEN "/cosmos.crypto.secp256k1.PubKey"
  ELSE "/ethermint.crypto.v1.ethsecp256k1.PubKey"

EncodeSingle(key) == Packed(UrlOf(key.type), key.value)

EncodePubKey(key) ==
  IF key.type = "MultisigThreshold"
  THEN LET Member(i) == EncodeSingle(key.value.pubKeys[i])
       IN Legacy(key.value.threshold,
                 [i \in DOMAIN key.value.pubKeys |-> Member(i)])
  ELSE EncodeSingle(key)

\* It throws for any other type, also of a member.
CanEncode(key) ==
  IF key.type = "MultisigThreshold"
  THEN \A i \in DOMAIN key.value.pubKeys : key.value.pubKeys[i].type \in Encodable
  ELSE key.type \in Encodable

-----------------------------------------------------------------------------
(* From Any to PubKey.                                                       *)

TypeOf(typeUrl) ==
  CASE typeUrl = "/cosmos.crypto.secp256k1.PubKey" -> "Secp256k1"
    [] typeUrl = "/cosmos.crypto.ed25519.PubKey" -> "Ed25519"
    [] typeUrl = "/ethermint.crypto.v1.ethsecp256k1.PubKey" -> "EthSecp256k1"

\* decodeSinglePubKey knows these, and checks the bytes as if they were new.
Decodable == {"/cosmos.crypto.secp256k1.PubKey", "/cosmos.crypto.ed25519.PubKey"}

CanDecodeSingle(any) ==
  any.typeUrl \in Decodable /\ Accepts(TypeOf(any.typeUrl), any.value)

DecodeSingle(any) == Single(TypeOf(any.typeUrl), any.value)

IsLegacy(any) == any.typeUrl = "/cosmos.crypto.multisig.LegacyAminoPubKey"

\* Members are decoded as single keys: a multisig key among them throws.
CanDecode(any) ==
  IF IsLegacy(any)
  THEN \A i \in DOMAIN any.value.publicKeys : CanDecodeSingle(any.value.publicKeys[i])
  ELSE CanDecodeSingle(any)

DecodePubKey(any) ==
  IF IsLegacy(any)
  THEN Multisig(any.value.threshold,
                [i \in DOMAIN any.value.publicKeys |->
                   DecodeSingle(any.value.publicKeys[i])])
  ELSE DecodeSingle(any)

-----------------------------------------------------------------------------
(* The steps.                                                                *)

\* The key that an Any of one signer, or of a group, stands for.
MeaningOf(any) ==
  IF IsLegacy(any)
  THEN Multisig(any.value.threshold,
                [i \in DOMAIN any.value.publicKeys |->
                   Single(TypeOf(any.value.publicKeys[i].typeUrl),
                          any.value.publicKeys[i].value)])
  ELSE Single(TypeOf(any.typeUrl), any.value)

\* A wallet's bytes of which one of the encode functions makes a key.
InitRaw ==
  \E type \in SingleTypes, raw \in RawKeys :
    /\ keyOrigin = Single(type, raw)
    /\ keyForm = IF Accepts(type, raw) THEN "pubKey" ELSE "error"
    /\ keyHeld = keyOrigin

\* An Any of an account or a transaction.
InitAny ==
  /\ keyForm = "any"
  /\ keyHeld \in KeyAnys \cup KeyGroups
  /\ keyOrigin = MeaningOf(keyHeld)

KeyInit == InitRaw \/ InitAny

KeyBecomes(newForm, value) == keyForm' = newForm /\ keyHeld' = value /\ UNCHANGED keyOrigin

KeyThrow == KeyBecomes("error", keyOrigin)

EncodeKey ==
  /\ keyForm = "pubKey"
  /\ IF CanEncode(keyHeld) THEN KeyBecomes("any", EncodePubKey(keyHeld)) ELSE KeyThrow

DecodeKey ==
  /\ keyForm = "any"
  /\ IF CanDecode(keyHeld) THEN KeyBecomes("pubKey", DecodePubKey(keyHeld)) ELSE KeyThrow

\* A caller makes a multisig key of this one and others it has made.
JoinKeys ==
  /\ keyForm = "pubKey"
  /\ \E type \in SingleTypes, raw \in RawKeys, threshold \in Thresholds :
       LET members == IF keyHeld.type = "MultisigThreshold"
                      THEN keyHeld.value.pubKeys ELSE <<keyHeld>>
           joined == Multisig(threshold, Append(members, Single(type, raw)))
       IN /\ Accepts(type, raw)
          /\ Len(members) < MaxMembers
          /\ keyForm' = "pubKey" /\ keyHeld' = joined /\ keyOrigin' = joined

KeyNext == EncodeKey \/ DecodeKey \/ JoinKeys

KeySpec == KeyInit /\ [][KeyNext]_keyVars

-----------------------------------------------------------------------------
(* Properties.                                                               *)

SingleKeys == {Single(type, raw) : type \in SingleTypes, raw \in RawKeys}

IsPubKey(key) ==
  \/ key \in SingleKeys
  \/ /\ key.type = "MultisigThreshold"
     /\ key.value.threshold \in Thresholds
     /\ \A i \in DOMAIN key.value.pubKeys : key.value.pubKeys[i] \in SingleKeys

KeyTypeOK ==
  /\ keyForm \in {"pubKey", "any", "error"}
  /\ IsPubKey(keyOrigin)
  /\ keyForm = "pubKey" => IsPubKey(keyHeld)

\* A key that gets through is the key there was, its members in their order
\* (a multisig address depends on it), its kind of secp256k1 included
\* (encodePubKey, decodePubKey).
KeyIsKept ==
  /\ keyForm = "pubKey" => keyHeld = keyOrigin
  /\ keyForm = "any" => MeaningOf(keyHeld) = keyOrigin

\* The bytes of every key that is held are a point of its curve: the chain's
\* keys are checked on the way in like the caller's (encode...PubKey called by
\* decodeSinglePubKey).
KeysAreWellFormed ==
  keyForm = "pubKey" =>
    LET members == IF keyHeld.type = "MultisigThreshold"
                   THEN keyHeld.value.pubKeys ELSE <<keyHeld>>
    IN \A i \in DOMAIN members :
         LET raw == members[i].value IN
         IF members[i].type = "Ed25519" THEN raw.length = 32
         ELSE raw.length = 33 /\ raw.first \in {2, 3}
=============================================================================
