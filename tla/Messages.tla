------------------------------- MODULE Messages -------------------------------
(***************************************************************************)
(* The messages of bank.ts and staking.ts, each of which is written twice  *)
(* when it is signed in amino mode: toAmino's form is what the wallet      *)
(* signs, toProto's form is what is sent, and the chain verifies the       *)
(* signature against the amino form of what it received.                   *)
(*                                                                         *)
(* Both forms are made from one object of the caller's, at different times *)
(* (signAmino awaits the wallet in between), and both keep references to   *)
(* its nested objects: coins are read only when the document is signed and *)
(* when the body is encoded.                                               *)
(***************************************************************************)
EXTENDS Integers

CONSTANTS
  Calls,           \* transactions with this message, under way at a time
  Keys,            \* what addresses and public keys are made of
  Coins,           \* Coin, Coin[], Input[] or Output[] values
  Descriptions,    \* validators' descriptions, other than the empty one
  Amounts,         \* values of minSelfDelegation, other than ''
  Rates,           \* commission rates, in units of the last of 18 decimals
  Commissions,     \* CommissionRates of a new validator
  One,             \* a rate of 100%: 10^18
  MaxChanges,      \* bound: how often the caller changes the message
  Empty,           \* '', and the description of five such texts
  None             \* undefined

ASSUME MessagesType ==
  /\ One \in Nat \ {0}
  /\ Rates \subseteq 0..One
  /\ Commissions \subseteq [rate: Rates, maxRate: Rates, maxChangeRate: Rates]
  /\ MaxChanges \in Nat

Kinds == {"MsgSend", "MsgMultiSend", "MsgCreateValidator", "MsgEditValidator",
          "MsgDelegate", "MsgBeginRedelegate", "MsgUndelegate"}

\* Bech32 addresses: words with a prefix.
Delegators == [prefix: {"mer"}, words: Keys]
Operators == [prefix: {"mervaloper"}, words: Keys]

OrNone(S) == S \cup {None}
OrBlank(S) == S \cup {Empty}

\* The public fields of a message object.
Fields(kind) ==
  CASE kind = "MsgSend" ->
         [fromAddress: Delegators, toAddress: Delegators, amount: Coins]
    [] kind = "MsgMultiSend" -> [inputs: Coins, outputs: Coins]
    [] kind = "MsgCreateValidator" ->
         [description: OrBlank(Descriptions), commission: Commissions,
          minSelfDelegation: OrBlank(Amounts), delegatorAddress: Delegators,
          validatorAddress: Operators, pubkey: Keys, initialDelegation: Coins]
    [] kind = "MsgEditValidator" ->
         [validatorAddress: Operators, description: OrNone(OrBlank(Descriptions)),
          commissionRate: OrNone(Rates), minSelfDelegation: OrNone(OrBlank(Amounts))]
    [] kind = "MsgBeginRedelegate" ->
         [delegatorAddress: Delegators, validatorSrcAddress: Operators,
          validatorDstAddress: Operators, amount: Coins]
    [] kind \in {"MsgDelegate", "MsgUndelegate"} ->
         [delegatorAddress: Delegators, validatorAddress: Operators, amount: Coins]

\* Faulty variant: the delegator's own address.
SameAddress(address) == address

\* bech32.encode('mervaloper', bech32.decode(selfDelegatorAddress).words)
OperatorOf(address) == [address EXCEPT !.prefix = "mervaloper"]

\* The constructors: MsgCreateValidator derives an address, the others copy.
Constructed(kind) ==
  IF kind = "MsgCreateValidator"
  THEN {[m EXCEPT !.validatorAddress = OperatorOf(m.delegatorAddress)] :
          m \in Fields(kind)}
  ELSE Fields(kind)

-----------------------------------------------------------------------------
(* Commission rates as text.                                                 *)

\* toFixed(18)
ToFixed(rate) == [point |-> TRUE, whole |-> rate \div One, fraction |-> rate % One]

\* toFixed(18).replace(/0\.0*/, ''): a text "0.f" becomes the digits of f
\* without its first zeros ('' for zero); in any other there is nothing to
\* replace, for rates up to 1.
Scaled(rate) ==
  IF ToFixed(rate).whole # 0 THEN ToFixed(rate)
  ELSE IF rate = 0 THEN Empty
  ELSE [point |-> FALSE, whole |-> ToFixed(rate).fraction, fraction |-> 0]

\* `rate ? ... : ''` and `if (rate)`: zero is no rate.
IfGiven(rate, text, otherwise) == IF rate = None \/ rate = 0 THEN otherwise ELSE text

\* External: how the chain reads a decimal of amino JSON; none is zero.
ReadAminoDec(text) == IF text = None THEN 0 ELSE text.whole * One + text.fraction

\* External: and of protobuf, where it is the integer of the units, and a
\* point is an error (None).
ReadProtoDec(text) ==
  IF text = Empty THEN 0 ELSE IF text.point THEN None ELSE text.whole

-----------------------------------------------------------------------------
(* toProto and toAmino of each class.                                        *)

\* `this.description || {}`, `this.minSelfDelegation || ''`
OrEmpty(value) == IF value = None THEN Empty ELSE value

MsgSendProto(m) == m

MsgSendAmino(m) ==
  [from_address |-> m.fromAddress, to_address |-> m.toAddress, amount |-> m.amount]

MsgMultiSendProto(m) == m

MsgMultiSendAmino(m) == [inputs |-> m.inputs, outputs |-> m.outputs]

MsgCreateValidatorProto(m) ==
  [description |-> m.description,
   commission |-> [rate |-> Scaled(m.commission.rate),
                   maxRate |-> Scaled(m.commission.maxRate),
                   maxChangeRate |-> Scaled(m.commission.maxChangeRate)],
   minSelfDelegation |-> m.minSelfDelegation,
   delegatorAddress |-> m.delegatorAddress,
   validatorAddress |-> m.validatorAddress,
   pubkey |-> [typeUrl |-> "/cosmos.crypto.ed25519.PubKey", key |-> m.pubkey],
   value |-> m.initialDelegation]

MsgCreateValidatorAmino(m) ==
  [description |-> m.description,
   commission |-> [rate |-> ToFixed(m.commission.rate),
                   max_rate |-> ToFixed(m.commission.maxRate),
                   max_change_rate |-> ToFixed(m.commission.maxChangeRate)],
   min_self_delegation |-> m.minSelfDelegation,
   delegator_address |-> m.delegatorAddress,
   validator_address |-> m.validatorAddress,
   pubkey |-> [type |-> "ethermint/PubKeyEd25519", key |-> m.pubkey],
   value |-> m.initialDelegation]

MsgEditValidatorProto(m) ==
  [validatorAddress |-> m.validatorAddress,
   description |-> OrEmpty(m.description),
   commissionRate |-> IfGiven(m.commissionRate, Scaled(m.commissionRate), Empty),
   minSelfDelegation |-> OrEmpty(m.minSelfDelegation)]

MsgEditValidatorAmino(m) ==
  [validator_address |-> m.validatorAddress,
   description |-> m.description,
   commission_rate |-> IfGiven(m.commissionRate, ToFixed(m.commissionRate), None),
   min_self_delegation |-> m.minSelfDelegation]

MsgDelegateProto(m) == m

MsgDelegateAmino(m) ==
  [delegator_address |-> m.delegatorAddress,
   validator_address |-> m.validatorAddress, amount |-> m.amount]

MsgBeginRedelegateProto(m) == m

\* Faulty variant: from the validator it goes to.
MsgBeginRedelegateSwapped(m) ==
  [delegator_address |-> m.delegatorAddress,
   validator_src_address |-> m.validatorDstAddress,
   validator_dst_address |-> m.validatorSrcAddress, amount |-> m.amount]

MsgBeginRedelegateAmino(m) ==
  [delegator_address |-> m.delegatorAddress,
   validator_src_address |-> m.validatorSrcAddress,
   validator_dst_address |-> m.validatorDstAddress, amount |-> m.amount]

MsgUndelegateProto(m) == m

MsgUndelegateAmino(m) ==
  [delegator_address |-> m.delegatorAddress,
   validator_address |-> m.validatorAddress, amount |-> m.amount]

Proto(kind, m) ==
  CASE kind = "MsgSend" -> MsgSendProto(m)
    [] kind = "MsgMultiSend" -> MsgMultiSendProto(m)
    [] kind = "MsgCreateValidator" -> MsgCreateValidatorProto(m)
    [] kind = "MsgEditValidator" -> MsgEditValidatorProto(m)
    [] kind = "MsgDelegate" -> MsgDelegateProto(m)
    [] kind = "MsgBeginRedelegate" -> MsgBeginRedelegateProto(m)
    [] kind = "MsgUndelegate" -> MsgUndelegateProto(m)

Amino(kind, m) ==
  CASE kind = "MsgSend" -> MsgSendAmino(m)
    [] kind = "MsgMultiSend" -> MsgMultiSendAmino(m)
    [] kind = "MsgCreateValidator" -> MsgCreateValidatorAmino(m)
    [] kind = "MsgEditValidator" -> MsgEditValidatorAmino(m)
    [] kind = "MsgDelegate" -> MsgDelegateAmino(m)
    [] kind = "MsgBeginRedelegate" -> MsgBeginRedelegateAmino(m)
    [] kind = "MsgUndelegate" -> MsgUndelegateAmino(m)

\* None is not what it stands for the absence of, nor is the empty text another.
ASSUME NoneIsNoMessage ==
  /\ None \notin Descriptions \cup Amounts \cup {Empty}
  /\ \A r \in Rates : None # ToFixed(r) /\ Empty # ToFixed(r)
  /\ \A r \in Rates \ {0} : Empty # Scaled(r)
  /\ \A k \in Kinds : \A m \in Fields(k) :
       None # m /\ None # Proto(k, m) /\ None # Amino(k, m)

-----------------------------------------------------------------------------
(* Signing in amino mode, and what the caller does meanwhile.                *)

VARIABLES
  kind,            \* the class of the message
  message,         \* the caller's object, as it is now
  changes,         \* how often it was changed
  stage,           \* how far each call is
  read,            \* the fields a call copied when it last converted
  doc,             \* the message in the document the wallet signed
  body,            \* the message in the transaction
  touched          \* history: calls whose message changed between the two

messageVars == <<kind, message, changes, stage, read, doc, body, touched>>

Stages == {"idle", "wallet", "signed", "built", "sent"}

Init ==
  /\ kind \in Kinds
  /\ message \in Constructed(kind)
  /\ changes = 0
  /\ stage = [c \in Calls |-> "idle"]
  /\ read = [c \in Calls |-> None]
  /\ doc = [c \in Calls |-> None]
  /\ body = [c \in Calls |-> None]
  /\ touched = {}

\* Fields whose value is an object both forms refer to.
References == {"amount", "inputs", "outputs", "initialDelegation"}

\* The description of a new validator: toProto refers to it, toAmino and the
\* other messages copy it.
LateInProto == IF kind = "MsgCreateValidator" THEN {"description"} ELSE {}

\* What a form shows that copied its fields before and is written out now.
View(c, late) ==
  [f \in DOMAIN message |-> IF f \in late THEN message[f] ELSE read[c][f]]

\* The stages in which a change of this field comes between document and body.
Window(field) ==
  {"signed"} \cup (IF field \in References THEN {} ELSE {"wallet"})
             \cup (IF field \in References \cup LateInProto THEN {"built"} ELSE {})

\* A plain field is assigned, a nested object changed where it is.
Change ==
  /\ changes < MaxChanges
  /\ changes' = changes + 1
  /\ \E field \in DOMAIN message :
       /\ message' \in Fields(kind) \ {message}
       /\ message' = [message EXCEPT ![field] = message'[field]]
       /\ touched' = touched \cup {c \in Calls : stage[c] \in Window(field)}
  /\ UNCHANGED <<kind, stage, read, doc, body>>

Go(c, from, to) == stage[c] = from /\ stage' = [stage EXCEPT ![c] = to]

\* messages.map((msg) => msg.toAmino())
ToAmino(c) ==
  /\ Go(c, "idle", "wallet")
  /\ read' = [read EXCEPT ![c] = message]
  /\ UNCHANGED <<kind, message, changes, doc, body, touched>>

\* External: the wallet writes the document out and signs it.
WalletSigns(c) ==
  /\ Go(c, "wallet", "signed")
  /\ doc' = [doc EXCEPT ![c] = Amino(kind, View(c, References))]
  /\ UNCHANGED <<kind, message, changes, read, body, touched>>

\* messages.map((msg) => msg.toProto())
ToProto(c) ==
  /\ Go(c, "signed", "built")
  /\ read' = [read EXCEPT ![c] = message]
  /\ UNCHANGED <<kind, message, changes, doc, body, touched>>

\* encodeTx: message.encode()
Encode(c) ==
  /\ Go(c, "built", "sent")
  /\ body' = [body EXCEPT ![c] = Proto(kind, View(c, References \cup LateInProto))]
  /\ UNCHANGED <<kind, message, changes, read, doc, touched>>

Next ==
  \/ Change
  \/ \E c \in Calls : ToAmino(c) \/ WalletSigns(c) \/ ToProto(c) \/ Encode(c)

Spec == Init /\ [][Next]_messageVars

-----------------------------------------------------------------------------
(* Properties.                                                               *)

\* A message stays one of its class, with an operator's address where there is
\* one (the MsgCreateValidator constructor), and a call has what its stage says.
TypeOK ==
  /\ kind \in Kinds
  /\ message \in Fields(kind)
  /\ changes \in 0..MaxChanges
  /\ stage \in [Calls -> Stages]
  /\ touched \subseteq Calls
  /\ \A c \in Calls :
       /\ stage[c] = "idle" <=> read[c] = None
       /\ stage[c] \in {"idle", "wallet"} <=> doc[c] = None
       /\ stage[c] = "sent" <=> body[c] # None

\* External: the amino names of the fields.
AminoName ==
  [fromAddress |-> "from_address", toAddress |-> "to_address", amount |-> "amount",
   inputs |-> "inputs", outputs |-> "outputs", description |-> "description",
   commission |-> "commission", commissionRate |-> "commission_rate",
   minSelfDelegation |-> "min_self_delegation",
   delegatorAddress |-> "delegator_address",
   validatorAddress |-> "validator_address",
   validatorSrcAddress |-> "validator_src_address",
   validatorDstAddress |-> "validator_dst_address",
   pubkey |-> "pubkey", value |-> "value"]

\* The amino type of a key, as decodePubKey tells it from the URL it is sent with.
AminoKeyType(typeUrl) ==
  CASE typeUrl = "/cosmos.crypto.secp256k1.PubKey" -> "tendermint/PubKeySecp256k1"
    [] typeUrl = "/cosmos.crypto.ed25519.PubKey" -> "tendermint/PubKeyEd25519"

ReadKey(any) == [type |-> AminoKeyType(any.typeUrl), key |-> any.key]

\* A rate of 100% may be refused, but no rate is read as another.
SameRate(p, a) ==
  IF ReadAminoDec(a) < One
  THEN ReadProtoDec(p) = ReadAminoDec(a)
  ELSE ReadProtoDec(p) \in {None, ReadAminoDec(a)}

SameCommission(p, a) ==
  /\ SameRate(p.rate, a.rate)
  /\ SameRate(p.maxRate, a.max_rate)
  /\ SameRate(p.maxChangeRate, a.max_change_rate)

\* External: the two values of a field mean the same to the chain; what amino
\* leaves out is what protobuf has as empty.
SameField(field, p, a) ==
  CASE field = "commission" -> SameCommission(p, a)
    [] field = "commissionRate" -> SameRate(p, a)
    [] field = "pubkey" -> ReadKey(p) = a
    [] field \in {"description", "minSelfDelegation"} -> p = OrEmpty(a)
    [] OTHER -> p = a

SaysTheSame(p, a) ==
  /\ {AminoName[f] : f \in DOMAIN p} = DOMAIN a
  /\ \A f \in DOMAIN p : SameField(f, p[f], a[AminoName[f]])

\* What was signed, with the type of a validator's key put right.
WithKeyType(a) ==
  IF "pubkey" \in DOMAIN a
  THEN [a EXCEPT !.pubkey.type = AminoKeyType("/cosmos.crypto.ed25519.PubKey")]
  ELSE a

\* The message that is sent says what was signed, in each class (toProto,
\* toAmino), whatever other calls with the same object do and whatever the
\* caller does to it, except between the two readings of the field he changes
\* (signAmino converts again after the wallet has answered).  The type of a
\* validator's key is left to ValidatorKeyIsSigned, which is not so.
SignedMessageIsSent ==
  \A c \in Calls :
    stage[c] = "sent" /\ c \notin touched => SaysTheSame(body[c], WithKeyType(doc[c]))

\* tx.ts:44 "TxBody is the body of a transaction that all signers sign over."
\* The key of a new validator is sent as an ed25519 key, whose amino type is
\* 'tendermint/PubKeyEd25519' in pub-key.ts:43, and is signed as that key.
ValidatorKeyIsSigned ==
  \A c \in Calls :
    stage[c] = "sent" /\ c \notin touched /\ kind = "MsgCreateValidator" =>
      SameField("pubkey", body[c].pubkey, doc[c].pubkey)
=============================================================================
