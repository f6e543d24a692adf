---------------------------- MODULE MessagesProofs ----------------------------
(***************************************************************************)
(* Theorems about Messages: for any messages of the seven classes, any     *)
(* number of calls and of changes, what is sent says what was signed, but  *)
(* for the type of a validator's key.                                      *)
(***************************************************************************)
EXTENDS Messages, TLAPS

-----------------------------------------------------------------------------
(* The records of messages.                                                  *)

\* One message with some of the fields of another of its class.
Mix(a, b, fields) ==
  [f \in DOMAIN a |-> IF f \in fields THEN a[f] ELSE b[f]]

LEMMA FieldsAreRecords ==
  ASSUME NEW k \in Kinds, NEW m \in Fields(k), NEW n \in Fields(k)
  PROVE  /\ m = [f \in DOMAIN m |-> m[f]]
         /\ DOMAIN m = DOMAIN n
<1>1. CASE k = "MsgSend"
  BY <1>1 DEF Fields
<1>2. CASE k = "MsgMultiSend"
  BY <1>2 DEF Fields
<1>3. CASE k = "MsgCreateValidator"
  BY <1>3 DEF Fields
<1>4. CASE k = "MsgEditValidator"
  BY <1>4 DEF Fields
<1>5. CASE k = "MsgBeginRedelegate"
  BY <1>5 DEF Fields
<1>6. CASE k \in {"MsgDelegate", "MsgUndelegate"}
  BY <1>6 DEF Fields
<1> QED BY <1>1, <1>2, <1>3, <1>4, <1>5, <1>6 DEF Kinds

LEMMA MixIsMessage ==
  ASSUME NEW k \in Kinds, NEW a \in Fields(k), NEW b \in Fields(k), NEW fields
  PROVE  Mix(a, b, fields) \in Fields(k)
<1>1. CASE k = "MsgSend"
  BY <1>1 DEF Fields, Mix
<1>2. CASE k = "MsgMultiSend"
  BY <1>2 DEF Fields, Mix
<1>3. CASE k = "MsgCreateValidator"
  BY <1>3 DEF Fields, Mix
<1>4. CASE k = "MsgEditValidator"
  BY <1>4 DEF Fields, Mix
<1>5. CASE k = "MsgBeginRedelegate"
  BY <1>5 DEF Fields, Mix
<1>6. CASE k \in {"MsgDelegate", "MsgUndelegate"}
  BY <1>6 DEF Fields, Mix
<1> QED BY <1>1, <1>2, <1>3, <1>4, <1>5, <1>6 DEF Kinds

LEMMA ConstructedIsMessage ==
  ASSUME NEW k \in Kinds
  PROVE  Constructed(k) \subseteq Fields(k)
<1>1. CASE k = "MsgCreateValidator"
  <2>1. \A a \in Delegators : OperatorOf(a) \in Operators
    BY DEF Delegators, Operators, OperatorOf
  <2> QED BY <1>1, <2>1 DEF Constructed, Fields
<1> QED BY <1>1 DEF Constructed

-----------------------------------------------------------------------------
(* The two forms of a message.                                               *)

\* A rate is read as itself from both texts of it, or refused if it is 100%.
LEMMA RateIsRead ==
  ASSUME NEW r \in Rates
  PROVE  SameRate(Scaled(r), ToFixed(r))
<1>1. r \in Int /\ 0 <= r /\ r <= One /\ One \in Nat \ {0}
  BY MessagesType
<1>2. None # ToFixed(r) /\ Empty # ToFixed(r)
  BY NoneIsNoMessage
<1>3. CASE r < One
  <2>1. r \div One = 0 /\ r % One = r
    BY <1>1, <1>3
  <2>2. ToFixed(r) = [point |-> TRUE, whole |-> 0, fraction |-> r]
    BY <2>1 DEF ToFixed
  <2>3. ReadAminoDec(ToFixed(r)) = r
    <3>1. ReadAminoDec(ToFixed(r)) = 0 * One + r
      BY <1>2, <2>2 DEF ReadAminoDec
    <3> QED BY <1>1, <3>1
  <2>4. CASE r = 0
    BY <1>1, <2>2, <2>3, <2>4 DEF Scaled, ReadProtoDec, SameRate
  <2>5. CASE r # 0
    <3>1. Scaled(r) = [point |-> FALSE, whole |-> r, fraction |-> 0]
      BY <2>2, <2>5 DEF Scaled
    <3>2. Empty # Scaled(r)
      BY <2>5, NoneIsNoMessage
    <3>3. ReadProtoDec(Scaled(r)) = r
      BY <3>1, <3>2 DEF ReadProtoDec
    <3> QED BY <1>3, <2>3, <3>3 DEF SameRate
  <2> QED BY <2>4, <2>5
<1>4. CASE r = One
  <2>1. r \div One = 1 /\ r % One = 0
    BY <1>1, <1>4
  <2>2. ToFixed(r) = [point |-> TRUE, whole |-> 1, fraction |-> 0]
    BY <2>1 DEF ToFixed
  <2>3. Scaled(r) = ToFixed(r)
    BY <2>2 DEF Scaled
  <2>4. ReadProtoDec(Scaled(r)) = None
    BY <1>2, <2>2, <2>3 DEF ReadProtoDec
  <2>5. ReadAminoDec(ToFixed(r)) = 1 * One + 0
    BY <1>2, <2>2 DEF ReadAminoDec
  <2> QED BY <1>1, <2>4, <2>5 DEF SameRate
<1> QED BY <1>1, <1>3, <1>4

\* A value that is there is not taken for one that is not.
LEMMA GivenIsKept ==
  ASSUME NEW x \in OrBlank(Descriptions) \cup OrBlank(Amounts)
  PROVE  OrEmpty(x) = x
BY NoneIsNoMessage DEF OrEmpty, OrBlank

LEMMA FormsAgree ==
  ASSUME NEW k \in Kinds, NEW m \in Fields(k)
  PROVE  SaysTheSame(Proto(k, m), WithKeyType(Amino(k, m)))
<1>1. CASE k = "MsgSend"
  BY <1>1 DEF Fields, Proto, Amino, MsgSendProto, MsgSendAmino,
              WithKeyType, SaysTheSame, SameField, AminoName
<1>2. CASE k = "MsgMultiSend"
  BY <1>2 DEF Fields, Proto, Amino, MsgMultiSendProto, MsgMultiSendAmino,
              WithKeyType, SaysTheSame, SameField, AminoName
<1>3. CASE k = "MsgCreateValidator"
  <2> DEFINE sent == MsgCreateValidatorProto(m)
             signed == WithKeyType(MsgCreateValidatorAmino(m))
  <2>1. /\ m.commission \in [rate: Rates, maxRate: Rates, maxChangeRate: Rates]
        /\ m.description \in OrBlank(Descriptions)
        /\ m.minSelfDelegation \in OrBlank(Amounts)
    BY <1>3, MessagesType DEF Fields
  <2>2. SameCommission(sent.commission, signed.commission)
    BY <2>1, RateIsRead
       DEF SameCommission, MsgCreateValidatorProto, MsgCreateValidatorAmino, WithKeyType
  <2>3. ReadKey(sent.pubkey) = signed.pubkey
    BY DEF ReadKey, MsgCreateValidatorProto, MsgCreateValidatorAmino, WithKeyType
  <2>4. /\ sent.description = OrEmpty(signed.description)
        /\ sent.minSelfDelegation = OrEmpty(signed.min_self_delegation)
    BY <2>1, GivenIsKept DEF MsgCreateValidatorProto, MsgCreateValidatorAmino, WithKeyType
  <2>5. /\ DOMAIN sent = {"description", "commission", "minSelfDelegation",
                         "delegatorAddress", "validatorAddress", "pubkey", "value"}
        /\ DOMAIN signed = {"description", "commission", "min_self_delegation",
                           "delegator_address", "validator_address", "pubkey", "value"}
        /\ sent.delegatorAddress = signed.delegator_address
        /\ sent.validatorAddress = signed.validator_address
        /\ sent.value = signed.value
    BY DEF MsgCreateValidatorProto, MsgCreateValidatorAmino, WithKeyType
  <2>6. Proto(k, m) = sent /\ WithKeyType(Amino(k, m)) = signed
    BY <1>3 DEF Proto, Amino
  <2> HIDE DEF sent, signed
  <2> QED BY <2>2, <2>3, <2>4, <2>5, <2>6 DEF SaysTheSame, SameField, AminoName
<1>4. CASE k = "MsgEditValidator"
  <2>1. m.commissionRate \in Rates \cup {None}
    BY <1>4 DEF Fields, OrNone
  <2>2. SameRate(IfGiven(m.commissionRate, Scaled(m.commissionRate), Empty),
                 IfGiven(m.commissionRate, ToFixed(m.commissionRate), None))
    BY <2>1, RateIsRead, MessagesType
       DEF IfGiven, SameRate, ReadProtoDec, ReadAminoDec
  <2> QED BY <1>4, <2>2 DEF Proto, Amino, MsgEditValidatorProto,
             MsgEditValidatorAmino, WithKeyType, SaysTheSame, SameField, AminoName
<1>5. CASE k = "MsgBeginRedelegate"
  BY <1>5 DEF Fields, Proto, Amino, MsgBeginRedelegateProto, MsgBeginRedelegateAmino,
              WithKeyType, SaysTheSame, SameField, AminoName
<1>6. CASE k = "MsgDelegate"
  BY <1>6 DEF Fields, Proto, Amino, MsgDelegateProto, MsgDelegateAmino,
              WithKeyType, SaysTheSame, SameField, AminoName
<1>7. CASE k = "MsgUndelegate"
  BY <1>7 DEF Fields, Proto, Amino, MsgUndelegateProto, MsgUndelegateAmino,
              WithKeyType, SaysTheSame, SameField, AminoName
<1> QED BY <1>1, <1>2, <1>3, <1>4, <1>5, <1>6, <1>7 DEF Kinds

-----------------------------------------------------------------------------
(* Types.                                                                    *)

\* What a call holds at its stage.
Holds(c) ==
  /\ stage[c] = "idle" => read[c] = None
  /\ stage[c] # "idle" => read[c] \in Fields(kind)
  /\ stage[c] \in {"idle", "wallet"} => doc[c] = None
  /\ stage[c] \notin {"idle", "wallet"} =>
       \E m \in Fields(kind) : doc[c] = Amino(kind, m)
  /\ stage[c] # "sent" => body[c] = None
  /\ stage[c] = "sent" => \E m \in Fields(kind) : body[c] = Proto(kind, m)

TypesInv ==
  /\ kind \in Kinds
  /\ message \in Fields(kind)
  /\ changes \in 0..MaxChanges
  /\ stage \in [Calls -> Stages]
  /\ touched \subseteq Calls
  /\ DOMAIN read = Calls /\ DOMAIN doc = Calls /\ DOMAIN body = Calls
  /\ \A c \in Calls : Holds(c)

\* A view is a message: the fields that were copied, with those that were not.
LEMMA ViewIsMessage ==
  ASSUME TypesInv, NEW c \in Calls, stage[c] # "idle", NEW late
  PROVE  View(c, late) = Mix(message, read[c], late) /\ View(c, late) \in Fields(kind)
<1>1. read[c] \in Fields(kind) /\ message \in Fields(kind) /\ kind \in Kinds
  BY DEF TypesInv, Holds
<1>2. View(c, late) = Mix(message, read[c], late)
  BY DEF View, Mix
<1> QED BY <1>1, <1>2, MixIsMessage

LEMMA TypesInit == Init => TypesInv
<1> SUFFICES ASSUME Init PROVE TypesInv
  OBVIOUS
<1>1. message \in Fields(kind)
  BY ConstructedIsMessage DEF Init
<1> QED BY <1>1, MessagesType DEF Init, TypesInv, Holds, Stages

LEMMA TypesNext == TypesInv /\ [Next]_messageVars => TypesInv'
<1> SUFFICES ASSUME TypesInv, [Next]_messageVars PROVE TypesInv'
  OBVIOUS
<1>1. CASE Change
  BY <1>1, MessagesType DEF Change, TypesInv, Holds
<1>2. ASSUME NEW c \in Calls, ToAmino(c) PROVE TypesInv'
  BY <1>2 DEF ToAmino, Go, TypesInv, Holds, Stages
<1>3. ASSUME NEW c \in Calls, WalletSigns(c) PROVE TypesInv'
  <2>1. View(c, References) \in Fields(kind)
    BY <1>3, ViewIsMessage DEF WalletSigns, Go
  <2> QED BY <1>3, <2>1 DEF WalletSigns, Go, TypesInv, Holds, Stages
<1>4. ASSUME NEW c \in Calls, ToProto(c) PROVE TypesInv'
  BY <1>4 DEF ToProto, Go, TypesInv, Holds, Stages
<1>5. ASSUME NEW c \in Calls, Encode(c) PROVE TypesInv'
  <2>1. View(c, References \cup LateInProto) \in Fields(kind)
    BY <1>5, ViewIsMessage DEF Encode, Go
  <2> QED BY <1>5, <2>1 DEF Encode, Go, TypesInv, Holds, Stages
<1>6. CASE UNCHANGED messageVars
  BY <1>6 DEF messageVars, TypesInv, Holds
<1> QED BY <1>1, <1>2, <1>3, <1>4, <1>5, <1>6 DEF Next

\* A message stays one of its class, and every call has what its stage says,
\* for any messages and any number of calls (bank.ts, staking.ts, signAmino).
THEOREM MessageTypes == Spec => []TypeOK
<1>1. TypesInv => TypeOK
  <2> SUFFICES ASSUME TypesInv, NEW c \in Calls
               PROVE  /\ stage[c] = "idle" <=> read[c] = None
                      /\ stage[c] \in {"idle", "wallet"} <=> doc[c] = None
                      /\ stage[c] = "sent" <=> body[c] # None
    BY DEF TypesInv, TypeOK
  <2>1. Holds(c) /\ kind \in Kinds
    BY DEF TypesInv
  <2>2. \A m \in Fields(kind) :
          None # m /\ None # Proto(kind, m) /\ None # Amino(kind, m)
    BY <2>1, NoneIsNoMessage
  <2> QED BY <2>1, <2>2 DEF Holds
<1> QED BY <1>1, TypesInit, TypesNext, PTL DEF Spec

-----------------------------------------------------------------------------
(* What was signed, while the call goes on.                                  *)

\* A call that nobody's change came between: what it copied and will not write
\* out again is what the message is, and what it has signed is what it will send.
Agrees(c) ==
  /\ stage[c] = "wallet" => View(c, References) = message
  /\ stage[c] = "signed" => doc[c] = Amino(kind, message)
  /\ stage[c] = "built" => doc[c] = Amino(kind, View(c, References \cup LateInProto))
  /\ stage[c] = "sent" =>
       \E m \in Fields(kind) : doc[c] = Amino(kind, m) /\ body[c] = Proto(kind, m)

SignedInv == TypesInv /\ \A c \in Calls \ touched : Agrees(c)

\* Nothing but fields is in a message, so a view of two equal ones is either.
LEMMA ViewOfSame ==
  ASSUME TypesInv, NEW c \in Calls, stage[c] # "idle", NEW late,
         \A f \in DOMAIN message \ late : read[c][f] = message[f]
  PROVE  View(c, late) = message
<1>1. message = [f \in DOMAIN message |-> message[f]]
  BY FieldsAreRecords DEF TypesInv
<1>2. View(c, late) = [f \in DOMAIN message |-> message[f]]
  BY DEF View
<1> QED BY <1>1, <1>2

LEMMA ChangeKeepsAgreement ==
  ASSUME SignedInv, TypesInv', Change, NEW c \in Calls \ touched'
  PROVE  Agrees(c)'
<1>1. PICK field \in DOMAIN message :
        /\ message' \in Fields(kind)
        /\ message' = [message EXCEPT ![field] = message'[field]]
        /\ touched' = touched \cup {d \in Calls : stage[d] \in Window(field)}
  BY DEF Change
<1>2. /\ kind' = kind /\ stage' = stage /\ read' = read
      /\ doc' = doc /\ body' = body
  BY DEF Change
<1>3. c \notin touched /\ Agrees(c) /\ stage[c] \notin Window(field)
  BY <1>1 DEF SignedInv
<1>4. DOMAIN message' = DOMAIN message
  BY <1>1
<1>5. \A f \in DOMAIN message : f # field => message'[f] = message[f]
  BY <1>1
<1>6. stage[c] # "signed"
  BY <1>3 DEF Window
<1>7. ASSUME stage[c] = "wallet"
      PROVE  View(c, References)' = message'
  <2>1. field \in References
    BY <1>3, <1>7 DEF Window
  <2>2. \A f \in DOMAIN message \ References : read[c][f] = message[f]
    BY <1>3, <1>7 DEF Agrees, View
  <2>3. \A f \in DOMAIN message' \ References : read'[c][f] = message'[f]
    BY <1>2, <1>4, <1>5, <2>1, <2>2
  <2>4. message' = [f \in DOMAIN message' |-> message'[f]]
    BY <1>1, FieldsAreRecords DEF SignedInv, TypesInv
  <2>5. View(c, References)' = [f \in DOMAIN message' |-> message'[f]]
    BY <2>3 DEF View
  <2> QED BY <2>4, <2>5
<1>8. ASSUME stage[c] = "built"
      PROVE  View(c, References \cup LateInProto)' = View(c, References \cup LateInProto)
  <2>1. field \notin References \cup LateInProto
    BY <1>3, <1>8 DEF Window
  <2>2. LateInProto' = LateInProto
    BY <1>2 DEF LateInProto
  <2>3. \A f \in DOMAIN message :
          (IF f \in References \cup LateInProto THEN message'[f] ELSE read'[c][f]) =
          (IF f \in References \cup LateInProto THEN message[f] ELSE read[c][f])
    BY <1>2, <1>5, <2>1
  <2> QED BY <1>4, <2>2, <2>3 DEF View
<1> QED BY <1>2, <1>3, <1>6, <1>7, <1>8 DEF Agrees

LEMMA SignedInit == Init => SignedInv
BY TypesInit DEF Init, SignedInv, Agrees

\* The step of a call leaves the others where they are.
LEMMA OthersAgree ==
  ASSUME SignedInv, NEW c \in Calls, NEW d \in Calls \ touched, d # c,
         ToAmino(c) \/ WalletSigns(c) \/ ToProto(c) \/ Encode(c)
  PROVE  Agrees(d)'
<1>1. /\ stage'[d] = stage[d] /\ read'[d] = read[d]
      /\ doc'[d] = doc[d] /\ body'[d] = body[d]
      /\ kind' = kind /\ message' = message
  BY DEF ToAmino, WalletSigns, ToProto, Encode, Go, SignedInv, TypesInv
<1> QED BY <1>1 DEF SignedInv, Agrees, View, LateInProto

LEMMA SignedNext == SignedInv /\ [Next]_messageVars => SignedInv'
<1> SUFFICES ASSUME SignedInv, [Next]_messageVars PROVE SignedInv'
  OBVIOUS
<1>1. TypesInv /\ TypesInv'
  BY TypesNext DEF SignedInv
<1>2. CASE Change
  BY <1>1, <1>2, ChangeKeepsAgreement DEF SignedInv
<1>3. CASE UNCHANGED messageVars
  BY <1>1, <1>3 DEF messageVars, SignedInv, Agrees, View, LateInProto
<1>4. ASSUME NEW c \in Calls, ToAmino(c) PROVE SignedInv'
  <2>1. ASSUME c \notin touched' PROVE Agrees(c)'
    <3>1. /\ stage'[c] = "wallet" /\ read'[c] = message /\ message' = message
      BY <1>1, <1>4 DEF ToAmino, Go, TypesInv
    <3>2. View(c, References)' = [f \in DOMAIN message |-> message[f]]
      BY <3>1 DEF View
    <3>3. message = [f \in DOMAIN message |-> message[f]]
      BY <1>1, FieldsAreRecords DEF TypesInv
    <3> QED BY <3>1, <3>2, <3>3 DEF Agrees
  <2> QED BY <1>1, <1>4, <2>1, OthersAgree DEF SignedInv, ToAmino
<1>5. ASSUME NEW c \in Calls, WalletSigns(c) PROVE SignedInv'
  <2>1. ASSUME c \notin touched' PROVE Agrees(c)'
    <3>1. /\ stage[c] = "wallet" /\ stage'[c] = "signed" /\ touched' = touched
          /\ doc'[c] = Amino(kind, View(c, References))
          /\ kind' = kind /\ message' = message
      BY <1>1, <1>5 DEF WalletSigns, Go, TypesInv
    <3>2. View(c, References) = message
      BY <2>1, <3>1 DEF SignedInv, Agrees
    <3> QED BY <3>1, <3>2 DEF Agrees
  <2> QED BY <1>1, <1>5, <2>1, OthersAgree DEF SignedInv, WalletSigns
<1>6. ASSUME NEW c \in Calls, ToProto(c) PROVE SignedInv'
  <2>1. ASSUME c \notin touched' PROVE Agrees(c)'
    <3>1. /\ stage[c] = "signed" /\ stage'[c] = "built" /\ touched' = touched
          /\ doc' = doc /\ read'[c] = message
          /\ kind' = kind /\ message' = message
      BY <1>1, <1>6 DEF ToProto, Go, TypesInv
    <3>2. doc[c] = Amino(kind, message)
      BY <2>1, <3>1 DEF SignedInv, Agrees
    <3>3. View(c, References \cup LateInProto)' = [f \in DOMAIN message |-> message[f]]
      BY <3>1 DEF View
    <3>4. message = [f \in DOMAIN message |-> message[f]]
      BY <1>1, FieldsAreRecords DEF TypesInv
    <3> QED BY <3>1, <3>2, <3>3, <3>4 DEF Agrees
  <2> QED BY <1>1, <1>6, <2>1, OthersAgree DEF SignedInv, ToProto
<1>7. ASSUME NEW c \in Calls, Encode(c) PROVE SignedInv'
  <2>1. ASSUME c \notin touched' PROVE Agrees(c)'
    <3> DEFINE sent == View(c, References \cup LateInProto)
    <3>1. /\ stage[c] = "built" /\ stage'[c] = "sent" /\ touched' = touched
          /\ doc' = doc /\ body'[c] = Proto(kind, sent) /\ kind' = kind
      BY <1>1, <1>7 DEF Encode, Go, TypesInv
    <3>2. doc[c] = Amino(kind, sent)
      BY <2>1, <3>1 DEF SignedInv, Agrees
    <3>3. sent \in Fields(kind)
      BY <1>1, <3>1, ViewIsMessage
    <3> HIDE DEF sent
    <3> QED BY <3>1, <3>2, <3>3 DEF Agrees
  <2> QED BY <1>1, <1>7, <2>1, OthersAgree DEF SignedInv, Encode
<1> QED BY <1>2, <1>3, <1>4, <1>5, <1>6, <1>7 DEF Next

\* What the chain rebuilds from the message that is sent is what was signed, for
\* any messages, any number of calls that share one, and any changes that do not
\* come between the two readings (signAmino), but for the type of a validator's
\* key (staking.ts:143); rates of 100% are not read as others.
THEOREM SignedIsSent == Spec => []SignedMessageIsSent
<1>1. SignedInv => SignedMessageIsSent
  <2> SUFFICES ASSUME SignedInv, NEW c \in Calls, stage[c] = "sent", c \notin touched
               PROVE  SaysTheSame(body[c], WithKeyType(doc[c]))
    BY DEF SignedMessageIsSent
  <2>1. PICK m \in Fields(kind) : doc[c] = Amino(kind, m) /\ body[c] = Proto(kind, m)
    BY DEF SignedInv, Agrees
  <2> QED BY <2>1, FormsAgree DEF SignedInv, TypesInv
<1> QED BY <1>1, SignedInit, SignedNext, PTL DEF Spec
=============================================================================
