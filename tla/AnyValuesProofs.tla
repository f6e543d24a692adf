--------------------------- MODULE AnyValuesProofs ----------------------------
(***************************************************************************)
(* Theorems about AnyValues: for any types, registry and type URLs, what   *)
(* was packed is what is read.                                             *)
(***************************************************************************)
EXTENDS AnyValues, TLAPS

\* A URL names the message under it, or nothing.
Names(message) == url.name \in {message.type, NoName}

AnyInv ==
  /\ anyOrigin \in AnyMessages /\ anyHeld = anyOrigin
  /\ anyForm \in {"message", "any", "json", "account", "error"}
  /\ url \in Urls
  /\ anyForm = "message" => url = EmptyUrl
  /\ anyForm \in {"any", "json", "account"} => Names(anyOrigin)
  /\ wrapped \in BOOLEAN
  /\ wrapped <=> anyForm = "json" /\ url # EmptyUrl /\ Wraps(anyOrigin)
  /\ anyForm = "json" /\ url # EmptyUrl => Found(url)
  /\ wanted \in Types \cup {NoName}

-----------------------------------------------------------------------------
(* Names.                                                                    *)

\* To read a message as the type it has is to leave it alone.
LEMMA SameType ==
  ASSUME NEW m \in AnyMessages
  PROVE  [m EXCEPT !.type = m.type] = m
BY DEF AnyMessages

\* What contains finds is named by the URL.
LEMMA ContainsIsNamed ==
  ASSUME NEW u, NEW type, contains(u, type)
  PROVE  u.name = type
BY DEF contains, typeUrlToName, Name

\* So is what the registry has.
LEMMA FoundIsNamed ==
  ASSUME NEW u, Found(u)
  PROVE  u.name \in Registry /\ u.name \in Types
BY AnyType DEF Found, typeUrlToName, Name

\* JSON is unwrapped the way it was wrapped.
LEMMA UnwrapsWhatWraps ==
  ASSUME AnyInv, anyForm = "json", url # EmptyUrl
  PROVE  Unwraps = wrapped
<1>1. url.name = anyOrigin.type /\ url.name \in Types
  BY FoundIsNamed, AnyType DEF AnyInv, Names
<1>2. anyOrigin.shape \in Shapes[anyOrigin.type] /\ anyOrigin.shape \in JsonShapes
  BY DEF AnyInv, AnyMessages
<1>3. wrapped <=> anyOrigin.type \in WellKnown
  BY <1>1, <1>2, AnyType DEF AnyInv, Wraps
<1> QED BY <1>1, <1>3 DEF Unwraps, AnyInv

-----------------------------------------------------------------------------
(* The invariant.                                                            *)

LEMMA AnyInvInit ==
  ASSUME AnyInit
  PROVE  AnyInv
<1>1. url \in Urls
  <2>1. anyOrigin.type \in Types
    BY DEF AnyInit, AnyMessages
  <2>2. CASE anyForm = "message"
    <3>1. url = EmptyUrl
      BY <2>2 DEF AnyInit
    <3> QED BY <3>1 DEF Urls, EmptyUrl
  <2>3. CASE anyForm # "message"
    BY <2>1, <2>3 DEF AnyInit, Urls
  <2> QED BY <2>2, <2>3
<1> QED BY <1>1 DEF AnyInit, AnyInv, Names, EmptyUrl

LEMMA AnyInvNext ==
  ASSUME AnyInv, [AnyNext]_anyVars
  PROVE  AnyInv'
<1>1. CASE Pack
  <2>1. /\ anyForm' = "any" /\ anyHeld' = anyHeld /\ anyOrigin' = anyOrigin /\ wanted' = wanted
        /\ url' = [path |-> "type.googleapis.com/", name |-> anyHeld.type]
        /\ wrapped' = FALSE
    BY <1>1 DEF Pack, AnyBecomes, typeNameToUrl
  <2>2. anyHeld.type \in Types
    BY DEF AnyInv, AnyMessages
  <2> QED BY <2>1, <2>2 DEF AnyInv, Names, Urls
<1>2. CASE Unpack
  <2>1. wanted' \in Types /\ anyForm = "any" /\ anyHeld = anyOrigin
    BY <1>2 DEF Unpack, AnyInv
  <2>2. CASE contains(url, wanted')
    <3>1. url.name = wanted'
      BY <2>2, ContainsIsNamed
    <3>2. wanted' = anyOrigin.type
      BY <2>1, <3>1, AnyType DEF AnyInv, Names
    <3>3. [anyHeld EXCEPT !.type = wanted'] = anyHeld
      BY <2>1, <3>2, SameType DEF AnyInv
    <3>4. EmptyUrl \in Urls
      BY DEF Urls, EmptyUrl
    <3> QED BY <1>2, <2>1, <2>2, <3>3, <3>4 DEF Unpack, AnyBecomes, AnyInv
  <2>3. CASE ~contains(url, wanted')
    BY <1>2, <2>1, <2>3 DEF Unpack, AnyThrow, AnyBecomes, AnyInv
  <2> QED BY <2>2, <2>3
<1>3. CASE AnyToJson
  BY <1>3 DEF AnyToJson, AnyBecomes, AnyThrow, AnyInv, Names, Wraps
<1>4. CASE AnyFromJson
  <2>1. CASE url = EmptyUrl
    BY <1>4, <2>1 DEF AnyFromJson, AnyBecomes, AnyInv, Names
  <2>2. CASE url # EmptyUrl
    <3>1. Unwraps = wrapped /\ Found(url)
      BY <1>4, <2>2, UnwrapsWhatWraps DEF AnyFromJson, AnyInv
    <3> QED BY <1>4, <2>2, <3>1 DEF AnyFromJson, AnyBecomes, AnyInv, Names
  <2> QED BY <2>1, <2>2
<1>5. CASE TakeAccount
  <2>1. CASE \E t \in AccountTypeOf(url) :
               AnyBecomes("account", url, [anyHeld EXCEPT !.type = t], FALSE)
    <3>1. PICK t \in AccountTypeOf(url) :
            AnyBecomes("account", url, [anyHeld EXCEPT !.type = t], FALSE)
      BY <2>1
    <3>2. t = url.name /\ t \in Types
      BY <3>1, AnyType DEF AccountTypeOf
    <3>3. t = anyOrigin.type
      BY <1>5, <3>2, AnyType DEF TakeAccount, AnyInv, Names
    <3>4. [anyHeld EXCEPT !.type = t] = anyHeld
      BY <3>3, SameType DEF AnyInv
    <3> QED BY <1>5, <3>1, <3>4 DEF TakeAccount, AnyBecomes, AnyInv, Names
  <2>2. CASE AnyThrow
    BY <1>5, <2>2 DEF TakeAccount, AnyThrow, AnyBecomes, AnyInv
  <2> QED BY <1>5, <2>1, <2>2 DEF TakeAccount
<1>6. CASE UNCHANGED anyVars
  BY <1>6 DEF anyVars, AnyInv, Names, Wraps, Found, HasName, typeUrlToName, Name
<1> QED BY <1>1, <1>2, <1>3, <1>4, <1>5, <1>6 DEF AnyNext

LEMMA AnyInvCorrect == AnySpec => []AnyInv
<1>1. AnyInit => AnyInv
  BY AnyInvInit
<1>2. AnyInv /\ [AnyNext]_anyVars => AnyInv'
  BY AnyInvNext
<1> QED BY <1>1, <1>2, PTL DEF AnySpec

\* However often a message is packed, unpacked, taken as an account, written as
\* JSON and read again (any.ts, account.ts), it is the message it was, under any
\* type URL and with any registry.
THEOREM MessagesAreKept == AnySpec => []MessageIsKept
<1>1. AnyInv => MessageIsKept
  BY DEF AnyInv, MessageIsKept
<1> QED BY <1>1, AnyInvCorrect, PTL

\* The type invariant: only JSON of a registered type is wrapped.
THEOREM AnyTypes == AnySpec => []AnyTypeOK
<1>1. AnyInv => AnyTypeOK
  BY FoundIsNamed, AnyType DEF AnyInv, AnyTypeOK, AnyMessages
<1> QED BY <1>1, AnyInvCorrect, PTL
=============================================================================
