------------------------------ MODULE AnyValues -------------------------------
(***************************************************************************)
(* google.protobuf.Any (any.ts): a message under a type URL, as accounts,  *)
(* public keys and the messages of a transaction are sent, and what is     *)
(* made of it: the message itself, JSON, an account (account.ts).          *)
(***************************************************************************)
EXTENDS Integers

CONSTANTS
  Types,           \* fully qualified names of messages
  WellKnown,       \* those that start with "google.protobuf."
  Shapes,          \* what the JSON of a type may look like, by type
  Registry,        \* the types JSON conversion is given
  AccountTypes,    \* the types accountFromAny knows
  Paths,           \* what precedes the name in URLs of other programs
  NoName           \* no name: the URL ends with its slash

\* The JSON of a message: an object without or with a member "value", or none.
JsonShapes == {"object", "objectWithValue", "scalar"}

ASSUME AnyType ==
  /\ WellKnown \subseteq Types /\ Registry \subseteq Types
  /\ AccountTypes \subseteq Types /\ NoName \notin Types
  /\ Shapes \in [Types -> SUBSET JsonShapes]
  /\ \A t \in Types : "scalar" \in Shapes[t] => t \in WellKnown
  /\ Paths \subseteq {"", "/", "type.googleapis.com/", "example.com/a/"}

AnyMessages == {m \in [type: Types, shape: JsonShapes] : m.shape \in Shapes[m.type]}

\* The empty URL, of an empty Any, is the one with no path and no name.
Urls == [path: Paths \cup {"", "type.googleapis.com/"}, name: Types \cup {NoName}]

EmptyUrl == [path |-> "", name |-> NoName]

VARIABLES
  anyOrigin,       \* the message there was first
  anyForm,         \* what is held: "message", "any", "json", "account", "error"
  url,             \* the type URL of an Any or of JSON's "@type"
  anyHeld,         \* the message, read as its type
  wrapped,         \* JSON: under "value"
  wanted           \* the type unpack was last asked for, or NoName

anyVars == <<anyOrigin, anyForm, url, anyHeld, wrapped, wanted>>

\* A message, or an Any of another program.
AnyInit ==
  /\ anyOrigin \in AnyMessages
  /\ anyForm \in {"message", "any"}
  /\ url \in IF anyForm = "message" THEN {EmptyUrl}
             ELSE [path: Paths, name: {anyOrigin.type, NoName}]
  /\ anyHeld = anyOrigin
  /\ wrapped = FALSE
  /\ wanted = NoName

-----------------------------------------------------------------------------
(* Type URLs.                                                                *)

\* typeUrlToName: what follows the last slash; but a slash at the very start is
\* taken for a part of the name.
Name(slash, name) == [slash |-> slash, name |-> name]

typeUrlToName(u) == Name(u.path = "/", u.name)

\* It throws for an empty name ("/" alone is not one).
HasName(u) == u.name # NoName \/ u.path = "/"

contains(u, type) == u # EmptyUrl /\ typeUrlToName(u) = Name(FALSE, type)

\* Faulty variant: every name is in the registry.
FoundByName(u) == HasName(u)

\* typeRegistry.find
Found(u) == HasName(u) /\ \E t \in Registry : typeUrlToName(u) = Name(FALSE, t)

-----------------------------------------------------------------------------
(* The steps.                                                                *)

AnyBecomes(newForm, newUrl, message, wrap) ==
  /\ anyForm' = newForm /\ url' = newUrl /\ anyHeld' = message /\ wrapped' = wrap
  /\ UNCHANGED anyOrigin

AnyThrow == AnyBecomes("error", url, anyHeld, FALSE)

typeNameToUrl(name) == [path |-> "type.googleapis.com/", name |-> name]

Pack ==
  /\ anyForm = "message"
  /\ AnyBecomes("any", typeNameToUrl(anyHeld.type), anyHeld, FALSE)
  /\ UNCHANGED wanted

\* The bytes are read as whatever type is asked for.
Unpack ==
  /\ anyForm = "any"
  /\ wanted' \in Types
  /\ IF contains(url, wanted')
     THEN AnyBecomes("message", EmptyUrl, [anyHeld EXCEPT !.type = wanted'], FALSE)
     ELSE AnyThrow

\* Faulty variant: only what is no object is put under "value".
WrapsScalars(message) == message.shape = "scalar"

Wraps(message) == message.type \in WellKnown \/ message.shape = "scalar"

\* internalJsonWrite; an Any with no URL is {}.
AnyToJson ==
  /\ anyForm = "any"
  /\ IF url = EmptyUrl THEN AnyBecomes("json", url, anyHeld, FALSE)
     ELSE IF Found(url) THEN AnyBecomes("json", url, anyHeld, Wraps(anyHeld))
     ELSE AnyThrow
  /\ wanted' = NoName

\* A member "value" of a well known type is its JSON.
Unwraps == url.name \in WellKnown /\ (wrapped \/ anyHeld.shape = "objectWithValue")

\* internalJsonRead; JSON that is not wrapped the way it is unwrapped is another
\* message.
AnyFromJson ==
  /\ anyForm = "json"
  /\ IF url = EmptyUrl THEN AnyBecomes("any", url, anyHeld, FALSE)
     ELSE IF ~Found(url) THEN AnyThrow
     ELSE AnyBecomes("any", url,
                 IF Unwraps = wrapped THEN anyHeld ELSE [anyHeld EXCEPT !.shape = "object"],
                 FALSE)
  /\ wanted' = NoName

\* accountFromAny compares whole URLs: only those that start with the slash.
AccountTypeOf(u) == IF u.path = "/" THEN AccountTypes \cap {u.name} ELSE {}

TakeAccount ==
  /\ anyForm = "any"
  /\ \/ \E t \in AccountTypeOf(url) :
          AnyBecomes("account", url, [anyHeld EXCEPT !.type = t], FALSE)
     \/ AccountTypeOf(url) = {} /\ AnyThrow
  /\ wanted' = NoName

AnyNext == Pack \/ Unpack \/ AnyToJson \/ AnyFromJson \/ TakeAccount

AnySpec == AnyInit /\ [][AnyNext]_anyVars

-----------------------------------------------------------------------------
(* Properties.                                                               *)

AnyTypeOK ==
  /\ anyOrigin \in AnyMessages /\ anyHeld \in [type: Types, shape: JsonShapes]
  /\ anyForm \in {"message", "any", "json", "account", "error"}
  /\ url \in Urls
  /\ anyForm = "message" => url = EmptyUrl
  /\ wrapped \in BOOLEAN /\ (wrapped => anyForm = "json" /\ url.name \in Registry)
  /\ wanted \in Types \cup {NoName}

\* However often a message is packed, unpacked, shown as JSON, read from it or
\* taken as an account, it is not read as one of another type, nor its JSON as
\* the JSON of its "value" (contains, internalJsonWrite and internalJsonRead).
MessageIsKept == anyHeld = anyOrigin
=============================================================================
