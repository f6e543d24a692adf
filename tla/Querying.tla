------------------------------ MODULE Querying -------------------------------
(***************************************************************************)
(* MerlionClient.create and the calls of client.query and of the           *)
(* transaction service.                                                    *)
(*                                                                         *)
(* create awaits the import of one client after another, then those of the *)
(* message decoders: one that fails rejects it.  A call of the client's is *)
(* one exchange over gRPC-web; which procedure it names and which codecs   *)
(* write and read it follow from the method's place in the service table.  *)
(* The bytes of an answer are read by ProtoReader, without an              *)
(* interruption: there is one thread, and so one reader at a time.         *)
(***************************************************************************)
EXTENDS QueryServices, ProtoReader

CONSTANTS
  Calls,           \* the calls the application makes at a time
  AnswersOf(_)     \* messages of a type that a server may send, and their bytes

VARIABLES
  loaded,          \* how many of Loads have been imported
  creation,        \* the promise of create: "pending", "resolved", "rejected"
  calls            \* each call, or None

queryVars == <<loaded, creation, calls, codecVars>>

\* The file each of create's imports loads.
ClientFile(client) == <<client.service.package, client.service.name>>

Loads ==
  [i \in DOMAIN Clients |-> ClientFile(Clients[i])]
  \o <<<<"cosmos.bank.v1beta1", "tx">>, <<"cosmos.authz.v1beta1", "tx">>>>

\* Those of create, and those an application constructs over its transport.
AllClients == Range(Clients) \cup Range(OtherClients)

\* The name of a message of a service's package.
Qualified(package, type) == package \o "." \o type

\* One table for a service, one entry for a procedure, types that exist.
ASSUME TablesType ==
  /\ Clients \in Seq(Range(Clients))
  /\ \A a, b \in AllClients : ClientFile(a) = ClientFile(b) => a.service = b.service
  /\ \A client \in AllClients :
       /\ \A method \in Range(client.methods) :
            method.index + 1 \in DOMAIN client.service.rpcs
       /\ \A rpc, other \in Range(client.service.rpcs) :
            /\ Qualified(client.service.package, rpc.output) \in DOMAIN Schema
            /\ rpc.name = other.name => rpc = other

\* A server sends whole messages.
ASSUME AnswersType ==
  \A type \in DOMAIN Schema : \A answer \in AnswersOf(type) :
    answer.message # None /\ IsWire(answer.wire) /\ IsWhole(answer.wire)

\* create begins; or it has ended, and the application reads bytes by itself, as
\* those inside an Any.
Init ==
  /\ calls = [c \in Calls |-> None]
  /\ \/ loaded = 0 /\ creation = "pending" /\ Idle
     \/ /\ loaded = Len(Loads) /\ creation = "resolved"
        /\ \E type \in DOMAIN Schema : \E r \in ReadingsOf(type) : Reading(r)

-----------------------------------------------------------------------------
(* create.                                                                   *)

\* Faulty variant: the client is handed out before the last import.
CreationEarly(n) == IF n + 1 >= Len(Loads) THEN "resolved" ELSE "pending"

\* Faulty variant: one import too many is waited for.
CreationLate(n) == IF n > Len(Loads) THEN "resolved" ELSE "pending"

\* The constructor runs when everything has been imported.
CreationAfter(n) == IF n = Len(Loads) THEN "resolved" ELSE "pending"

Load ==
  /\ creation = "pending" /\ loaded < Len(Loads)
  /\ loaded' = loaded + 1
  /\ creation' = CreationAfter(loaded')
  /\ UNCHANGED <<calls, codecVars>>

\* A file is missing (as cosmos/nft/v1beta1/nft is, which merlion/ve/v1/query.ts
\* imports), or does not arrive.
LoadFails ==
  /\ creation = "pending" /\ loaded < Len(Loads)
  /\ creation' = "rejected"
  /\ UNCHANGED <<loaded, calls, codecVars>>

-----------------------------------------------------------------------------
(* Calls.                                                                    *)

\* Faulty variant: the methods are counted from one.
ProcedureFromOne(client, method) ==
  client.service.rpcs[IF method.index = 0 THEN 1 ELSE method.index]

\* this.methods[index]
Procedure(client, method) == client.service.rpcs[method.index + 1]

\* The request is written with the codec of the procedure, whatever it is.
\* The application has awaited create.
Ask(c) ==
  /\ creation = "resolved" /\ calls[c] = None /\ outcome = "idle"
  /\ \E client \in AllClients : \E method \in Range(client.methods) :
       LET rpc == Procedure(client, method) IN
       calls' = [calls EXCEPT ![c] =
         [client |-> client.key, method |-> method,
          path |-> <<ClientFile(client), rpc.name>>,
          writtenAs |-> rpc.input, readAs |-> rpc.output,
          status |-> "sent", answer |-> None]]
  /\ UNCHANGED <<loaded, creation, codecVars>>

\* External: the server answers the procedure the path names.
Served(path) ==
  LET service == (CHOOSE client \in AllClients : ClientFile(client) = path[1]).service
  IN CHOOSE rpc \in Range(service.rpcs) : rpc.name = path[2]

\* The bytes of an answer arrive.
Answer(c) ==
  /\ calls[c] # None /\ calls[c].status = "sent"
  /\ LET package == calls[c].path[1][1]
         type == Qualified(package, Served(calls[c].path).output)
     IN \E answer \in AnswersOf(type) :
          Begin([type |-> Qualified(package, calls[c].readAs),
                 wire |-> answer.wire, message |-> answer.message])
  /\ calls' = [calls EXCEPT ![c].status = "answered"]
  /\ UNCHANGED <<loaded, creation>>

\* What was read settles the call.
Take(c) ==
  /\ calls[c] # None /\ calls[c].status = "answered"
  /\ \/ /\ outcome = "done"
        /\ calls' = [calls EXCEPT ![c].status = "resolved",
                                  ![c].answer = frames[1].message]
     \/ /\ outcome = "garbled"
        /\ calls' = [calls EXCEPT ![c].status = "rejected"]
  /\ End
  /\ UNCHANGED <<loaded, creation>>

\* Faulty variant: an error is an empty answer.
FailWithAnswer(c) ==
  /\ calls[c] # None /\ calls[c].status = "sent" /\ outcome = "idle"
  /\ calls' = [calls EXCEPT ![c].status = "rejected", ![c].answer = <<>>]
  /\ UNCHANGED <<loaded, creation, codecVars>>

\* The transport or the server reports an error: an RpcError.
Fail(c) ==
  /\ calls[c] # None /\ calls[c].status = "sent" /\ outcome = "idle"
  /\ calls' = [calls EXCEPT ![c].status = "rejected"]
  /\ UNCHANGED <<loaded, creation, codecVars>>

\* The application goes on to another call.
Return(c) ==
  /\ calls[c] # None /\ calls[c].status \in {"resolved", "rejected"}
  /\ outcome = "idle"
  /\ calls' = [calls EXCEPT ![c] = None]
  /\ UNCHANGED <<loaded, creation, codecVars>>

Calling == \E c \in Calls : Ask(c) \/ Answer(c) \/ Take(c) \/ Fail(c) \/ Return(c)

Read == ReadStep /\ UNCHANGED <<loaded, creation, calls>>

Next == Load \/ LoadFails \/ Calling \/ Read

\* An import that is under way settles.
Settling == WF_queryVars(Load \/ LoadFails)

Spec == Init /\ [][Next]_queryVars /\ Settling

-----------------------------------------------------------------------------
(* Properties.                                                               *)

TypeOK ==
  /\ ReaderTypeOK
  /\ loaded \in 0..Len(Loads)
  /\ creation \in {"pending", "resolved", "rejected"}
  /\ \A c \in Calls :
       calls[c] # None =>
         /\ calls[c].status \in {"sent", "answered", "resolved", "rejected"}
         /\ calls[c].answer = None <=> calls[c].status # "resolved"

\* A method's place in the table (query.ts) and its signature (query.client.ts)
\* are written in two files: the message the caller passes is the one the
\* procedure at that place takes and its codec writes, the one it is promised
\* is the one the server sends and the codec reads, to the last field.
MethodsMeetTheirProcedures ==
  \A c \in Calls :
    calls[c] # None =>
      /\ calls[c].method.input = calls[c].writtenAs
      /\ calls[c].writtenAs = Served(calls[c].path).input
      /\ calls[c].method.output = calls[c].readAs
      /\ calls[c].status = "answered" =>
           /\ outcome # "garbled"
           /\ outcome = "done" => frames[1].message = reading.message

\* The entry at a method's place has its types.
TablesAgree ==
  \A client \in AllClients : \A method \in Range(client.methods) :
    /\ client.service.rpcs[method.index + 1].input = method.input
    /\ client.service.rpcs[method.index + 1].output = method.output

\* The bytes that are read as a type, and those of every answer, mean what they
\* were written from.
BytesMeanMessages ==
  \A type \in DOMAIN Schema :
    /\ \A r \in ReadingsOf(type) : r.message # None => Means(type, r.wire, r.message)
    /\ \A answer \in AnswersOf(type) : Means(type, answer.wire, answer.message)

\* No call is made of a client that is not loaded: create hands out nothing
\* before all of getQuerier, the service and the registry are there.
NothingIsCalledEarly ==
  \A c \in Calls : calls[c] # None => \A i \in DOMAIN Loads : i <= loaded

\* One missing file or one lost import settles create, too: it never hangs.
CreationSettles == <>(creation # "pending")
=============================================================================
