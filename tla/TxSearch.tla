------------------------------ MODULE TxSearch ------------------------------
(***************************************************************************)
(* txsQuery (client.ts): the search behind getTx, and the decoder registry *)
(* it uses (messages/index.ts).                                            *)
(*                                                                         *)
(* The node's responses are decoded concurrently, by one async callback    *)
(* each, under Promise.all.  A callback runs to its first await (reading   *)
(* the log) while the array is mapped, and has two awaits, each the import *)
(* of a codec, after which the callbacks go on in any order.               *)
(***************************************************************************)
EXTENDS Integers, Sequences, FiniteSets, SequencesExt

CONSTANTS
  TxResponses,     \* what the node may say of one transaction
  MaxResponses,    \* bound on the length of one answer
  None             \* undefined

\* A rawLog is '', JSON the code can walk through, or anything else.
LogKinds == {"empty", "json", "text"}

\* The message types the registry holds a decoder for.
Registered == {"cosmos.authz.v1beta1.MsgGrant", "cosmos.bank.v1beta1.MsgSend"}

ASSUME MaxResponsesIsNat == MaxResponses \in Nat

\* Logs of JSON; what an event holds is of no concern.
IsJsonLog(log) ==
  /\ DOMAIN log = 1..Len(log)
  /\ \A i \in DOMAIN log :
       log[i] \in [msg_index: Nat \cup {None}, events: {log[i].events}]

ASSUME NoneIsNoIndex == None \notin Nat

ASSUME TxResponsesType ==
  \A r \in TxResponses :
    /\ r.code \in Nat
    /\ r.rawLog.kind \in LogKinds
    /\ r.rawLog.kind = "json" => IsJsonLog(r.rawLog.logs)
    /\ r.hasTx \in BOOLEAN
    /\ r.body = None \/ \A i \in DOMAIN r.body : r.body[i].typeUrl[1] = "/"

VARIABLES
  responses,       \* the node's answer
  stage,           \* of the callback of each response
  logs,            \* jsonLog and arrayLog of each callback
  results,         \* the Tx of each callback
  promise          \* of the search

searchVars == <<responses, stage, logs, results, promise>>

Stages == {"readData", "decode", "done", "failed"}

Init ==
  /\ responses = <<>>
  /\ stage = <<>>
  /\ logs = <<>>
  /\ results = <<>>
  /\ promise = "asked"

-----------------------------------------------------------------------------
(* The logs of a successful transaction.                                     *)

\* Faulty variant: it stays without one.
WithoutIndex(jsonLog) == jsonLog

\* A log without a msg_index gets its position for one, counted from 0.
WithIndex(jsonLog) ==
  [i \in DOMAIN jsonLog |->
    IF jsonLog[i].msg_index = None
    THEN [jsonLog[i] EXCEPT !.msg_index = i - 1]
    ELSE jsonLog[i]]

\* Faulty variant: positions counted from 1.
AttributesFromOne(i, event) ==
  [k \in DOMAIN event.attributes |->
    [msg |-> i, type |-> event.type,
     key |-> event.attributes[k].key, value |-> event.attributes[k].value]]

\* The entries of arrayLog for one event of the i-th log.
Attributes(i, event) ==
  [k \in DOMAIN event.attributes |->
    [msg |-> i - 1, type |-> event.type,
     key |-> event.attributes[k].key, value |-> event.attributes[k].value]]

ArrayLog(jsonLog) ==
  FlattenSeq([i \in DOMAIN jsonLog |->
    FlattenSeq([j \in DOMAIN jsonLog[i].events |->
      Attributes(i, jsonLog[i].events[j])])])

HasLog(r) == r.code = 0 /\ r.rawLog.kind # "empty"

LogThrows(r) == HasLog(r) /\ r.rawLog.kind = "text"

LogsOf(r) ==
  IF HasLog(r)
  THEN [json |-> WithIndex(r.rawLog.logs), array |-> ArrayLog(r.rawLog.logs)]
  ELSE [json |-> None, array |-> None]

-----------------------------------------------------------------------------
(* The messages.                                                             *)

\* getMsgDecoderRegistry: `/${typeName}`.
RegistryKeys == {<<"/", name>> : name \in Registered}

\* `typeUrl.slice(1)`.
LookupKey(typeUrl) == Tail(typeUrl)

\* A message whose type has a decoder is replaced by its decoded form.
DecodeMessage(msg) ==
  [msg EXCEPT !.decoded = LookupKey(msg.typeUrl) \in RegistryKeys]

\* One slot for each return value; none of them is filled.
DataOf(r) == [k \in DOMAIN r.data |-> None]

TxOf(r, log) ==
  [transactionHash |-> r.txhash, code |-> r.code,
   jsonLog |-> log.json, arrayLog |-> log.array, data |-> DataOf(r),
   messages |-> [i \in DOMAIN r.body |-> DecodeMessage(r.body[i])]]

\* Nothing in the response stands in the way of a Tx.
Decodable(r) ==
  ~LogThrows(r) /\ r.data # None /\ r.hasTx /\ r.body # None

\* None is neither what was read of a log nor a Tx.
ASSUME NoneIsNoResult ==
  \A r \in TxResponses :
    /\ ~LogThrows(r) => None # LogsOf(r)
    /\ Decodable(r) => None # TxOf(r, LogsOf(r))

-----------------------------------------------------------------------------
(* The search.                                                               *)

\* Faulty variant: it waits for the last callback only.
LastSettles(stages) ==
  IF promise \in {"resolved", "rejected"} THEN promise
  ELSE IF stages # <<>> /\ Last(stages) = "failed" THEN "rejected"
  ELSE IF stages = <<>> \/ Last(stages) = "done" THEN "resolved"
  ELSE "pending"

\* Promise.all: rejected with the first rejection, resolved with the last
\* resolution, and then settled for good.
PromiseAll(stages) ==
  IF promise \in {"resolved", "rejected"} THEN promise
  ELSE IF \E i \in DOMAIN stages : stages[i] = "failed" THEN "rejected"
  ELSE IF \A i \in DOMAIN stages : stages[i] = "done" THEN "resolved"
  ELSE "pending"

\* getTxsEvent answers; map starts every callback, which reads the log.
Receive ==
  /\ promise = "asked"
  /\ responses' \in BoundedSeq(TxResponses, MaxResponses)
  /\ stage' = [i \in DOMAIN responses' |->
                 IF LogThrows(responses'[i]) THEN "failed" ELSE "readData"]
  /\ logs' = [i \in DOMAIN responses' |->
                IF LogThrows(responses'[i]) THEN None ELSE LogsOf(responses'[i])]
  /\ results' = [i \in DOMAIN responses' |-> None]
  /\ promise' = PromiseAll(stage')

\* getTxsEvent fails.
RpcFails ==
  /\ promise = "asked"
  /\ promise' = "rejected"
  /\ UNCHANGED <<responses, stage, logs, results>>

\* The callback goes on after its first import: the data must be hex of a
\* TxMsgData, and there must be a tx.
ReadData(i) ==
  /\ stage[i] = "readData"
  /\ stage' = [stage EXCEPT ![i] =
       IF responses[i].data = None \/ ~responses[i].hasTx
       THEN "failed" ELSE "decode"]
  /\ promise' = PromiseAll(stage')
  /\ UNCHANGED <<responses, logs, results>>

\* And after its second: the tx must be decodable and have a body.
Decode(i) ==
  /\ stage[i] = "decode"
  /\ IF responses[i].body = None
     THEN /\ stage' = [stage EXCEPT ![i] = "failed"]
          /\ UNCHANGED results
     ELSE /\ stage' = [stage EXCEPT ![i] = "done"]
          /\ results' = [results EXCEPT ![i] = TxOf(responses[i], logs[i])]
  /\ promise' = PromiseAll(stage')
  /\ UNCHANGED <<responses, logs>>

Next ==
  \/ Receive
  \/ RpcFails
  \/ \E i \in DOMAIN responses : ReadData(i) \/ Decode(i)

Spec == Init /\ [][Next]_searchVars

-----------------------------------------------------------------------------
(* Properties.                                                               *)

\* A callback has logs if it could read its response's (460-503), with an index
\* for each, and one that is through has a Tx.
TypeOK ==
  /\ responses \in Seq(TxResponses) /\ Len(responses) <= MaxResponses
  /\ stage \in [DOMAIN responses -> Stages]
  /\ promise \in {"asked", "pending", "resolved", "rejected"}
  /\ DOMAIN logs = DOMAIN responses
  /\ DOMAIN results = DOMAIN responses
  /\ \A i \in DOMAIN responses :
       /\ logs[i] = None <=> LogThrows(responses[i])
       /\ results[i] = None <=> stage[i] # "done"
       /\ logs[i] # None /\ logs[i].json # None =>
            \A j \in DOMAIN logs[i].json : logs[i].json[j].msg_index \in Nat

\* The promise resolves only if every response can be decoded, and rejects
\* only if one of them cannot (or there was no answer): no callback's failure
\* is lost because another one settled first (client.ts:458).
SettlesRight ==
  /\ promise = "resolved" => \A i \in DOMAIN responses : Decodable(responses[i])
  /\ promise = "rejected" /\ responses # <<>> =>
       \E i \in DOMAIN responses : ~Decodable(responses[i])

\* The attributes of a log, by the positions of log, event and attribute.
LogEntries(jsonLog) ==
  UNION {UNION {{<<i, j, k>> : k \in DOMAIN jsonLog[i].events[j].attributes}
                : j \in DOMAIN jsonLog[i].events} : i \in DOMAIN jsonLog}

\* What a caller may read in the Tx of response r, after tx.ts:100-113: its own
\* hash and code, and, for code 0, an arrayLog that has all of the log and
\* nothing else, each entry under the msg_index its log has in jsonLog.
SaysWhatResponseSays(tx, r) ==
  /\ tx.transactionHash = r.txhash
  /\ tx.code = r.code
  /\ tx.jsonLog = None <=> ~HasLog(r)
  /\ tx.jsonLog # None =>
       LET log == tx.jsonLog
           entry(e) ==
             LET event == log[e[1]].events[e[2]] IN
             [msg |-> log[e[1]].msg_index, type |-> event.type,
              key |-> event.attributes[e[3]].key,
              value |-> event.attributes[e[3]].value]
       IN  /\ Len(tx.arrayLog) = Cardinality(LogEntries(log))
           /\ Range(tx.arrayLog) = {entry(e) : e \in LogEntries(log)}

\* Whatever the order the callbacks finish in, the i-th Tx is that of the i-th
\* response (client.ts:458-545).
ResultsMatchResponses ==
  promise = "resolved" =>
    \A i \in DOMAIN responses : SaysWhatResponseSays(results[i], responses[i])

\* tx.ts:116 "Decoded transaction input.", client.ts:514 "Decode input
\* messages": a message with a decoder in the registry is decoded.
InputIsDecoded ==
  promise = "resolved" =>
    \A i \in DOMAIN results : \A j \in DOMAIN results[i].messages :
      LET msg == results[i].messages[j] IN
      msg.typeUrl[2] \in Registered => msg.decoded
=============================================================================
