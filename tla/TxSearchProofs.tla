--------------------------- MODULE TxSearchProofs ----------------------------
(***************************************************************************)
(* Theorems about TxSearch: its promise settles as its responses deserve,  *)
(* for any responses and any order of the callbacks, every log that was    *)
(* read has its indices, and every Tx is of its own response.              *)
(***************************************************************************)
EXTENDS TxSearch, TLAPS

\* How far a callback has got is what its response let it.
StageIsEarned(i) ==
  /\ stage[i] \in Stages
  /\ stage[i] # "failed" => ~LogThrows(responses[i])
  /\ stage[i] \in {"decode", "done"} =>
       responses[i].data # None /\ responses[i].hasTx
  /\ stage[i] = "done" => responses[i].body # None
  /\ stage[i] = "failed" => ~Decodable(responses[i])

\* The promise of the search against the promises of the callbacks.
PromiseIsEarned ==
  /\ promise = "resolved" => \A i \in DOMAIN responses : stage[i] = "done"
  /\ promise = "rejected" /\ responses # <<>> =>
       \E i \in DOMAIN responses : stage[i] = "failed"

SearchInv ==
  /\ DOMAIN stage = DOMAIN responses
  /\ promise = "asked" => responses = <<>>
  /\ \A i \in DOMAIN responses : StageIsEarned(i)
  /\ PromiseIsEarned

\* What PromiseAll makes of the callbacks is earned, if it was before.
LEMMA PromiseAllIsEarned ==
  ASSUME NEW stages, promise \notin {"resolved", "rejected"},
         NEW now, now = PromiseAll(stages)
  PROVE  /\ now = "resolved" => \A i \in DOMAIN stages : stages[i] = "done"
         /\ now = "rejected" => \E i \in DOMAIN stages : stages[i] = "failed"
<1>1. CASE \E i \in DOMAIN stages : stages[i] = "failed"
  BY <1>1 DEF PromiseAll
<1>2. CASE ~\E i \in DOMAIN stages : stages[i] = "failed"
  BY <1>2 DEF PromiseAll
<1> QED BY <1>1, <1>2

LEMMA SettledStays ==
  ASSUME NEW stages, promise \in {"resolved", "rejected"}
  PROVE  PromiseAll(stages) = promise
BY DEF PromiseAll

\* A callback that goes on keeps the promise earned: it had not failed and was
\* not done before.
LEMMA ProgressKeepsPromise ==
  ASSUME SearchInv, NEW i \in DOMAIN responses, stage[i] \notin {"done", "failed"},
         NEW next, stage' = [stage EXCEPT ![i] = next],
         promise' = PromiseAll(stage'), responses' = responses
  PROVE  PromiseIsEarned'
<1>1. promise # "resolved"
  BY DEF SearchInv, PromiseIsEarned
<1>2. DOMAIN stage' = DOMAIN responses
  BY DEF SearchInv
<1>3. CASE promise = "rejected"
  <2>1. promise' = "rejected" /\ responses # <<>>
    BY <1>3, SettledStays
  <2>2. PICK j \in DOMAIN responses : stage[j] = "failed"
    BY <1>3, <2>1 DEF SearchInv, PromiseIsEarned
  <2>3. stage'[j] = "failed"
    BY <2>2 DEF SearchInv
  <2> QED BY <2>1, <2>3 DEF PromiseIsEarned
<1>4. CASE promise # "rejected"
  BY <1>1, <1>2, <1>4, PromiseAllIsEarned DEF PromiseIsEarned
<1> QED BY <1>3, <1>4

LEMMA SearchInit == Init => SearchInv
BY DEF Init, SearchInv, PromiseIsEarned

LEMMA SearchNext == SearchInv /\ [Next]_searchVars => SearchInv'
<1> SUFFICES ASSUME SearchInv, [Next]_searchVars
             PROVE  SearchInv'
  OBVIOUS
<1>1. CASE UNCHANGED searchVars
  BY <1>1 DEF SearchInv, StageIsEarned, PromiseIsEarned, searchVars
<1>2. CASE Receive
  <2>1. /\ DOMAIN stage' = DOMAIN responses'
        /\ \A i \in DOMAIN responses' :
             stage'[i] = IF LogThrows(responses'[i]) THEN "failed" ELSE "readData"
    BY <1>2 DEF Receive
  <2>2. \A i \in DOMAIN responses' : StageIsEarned(i)'
    BY <2>1 DEF StageIsEarned, Stages, Decodable
  <2>3. PromiseIsEarned'
    BY <1>2, <2>1, PromiseAllIsEarned DEF Receive, PromiseIsEarned
  <2>4. promise' # "asked"
    BY <1>2 DEF Receive, PromiseAll
  <2> QED BY <2>1, <2>2, <2>3, <2>4 DEF SearchInv
<1>3. CASE RpcFails
  BY <1>3 DEF RpcFails, SearchInv, StageIsEarned, PromiseIsEarned
<1>4. ASSUME NEW i \in DOMAIN responses, ReadData(i)
      PROVE  SearchInv'
  <2>1. PromiseIsEarned'
    BY <1>4, ProgressKeepsPromise DEF ReadData
  <2>2. \A j \in DOMAIN responses' : StageIsEarned(j)'
    BY <1>4 DEF ReadData, SearchInv, StageIsEarned, Stages, Decodable
  <2> QED BY <1>4, <2>1, <2>2 DEF ReadData, SearchInv, PromiseAll
<1>5. ASSUME NEW i \in DOMAIN responses, Decode(i)
      PROVE  SearchInv'
  <2>1. stage'[i] \in {"failed", "done"} /\ PromiseIsEarned'
    BY <1>5, ProgressKeepsPromise DEF Decode, SearchInv
  <2>2. \A j \in DOMAIN responses' : StageIsEarned(j)'
    BY <1>5 DEF Decode, SearchInv, StageIsEarned, Stages, Decodable
  <2> QED BY <1>5, <2>1, <2>2 DEF Decode, SearchInv, PromiseAll
<1> QED BY <1>1, <1>2, <1>3, <1>4, <1>5 DEF Next

\* The search resolves only if every response can be decoded, and rejects
\* only if one cannot or the query failed (client.ts:448-546).
THEOREM SearchSettlesRight == Spec => []SettlesRight
<1>1. SearchInv => SettlesRight
  BY DEF SearchInv, StageIsEarned, PromiseIsEarned, SettlesRight, Decodable
<1>2. Init => SearchInv
  BY SearchInit
<1>3. SearchInv /\ [Next]_searchVars => SearchInv'
  BY SearchNext
<1> QED BY <1>1, <1>2, <1>3, PTL DEF Spec

-----------------------------------------------------------------------------
(* Indices.                                                                  *)

HasIndices(jsonLog) == \A j \in DOMAIN jsonLog : jsonLog[j].msg_index \in Nat

\* WithIndex leaves no log without one.
LEMMA WithIndexHasIndices ==
  ASSUME NEW jsonLog, IsJsonLog(jsonLog)
  PROVE  HasIndices(WithIndex(jsonLog))
<1> DEFINE indexed == WithIndex(jsonLog)
<1>1. DOMAIN indexed = DOMAIN jsonLog
  BY DEF WithIndex
<1>2. ASSUME NEW j \in DOMAIN jsonLog
      PROVE  indexed[j].msg_index \in Nat
  <2>1. jsonLog[j] \in [msg_index: Nat \cup {None}, events: {jsonLog[j].events}]
    BY DEF IsJsonLog
  <2>2. j - 1 \in Nat
    BY DEF IsJsonLog
  <2>3. CASE jsonLog[j].msg_index = None
    <3>1. indexed[j] = [jsonLog[j] EXCEPT !.msg_index = j - 1]
      BY <2>3 DEF WithIndex
    <3> QED BY <2>1, <2>2, <3>1
  <2>4. CASE jsonLog[j].msg_index # None
    BY <2>1, <2>4 DEF WithIndex
  <2> QED BY <2>3, <2>4
<1> QED BY <1>1, <1>2 DEF HasIndices

LEMMA LogsHaveIndices ==
  ASSUME NEW r \in TxResponses, ~LogThrows(r), LogsOf(r).json # None
  PROVE  HasIndices(LogsOf(r).json)
<1>1. HasLog(r) /\ LogsOf(r).json = WithIndex(r.rawLog.logs)
  BY DEF LogsOf
<1>2. IsJsonLog(r.rawLog.logs)
  BY <1>1, TxResponsesType DEF HasLog, LogThrows, LogKinds
<1> QED BY <1>1, <1>2, WithIndexHasIndices

-----------------------------------------------------------------------------
(* Whose results they are.                                                   *)

\* What a callback holds, and has made by now, is of its own response.
OwnInv ==
  /\ DOMAIN stage = DOMAIN responses
  /\ DOMAIN logs = DOMAIN responses /\ DOMAIN results = DOMAIN responses
  /\ \A i \in DOMAIN responses :
       /\ logs[i] = IF LogThrows(responses[i]) THEN None ELSE LogsOf(responses[i])
       /\ results[i] = IF stage[i] = "done"
                       THEN TxOf(responses[i], LogsOf(responses[i])) ELSE None

LEMMA OwnInit == Init => OwnInv
BY DEF Init, OwnInv

LEMMA OwnNext == SearchInv /\ OwnInv /\ [Next]_searchVars => OwnInv'
<1> SUFFICES ASSUME SearchInv, OwnInv, [Next]_searchVars PROVE OwnInv'
  OBVIOUS
<1>1. CASE UNCHANGED searchVars
  BY <1>1 DEF OwnInv, searchVars
<1>2. CASE Receive
  BY <1>2 DEF Receive, OwnInv
<1>3. CASE RpcFails
  BY <1>3 DEF RpcFails, OwnInv
<1>4. ASSUME NEW i \in DOMAIN responses, ReadData(i)
      PROVE  OwnInv'
  BY <1>4 DEF ReadData, OwnInv
<1>5. ASSUME NEW i \in DOMAIN responses, Decode(i)
      PROVE  OwnInv'
  <2>1. logs[i] = LogsOf(responses[i]) /\ stage[i] # "done"
    BY <1>5 DEF Decode, OwnInv, SearchInv, StageIsEarned
  <2> QED BY <1>5, <2>1 DEF Decode, OwnInv
<1> QED BY <1>1, <1>2, <1>3, <1>4, <1>5 DEF Next

\* In a search that resolves, each Tx is that of the response at its place.
EachIsItsOwn ==
  promise = "resolved" =>
    \A i \in DOMAIN responses : results[i] = TxOf(responses[i], LogsOf(responses[i]))

\* Whatever the responses and in whatever order the callbacks finish, no Tx is
\* made of the log or the messages of another response (client.ts:458-545).
THEOREM ResultsAreOwn == Spec => []EachIsItsOwn
<1>1. SearchInv /\ OwnInv => EachIsItsOwn
  BY DEF SearchInv, PromiseIsEarned, OwnInv, EachIsItsOwn
<1> QED BY <1>1, SearchInit, SearchNext, OwnInit, OwnNext, PTL DEF Spec

-----------------------------------------------------------------------------
(* Types.                                                                    *)

\* The answer and the promise by themselves.
AnswerTypes ==
  /\ responses \in Seq(TxResponses) /\ Len(responses) <= MaxResponses
  /\ promise \in {"asked", "pending", "resolved", "rejected"}
  /\ stage \in [DOMAIN responses -> Stages]

LEMMA AnswerTypesInit == Init => AnswerTypes
BY MaxResponsesIsNat DEF Init, AnswerTypes

LEMMA AnswerTypesNext == AnswerTypes /\ [Next]_searchVars => AnswerTypes'
<1> SUFFICES ASSUME AnswerTypes, [Next]_searchVars PROVE AnswerTypes'
  OBVIOUS
<1>1. CASE UNCHANGED searchVars
  BY <1>1 DEF AnswerTypes, searchVars
<1>2. CASE Receive
  <2>1. PICK n \in 0..MaxResponses : responses' \in [1..n -> TxResponses]
    BY <1>2, MaxResponsesIsNat DEF Receive, BoundedSeq, SeqOf
  <2>2. responses' \in Seq(TxResponses) /\ Len(responses') <= MaxResponses
    BY <2>1, MaxResponsesIsNat
  <2> QED BY <1>2, <2>2 DEF Receive, AnswerTypes, Stages, PromiseAll
<1>3. CASE RpcFails
  BY <1>3 DEF RpcFails, AnswerTypes
<1>4. ASSUME NEW i \in DOMAIN responses, ReadData(i)
      PROVE  AnswerTypes'
  BY <1>4 DEF ReadData, AnswerTypes, Stages, PromiseAll
<1>5. ASSUME NEW i \in DOMAIN responses, Decode(i)
      PROVE  AnswerTypes'
  BY <1>5 DEF Decode, AnswerTypes, Stages, PromiseAll
<1> QED BY <1>1, <1>2, <1>3, <1>4, <1>5 DEF Next

\* For any responses and any number of callbacks (client.ts:448-546): a callback
\* has logs just if its response's could be read, each of them with a number for
\* its index, and a Tx just if it is through.
THEOREM SearchTypes == Spec => []TypeOK
<1>1. AnswerTypes /\ SearchInv /\ OwnInv => TypeOK
  <2> SUFFICES ASSUME AnswerTypes, SearchInv, OwnInv, NEW i \in DOMAIN responses
               PROVE  /\ logs[i] = None <=> LogThrows(responses[i])
                      /\ results[i] = None <=> stage[i] # "done"
                      /\ (logs[i] # None /\ logs[i].json # None) =>
                           HasIndices(logs[i].json)
    BY DEF AnswerTypes, OwnInv, TypeOK, HasIndices
  <2>1. responses[i] \in TxResponses
    BY DEF AnswerTypes
  <2>2. logs[i] = IF LogThrows(responses[i]) THEN None ELSE LogsOf(responses[i])
    BY DEF OwnInv
  <2>3. results[i] = IF stage[i] = "done"
                     THEN TxOf(responses[i], LogsOf(responses[i])) ELSE None
    BY DEF OwnInv
  <2>4. stage[i] = "done" => Decodable(responses[i])
    BY DEF SearchInv, StageIsEarned, Decodable
  <2>5. logs[i] = None <=> LogThrows(responses[i])
    BY <2>1, <2>2, NoneIsNoResult
  <2>6. results[i] = None <=> stage[i] # "done"
    BY <2>1, <2>3, <2>4, NoneIsNoResult
  <2>7. (logs[i] # None /\ logs[i].json # None) => HasIndices(logs[i].json)
    BY <2>1, <2>2, LogsHaveIndices
  <2> QED BY <2>5, <2>6, <2>7
<1> QED BY <1>1, AnswerTypesInit, AnswerTypesNext, SearchInit, SearchNext,
           OwnInit, OwnNext, PTL DEF Spec

-----------------------------------------------------------------------------
(* What they say.                                                            *)

\* What one response's own Tx must say: txsQuery, were it not concurrent.
TxsAreWhole ==
  \A r \in TxResponses :
    Decodable(r) => SaysWhatResponseSays(TxOf(r, LogsOf(r)), r)

\* Concurrency adds no error: if the Tx of each response by itself says what the
\* response says, so do those of any number of callbacks in any order.
THEOREM ResultsMatch ==
  ASSUME TxsAreWhole
  PROVE  Spec => []ResultsMatchResponses
<1>1. TypeOK /\ SearchInv /\ EachIsItsOwn => ResultsMatchResponses
  <2> SUFFICES ASSUME TypeOK, SearchInv, EachIsItsOwn, promise = "resolved",
                      NEW i \in DOMAIN responses
               PROVE  SaysWhatResponseSays(results[i], responses[i])
    BY DEF ResultsMatchResponses
  <2>1. results[i] = TxOf(responses[i], LogsOf(responses[i]))
    BY DEF EachIsItsOwn
  <2>2. Decodable(responses[i])
    BY DEF SearchInv, PromiseIsEarned, StageIsEarned, Decodable
  <2>3. responses[i] \in TxResponses
    BY DEF TypeOK
  <2> QED BY <2>1, <2>2, <2>3 DEF TxsAreWhole
<1> QED BY <1>1, SearchTypes, SearchInit, SearchNext, ResultsAreOwn, PTL DEF Spec
=============================================================================
