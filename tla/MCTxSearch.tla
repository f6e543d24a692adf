----------------------------- MODULE MCTxSearch -----------------------------
(***************************************************************************)
(* Instances of TxSearch for TLC: the responses a node may give.           *)
(***************************************************************************)
EXTENDS TxSearch

CONSTANTS h1, h2, v1, v2

Attribute(k, v) == [key |-> k, value |-> v]

\* Two logs, as chains before and after the omission of msg_index 0 write
\* them; the first has two events, one of them without attributes.
TwoLogs(index) ==
  <<[msg_index |-> index,
     events |-> <<[type |-> "transfer",
                   attributes |-> <<Attribute("amount", v1), Attribute("amount", v2)>>],
                  [type |-> "message", attributes |-> <<>>]>>],
    [msg_index |-> 1,
     events |-> <<[type |-> "transfer", attributes |-> <<Attribute("amount", v1)>>]>>]>>

Log(kind, content) == [kind |-> kind, logs |-> content]

RawLogs ==
  {Log("empty", <<>>), Log("text", <<>>), Log("json", <<>>),
   Log("json", TwoLogs(None)), Log("json", TwoLogs(0))}

Msg(name) == [typeUrl |-> <<"/", name>>, decoded |-> FALSE]

\* Of every field: absent or unreadable, and readable.
AllResponses ==
  [txhash: {h1, h2}, code: {0, 5}, rawLog: RawLogs,
   data: {None, <<v1>>}, hasTx: BOOLEAN,
   body: {None, <<Msg("cosmos.bank.v1beta1.MsgSend")>>}]

\* One field at a time unreadable, and the readable ones.
SomeResponses ==
  {r \in AllResponses :
     Cardinality({f \in {"log", "data", "tx", "body"} :
       \/ f = "log" /\ r.rawLog.kind = "text"
       \/ f = "data" /\ r.data = None
       \/ f = "tx" /\ ~r.hasTx
       \/ f = "body" /\ r.body = None}) <= 1}

\* A successful transfer.
Success ==
  {r \in AllResponses : r.code = 0 /\ Decodable(r)}
=============================================================================
