------------------------------ MODULE TxPromise ------------------------------
(***************************************************************************)
(* What a caller of tx.broadcast and tx.simulate may rely on, whatever the *)
(* RPCs, the clock and the other calls do.  A call works on its own        *)
(* (open), has let its transaction go (sent), and ends as                  *)
(*   executed   its transaction is on the chain;                           *)
(*   unknown    its transaction may be on the chain, now or later;         *)
(*   inert      this call has put nothing on the chain and never will.     *)
(* Nothing gets on the chain but by a call that has let it go.             *)
(***************************************************************************)
CONSTANTS Calls, Txs, None

VARIABLES
  phase,     \* of each call
  intent,    \* the transaction a call has signed
  chain      \* the transactions executed

promiseVars == <<phase, intent, chain>>

Phases == {"idle", "open", "sent", "executed", "unknown", "inert"}

PromiseInit ==
  /\ phase = [c \in Calls |-> "idle"]
  /\ intent = [c \in Calls |-> None]
  /\ chain = {}

Move(c, from, to) ==
  /\ phase[c] \in from
  /\ phase' = [phase EXCEPT ![c] = to]

Open(c) == Move(c, {"idle"}, "open") /\ UNCHANGED <<intent, chain>>

\* A transaction is signed once; a call may end with it unsent.
SignTx(c) ==
  /\ intent[c] = None
  /\ intent'[c] \in Txs
  /\ intent' = [intent EXCEPT ![c] = intent'[c]]
  /\ Move(c, {"open"}, "open") \/ Move(c, {"open"}, "inert")
  /\ UNCHANGED chain

\* Only a signed transaction can be let go.
Send(c) ==
  /\ intent[c] # None
  /\ Move(c, {"open"}, "sent")
  /\ UNCHANGED <<intent, chain>>

\* The call resolves with a Tx.
Return(c) ==
  /\ intent[c] \in chain
  /\ Move(c, {"sent"}, "executed")
  /\ UNCHANGED <<intent, chain>>

\* The call settles and its transaction is still at large.
LeaveOpen(c) ==
  /\ intent[c] # None
  /\ Move(c, {"open", "sent"}, "unknown")
  /\ UNCHANGED <<intent, chain>>

\* The call rejects with nothing sent, or with what it sent refused for good.
Fail(c) == Move(c, {"open"}, "inert") /\ UNCHANGED <<intent, chain>>

\* A transaction is executed, once, on behalf of a call that let it go.
Execute ==
  \E c \in Calls :
    /\ phase[c] \in {"sent", "executed", "unknown"}
    /\ intent[c] \notin chain
    /\ chain' = chain \cup {intent[c]}
    /\ UNCHANGED <<phase, intent>>

PromiseNext ==
  \/ \E c \in Calls : \/ Open(c) \/ SignTx(c) \/ Send(c)
                      \/ Return(c) \/ LeaveOpen(c) \/ Fail(c)
  \/ Execute

PromiseSpec == PromiseInit /\ [][PromiseNext]_promiseVars
=============================================================================
