---------------------------- MODULE MerlionClient ----------------------------
(***************************************************************************)
(* Calls of tx.broadcast and tx.simulate (client.ts), each an async        *)
(* function, interleaved on one event loop (or in several programs that    *)
(* hold the same key) and with the node they talk to.                      *)
(*                                                                         *)
(* One action is the code between two awaits.  An awaited RPC that reads   *)
(* or changes the node is two actions: Answer..., when the node (or the    *)
(* network, by failing) settles the request, and the continuation, which   *)
(* may run any number of node, clock and other calls' steps later.         *)
(*                                                                         *)
(* Time is kept per call: elapsed[c] is Date.now() - start, counted up to  *)
(* the first value past broadcastTimeoutMs (no later one is told apart),   *)
(* and timer[c] is what is left of the setTimeout of the polling loop.     *)
(***************************************************************************)
EXTENDS Node

CONSTANTS
  Calls,           \* the calls ever made, each with its client
  CallOptions      \* the arguments a call may be made with

Methods == {"broadcast", "simulate"}
Signers == {"direct", "amino", "readonly"}

\* BroadcastMode, and anything else an untyped caller passes.
BroadcastModes == {"Sync", "Async", "Other"}

ASSUME CallOptionsType ==
  CallOptions \subseteq
    [method: Methods, signer: Signers, request: Requests,
     broadcastMode: BroadcastModes, waitForCommit: BOOLEAN,
     broadcastTimeoutMs: Nat, broadcastCheckIntervalMs: Nat,
     explicitSignerData: SignerData \cup {None}]

\* Where a call is suspended: which promise it awaits.
PCs == {"idle", "getAccounts", "account", "signing", "simulate",
        "broadcast", "sleep", "getTx", "settled"}

\* What has come back for the awaited RPC: nothing yet, an error of the
\* transport or of the decoding, or the node's word.
Replies == {"none", "failed", "ok", "refused", "found", "absent"}

\* How the promise of the call settled: resolved with a Tx, with only the
\* transactionHash, with a SimulateResponse; rejected because of CheckTx,
\* because of the timeout, because an RPC failed after the transaction had
\* been sent, or for a reason that arose before anything was sent.
Outcomes == {"none", "tx", "hash", "simulated",
             "refused", "timeout", "lost", "error"}

VARIABLES
  opts,      \* arguments of the call
  pc,        \* what it awaits
  reply,     \* the answer it has not looked at yet
  queried,   \* the sequence in the answer of auth.account
  txRaw,     \* the transaction it signed
  elapsed,   \* Date.now() - start
  timer,     \* what is left of the current sleep
  outcome,   \* how it settled
  inTime     \* history: calls whose transaction got into a block in time

callVars == <<opts, pc, reply, queried, txRaw, elapsed, timer, outcome, inTime>>
vars == <<callVars, nodeVars>>

TypeOK ==
  /\ NodeTypeOK
  /\ opts \in [Calls -> CallOptions]
  /\ pc \in [Calls -> PCs]
  /\ reply \in [Calls -> Replies]
  /\ queried \in [Calls -> Nat]
  /\ txRaw \in [Calls -> TxRaws \cup {None}]
  /\ elapsed \in [Calls -> Nat]
  /\ timer \in [Calls -> Nat]
  /\ outcome \in [Calls -> Outcomes]
  /\ inTime \subseteq Calls

Init ==
  /\ NodeInit
  /\ opts \in [Calls -> CallOptions]
  /\ pc = [c \in Calls |-> "idle"]
  /\ reply = [c \in Calls |-> "none"]
  /\ queried = [c \in Calls |-> 0]
  /\ txRaw = [c \in Calls |-> None]
  /\ elapsed = [c \in Calls |-> 0]
  /\ timer = [c \in Calls |-> 0]
  /\ outcome = [c \in Calls |-> "none"]
  /\ inTime = {}

-----------------------------------------------------------------------------
(* Derived values and the two ways a continuation ends.                      *)

UsesExplicitData(c) == opts[c].explicitSignerData # None

\* Faulty variants: sign for the sequence after, or before, the account's.
SignerDataAhead(c) ==
  IF UsesExplicitData(c)
  THEN opts[c].explicitSignerData
  ELSE [accountNumber |-> AccountNumber, sequence |-> queried[c] + 1,
        chainId |-> ClientChainId]

SignerDataBehind(c) ==
  IF UsesExplicitData(c)
  THEN opts[c].explicitSignerData
  ELSE [accountNumber |-> AccountNumber, sequence |-> queried[c] - 1,
        chainId |-> ClientChainId]

\* The SignerData sign() works with: the caller's, or the queried sequence
\* with the account's number and the client's own chain id.
SignerDataOf(c) ==
  IF UsesExplicitData(c)
  THEN opts[c].explicitSignerData
  ELSE [accountNumber |-> AccountNumber, sequence |-> queried[c],
        chainId |-> ClientChainId]

SignMode(c) ==
  IF opts[c].signer = "direct" THEN "DIRECT" ELSE "LEGACY_AMINO_JSON"

\* Await the next promise; its answer is still to come.
Await(c, next) ==
  /\ pc' = [pc EXCEPT ![c] = next]
  /\ reply' = [reply EXCEPT ![c] = "none"]
  /\ UNCHANGED outcome

Settle(c, how) ==
  /\ pc' = [pc EXCEPT ![c] = "settled"]
  /\ reply' = [reply EXCEPT ![c] = "none"]
  /\ outcome' = [outcome EXCEPT ![c] = how]

Answered(c, word) ==
  /\ reply[c] = "none"
  /\ reply' = [reply EXCEPT ![c] = word]
  /\ UNCHANGED <<opts, pc, txRaw, elapsed, timer, outcome, inTime>>

-----------------------------------------------------------------------------
(* prepareAndSign and sign.                                                  *)

\* signAndBroadcast or simulate runs up to `await this.signer.getAccounts()`.
Invoke(c) ==
  /\ pc[c] = "idle"
  /\ Await(c, "getAccounts")
  /\ UNCHANGED <<opts, queried, txRaw, elapsed, timer, inTime, nodeVars>>

\* The signer names its accounts: the client's address is among them, or not.
\* A ReadonlySigner throws.
GetAccounts(c) ==
  /\ pc[c] = "getAccounts"
  /\ \/ /\ opts[c].signer # "readonly"
        /\ Await(c, IF UsesExplicitData(c) THEN "signing" ELSE "account")
     \/ Settle(c, "error")
  /\ UNCHANGED <<opts, queried, txRaw, elapsed, timer, inTime, nodeVars>>

\* External: auth.account reports the account of the last block, or the query
\* fails, or there is no account, or one of a type that cannot sign.
AnswerAccount(c) ==
  /\ pc[c] = "account"
  /\ \/ Answered(c, "ok") /\ queried' = [queried EXCEPT ![c] = sequence]
     \/ Answered(c, "failed") /\ UNCHANGED queried
  /\ UNCHANGED nodeVars

UseAccount(c) ==
  /\ pc[c] = "account"
  /\ reply[c] # "none"
  /\ IF reply[c] = "ok" THEN Await(c, "signing") ELSE Settle(c, "error")
  /\ UNCHANGED <<opts, queried, txRaw, elapsed, timer, inTime, nodeVars>>

\* Faulty variant: simulate goes the way of broadcast.
NextRpcAlwaysBroadcast(c) == Await(c, "broadcast")

\* What is done with the signed bytes: txService.simulate, or broadcastTx, which
\* throws on an unknown mode before it sends anything.
NextRpc(c) ==
  CASE opts[c].method = "simulate" -> Await(c, "simulate")
    [] opts[c].method = "broadcast" /\ opts[c].broadcastMode = "Other" ->
         Settle(c, "error")
    [] OTHER -> Await(c, "broadcast")

\* What sign() returns when the signer settles on this memo and this fee.
SignedTx(c, memo, fee) ==
  LET doc == MakeSignDoc(SignMode(c), opts[c].request, SignerDataOf(c))
  IN  Assemble(SignMode(c), opts[c].request, SignerReturns(doc, memo, fee))

\* The wallet signs, possibly another document than the one asked for, and the
\* call goes on with the signed bytes; or its user declines.
Sign(c) ==
  /\ pc[c] = "signing"
  /\ \/ /\ \E memo \in Memos, fee \in Fees :
             txRaw' = [txRaw EXCEPT ![c] = SignedTx(c, memo, fee)]
        /\ NextRpc(c)
     \/ Settle(c, "error") /\ UNCHANGED txRaw
  /\ UNCHANGED <<opts, queried, elapsed, timer, inTime, nodeVars>>

\* txService.simulate runs the transaction on a copy of the state.
Simulate(c) ==
  /\ pc[c] = "simulate"
  /\ Settle(c, "simulated") \/ Settle(c, "error")
  /\ UNCHANGED <<opts, queried, txRaw, elapsed, timer, inTime, nodeVars>>

-----------------------------------------------------------------------------
(* broadcastTx.                                                              *)

\* External: the node handles broadcastTx.  Sync waits for CheckTx, async does
\* not; in both modes the node can turn the bytes away at the door, because
\* it has them already or its mempool is full, with a code in txResponse.
\* "failed" is an RPC error or an empty txResponse: the request may be gone,
\* or still arrive.
AnswerBroadcast(c) ==
  /\ pc[c] = "broadcast"
  /\ \/ /\ opts[c].broadcastMode = "Sync"
        /\ ~InCache(txRaw[c])
        /\ Admit(txRaw[c])
        /\ UNCHANGED inbox
        /\ Answered(c, "ok")
     \/ /\ opts[c].broadcastMode = "Async"
        /\ ~InCache(txRaw[c])
        /\ inbox' = inbox \cup {txRaw[c]}
        /\ UNCHANGED <<mempool, checkSequence>>
        /\ Answered(c, "ok")
     \/ /\ Answered(c, "refused")
        /\ UNCHANGED <<inbox, mempool, checkSequence>>
     \/ /\ inbox' \in {inbox, inbox \cup {txRaw[c]}}
        /\ Answered(c, "failed")
        /\ UNCHANGED <<mempool, checkSequence>>
  /\ UNCHANGED <<queried, sequence, ledger, dropped>>

\* Go to sleep for broadcastCheckIntervalMs.
Sleep(c) ==
  /\ Await(c, "sleep")
  /\ timer' = [timer EXCEPT ![c] = opts[c].broadcastCheckIntervalMs]

\* Faulty variants: the code is not looked at; an RPC error is taken for one.
NeverRejected(c) == FALSE
RejectedOrLost(c) ==
  reply[c] \in {"refused", "failed"} /\ opts[c].broadcastMode = "Sync"

\* `txResponse.code` makes the call throw.  Only sync looks at it.
IsRejected(c) == reply[c] = "refused" /\ opts[c].broadcastMode = "Sync"

\* The continuation of broadcastTx's RPC.
AfterBroadcast(c) ==
  /\ pc[c] = "broadcast"
  /\ reply[c] # "none"
  /\ \/ /\ IsRejected(c)
        /\ Settle(c, "refused") /\ UNCHANGED timer
     \/ /\ ~IsRejected(c) /\ reply[c] = "failed"
        /\ Settle(c, "lost") /\ UNCHANGED timer
     \/ /\ ~IsRejected(c) /\ reply[c] # "failed"
        /\ IF opts[c].waitForCommit
           THEN Sleep(c)
           ELSE Settle(c, "hash") /\ UNCHANGED timer
  /\ UNCHANGED <<opts, queried, txRaw, elapsed, inTime, nodeVars>>

\* The sleep is over: getTx asks for the hash of this call's transaction.
WakeUp(c) ==
  /\ pc[c] = "sleep"
  /\ timer[c] = 0
  /\ Await(c, "getTx")
  /\ UNCHANGED <<opts, queried, txRaw, elapsed, timer, inTime, nodeVars>>

\* External: getTxsEvent looks the hash up in the blocks.
AnswerGetTx(c) ==
  /\ pc[c] = "getTx"
  /\ Answered(c, IF txRaw[c] \in ledger THEN "found" ELSE "absent")
     \/ Answered(c, "failed")
  /\ UNCHANGED <<queried, nodeVars>>

\* Faulty variants: an empty result list counts as a result; the clock is not
\* looked at.
HasAnyAnswer(c) == reply[c] # "failed"
NeverTimedOut(c) == FALSE

\* `results[0] ?? null` is a Tx.
HasResult(c) == reply[c] = "found"

\* `start + timeoutMs < Date.now()`.
TimedOut(c) == elapsed[c] > opts[c].broadcastTimeoutMs

\* The loop's body after getTx: the result first, then the clock.
AfterGetTx(c) ==
  /\ pc[c] = "getTx"
  /\ reply[c] # "none"
  /\ \/ reply[c] = "failed" /\ Settle(c, "lost") /\ UNCHANGED timer
     \/ HasResult(c) /\ Settle(c, "tx") /\ UNCHANGED timer
     \/ /\ reply[c] # "failed" /\ ~HasResult(c)
        /\ IF TimedOut(c)
           THEN Settle(c, "timeout") /\ UNCHANGED timer
           ELSE Sleep(c)
  /\ UNCHANGED <<opts, queried, txRaw, elapsed, inTime, nodeVars>>

-----------------------------------------------------------------------------
(* The clock, and the specification.                                         *)

\* broadcastTx has taken `start` and has not settled.
Waiting(c) == pc[c] \in {"broadcast", "sleep", "getTx"}

BeforeTimeout(c) == elapsed[c] <= opts[c].broadcastTimeoutMs

\* setTimeout: what is left of a sleep after one unit of time.
CountDown(n) == IF n > 0 THEN n - 1 ELSE 0

Tick ==
  /\ \E c \in Calls : Waiting(c) /\ (BeforeTimeout(c) \/ timer[c] > 0)
  /\ elapsed' = [c \in Calls |->
       IF Waiting(c) /\ BeforeTimeout(c) THEN elapsed[c] + 1 ELSE elapsed[c]]
  /\ timer' = [c \in Calls |-> CountDown(timer[c])]
  /\ UNCHANGED <<opts, pc, reply, queried, txRaw, outcome, inTime, nodeVars>>

\* The node goes on by itself.
NodeStep ==
  /\ NodeNext
  /\ inTime' = inTime \cup
       {c \in Calls : /\ Waiting(c) /\ BeforeTimeout(c)
                      /\ txRaw[c] \in ledger' \ ledger}
  /\ UNCHANGED <<opts, pc, reply, queried, txRaw, elapsed, timer, outcome>>

\* What the program does, given its turn.
ClientStep(c) ==
  \/ UseAccount(c)
  \/ AfterBroadcast(c)
  \/ WakeUp(c)
  \/ AfterGetTx(c)

SignerStep(c) == GetAccounts(c) \/ Sign(c)

AnswerStep(c) ==
  \/ AnswerAccount(c)
  \/ Simulate(c)
  \/ AnswerBroadcast(c)
  \/ AnswerGetTx(c)

CallStep(c) == Invoke(c) \/ ClientStep(c) \/ SignerStep(c) \/ AnswerStep(c)

Next ==
  \/ \E c \in Calls : CallStep(c)
  \/ Tick
  \/ NodeStep

Spec == Init /\ [][Next]_vars

\* The event loop runs what is ready, time passes, and the wallet's user
\* decides.  Nobody has to make a call, and the node never has to include a
\* transaction.
LocalFairness ==
  /\ \A c \in Calls : WF_vars(ClientStep(c)) /\ WF_vars(SignerStep(c))
  /\ WF_vars(Tick)

\* Every RPC is answered or fails: the code sets no deadline of its own, so
\* this is what it needs of the transport.
AnswerFairness == \A c \in Calls : WF_vars(AnswerStep(c))

LocallyFairSpec == Spec /\ LocalFairness
FairSpec == Spec /\ LocalFairness /\ AnswerFairness

-----------------------------------------------------------------------------
(* Properties.                                                               *)

\* The call's transaction may have reached the node, as far as it can tell.
Submitted(c) ==
  /\ opts[c].method = "broadcast"
  /\ txRaw[c] # None
  /\ \/ pc[c] = "broadcast" /\ reply[c] \in {"ok", "failed"}
     \/ pc[c] \in {"sleep", "getTx"}
     \/ outcome[c] \in {"tx", "hash", "timeout", "lost"}

\* Every transaction the node has in any form was broadcast by a call that has
\* not been rejected for a refusal: simulate leaves nothing behind, and a call
\* that reports a CheckTx failure (client.ts:397) is not the origin of a
\* transaction that is executed after all, not even by a late request.
NoPhantomTx ==
  \A tx \in inbox \cup mempool \cup ledger \cup dropped :
    \E c \in Calls : Submitted(c) /\ txRaw[c] = tx

\* A call that resolves with a Tx (client.ts:433) has its own transaction on
\* the chain, whatever was found for other calls.
ResolvedTxIsOnChain ==
  \A c \in Calls : outcome[c] = "tx" => txRaw[c] \in ledger

\* In sync mode a call that starts polling, returns the hash or gives up
\* waiting has had its transaction accepted: what the node lacks later fell
\* out of its mempool, it was not lost on the way (client.ts:390-402).
SyncMeansAccepted ==
  \A c \in Calls :
    /\ opts[c].method = "broadcast" /\ opts[c].broadcastMode = "Sync"
    /\ pc[c] \in {"sleep", "getTx"} \/ outcome[c] \in {"tx", "hash", "timeout"}
    => txRaw[c] \in mempool \cup ledger \cup dropped

\* auth.account reports the last block, so a call without explicitSignerData
\* never signs ahead of it: such a transaction can be pending only as the next
\* one of the account, and a second call made while it is pending cannot be
\* accepted beside it (client.ts:216-244; tx.ts:197-199).
ImplicitTxIsNext ==
  \A c \in Calls :
    ~UsesExplicitData(c) /\ txRaw[c] \in mempool => txRaw[c].sequence = sequence

\* The SignerData the call used is that of the chain it talks to.
RightSignerData(c) ==
  /\ SignerDataOf(c).chainId = ChainId
  /\ SignerDataOf(c).accountNumber = AccountNumber

\* With the right chain id and account number the signature verifies, whatever
\* the signer changed, unless an amino signer changed the memo: signAmino
\* carries fee and sequence over from the signed document (client.ts:285-293),
\* signDirect all of it (client.ts:361-365).
SignatureCoversTx ==
  \A c \in Calls :
    /\ txRaw[c] # None
    /\ RightSignerData(c)
    /\ opts[c].signer = "amino" => txRaw[c].signature.memo = opts[c].request.memo
    => Verifies(txRaw[c])

\* tx.ts:45 "TxBody is the body of a transaction that all signers sign over":
\* messages and memo of the transaction are those of the signed document.
BodyIsSignedOver ==
  \A c \in Calls :
    txRaw[c] # None =>
      /\ txRaw[c].messages = txRaw[c].signature.messages
      /\ txRaw[c].memo = txRaw[c].signature.memo

\* client.ts:371 "If broadcasting is rejected by the node for some reason ...
\* an error is thrown."
NodeRefusalIsThrown ==
  [][\A c \in Calls :
       pc[c] = "broadcast" /\ reply[c] = "refused" /\ pc'[c] # "broadcast"
         => outcome'[c] = "refused"]_vars

\* client.ts:374-376 "If the transaction is included in a block, a Tx is
\* returned", an error being for one "not included in a block before the
\* provided timeout": a call does not time out on a transaction that was.
TimelyInclusionIsReturned ==
  \A c \in Calls : outcome[c] = "timeout" => c \notin inTime

\* Every call that is made settles: the polling loop ends, and no step waits
\* for something that does not come (client.ts:427-440).
EveryCallSettles ==
  \A c \in Calls : pc[c] # "idle" ~> pc[c] = "settled"

\* client.ts:374 "If the transaction is not included in a block before the
\* provided timeout, these errors": broadcastTx comes to an end on its own.
TimeoutEndsTheWait ==
  \A c \in Calls : Waiting(c) ~> ~Waiting(c)

\* What the caller is promised, see TxPromise.
PhaseOf(c) ==
  CASE pc[c] = "idle" -> "idle"
    [] pc[c] \in {"getAccounts", "account", "signing", "simulate"} -> "open"
    [] pc[c] = "broadcast" ->
         IF reply[c] \in {"ok", "failed"} THEN "sent" ELSE "open"
    [] pc[c] \in {"sleep", "getTx"} -> "sent"
    [] pc[c] = "settled" ->
         CASE outcome[c] = "tx" -> "executed"
           [] outcome[c] \in {"hash", "timeout", "lost"} -> "unknown"
           [] OTHER -> "inert"

Promise == INSTANCE TxPromise
  WITH Txs <- TxRaws,
       phase <- [c \in Calls |-> PhaseOf(c)],
       intent <- txRaw,
       chain <- ledger

\* The calls of the client implement what TxPromise promises.
KeepsPromise == Promise!PromiseSpec
=============================================================================
