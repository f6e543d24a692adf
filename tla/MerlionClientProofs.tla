------------------------- MODULE MerlionClientProofs -------------------------
(***************************************************************************)
(* Theorems about MerlionClient, for any number of calls, any arguments    *)
(* and any length of the story.  The argument is in three layers:          *)
(*   Local   what a single call's variables say of each other, enough for  *)
(*           type correctness (a call that sends has signed);              *)
(*   Chain   how the sequences of the mempool and the ledger lie around    *)
(*           the account's, and what an answer on its way to a call still  *)
(*           guarantees when it is looked at later;                        *)
(*   Inv     the two and the safety properties, inductive together.        *)
(***************************************************************************)
EXTENDS MerlionClient, TLAPS

-----------------------------------------------------------------------------
(* Signing.                                                                  *)

\* A signed and assembled transaction is well-formed and carries the sequence
\* of the SignerData, whichever way the signer changed the document.
LEMMA AssembledTx ==
  ASSUME NEW mode \in SignModes, NEW req \in Requests, NEW data \in SignerData,
         NEW memo \in Memos, NEW fee \in Fees,
         NEW signed, signed = SignerReturns(MakeSignDoc(mode, req, data), memo, fee)
  PROVE  /\ Assemble(mode, req, signed) \in TxRaws
         /\ Assemble(mode, req, signed).sequence = data.sequence
<1>1. signed = [mode |-> mode, messages |-> req.messages, memo |-> memo,
                fee |-> fee, sequence |-> data.sequence,
                accountNumber |-> data.accountNumber, chainId |-> data.chainId]
  BY DEF MakeSignDoc, SignerReturns
<1>2. signed \in SignDocs
  BY <1>1 DEF SignDocs, Requests, SignerData
<1>3. CASE mode = "DIRECT"
  BY <1>1, <1>2, <1>3
     DEF Assemble, AssembleDirect, TxRaws, SignDocs, SignModes, Requests
<1>4. CASE mode # "DIRECT"
  BY <1>1, <1>2, <1>4
     DEF Assemble, AssembleAmino, TxRaws, SignDocs, SignModes, Requests
<1> QED BY <1>3, <1>4

\* The arguments of a call are of the types the code declares.
LEMMA CallTypes ==
  ASSUME TypeOK, NEW c \in Calls
  PROVE  /\ opts[c].method \in Methods
         /\ opts[c].request \in Requests
         /\ opts[c].broadcastTimeoutMs \in Nat
         /\ opts[c].broadcastCheckIntervalMs \in Nat
         /\ SignMode(c) \in SignModes
         /\ SignerDataOf(c) \in SignerData
<1>1. opts[c] \in CallOptions
  BY DEF TypeOK
<1>2. opts[c] \in [method: Methods, signer: Signers, request: Requests,
                   broadcastMode: BroadcastModes, waitForCommit: BOOLEAN,
                   broadcastTimeoutMs: Nat, broadcastCheckIntervalMs: Nat,
                   explicitSignerData: SignerData \cup {None}]
  BY <1>1, CallOptionsType
<1>3. queried[c] \in Nat
  BY DEF TypeOK
<1>4. SignerDataOf(c) \in SignerData
  <2>1. CASE UsesExplicitData(c)
    BY <1>2, <2>1 DEF UsesExplicitData, SignerDataOf
  <2>2. CASE ~UsesExplicitData(c)
    BY <1>3, <2>2, ChainConstants DEF SignerDataOf, SignerData
  <2> QED BY <2>1, <2>2
<1>5. SignMode(c) \in SignModes
  BY DEF SignMode, SignModes
<1> QED BY <1>2, <1>4, <1>5

-----------------------------------------------------------------------------
(* Type correctness.                                                         *)

\* What one call's variables say of each other: it signs once, with a
\* signer that can, before it sends, and the node's words come to the awaits they belong to.
LocalOf(c) ==
  /\ pc[c] \in {"idle", "getAccounts", "account", "signing"} => txRaw[c] = None
  /\ pc[c] \in {"simulate", "broadcast", "sleep", "getTx"} => txRaw[c] \in TxRaws
  /\ pc[c] \in {"account", "signing"} => opts[c].signer # "readonly"
  /\ pc[c] # "settled" => outcome[c] = "none"
  /\ outcome[c] \in {"tx", "hash", "timeout", "lost"} =>
       txRaw[c] \in TxRaws /\ opts[c].method = "broadcast"
  /\ pc[c] \in {"broadcast", "sleep", "getTx"} => opts[c].method = "broadcast"
  /\ pc[c] = "broadcast" => reply[c] \in {"none", "ok", "refused", "failed"}
  /\ pc[c] = "getTx" => reply[c] \in {"none", "found", "absent", "failed"}

Local == TypeOK /\ \A c \in Calls : LocalOf(c)

LEMMA LocalInit == Init => Local
BY InitialSequenceIsNat
   DEF Init, NodeInit, Local, LocalOf, TypeOK, NodeTypeOK, PCs, Replies, Outcomes

\* Between its first await and the answer a call touches nothing but itself.
LEMMA LocalSigning ==
  ASSUME Local, NEW c \in Calls,
         Invoke(c) \/ SignerStep(c) \/ UseAccount(c) \/ AnswerAccount(c) \/ Simulate(c)
  PROVE  Local'
<1> USE DEF Local
<1>1. CASE Invoke(c)
  BY <1>1 DEF Invoke, Await, LocalOf, TypeOK, NodeTypeOK, nodeVars, PCs, Replies
<1>2. CASE GetAccounts(c)
  BY <1>2 DEF GetAccounts, Await, Settle, LocalOf, TypeOK, NodeTypeOK, nodeVars,
              PCs, Replies, Outcomes
<1>3. CASE UseAccount(c)
  BY <1>3 DEF UseAccount, Await, Settle, LocalOf, TypeOK, NodeTypeOK, nodeVars,
              PCs, Replies, Outcomes
<1>4. CASE AnswerAccount(c)
  BY <1>4 DEF AnswerAccount, Answered, LocalOf, TypeOK, NodeTypeOK, nodeVars,
              Replies
<1>5. CASE Simulate(c)
  BY <1>5 DEF Simulate, Settle, LocalOf, TypeOK, NodeTypeOK, nodeVars,
              PCs, Replies, Outcomes
<1>6. CASE Sign(c)
  <2>1. CASE UNCHANGED txRaw /\ Settle(c, "error")
    BY <1>6, <2>1 DEF Sign, Settle, LocalOf, TypeOK, NodeTypeOK, nodeVars,
                      PCs, Replies, Outcomes
  <2>2. ASSUME NEW memo \in Memos, NEW fee \in Fees,
               txRaw' = [txRaw EXCEPT ![c] = SignedTx(c, memo, fee)], NextRpc(c)
        PROVE  Local'
    <3>1. SignedTx(c, memo, fee) \in TxRaws
      BY CallTypes, AssembledTx DEF SignedTx
    <3>2. opts[c].method \in Methods
      BY CallTypes
    <3> QED
      BY <1>6, <2>2, <3>1, <3>2
         DEF Sign, NextRpc, Await, Settle, LocalOf, TypeOK, NodeTypeOK, nodeVars,
             PCs, Replies, Outcomes, Methods
  <2> QED BY <1>6, <2>1, <2>2 DEF Sign
<1> QED BY <1>1, <1>2, <1>3, <1>4, <1>5, <1>6 DEF SignerStep

\* From the answer on, a call touches itself, and its transaction the node.
LEMMA LocalBroadcasting ==
  ASSUME Local, NEW c \in Calls,
         \/ AnswerBroadcast(c) \/ AfterBroadcast(c) \/ WakeUp(c)
         \/ AnswerGetTx(c) \/ AfterGetTx(c)
  PROVE  Local'
<1> USE DEF Local
<1>1. CASE AnswerBroadcast(c)
  <2>1. txRaw[c] \in TxRaws /\ pc[c] = "broadcast"
    BY <1>1 DEF AnswerBroadcast, LocalOf
  <2>2. NodeTypeOK'
    BY <1>1, <2>1 DEF AnswerBroadcast, Admit, TypeOK, NodeTypeOK
  <2> QED
    BY <1>1, <2>1, <2>2
       DEF AnswerBroadcast, Answered, LocalOf, TypeOK, Replies
<1>2. CASE AfterBroadcast(c)
  <2>1. opts[c].broadcastCheckIntervalMs \in Nat
    BY CallTypes
  <2> QED
    BY <1>2, <2>1 DEF AfterBroadcast, Sleep, Await, Settle, LocalOf, TypeOK, NodeTypeOK,
                      nodeVars, PCs, Replies, Outcomes
<1>3. CASE WakeUp(c)
  BY <1>3 DEF WakeUp, Await, LocalOf, TypeOK, NodeTypeOK, nodeVars, PCs, Replies
<1>4. CASE AnswerGetTx(c)
  BY <1>4 DEF AnswerGetTx, Answered, LocalOf, TypeOK, NodeTypeOK, nodeVars, Replies
<1>5. CASE AfterGetTx(c)
  <2>1. opts[c].broadcastCheckIntervalMs \in Nat
    BY CallTypes
  <2> QED
    BY <1>5, <2>1 DEF AfterGetTx, Sleep, Await, Settle, LocalOf, TypeOK, NodeTypeOK,
                      nodeVars, PCs, Replies, Outcomes
<1> QED BY <1>1, <1>2, <1>3, <1>4, <1>5

LEMMA LocalTick ==
  ASSUME Local, Tick
  PROVE  Local'
<1>1. elapsed' \in [Calls -> Nat] /\ timer' \in [Calls -> Nat]
  BY DEF Local, TypeOK, Tick, CountDown
<1> QED
  BY <1>1 DEF Local, LocalOf, TypeOK, NodeTypeOK, Tick, nodeVars

LEMMA LocalNodeStep ==
  ASSUME Local, NodeStep
  PROVE  Local'
<1>1. NodeTypeOK'
  <2>1. CASE CheckQueuedTx
    BY <2>1 DEF CheckQueuedTx, Admit, Local, TypeOK, NodeTypeOK
  <2>2. CASE CommitTx
    BY <2>2 DEF CommitTx, Local, TypeOK, NodeTypeOK
  <2>3. CASE EvictTx
    BY <2>3 DEF EvictTx, Local, TypeOK, NodeTypeOK, TxRaws
  <2> QED BY <2>1, <2>2, <2>3 DEF NodeStep, NodeNext
<1> QED
  BY <1>1 DEF Local, LocalOf, TypeOK, NodeStep

LEMMA LocalNext == Local /\ [Next]_vars => Local'
<1> SUFFICES ASSUME Local, [Next]_vars
             PROVE  Local'
  OBVIOUS
<1>1. CASE UNCHANGED vars
  BY <1>1 DEF Local, LocalOf, TypeOK, NodeTypeOK, vars, callVars, nodeVars
<1>2. ASSUME NEW c \in Calls, CallStep(c)
      PROVE  Local'
  BY <1>2, LocalSigning, LocalBroadcasting DEF CallStep, ClientStep, AnswerStep
<1> QED
  BY <1>1, <1>2, LocalTick, LocalNodeStep DEF Next

\* Type correctness, with what it rests on: a call whose request carries a
\* transaction has signed one (client.ts:141-155).
THEOREM LocalCorrect == Spec => []Local
<1>1. Init => Local
  BY LocalInit
<1>2. Local /\ [Next]_vars => Local'
  BY LocalNext
<1> QED BY <1>1, <1>2, PTL DEF Spec

THEOREM TypeCorrect == Spec => []TypeOK
<1>1. Local => TypeOK
  BY DEF Local
<1> QED BY <1>1, LocalCorrect, PTL

-----------------------------------------------------------------------------
(* The chain, and what a step of anyone may do to the rest.                  *)

\* The mempool holds the account's next transactions, one per sequence number
\* from the account's up to the one CheckTx expects; the ledger is behind.
SequencesInOrder ==
  /\ sequence <= checkSequence
  /\ \A tx \in mempool : sequence <= tx.sequence /\ tx.sequence < checkSequence
  /\ \A tx, other \in mempool : tx.sequence = other.sequence => tx = other
  /\ \A tx \in ledger : tx.sequence < sequence

\* What passed CheckTx at some time.
Accepted == mempool \cup ledger \cup dropped

\* What the node has in any form.
Held == inbox \cup Accepted

LEMMA AdmitKeepsOrder ==
  ASSUME NodeTypeOK, SequencesInOrder, NEW tx \in TxRaws, Admit(tx),
         UNCHANGED <<sequence, ledger>>
  PROVE  SequencesInOrder'
BY DEF Admit, PassesCheckTx, SequencesInOrder, NodeTypeOK, TxRaws

\* Of all steps only the answer to broadcastTx and the node's own change the
\* node.
LEMMA WhoTouchesTheNode ==
  ASSUME [Next]_vars
  PROVE  \/ UNCHANGED nodeVars
         \/ \E c \in Calls : AnswerBroadcast(c)
         \/ NodeStep
<1>1. ASSUME NEW c \in Calls, CallStep(c), ~AnswerBroadcast(c)
      PROVE  UNCHANGED nodeVars
  BY <1>1 DEF CallStep, ClientStep, SignerStep, AnswerStep, Invoke, GetAccounts,
              AnswerAccount, UseAccount, Sign, Simulate, AfterBroadcast, WakeUp,
              AnswerGetTx, AfterGetTx
<1>2. Tick \/ UNCHANGED vars => UNCHANGED nodeVars
  BY DEF Tick, vars
<1> QED BY <1>1, <1>2 DEF Next

LEMMA OrderNext ==
  ASSUME Local, SequencesInOrder, [Next]_vars
  PROVE  SequencesInOrder'
<1> USE DEF Local, TypeOK
<1>1. CASE UNCHANGED <<sequence, checkSequence, mempool, ledger>>
  BY <1>1 DEF SequencesInOrder
<1>2. ASSUME NEW c \in Calls, AnswerBroadcast(c)
      PROVE  SequencesInOrder'
  <2>1. txRaw[c] \in TxRaws
    BY <1>2 DEF AnswerBroadcast, LocalOf
  <2>2. Admit(txRaw[c]) \/ UNCHANGED <<checkSequence, mempool>>
    BY <1>2 DEF AnswerBroadcast
  <2> QED BY <1>1, <1>2, <2>1, <2>2, AdmitKeepsOrder DEF AnswerBroadcast
<1>3. CASE NodeStep
  <2>1. CASE CheckQueuedTx
    <3>1. PICK tx \in inbox : Admit(tx) \/ UNCHANGED <<checkSequence, mempool>>
      BY <2>1 DEF CheckQueuedTx
    <3>2. tx \in TxRaws
      BY DEF NodeTypeOK
    <3> QED BY <1>1, <2>1, <3>1, <3>2, AdmitKeepsOrder DEF CheckQueuedTx
  <2>2. CASE CommitTx
    <3>1. PICK tx \in mempool :
            /\ tx.sequence = sequence
            /\ sequence' = sequence + 1
            /\ mempool' = mempool \ {tx}
            /\ ledger' = ledger \cup {tx}
            /\ checkSequence' = checkSequence
      BY <2>2 DEF CommitTx
    <3>2. \A other \in mempool : other.sequence \in Nat
      BY DEF NodeTypeOK, TxRaws
    <3>3. \A other \in ledger : other.sequence \in Nat
      BY DEF NodeTypeOK, TxRaws
    <3>4. sequence' <= checkSequence'
      BY <3>1, <3>2 DEF SequencesInOrder, NodeTypeOK
    <3>5. \A other \in mempool' :
            sequence' <= other.sequence /\ other.sequence < checkSequence'
      BY <3>1, <3>2 DEF SequencesInOrder, NodeTypeOK
    <3>6. \A other \in ledger' : other.sequence < sequence'
      BY <3>1, <3>2, <3>3 DEF SequencesInOrder, NodeTypeOK
    <3> QED BY <3>1, <3>4, <3>5, <3>6 DEF SequencesInOrder
  <2>3. CASE EvictTx
    BY <2>3 DEF EvictTx, SequencesInOrder, NodeTypeOK, TxRaws
  <2> QED BY <1>3, <2>1, <2>2, <2>3 DEF NodeStep, NodeNext
<1> QED BY <1>1, <1>2, <1>3, WhoTouchesTheNode DEF nodeVars

\* The account's sequence only grows, a block is final, and what was accepted
\* is in the mempool, in a block or known to have fallen out.
LEMMA NodeMovesForward ==
  ASSUME Local, SequencesInOrder, [Next]_vars
  PROVE  sequence <= sequence' /\ ledger \subseteq ledger' /\ Accepted \subseteq Accepted'
<1> USE DEF Local, TypeOK, NodeTypeOK, Accepted
<1>1. CASE NodeStep
  BY <1>1 DEF NodeStep, NodeNext, CheckQueuedTx, Admit, CommitTx, EvictTx
<1>2. ASSUME NEW c \in Calls, AnswerBroadcast(c)
      PROVE  UNCHANGED <<sequence, ledger, dropped>> /\ mempool \subseteq mempool'
  BY <1>2 DEF AnswerBroadcast, Admit
<1> QED BY <1>1, <1>2, WhoTouchesTheNode DEF nodeVars

-----------------------------------------------------------------------------
(* Safety.                                                                   *)

\* What a call has been told stays true until it looks at it and after: the
\* sequence it queried, the block its transaction was found in, the mempool
\* that took its transaction.
AnswersHold(c) ==
  /\ queried[c] <= sequence
  /\ ~UsesExplicitData(c) /\ txRaw[c] \in TxRaws => txRaw[c].sequence <= sequence
  /\ pc[c] = "getTx" /\ reply[c] = "found" => txRaw[c] \in ledger
  /\ /\ opts[c].broadcastMode = "Sync" /\ pc[c] = "broadcast" /\ reply[c] = "ok"
     => txRaw[c] \in Accepted

Inv ==
  /\ Local
  /\ SequencesInOrder
  /\ \A c \in Calls : AnswersHold(c)
  /\ NoPhantomTx
  /\ ResolvedTxIsOnChain
  /\ SyncMeansAccepted

\* A step of one call, of the clock or of the node leaves the others' alone.
LEMMA OthersUntouched ==
  ASSUME Local, NEW c \in Calls, NEW d \in Calls, CallStep(c), d # c
  PROVE  /\ pc'[d] = pc[d] /\ reply'[d] = reply[d] /\ queried'[d] = queried[d]
         /\ txRaw'[d] = txRaw[d] /\ outcome'[d] = outcome[d]
BY DEF CallStep, ClientStep, SignerStep, AnswerStep, Invoke, GetAccounts,
       AnswerAccount, UseAccount, Sign, NextRpc, Simulate, AnswerBroadcast,
       AfterBroadcast, WakeUp, AnswerGetTx, AfterGetTx, Await, Settle, Answered,
       Sleep, Local, TypeOK

LEMMA ArgumentsAreFixed ==
  ASSUME [Next]_vars
  PROVE  opts' = opts
BY DEF Next, NodeStep, Tick, vars, callVars, CallStep, ClientStep, SignerStep,
       AnswerStep, Invoke, GetAccounts, AnswerAccount, UseAccount, Sign, Simulate,
       AnswerBroadcast, AfterBroadcast, WakeUp, AnswerGetTx, AfterGetTx, Answered

LEMMA ClockAndNodeTouchNoCall ==
  ASSUME [Next]_vars, ~\E c \in Calls : CallStep(c)
  PROVE  UNCHANGED <<pc, reply, queried, txRaw, outcome>>
BY DEF Next, NodeStep, Tick, vars, callVars

\* A call signs at most once, and only from `signing` on.
LEMMA SignedOnce ==
  ASSUME Local, [Next]_vars, NEW c \in Calls, pc[c] # "signing"
  PROVE  txRaw'[c] = txRaw[c]
<1>1. CASE CallStep(c)
  BY <1>1 DEF CallStep, ClientStep, SignerStep, AnswerStep, Invoke, GetAccounts,
     AnswerAccount, UseAccount, Sign, Simulate, AnswerBroadcast, AfterBroadcast,
     WakeUp, AnswerGetTx, AfterGetTx, Answered
<1> QED BY <1>1, OthersUntouched, ClockAndNodeTouchNoCall

LEMMA SignedBySigner ==
  ASSUME Local, [Next]_vars, NEW c \in Calls, txRaw'[c] # txRaw[c]
  PROVE  /\ opts[c].signer # "readonly"
         /\ \E memo \in Memos, fee \in Fees : txRaw'[c] = SignedTx(c, memo, fee)
<1>1. pc[c] = "signing"
  BY SignedOnce
<1>2. CallStep(c)
  BY OthersUntouched, ClockAndNodeTouchNoCall
<1>3. Sign(c)
  BY <1>1, <1>2 DEF CallStep, ClientStep, SignerStep, AnswerStep, Invoke, GetAccounts,
     AnswerAccount, UseAccount, Simulate, AnswerBroadcast, AfterBroadcast, WakeUp,
     AnswerGetTx, AfterGetTx
<1> QED BY <1>1, <1>3 DEF Sign, Local, LocalOf, TypeOK

\* A settled call does nothing more.
LEMMA SettledIsFinal ==
  ASSUME Local, [Next]_vars, NEW c \in Calls, pc[c] = "settled"
  PROVE  pc'[c] = "settled" /\ outcome'[c] = outcome[c]
<1>1. ~CallStep(c)
  BY DEF CallStep, ClientStep, SignerStep, AnswerStep, Invoke, GetAccounts,
     AnswerAccount, UseAccount, Sign, Simulate, AnswerBroadcast, AfterBroadcast,
     WakeUp, AnswerGetTx, AfterGetTx
<1> QED BY <1>1, OthersUntouched, ClockAndNodeTouchNoCall

\* Once a call's transaction may be out, the call never claims otherwise.
LEMMA SubmittedStays ==
  ASSUME Local, [Next]_vars, NEW c \in Calls, Submitted(c)
  PROVE  Submitted(c)' /\ txRaw'[c] = txRaw[c]
<1>1. pc[c] # "signing"
  BY NoneIsNoValue DEF Submitted, Local, LocalOf
<1>2. txRaw'[c] = txRaw[c] /\ opts'[c] = opts[c]
  BY <1>1, SignedOnce, ArgumentsAreFixed
<1>3. CASE pc[c] = "settled"
  BY <1>2, <1>3, SettledIsFinal DEF Submitted, Local, LocalOf
<1>4. CASE pc[c] # "settled" /\ CallStep(c)
  <2>1. pc[c] \in {"broadcast", "sleep", "getTx"}
    BY <1>4 DEF Submitted, Local, LocalOf
  <2>2. CASE AfterBroadcast(c)
    BY <1>2, <2>2 DEF AfterBroadcast, IsRejected, Sleep, Await, Settle, Submitted,
                      Local, LocalOf, TypeOK
  <2>3. CASE WakeUp(c)
    BY <1>2, <2>3 DEF WakeUp, Await, Submitted, Local, LocalOf, TypeOK
  <2>4. CASE AnswerGetTx(c)
    BY <1>2, <2>4 DEF AnswerGetTx, Answered, Submitted, Local, LocalOf, TypeOK
  <2>5. CASE AfterGetTx(c)
    BY <1>2, <2>5 DEF AfterGetTx, Sleep, Await, Settle, Submitted, Local, LocalOf,
                      TypeOK
  <2>6. ~AnswerBroadcast(c)
    BY <2>1 DEF AnswerBroadcast, Answered, Submitted, Local, LocalOf
  <2> QED
    BY <1>4, <2>1, <2>2, <2>3, <2>4, <2>5, <2>6
       DEF CallStep, ClientStep, SignerStep, AnswerStep, Invoke, GetAccounts,
           AnswerAccount, UseAccount, Sign, Simulate
<1>5. CASE pc[c] # "settled" /\ ~CallStep(c)
  BY <1>2, <1>5, OthersUntouched, ClockAndNodeTouchNoCall DEF Submitted
<1> QED BY <1>2, <1>3, <1>4, <1>5

\* Nothing reaches the node but a transaction of a call that knows it may.
LEMMA PhantomNext ==
  ASSUME Local, NoPhantomTx, [Next]_vars
  PROVE  NoPhantomTx'
<1> SUFFICES ASSUME NEW tx \in Held'
             PROVE  \E c \in Calls : Submitted(c)' /\ txRaw'[c] = tx
  BY DEF NoPhantomTx, Held, Accepted
<1>1. CASE tx \in Held
  <2>1. PICK c \in Calls : Submitted(c) /\ txRaw[c] = tx
    BY <1>1 DEF NoPhantomTx, Held, Accepted
  <2> QED BY <2>1, SubmittedStays
<1>2. ASSUME NEW c \in Calls, AnswerBroadcast(c), tx \notin Held
      PROVE  Submitted(c)' /\ txRaw'[c] = tx
  <2>1. txRaw[c] \in TxRaws /\ opts[c].method = "broadcast"
    BY <1>2 DEF AnswerBroadcast, Local, LocalOf
  <2>2. tx = txRaw[c] /\ (Answered(c, "ok") \/ Answered(c, "failed"))
    BY <1>2 DEF AnswerBroadcast, Admit, Held, Accepted
  <2>3. pc'[c] = "broadcast" /\ reply'[c] \in {"ok", "failed"}
    BY <1>2, <2>2 DEF AnswerBroadcast, Answered, Local, TypeOK
  <2>4. txRaw' = txRaw /\ opts' = opts
    BY <2>2 DEF Answered
  <2> QED BY <2>1, <2>2, <2>3, <2>4, NoneIsNoValue DEF Submitted
<1>3. CASE NodeStep
  BY <1>1, <1>3 DEF NodeStep, NodeNext, CheckQueuedTx, Admit, CommitTx, EvictTx,
                    Held, Accepted
<1> QED
  BY <1>1, <1>2, <1>3, WhoTouchesTheNode DEF nodeVars, Held, Accepted

\* An answer goes stale in one direction only.
LEMMA AnswersNext ==
  ASSUME Local, SequencesInOrder, NEW c \in Calls, AnswersHold(c), [Next]_vars
  PROVE  AnswersHold(c)'
<1>1. /\ sequence <= sequence' /\ ledger \subseteq ledger' /\ Accepted \subseteq Accepted'
      /\ opts' = opts
  BY NodeMovesForward, ArgumentsAreFixed
<1>2. /\ sequence \in Nat /\ sequence' \in Nat
      /\ queried[c] \in Nat /\ queried'[c] \in Nat
      /\ \A tx \in TxRaws : tx.sequence \in Nat
  BY LocalNext DEF Local, TypeOK, NodeTypeOK, TxRaws
<1>3. queried'[c] <= sequence'
  <2>1. queried'[c] = queried[c] \/ queried'[c] = sequence
    <3>1. CASE CallStep(c)
      BY <3>1 DEF CallStep, ClientStep, SignerStep, AnswerStep, Invoke, GetAccounts,
         AnswerAccount, UseAccount, Sign, Simulate, AnswerBroadcast, AfterBroadcast,
         WakeUp, AnswerGetTx, AfterGetTx, Local, TypeOK
    <3> QED BY <3>1, OthersUntouched, ClockAndNodeTouchNoCall
  <2> QED BY <1>1, <1>2, <2>1 DEF AnswersHold
<1>4. ~UsesExplicitData(c)' /\ txRaw'[c] \in TxRaws => txRaw'[c].sequence <= sequence'
  <2>1. CASE txRaw'[c] = txRaw[c]
    BY <1>1, <1>2, <2>1 DEF AnswersHold, UsesExplicitData
  <2>2. ASSUME NEW memo \in Memos, NEW fee \in Fees,
               txRaw'[c] = SignedTx(c, memo, fee), ~UsesExplicitData(c)
        PROVE  txRaw'[c].sequence <= sequence'
    <3>1. txRaw'[c].sequence = SignerDataOf(c).sequence
      BY <2>2, CallTypes, AssembledTx DEF SignedTx, Local
    <3>2. txRaw'[c].sequence = queried[c]
      BY <2>2, <3>1 DEF SignerDataOf
    <3> QED BY <1>1, <1>2, <3>2 DEF AnswersHold
  <2> QED BY <1>1, <2>1, <2>2, SignedBySigner DEF UsesExplicitData
<1>5. pc'[c] = "getTx" /\ reply'[c] = "found" => txRaw'[c] \in ledger'
  <2>1. CASE CallStep(c)
    BY <1>1, <2>1 DEF CallStep, ClientStep, SignerStep, AnswerStep, Invoke, GetAccounts,
       AnswerAccount, UseAccount, Sign, NextRpc, Simulate, AnswerBroadcast,
       AfterBroadcast, WakeUp, AnswerGetTx, AfterGetTx, Await, Settle, Answered, Sleep,
       Local, LocalOf, TypeOK, AnswersHold
  <2> QED
    BY <1>1, <2>1, OthersUntouched, ClockAndNodeTouchNoCall DEF AnswersHold
<1>6. opts'[c].broadcastMode = "Sync" /\ pc'[c] = "broadcast" /\ reply'[c] = "ok"
        => txRaw'[c] \in Accepted'
  <2>1. CASE AnswerBroadcast(c)
    BY <1>1, <2>1 DEF AnswerBroadcast, Answered, Admit, Accepted, AnswersHold,
                      Local, TypeOK
  <2>2. CASE CallStep(c) /\ ~AnswerBroadcast(c)
    BY <1>1, <2>2 DEF CallStep, ClientStep, SignerStep, AnswerStep, Invoke, GetAccounts,
       AnswerAccount, UseAccount, Sign, NextRpc, Simulate, AfterBroadcast, WakeUp,
       AnswerGetTx, AfterGetTx, Await, Settle, Answered, Sleep, Local, LocalOf, TypeOK
  <2> QED
    BY <1>1, <2>1, <2>2, OthersUntouched, ClockAndNodeTouchNoCall DEF AnswersHold
<1> QED BY <1>3, <1>4, <1>5, <1>6 DEF AnswersHold

LEMMA ResolvedNext ==
  ASSUME Local, SequencesInOrder, \A c \in Calls : AnswersHold(c),
         ResolvedTxIsOnChain, [Next]_vars
  PROVE  ResolvedTxIsOnChain'
<1> SUFFICES ASSUME NEW c \in Calls, outcome'[c] = "tx"
             PROVE  txRaw'[c] \in ledger'
  BY DEF ResolvedTxIsOnChain
<1>1. ledger \subseteq ledger'
  BY NodeMovesForward
<1>2. CASE outcome[c] = "tx"
  <2>1. pc[c] = "settled"
    BY <1>2 DEF Local, LocalOf
  <2> QED BY <1>1, <1>2, <2>1, SignedOnce DEF ResolvedTxIsOnChain
<1>3. CASE outcome[c] # "tx"
  <2>1. CallStep(c)
    BY <1>3, OthersUntouched, ClockAndNodeTouchNoCall
  <2>2. AfterGetTx(c) /\ HasResult(c)
    BY <1>3, <2>1 DEF CallStep, ClientStep, SignerStep, AnswerStep, Invoke,
       GetAccounts, AnswerAccount, UseAccount, Sign, NextRpc, Simulate,
       AnswerBroadcast, AfterBroadcast, WakeUp, AnswerGetTx, AfterGetTx, Await,
       Settle, Answered, Sleep, Local, TypeOK
  <2>3. txRaw'[c] = txRaw[c] /\ txRaw[c] \in ledger
    BY <2>2 DEF AfterGetTx, HasResult, AnswersHold
  <2> QED BY <1>1, <2>3
<1> QED BY <1>2, <1>3

\* The call polls, or ended with what only follows polling or acceptance.
PastAcceptance(c) ==
  pc[c] \in {"sleep", "getTx"} \/ outcome[c] \in {"tx", "hash", "timeout"}

LEMMA SyncNext ==
  ASSUME Local, SequencesInOrder, \A c \in Calls : AnswersHold(c),
         SyncMeansAccepted, [Next]_vars
  PROVE  SyncMeansAccepted'
<1> SUFFICES ASSUME NEW c \in Calls, opts'[c].method = "broadcast",
                    opts'[c].broadcastMode = "Sync", PastAcceptance(c)'
             PROVE  txRaw'[c] \in Accepted'
  BY DEF SyncMeansAccepted, PastAcceptance, Accepted
<1>1. Accepted \subseteq Accepted' /\ opts' = opts
  BY NodeMovesForward, ArgumentsAreFixed
<1>2. CASE PastAcceptance(c)
  <2>1. pc[c] # "signing"
    BY <1>2 DEF PastAcceptance, Local, LocalOf
  <2>2. txRaw[c] \in Accepted
    BY <1>1, <1>2 DEF SyncMeansAccepted, PastAcceptance, Accepted
  <2> QED BY <1>1, <2>1, <2>2, SignedOnce
<1>3. CASE ~PastAcceptance(c)
  <2>1. CallStep(c)
    BY <1>3, OthersUntouched, ClockAndNodeTouchNoCall DEF PastAcceptance
  <2>2. AfterBroadcast(c) /\ ~IsRejected(c) /\ reply[c] # "failed"
    BY <1>3, <2>1 DEF PastAcceptance, CallStep, ClientStep, SignerStep, AnswerStep,
       Invoke, GetAccounts, AnswerAccount, UseAccount, Sign, NextRpc, Simulate,
       AnswerBroadcast, AfterBroadcast, WakeUp, AnswerGetTx, AfterGetTx, Await,
       Settle, Answered, Sleep, Local, LocalOf, TypeOK
  <2>3. pc[c] = "broadcast" /\ reply[c] = "ok" /\ txRaw' = txRaw
    BY <1>1, <2>2 DEF AfterBroadcast, IsRejected, Local, LocalOf
  <2> QED BY <1>1, <2>3 DEF AnswersHold
<1> QED BY <1>2, <1>3

LEMMA InvInit == Init => Inv
<1> SUFFICES ASSUME Init
             PROVE  Inv
  OBVIOUS
<1>1. Local
  BY LocalInit
<1>2. SequencesInOrder
  BY InitialSequenceIsNat DEF Init, NodeInit, SequencesInOrder
<1>3. \A c \in Calls : AnswersHold(c)
  BY InitialSequenceIsNat, NoneIsNoValue DEF Init, NodeInit, AnswersHold
<1>4. NoPhantomTx /\ ResolvedTxIsOnChain /\ SyncMeansAccepted
  BY DEF Init, NodeInit, NoPhantomTx, ResolvedTxIsOnChain, SyncMeansAccepted
<1> QED BY <1>1, <1>2, <1>3, <1>4 DEF Inv

LEMMA InvNext == Inv /\ [Next]_vars => Inv'
BY LocalNext, OrderNext, PhantomNext, AnswersNext, ResolvedNext, SyncNext DEF Inv

LEMMA InvCorrect == Spec => []Inv
BY InvInit, InvNext, PTL DEF Spec

\* No transaction is in the inbox, the mempool, a block or the node's bin but
\* on behalf of a call that has sent it and has not reported it refused.
THEOREM NoPhantom == Spec => []NoPhantomTx
<1>1. Inv => NoPhantomTx
  BY DEF Inv
<1> QED BY <1>1, InvCorrect, PTL

\* A call that resolved with a Tx has it on the chain, at any later time.
THEOREM ResolvedIsOnChain == Spec => []ResolvedTxIsOnChain
<1>1. Inv => ResolvedTxIsOnChain
  BY DEF Inv
<1> QED BY <1>1, InvCorrect, PTL

\* A sync call polls, gives up polling and hands out a hash only for a
\* transaction that had passed CheckTx.
THEOREM SyncIsAccepted == Spec => []SyncMeansAccepted
<1>1. Inv => SyncMeansAccepted
  BY DEF Inv
<1> QED BY <1>1, InvCorrect, PTL

\* A call that let sign() query the account is never accepted behind another
\* pending transaction of the account.
THEOREM ImplicitIsNext == Spec => []ImplicitTxIsNext
<1>1. Inv => ImplicitTxIsNext
  <2> SUFFICES ASSUME Inv, NEW c \in Calls, ~UsesExplicitData(c), txRaw[c] \in mempool
               PROVE  txRaw[c].sequence = sequence
    BY DEF ImplicitTxIsNext
  <2>1. txRaw[c] \in TxRaws /\ sequence \in Nat /\ txRaw[c].sequence \in Nat
    BY DEF Inv, Local, TypeOK, NodeTypeOK, TxRaws
  <2> QED BY <2>1 DEF Inv, AnswersHold, SequencesInOrder
<1> QED BY <1>1, InvCorrect, PTL

-----------------------------------------------------------------------------
(* Signatures.                                                               *)

\* Whatever memo and fee the signer settles on, what is assembled from its
\* document verifies, if the chain and the account are the right ones and an
\* amino signer left the memo alone.
LEMMA AssembledVerifies ==
  ASSUME NEW mode \in SignModes, NEW req \in Requests, NEW data \in SignerData,
         NEW memo \in Memos, NEW fee \in Fees,
         NEW signed, signed = SignerReturns(MakeSignDoc(mode, req, data), memo, fee),
         data.chainId = ChainId, data.accountNumber = AccountNumber,
         mode = "LEGACY_AMINO_JSON" =>
           Assemble(mode, req, signed).signature.memo = req.memo
  PROVE  Verifies(Assemble(mode, req, signed))
<1>1. signed = [mode |-> mode, messages |-> req.messages, memo |-> memo,
                fee |-> fee, sequence |-> data.sequence,
                accountNumber |-> data.accountNumber, chainId |-> data.chainId]
  BY DEF MakeSignDoc, SignerReturns
<1>2. CASE mode = "DIRECT"
  BY <1>1, <1>2 DEF Assemble, AssembleDirect, Verifies
<1>3. CASE mode = "LEGACY_AMINO_JSON"
  <2>1. memo = req.memo
    BY <1>1, <1>3 DEF Assemble, AssembleAmino
  <2> QED BY <1>1, <1>3, <2>1 DEF Assemble, AssembleAmino, Verifies
<1> QED BY <1>2, <1>3 DEF SignModes

\* A transaction assembled for the right chain and account verifies there.
THEOREM SignatureCovers == Spec => []SignatureCoversTx
<1>1. Init => SignatureCoversTx
  BY DEF Init, SignatureCoversTx
<1>2. Local /\ SignatureCoversTx /\ [Next]_vars => SignatureCoversTx'
  <2> SUFFICES ASSUME Local, SignatureCoversTx, [Next]_vars,
                      NEW c \in Calls, txRaw'[c] # None, RightSignerData(c)',
                      opts'[c].signer = "amino" =>
                        txRaw'[c].signature.memo = opts'[c].request.memo
               PROVE  Verifies(txRaw'[c])
    BY DEF SignatureCoversTx, Verifies
  <2>1. opts' = opts /\ RightSignerData(c)
    BY ArgumentsAreFixed DEF RightSignerData, SignerDataOf, UsesExplicitData
  <2>2. CASE txRaw'[c] = txRaw[c]
    BY <2>1, <2>2 DEF SignatureCoversTx
  <2>3. CASE txRaw'[c] # txRaw[c]
    <3>1. PICK memo \in Memos, fee \in Fees : txRaw'[c] = SignedTx(c, memo, fee)
      BY <2>3, SignedBySigner
    <3>2. SignMode(c) = "LEGACY_AMINO_JSON" => opts[c].signer = "amino"
      <4>1. opts[c].signer \in Signers
        BY CallOptionsType DEF Local, TypeOK
      <4> QED BY <2>3, <4>1, SignedBySigner DEF SignMode, Signers
    <3> QED
      BY <2>1, <3>1, <3>2, CallTypes, AssembledVerifies
         DEF SignedTx, RightSignerData, Local
  <2> QED BY <2>2, <2>3
<1> QED BY <1>1, <1>2, LocalCorrect, PTL DEF Spec

-----------------------------------------------------------------------------
(* Refinement.                                                               *)

Phase == [c \in Calls |-> PhaseOf(c)]

\* What the step of a call means for its caller.  Most steps mean nothing.
PromiseStep(c) ==
  \/ Promise!Open(c) \/ Promise!SignTx(c) \/ Promise!Send(c)
  \/ Promise!Return(c) \/ Promise!LeaveOpen(c) \/ Promise!Fail(c)

LEMMA PhaseMoves ==
  ASSUME Local, NEW c \in Calls, CallStep(c)
  PROVE  Phase' = [Phase EXCEPT ![c] = PhaseOf(c)']
<1>1. \A d \in Calls : d # c => PhaseOf(d)' = PhaseOf(d)
  BY OthersUntouched DEF PhaseOf
<1> QED BY <1>1 DEF Phase

\* The steps before anything is sent.
LEMMA SigningKeepsPromise ==
  ASSUME Inv, NEW c \in Calls, [Next]_vars, CallStep(c),
         Invoke(c) \/ SignerStep(c) \/ UseAccount(c) \/ AnswerAccount(c) \/ Simulate(c)
  PROVE  PromiseStep(c) \/ UNCHANGED <<Phase, txRaw, ledger>>
<1>1. Local /\ Local' /\ Phase' = [Phase EXCEPT ![c] = PhaseOf(c)']
  BY PhaseMoves, LocalNext DEF Inv
<1>2. ledger' = ledger
  BY DEF Invoke, SignerStep, GetAccounts, Sign, UseAccount, AnswerAccount, Simulate,
         nodeVars
<1>3. CASE Invoke(c)
  <2>1. PhaseOf(c) = "idle" /\ PhaseOf(c)' = "open" /\ txRaw' = txRaw
    BY <1>1, <1>3 DEF Invoke, Await, PhaseOf, Local, TypeOK
  <2> QED BY <1>1, <1>2, <2>1 DEF PromiseStep, Promise!Open, Promise!Move, Phase
<1>4. CASE GetAccounts(c) \/ UseAccount(c) \/ AnswerAccount(c) \/ Simulate(c)
  <2>1. PhaseOf(c) = "open" /\ PhaseOf(c)' \in {"open", "inert"} /\ txRaw' = txRaw
    BY <1>1, <1>4 DEF GetAccounts, UseAccount, AnswerAccount, Simulate, Await, Settle,
                      Answered, PhaseOf, Local, LocalOf, TypeOK
  <2>2. CASE PhaseOf(c)' = "open"
    BY <1>1, <1>2, <2>1, <2>2 DEF Phase
  <2>3. CASE PhaseOf(c)' = "inert"
    BY <1>1, <1>2, <2>1, <2>3 DEF PromiseStep, Promise!Fail, Promise!Move, Phase
  <2> QED BY <2>1, <2>2, <2>3
<1>5. CASE Sign(c)
  <2>1. PhaseOf(c) = "open" /\ PhaseOf(c)' \in {"open", "inert"}
    BY <1>1, <1>5 DEF Sign, NextRpc, Await, Settle, PhaseOf, Local, LocalOf, TypeOK
  <2>2. CASE UNCHANGED txRaw
    <3>1. CASE PhaseOf(c)' = "open"
      BY <1>1, <1>2, <2>1, <2>2, <3>1 DEF Phase
    <3>2. CASE PhaseOf(c)' = "inert"
      BY <1>1, <1>2, <2>1, <2>2, <3>2 DEF PromiseStep, Promise!Fail, Promise!Move, Phase
    <3> QED BY <2>1, <3>1, <3>2
  <2>3. ASSUME NEW memo \in Memos, NEW fee \in Fees,
               txRaw' = [txRaw EXCEPT ![c] = SignedTx(c, memo, fee)]
        PROVE  Promise!SignTx(c)
    <3>1. SignedTx(c, memo, fee) \in TxRaws
      BY <1>1, CallTypes, AssembledTx DEF SignedTx, Local
    <3>2. txRaw[c] = None /\ txRaw'[c] = SignedTx(c, memo, fee)
      BY <1>1, <1>5, <2>3 DEF Sign, Local, LocalOf, TypeOK
    <3>3. txRaw' = [txRaw EXCEPT ![c] = txRaw'[c]]
      BY <2>3, <3>2
    <3> QED
      BY <1>1, <1>2, <2>1, <3>1, <3>2, <3>3 DEF Promise!SignTx, Promise!Move, Phase
  <2> QED BY <1>5, <2>2, <2>3 DEF Sign, PromiseStep
<1> QED BY <1>3, <1>4, <1>5 DEF SignerStep

\* The steps that send, and those that tell the caller what became of it.
LEMMA BroadcastingKeepsPromise ==
  ASSUME Inv, NEW c \in Calls, [Next]_vars, CallStep(c),
         \/ AnswerBroadcast(c) \/ AfterBroadcast(c) \/ WakeUp(c)
         \/ AnswerGetTx(c) \/ AfterGetTx(c)
  PROVE  PromiseStep(c) \/ UNCHANGED <<Phase, txRaw, ledger>>
<1>1. Local /\ Local' /\ Phase' = [Phase EXCEPT ![c] = PhaseOf(c)']
  BY PhaseMoves, LocalNext DEF Inv
<1>2. ledger' = ledger /\ txRaw' = txRaw /\ txRaw[c] # None
  BY <1>1, NoneIsNoValue
     DEF AnswerBroadcast, AfterBroadcast, WakeUp, AnswerGetTx, AfterGetTx, Answered,
         nodeVars, Local, LocalOf
<1>3. CASE PhaseOf(c)' = PhaseOf(c)
  BY <1>1, <1>2, <1>3 DEF Phase
<1>4. CASE AnswerBroadcast(c)
  <2>1. PhaseOf(c) = "open" /\ PhaseOf(c)' \in {"open", "sent"}
    BY <1>1, <1>4 DEF AnswerBroadcast, Answered, PhaseOf, Local, TypeOK
  <2> QED BY <1>1, <1>2, <1>3, <2>1 DEF PromiseStep, Promise!Send, Promise!Move, Phase
<1>5. CASE AfterBroadcast(c)
  <2>1. CASE IsRejected(c)
    <3>1. PhaseOf(c) = "open" /\ PhaseOf(c)' = "inert"
      BY <1>1, <1>5, <2>1 DEF AfterBroadcast, IsRejected, Settle, PhaseOf, Local, TypeOK
    <3> QED BY <1>1, <1>2, <3>1 DEF PromiseStep, Promise!Fail, Promise!Move, Phase
  <2>2. CASE ~IsRejected(c)
    <3>1. PhaseOf(c) \in {"open", "sent"} /\ PhaseOf(c)' \in {"sent", "unknown"}
      BY <1>1, <1>5, <2>2 DEF AfterBroadcast, Sleep, Await, Settle, PhaseOf, Local, TypeOK
    <3> QED
      BY <1>1, <1>2, <1>3, <3>1
         DEF PromiseStep, Promise!Send, Promise!LeaveOpen, Promise!Move, Phase
  <2> QED BY <2>1, <2>2
<1>6. CASE WakeUp(c) \/ AnswerGetTx(c)
  BY <1>1, <1>3, <1>6 DEF WakeUp, AnswerGetTx, Await, Answered, PhaseOf, Local, TypeOK
<1>7. CASE AfterGetTx(c)
  <2>1. CASE HasResult(c)
    <3>1. PhaseOf(c) = "sent" /\ PhaseOf(c)' = "executed"
      BY <1>1, <1>7, <2>1 DEF AfterGetTx, HasResult, Settle, PhaseOf, Local, TypeOK
    <3>2. txRaw[c] \in ledger
      BY <1>7, <2>1 DEF AfterGetTx, HasResult, Inv, AnswersHold
    <3> QED BY <1>1, <1>2, <3>1, <3>2 DEF PromiseStep, Promise!Return, Promise!Move, Phase
  <2>2. CASE ~HasResult(c)
    <3>1. PhaseOf(c) = "sent" /\ PhaseOf(c)' \in {"sent", "unknown"}
      BY <1>1, <1>7, <2>2
         DEF AfterGetTx, Sleep, Await, Settle, PhaseOf, Local, TypeOK
    <3> QED
      BY <1>1, <1>2, <1>3, <3>1 DEF PromiseStep, Promise!LeaveOpen, Promise!Move, Phase
  <2> QED BY <2>1, <2>2
<1> QED BY <1>4, <1>5, <1>6, <1>7

\* A block executes a transaction of a call that has let it go.
LEMMA NodeKeepsPromise ==
  ASSUME Inv, NodeStep, [Next]_vars
  PROVE  Promise!Execute \/ UNCHANGED <<Phase, txRaw, ledger>>
<1>1. UNCHANGED <<Phase, txRaw>>
  BY DEF NodeStep, Phase, PhaseOf
<1>2. CASE CommitTx
  <2>1. PICK tx \in mempool : tx.sequence = sequence /\ ledger' = ledger \cup {tx}
    BY <1>2 DEF CommitTx
  <2>2. tx \notin ledger
    BY <2>1 DEF Inv, SequencesInOrder, Local, TypeOK, NodeTypeOK
  <2>3. PICK c \in Calls : Submitted(c) /\ txRaw[c] = tx
    BY <2>1 DEF Inv, NoPhantomTx
  <2>4. PhaseOf(c) \in {"sent", "executed", "unknown"}
    BY <2>3, NoneIsNoValue DEF Submitted, PhaseOf, Inv, Local, LocalOf, TypeOK, PCs
  <2> QED BY <1>1, <2>1, <2>2, <2>3, <2>4 DEF Promise!Execute, Phase
<1>3. CASE CheckQueuedTx \/ EvictTx
  BY <1>1, <1>3 DEF CheckQueuedTx, EvictTx
<1> QED BY <1>2, <1>3 DEF NodeStep, NodeNext

\* The calls and the node implement TxPromise: what a caller concludes from
\* how its promise settled is right, whatever happens between the awaits.
THEOREM Implements == Spec => KeepsPromise
<1>1. Init => Promise!PromiseInit
  BY DEF Init, NodeInit, Promise!PromiseInit, PhaseOf
<1>2. Inv /\ [Next]_vars => [Promise!PromiseNext]_(Promise!promiseVars)
  <2> SUFFICES ASSUME Inv, [Next]_vars
               PROVE  \/ Promise!PromiseNext
                      \/ UNCHANGED <<Phase, txRaw, ledger>>
    BY DEF Promise!promiseVars, Phase
  <2>1. ASSUME NEW c \in Calls, CallStep(c)
        PROVE  PromiseStep(c) \/ UNCHANGED <<Phase, txRaw, ledger>>
    BY <2>1, SigningKeepsPromise, BroadcastingKeepsPromise
       DEF CallStep, ClientStep, AnswerStep
  <2>2. CASE Tick \/ UNCHANGED vars
    <3>1. UNCHANGED <<pc, reply, outcome, txRaw, ledger>>
      BY <2>2 DEF Tick, vars, callVars, nodeVars
    <3>2. Phase' = Phase
      BY <3>1 DEF Phase, PhaseOf
    <3> QED BY <3>1, <3>2
  <2>3. \A c \in Calls : PromiseStep(c) => Promise!PromiseNext
    BY Zenon DEF PromiseStep, Promise!PromiseNext
  <2>4. CASE NodeStep
    BY <2>4, NodeKeepsPromise DEF Promise!PromiseNext
  <2> QED
    BY <2>1, <2>2, <2>3, <2>4 DEF Next
<1> QED BY <1>1, <1>2, InvCorrect, PTL DEF Spec, KeepsPromise, Promise!PromiseSpec

=============================================================================
