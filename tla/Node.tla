-------------------------------- MODULE Node ---------------------------------
(***************************************************************************)
(* External: the node behind the gRPC-web endpoint, reduced to what         *)
(* client.ts can tell of it, for the one account that signs.  It keeps the *)
(* account's sequence of the last block (the one auth.account reports),    *)
(* the sequence its mempool expects next, the transactions on their way to *)
(* the mempool, in it, and in blocks.                                      *)
(***************************************************************************)
EXTENDS TxSigning

CONSTANT InitialSequence     \* the account's sequence when the story starts

ASSUME InitialSequenceIsNat == InitialSequence \in Nat

VARIABLES
  sequence,        \* account sequence in the last committed block
  checkSequence,   \* account sequence after every transaction of the mempool
  inbox,           \* transactions received, CheckTx not run yet
  mempool,         \* transactions that passed CheckTx
  ledger,          \* transactions in blocks that tx.hash queries find
  dropped          \* transactions that were in the mempool and fell out of it

nodeVars == <<sequence, checkSequence, inbox, mempool, ledger, dropped>>

NodeTypeOK ==
  /\ sequence \in Nat
  /\ checkSequence \in Nat
  /\ inbox \subseteq TxRaws
  /\ mempool \subseteq TxRaws
  /\ ledger \subseteq TxRaws
  /\ dropped \subseteq TxRaws

NodeInit ==
  /\ sequence = InitialSequence
  /\ checkSequence = InitialSequence
  /\ inbox = {}
  /\ mempool = {}
  /\ ledger = {}
  /\ dropped = {}

\* The node still remembers these bytes: they are refused before CheckTx runs
\* (TxResultCode.ErrTxInMempoolCache).
InCache(tx) == tx \in mempool \cup ledger

\* CheckTx: the signature verifies (else ErrUnauthorized) and the sequence is
\* the one expected (else ErrWrongSequence).
PassesCheckTx(tx) == Verifies(tx) /\ tx.sequence = checkSequence

Admit(tx) ==
  /\ PassesCheckTx(tx)
  /\ mempool' = mempool \cup {tx}
  /\ checkSequence' = checkSequence + 1

\* CheckTx of a transaction nobody waits for: sent in async mode, or sent by a
\* request whose answer was lost.
CheckQueuedTx ==
  \E tx \in inbox :
    /\ inbox' = inbox \ {tx}
    /\ \/ Admit(tx)
       \/ UNCHANGED <<checkSequence, mempool>>
    /\ UNCHANGED <<sequence, ledger, dropped>>

\* A block takes the account's next transaction; whether its messages succeed
\* or fail, it is on the chain and its sequence is spent.
CommitTx ==
  \E tx \in mempool :
    /\ tx.sequence = sequence
    /\ sequence' = sequence + 1
    /\ mempool' = mempool \ {tx}
    /\ ledger' = ledger \cup {tx}
    /\ UNCHANGED <<checkSequence, inbox, dropped>>

\* A transaction is evicted unincluded (expiry, a failed recheck); those that
\* build on its sequence fall with it.
EvictTx ==
  \E tx \in mempool :
    LET fallen == {u \in mempool : u.sequence >= tx.sequence} IN
    /\ mempool' = mempool \ fallen
    /\ dropped' = dropped \cup fallen
    /\ checkSequence' = tx.sequence
    /\ UNCHANGED <<sequence, inbox, ledger>>

NodeNext == CheckQueuedTx \/ CommitTx \/ EvictTx
=============================================================================
