------------------------------ MODULE TxSigning ------------------------------
(***************************************************************************)
(* How MerlionClient turns a request into a signed transaction, and what   *)
(* the chain checks of it.                                                 *)
(*                                                                         *)
(* The two sign docs of the code carry the same seven facts: the protobuf  *)
(* SignDoc spreads them over bodyBytes (messages, memo) and authInfoBytes  *)
(* (sequence, fee, mode), the amino StdSignDoc names them one by one.  A   *)
(* signature is identified with the document it signs, so that verifying   *)
(* it is rebuilding that document from the transaction and comparing.      *)
(***************************************************************************)
EXTENDS Integers

CONSTANTS
  Messages,        \* what a caller asks to be executed (the whole Msg[] list)
  Memos,           \* notes attached to a transaction
  Fees,            \* StdFee values: gas limit and amount together
  ChainIds,
  AccountNumbers,
  ChainId,         \* the chain id of the node that is talked to
  AccountNumber,   \* the account's number on that chain
  ClientChainId,   \* CreateOptions.chainId
  None             \* no value (undefined)

ASSUME ChainConstants ==
  /\ ChainId \in ChainIds
  /\ ClientChainId \in ChainIds
  /\ AccountNumber \in AccountNumbers

\* SIGN_MODE_DIRECT (1) and SIGN_MODE_LEGACY_AMINO_JSON (127).
SignModes == {"DIRECT", "LEGACY_AMINO_JSON"}

SignerData == [accountNumber: AccountNumbers, sequence: Nat, chainId: ChainIds]

\* The part of a call that ends up inside the transaction.
Requests == [messages: Messages, memo: Memos, fee: Fees]

SignDocs == [mode: SignModes, messages: Messages, memo: Memos, fee: Fees,
             sequence: Nat, accountNumber: AccountNumbers, chainId: ChainIds]

TxRaws == [mode: SignModes, messages: Messages, memo: Memos, fee: Fees,
           sequence: Nat, signature: SignDocs]

ASSUME NoneIsNoValue == None \notin SignerData /\ None \notin TxRaws

\* makeSignDocProto over encodeTx and makeAuthInfoBytes, or makeSignDocAmino.
MakeSignDoc(mode, req, data) ==
  [mode |-> mode, messages |-> req.messages, memo |-> req.memo,
   fee |-> req.fee, sequence |-> data.sequence,
   accountNumber |-> data.accountNumber, chainId |-> data.chainId]

\* External: the wallet may show the document to its user, who may change the
\* memo and the fee before signing ("This may be different from the input
\* signDoc when the signer modifies it as part of the signing process").
SignerReturns(doc, memo, fee) == [doc EXCEPT !.memo = memo, !.fee = fee]

\* signDirect sends back the very bytes the signer says it signed.
AssembleDirect(signed) ==
  [mode |-> "DIRECT", messages |-> signed.messages, memo |-> signed.memo,
   fee |-> signed.fee, sequence |-> signed.sequence, signature |-> signed]

\* Faulty variant: the transaction names the fee of the request.
AssembleAminoUnsignedFee(req, signed) ==
  [mode |-> "LEGACY_AMINO_JSON", messages |-> req.messages, memo |-> req.memo,
   fee |-> req.fee, sequence |-> signed.sequence, signature |-> signed]

\* signAmino takes fee and sequence from the signed document, but rebuilds the
\* body from the messages and the memo of the request.
AssembleAmino(req, signed) ==
  [mode |-> "LEGACY_AMINO_JSON", messages |-> req.messages, memo |-> req.memo,
   fee |-> signed.fee, sequence |-> signed.sequence, signature |-> signed]

Assemble(mode, req, signed) ==
  IF mode = "DIRECT" THEN AssembleDirect(signed) ELSE AssembleAmino(req, signed)

\* External: the chain rebuilds the signed document from the transaction and
\* from what it knows itself, the chain id and the account number.
Verifies(tx) ==
  tx.signature = [mode |-> tx.mode, messages |-> tx.messages, memo |-> tx.memo,
                  fee |-> tx.fee, sequence |-> tx.sequence,
                  accountNumber |-> AccountNumber, chainId |-> ChainId]
=============================================================================
