------------------------------ MODULE CosmosTx ------------------------------
(****************************************************************************)
(* Schemas of cosmos.tx: transactions, signatures and the transaction       *)
(* service.                                                                 *)
(****************************************************************************)
EXTENDS ProtoSchema

\* cosmos/tx/signing/v1beta1/signing.ts
SignatureDescriptors == MessageType("cosmos.tx.signing.v1beta1.SignatureDescriptors", <<
  Repeated(Nested(1, "signatures", "cosmos.tx.signing.v1beta1.SignatureDescriptor"))>>)
SignatureDescriptor == MessageType("cosmos.tx.signing.v1beta1.SignatureDescriptor", <<
  Nested(1, "public_key", "google.protobuf.Any"),
  Nested(2, "data", "cosmos.tx.signing.v1beta1.SignatureDescriptor.Data"),
  Uint64(3, "sequence")>>)
SignatureDescriptor_Data == MessageType("cosmos.tx.signing.v1beta1.SignatureDescriptor.Data", <<
  OneOf("sum", Nested(1, "single", "cosmos.tx.signing.v1beta1.SignatureDescriptor.Data.Single")),
  OneOf("sum", Nested(2, "multi", "cosmos.tx.signing.v1beta1.SignatureDescriptor.Data.Multi"))>>)
SignatureDescriptor_Data_Single == MessageType("cosmos.tx.signing.v1beta1.SignatureDescriptor.Data.Single", <<
  Enum(1, "mode"), Bytes(2, "signature")>>)
SignatureDescriptor_Data_Multi == MessageType("cosmos.tx.signing.v1beta1.SignatureDescriptor.Data.Multi", <<
  Nested(1, "bitarray", "cosmos.crypto.multisig.v1beta1.CompactBitArray"),
  Repeated(Nested(2, "signatures", "cosmos.tx.signing.v1beta1.SignatureDescriptor.Data"))>>)

\* cosmos/tx/v1beta1/service.ts
GetTxsEventRequest == MessageType("cosmos.tx.v1beta1.GetTxsEventRequest", <<
  Repeated(Str(1, "events")),
  Nested(2, "pagination", "cosmos.base.query.v1beta1.PageRequest"),
  Enum(3, "order_by")>>)
GetTxsEventResponse == MessageType("cosmos.tx.v1beta1.GetTxsEventResponse", <<
  Repeated(Nested(1, "txs", "cosmos.tx.v1beta1.Tx")),
  Repeated(Nested(2, "tx_responses", "cosmos.base.abci.v1beta1.TxResponse")),
  Nested(3, "pagination", "cosmos.base.query.v1beta1.PageResponse")>>)
BroadcastTxRequest == MessageType("cosmos.tx.v1beta1.BroadcastTxRequest", <<
  Bytes(1, "tx_bytes"), Enum(2, "mode")>>)
BroadcastTxResponse == MessageType("cosmos.tx.v1beta1.BroadcastTxResponse", <<
  Nested(1, "tx_response", "cosmos.base.abci.v1beta1.TxResponse")>>)
SimulateRequest == MessageType("cosmos.tx.v1beta1.SimulateRequest", <<
  Nested(1, "tx", "cosmos.tx.v1beta1.Tx"), Bytes(2, "tx_bytes")>>)
SimulateResponse == MessageType("cosmos.tx.v1beta1.SimulateResponse", <<
  Nested(1, "gas_info", "cosmos.base.abci.v1beta1.GasInfo"),
  Nested(2, "result", "cosmos.base.abci.v1beta1.Result")>>)
GetTxRequest == MessageType("cosmos.tx.v1beta1.GetTxRequest", <<
  Str(1, "hash")>>)
GetTxResponse == MessageType("cosmos.tx.v1beta1.GetTxResponse", <<
  Nested(1, "tx", "cosmos.tx.v1beta1.Tx"),
  Nested(2, "tx_response", "cosmos.base.abci.v1beta1.TxResponse")>>)
GetBlockWithTxsRequest == MessageType("cosmos.tx.v1beta1.GetBlockWithTxsRequest", <<
  Int64(1, "height"),
  Nested(2, "pagination", "cosmos.base.query.v1beta1.PageRequest")>>)
GetBlockWithTxsResponse == MessageType("cosmos.tx.v1beta1.GetBlockWithTxsResponse", <<
  Repeated(Nested(1, "txs", "cosmos.tx.v1beta1.Tx")),
  Nested(2, "block_id", "tendermint.types.BlockID"),
  Nested(3, "block", "tendermint.types.Block"),
  Nested(4, "pagination", "cosmos.base.query.v1beta1.PageResponse")>>)

\* cosmos/tx/v1beta1/tx.ts
Tx == MessageType("cosmos.tx.v1beta1.Tx", <<
  Nested(1, "body", "cosmos.tx.v1beta1.TxBody"),
  Nested(2, "auth_info", "cosmos.tx.v1beta1.AuthInfo"),
  Repeated(Bytes(3, "signatures"))>>)
TxRaw == MessageType("cosmos.tx.v1beta1.TxRaw", <<
  Bytes(1, "body_bytes"), Bytes(2, "auth_info_bytes"),
  Repeated(Bytes(3, "signatures"))>>)
SignDoc == MessageType("cosmos.tx.v1beta1.SignDoc", <<
  Bytes(1, "body_bytes"), Bytes(2, "auth_info_bytes"), Str(3, "chain_id"),
  Uint64(4, "account_number")>>)
TxBody == MessageType("cosmos.tx.v1beta1.TxBody", <<
  Repeated(Nested(1, "messages", "google.protobuf.Any")), Str(2, "memo"),
  Uint64(3, "timeout_height"),
  Repeated(Nested(1023, "extension_options", "google.protobuf.Any")),
  Repeated(Nested(2047, "non_critical_extension_options", "google.protobuf.Any"))>>)
AuthInfo == MessageType("cosmos.tx.v1beta1.AuthInfo", <<
  Repeated(Nested(1, "signer_infos", "cosmos.tx.v1beta1.SignerInfo")),
  Nested(2, "fee", "cosmos.tx.v1beta1.Fee")>>)
SignerInfo == MessageType("cosmos.tx.v1beta1.SignerInfo", <<
  Nested(1, "public_key", "google.protobuf.Any"),
  Nested(2, "mode_info", "cosmos.tx.v1beta1.ModeInfo"),
  Uint64(3, "sequence")>>)
ModeInfo == MessageType("cosmos.tx.v1beta1.ModeInfo", <<
  OneOf("sum", Nested(1, "single", "cosmos.tx.v1beta1.ModeInfo.Single")),
  OneOf("sum", Nested(2, "multi", "cosmos.tx.v1beta1.ModeInfo.Multi"))>>)
ModeInfo_Single == MessageType("cosmos.tx.v1beta1.ModeInfo.Single", <<
  Enum(1, "mode")>>)
ModeInfo_Multi == MessageType("cosmos.tx.v1beta1.ModeInfo.Multi", <<
  Nested(1, "bitarray", "cosmos.crypto.multisig.v1beta1.CompactBitArray"),
  Repeated(Nested(2, "mode_infos", "cosmos.tx.v1beta1.ModeInfo"))>>)
Fee == MessageType("cosmos.tx.v1beta1.Fee", <<
  Repeated(Nested(1, "amount", "cosmos.base.v1beta1.Coin")),
  Uint64(2, "gas_limit"), Str(3, "payer"), Str(4, "granter")>>)

Types == {
   SignatureDescriptors, SignatureDescriptor, SignatureDescriptor_Data,
   SignatureDescriptor_Data_Single, SignatureDescriptor_Data_Multi,
   GetTxsEventRequest, GetTxsEventResponse, BroadcastTxRequest,
   BroadcastTxResponse, SimulateRequest, SimulateResponse, GetTxRequest,
   GetTxResponse, GetBlockWithTxsRequest, GetBlockWithTxsResponse, Tx,
   TxRaw, SignDoc, TxBody, AuthInfo, SignerInfo, ModeInfo,
   ModeInfo_Single, ModeInfo_Multi, Fee}
=============================================================================
