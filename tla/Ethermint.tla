----------------------------- MODULE Ethermint -----------------------------
(****************************************************************************)
(* Schemas of ethermint.evm, ethermint.feemarket and ethermint.types.       *)
(****************************************************************************)
EXTENDS ProtoSchema

\* ethermint/evm/v1/evm.ts
Params == MessageType("ethermint.evm.v1.Params", <<
  Str(1, "evm_denom"), Bool(2, "enable_create"), Bool(3, "enable_call"),
  Packed(Int64(4, "extra_eips")),
  Nested(5, "chain_config", "ethermint.evm.v1.ChainConfig")>>)
ChainConfig == MessageType("ethermint.evm.v1.ChainConfig", <<
  Str(1, "homestead_block"), Str(2, "dao_fork_block"),
  Bool(3, "dao_fork_support"), Str(4, "eip150_block"), Str(5, "eip150_hash"),
  Str(6, "eip155_block"), Str(7, "eip158_block"), Str(8, "byzantium_block"),
  Str(9, "constantinople_block"), Str(10, "petersburg_block"),
  Str(11, "istanbul_block"), Str(12, "muir_glacier_block"),
  Str(13, "berlin_block"), Str(17, "london_block"),
  Str(18, "arrow_glacier_block"), Str(19, "merge_fork_block")>>)
State == MessageType("ethermint.evm.v1.State", <<
  Str(1, "key"), Str(2, "value")>>)
TransactionLogs == MessageType("ethermint.evm.v1.TransactionLogs", <<
  Str(1, "hash"), Repeated(Nested(2, "logs", "ethermint.evm.v1.Log"))>>)
Log == MessageType("ethermint.evm.v1.Log", <<
  Str(1, "address"), Repeated(Str(2, "topics")), Bytes(3, "data"),
  Uint64(4, "block_number"), Str(5, "tx_hash"), Uint64(6, "tx_index"),
  Str(7, "block_hash"), Uint64(8, "index"), Bool(9, "removed")>>)
TxResult == MessageType("ethermint.evm.v1.TxResult", <<
  Str(1, "contract_address"), Bytes(2, "bloom"),
  Nested(3, "tx_logs", "ethermint.evm.v1.TransactionLogs"), Bytes(4, "ret"),
  Bool(5, "reverted"), Uint64(6, "gas_used")>>)
AccessTuple == MessageType("ethermint.evm.v1.AccessTuple", <<
  Str(1, "address"), Repeated(Str(2, "storage_keys"))>>)
TraceConfig == MessageType("ethermint.evm.v1.TraceConfig", <<
  Str(1, "tracer"), Str(2, "timeout"), Uint64(3, "reexec"),
  Bool(5, "disable_stack"), Bool(6, "disable_storage"), Bool(8, "debug"),
  Int32(9, "limit"), Nested(10, "overrides", "ethermint.evm.v1.ChainConfig"),
  Bool(11, "enable_memory"), Bool(12, "enable_return_data")>>)

\* ethermint/evm/v1/genesis.ts
GenesisState == MessageType("ethermint.evm.v1.GenesisState", <<
  Repeated(Nested(1, "accounts", "ethermint.evm.v1.GenesisAccount")),
  Nested(2, "params", "ethermint.evm.v1.Params")>>)
GenesisAccount == MessageType("ethermint.evm.v1.GenesisAccount", <<
  Str(1, "address"), Str(2, "code"),
  Repeated(Nested(3, "storage", "ethermint.evm.v1.State"))>>)

\* ethermint/evm/v1/query.ts
QueryAccountRequest == MessageType("ethermint.evm.v1.QueryAccountRequest", <<
  Str(1, "address")>>)
QueryAccountResponse == MessageType("ethermint.evm.v1.QueryAccountResponse", <<
  Str(1, "balance"), Str(2, "code_hash"), Uint64(3, "nonce")>>)
QueryCosmosAccountRequest == MessageType("ethermint.evm.v1.QueryCosmosAccountRequest", <<
  Str(1, "address")>>)
QueryCosmosAccountResponse == MessageType("ethermint.evm.v1.QueryCosmosAccountResponse", <<
  Str(1, "cosmos_address"), Uint64(2, "sequence"),
  Uint64(3, "account_number")>>)
QueryValidatorAccountRequest == MessageType("ethermint.evm.v1.QueryValidatorAccountRequest", <<
  Str(1, "cons_address")>>)
QueryValidatorAccountResponse == MessageType("ethermint.evm.v1.QueryValidatorAccountResponse", <<
  Str(1, "account_address"), Uint64(2, "sequence"),
  Uint64(3, "account_number")>>)
QueryBalanceRequest == MessageType("ethermint.evm.v1.QueryBalanceRequest", <<
  Str(1, "address")>>)
QueryBalanceResponse == MessageType("ethermint.evm.v1.QueryBalanceResponse", <<
  Str(1, "balance")>>)
QueryStorageRequest == MessageType("ethermint.evm.v1.QueryStorageRequest", <<
  Str(1, "address"), Str(2, "key")>>)
QueryStorageResponse == MessageType("ethermint.evm.v1.QueryStorageResponse", <<
  Str(1, "value")>>)
QueryCodeRequest == MessageType("ethermint.evm.v1.QueryCodeRequest", <<
  Str(1, "address")>>)
QueryCodeResponse == MessageType("ethermint.evm.v1.QueryCodeResponse", <<
  Bytes(1, "code")>>)
QueryTxLogsRequest == MessageType("ethermint.evm.v1.QueryTxLogsRequest", <<
  Str(1, "hash"),
  Nested(2, "pagination", "cosmos.base.query.v1beta1.PageRequest")>>)
QueryTxLogsResponse == MessageType("ethermint.evm.v1.QueryTxLogsResponse", <<
  Repeated(Nested(1, "logs", "ethermint.evm.v1.Log")),
  Nested(2, "pagination", "cosmos.base.query.v1beta1.PageResponse")>>)
QueryParamsRequest == MessageType("ethermint.evm.v1.QueryParamsRequest", <<>>)
QueryParamsResponse == MessageType("ethermint.evm.v1.QueryParamsResponse", <<
  Nested(1, "params", "ethermint.evm.v1.Params")>>)
EthCallRequest == MessageType("ethermint.evm.v1.EthCallRequest", <<
  Bytes(1, "args"), Uint64(2, "gas_cap")>>)
EstimateGasResponse == MessageType("ethermint.evm.v1.EstimateGasResponse", <<
  Uint64(1, "gas")>>)
QueryTraceTxRequest == MessageType("ethermint.evm.v1.QueryTraceTxRequest", <<
  Nested(1, "msg", "ethermint.evm.v1.MsgEthereumTx"), Uint64(2, "tx_index"),
  Nested(3, "trace_config", "ethermint.evm.v1.TraceConfig"),
  Repeated(Nested(4, "predecessors", "ethermint.evm.v1.MsgEthereumTx")),
  Int64(5, "block_number"), Str(6, "block_hash"),
  Nested(7, "block_time", "google.protobuf.Timestamp")>>)
QueryTraceTxResponse == MessageType("ethermint.evm.v1.QueryTraceTxResponse", <<
  Bytes(1, "data")>>)
QueryTraceBlockRequest == MessageType("ethermint.evm.v1.QueryTraceBlockRequest", <<
  Repeated(Nested(1, "txs", "ethermint.evm.v1.MsgEthereumTx")),
  Nested(3, "trace_config", "ethermint.evm.v1.TraceConfig"),
  Int64(5, "block_number"), Str(6, "block_hash"),
  Nested(7, "block_time", "google.protobuf.Timestamp")>>)
QueryTraceBlockResponse == MessageType("ethermint.evm.v1.QueryTraceBlockResponse", <<
  Bytes(1, "data")>>)

\* ethermint/evm/v1/tx.ts
MsgEthereumTx == MessageType("ethermint.evm.v1.MsgEthereumTx", <<
  Nested(1, "data", "google.protobuf.Any"), Double(2, "size"), Str(3, "hash"),
  Str(4, "from")>>)
LegacyTx == MessageType("ethermint.evm.v1.LegacyTx", <<
  Uint64(1, "nonce"), Str(2, "gas_price"), Uint64(3, "gas"), Str(4, "to"),
  Str(5, "value"), Bytes(6, "data"), Bytes(7, "v"), Bytes(8, "r"),
  Bytes(9, "s")>>)
AccessListTx == MessageType("ethermint.evm.v1.AccessListTx", <<
  Str(1, "chain_id"), Uint64(2, "nonce"), Str(3, "gas_price"),
  Uint64(4, "gas"), Str(5, "to"), Str(6, "value"), Bytes(7, "data"),
  Repeated(Nested(8, "accesses", "ethermint.evm.v1.AccessTuple")),
  Bytes(9, "v"), Bytes(10, "r"), Bytes(11, "s")>>)
DynamicFeeTx == MessageType("ethermint.evm.v1.DynamicFeeTx", <<
  Str(1, "chain_id"), Uint64(2, "nonce"), Str(3, "gas_tip_cap"),
  Str(4, "gas_fee_cap"), Uint64(5, "gas"), Str(6, "to"), Str(7, "value"),
  Bytes(8, "data"),
  Repeated(Nested(9, "accesses", "ethermint.evm.v1.AccessTuple")),
  Bytes(10, "v"), Bytes(11, "r"), Bytes(12, "s")>>)
ExtensionOptionsEthereumTx == MessageType("ethermint.evm.v1.ExtensionOptionsEthereumTx", <<>>)
MsgEthereumTxResponse == MessageType("ethermint.evm.v1.MsgEthereumTxResponse", <<
  Str(1, "hash"), Repeated(Nested(2, "logs", "ethermint.evm.v1.Log")),
  Bytes(3, "ret"), Str(4, "vm_error"), Uint64(5, "gas_used")>>)

\* ethermint/feemarket/v1/feemarket.ts
FeemarketParams == MessageType("ethermint.feemarket.v1.Params", <<
  Bool(1, "no_base_fee"), Uint32(2, "base_fee_change_denominator"),
  Uint32(3, "elasticity_multiplier"), Int64(5, "enable_height"),
  Str(6, "base_fee")>>)

\* ethermint/feemarket/v1/genesis.ts
FeemarketGenesisState == MessageType("ethermint.feemarket.v1.GenesisState", <<
  Nested(1, "params", "ethermint.feemarket.v1.Params"),
  Uint64(3, "block_gas")>>)

\* ethermint/feemarket/v1/query.ts
FeemarketQueryParamsRequest == MessageType("ethermint.feemarket.v1.QueryParamsRequest", <<>>)
FeemarketQueryParamsResponse == MessageType("ethermint.feemarket.v1.QueryParamsResponse", <<
  Nested(1, "params", "ethermint.feemarket.v1.Params")>>)
QueryBaseFeeRequest == MessageType("ethermint.feemarket.v1.QueryBaseFeeRequest", <<>>)
QueryBaseFeeResponse == MessageType("ethermint.feemarket.v1.QueryBaseFeeResponse", <<
  Str(1, "base_fee")>>)
QueryBlockGasRequest == MessageType("ethermint.feemarket.v1.QueryBlockGasRequest", <<>>)
QueryBlockGasResponse == MessageType("ethermint.feemarket.v1.QueryBlockGasResponse", <<
  Int64(1, "gas")>>)

\* ethermint/types/v1/account.ts
EthAccount == MessageType("ethermint.types.v1.EthAccount", <<
  Nested(1, "base_account", "cosmos.auth.v1beta1.BaseAccount"),
  Str(2, "code_hash")>>)

\* ethermint/types/v1/web3.ts
ExtensionOptionsWeb3Tx == MessageType("ethermint.types.v1.ExtensionOptionsWeb3Tx", <<
  Uint64(1, "typed_data_chain_id"), Str(2, "fee_payer"),
  Bytes(3, "fee_payer_sig")>>)

Types == {
   Params, ChainConfig, State, TransactionLogs, Log, TxResult,
   AccessTuple, TraceConfig, GenesisState, GenesisAccount,
   QueryAccountRequest, QueryAccountResponse, QueryCosmosAccountRequest,
   QueryCosmosAccountResponse, QueryValidatorAccountRequest,
   QueryValidatorAccountResponse, QueryBalanceRequest,
   QueryBalanceResponse, QueryStorageRequest, QueryStorageResponse,
   QueryCodeRequest, QueryCodeResponse, QueryTxLogsRequest,
   QueryTxLogsResponse, QueryParamsRequest, QueryParamsResponse,
   EthCallRequest, EstimateGasResponse, QueryTraceTxRequest,
   QueryTraceTxResponse, QueryTraceBlockRequest, QueryTraceBlockResponse,
   MsgEthereumTx, LegacyTx, AccessListTx, DynamicFeeTx,
   ExtensionOptionsEthereumTx, MsgEthereumTxResponse, FeemarketParams,
   FeemarketGenesisState, FeemarketQueryParamsRequest,
   FeemarketQueryParamsResponse, QueryBaseFeeRequest,
   QueryBaseFeeResponse, QueryBlockGasRequest, QueryBlockGasResponse,
   EthAccount, ExtensionOptionsWeb3Tx}
=============================================================================
