----------------------------- MODULE CosmosBank -----------------------------
(****************************************************************************)
(* Schemas of cosmos.bank.                                                  *)
(****************************************************************************)
EXTENDS ProtoSchema

\* cosmos/bank/v1beta1/authz.ts
SendAuthorization == MessageType("cosmos.bank.v1beta1.SendAuthorization", <<
  Repeated(Nested(1, "spend_limit", "cosmos.base.v1beta1.Coin"))>>)

\* cosmos/bank/v1beta1/bank.ts
Params == MessageType("cosmos.bank.v1beta1.Params", <<
  Repeated(Nested(1, "send_enabled", "cosmos.bank.v1beta1.SendEnabled")),
  Bool(2, "default_send_enabled")>>)
SendEnabled == MessageType("cosmos.bank.v1beta1.SendEnabled", <<
  Str(1, "denom"), Bool(2, "enabled")>>)
Input == MessageType("cosmos.bank.v1beta1.Input", <<
  Str(1, "address"),
  Repeated(Nested(2, "coins", "cosmos.base.v1beta1.Coin"))>>)
Output == MessageType("cosmos.bank.v1beta1.Output", <<
  Str(1, "address"),
  Repeated(Nested(2, "coins", "cosmos.base.v1beta1.Coin"))>>)
Supply == MessageType("cosmos.bank.v1beta1.Supply", <<
  Repeated(Nested(1, "total", "cosmos.base.v1beta1.Coin"))>>)
DenomUnit == MessageType("cosmos.bank.v1beta1.DenomUnit", <<
  Str(1, "denom"), Uint32(2, "exponent"), Repeated(Str(3, "aliases"))>>)
Metadata == MessageType("cosmos.bank.v1beta1.Metadata", <<
  Str(1, "description"),
  Repeated(Nested(2, "denom_units", "cosmos.bank.v1beta1.DenomUnit")),
  Str(3, "base"), Str(4, "display"), Str(5, "name"), Str(6, "symbol")>>)

\* cosmos/bank/v1beta1/genesis.ts
GenesisState == MessageType("cosmos.bank.v1beta1.GenesisState", <<
  Nested(1, "params", "cosmos.bank.v1beta1.Params"),
  Repeated(Nested(2, "balances", "cosmos.bank.v1beta1.Balance")),
  Repeated(Nested(3, "supply", "cosmos.base.v1beta1.Coin")),
  Repeated(Nested(4, "denom_metadata", "cosmos.bank.v1beta1.Metadata"))>>)
Balance == MessageType("cosmos.bank.v1beta1.Balance", <<
  Str(1, "address"),
  Repeated(Nested(2, "coins", "cosmos.base.v1beta1.Coin"))>>)

\* cosmos/bank/v1beta1/query.ts
QueryBalanceRequest == MessageType("cosmos.bank.v1beta1.QueryBalanceRequest", <<
  Str(1, "address"), Str(2, "denom")>>)
QueryBalanceResponse == MessageType("cosmos.bank.v1beta1.QueryBalanceResponse", <<
  Nested(1, "balance", "cosmos.base.v1beta1.Coin")>>)
QueryAllBalancesRequest == MessageType("cosmos.bank.v1beta1.QueryAllBalancesRequest", <<
  Str(1, "address"),
  Nested(2, "pagination", "cosmos.base.query.v1beta1.PageRequest")>>)
QueryAllBalancesResponse == MessageType("cosmos.bank.v1beta1.QueryAllBalancesResponse", <<
  Repeated(Nested(1, "balances", "cosmos.base.v1beta1.Coin")),
  Nested(2, "pagination", "cosmos.base.query.v1beta1.PageResponse")>>)
QueryTotalSupplyRequest == MessageType("cosmos.bank.v1beta1.QueryTotalSupplyRequest", <<
  Nested(1, "pagination", "cosmos.base.query.v1beta1.PageRequest")>>)
QueryTotalSupplyResponse == MessageType("cosmos.bank.v1beta1.QueryTotalSupplyResponse", <<
  Repeated(Nested(1, "supply", "cosmos.base.v1beta1.Coin")),
  Nested(2, "pagination", "cosmos.base.query.v1beta1.PageResponse")>>)
QuerySupplyOfRequest == MessageType("cosmos.bank.v1beta1.QuerySupplyOfRequest", <<
  Str(1, "denom")>>)
QuerySupplyOfResponse == MessageType("cosmos.bank.v1beta1.QuerySupplyOfResponse", <<
  Nested(1, "amount", "cosmos.base.v1beta1.Coin")>>)
QueryParamsRequest == MessageType("cosmos.bank.v1beta1.QueryParamsRequest", <<>>)
QueryParamsResponse == MessageType("cosmos.bank.v1beta1.QueryParamsResponse", <<
  Nested(1, "params", "cosmos.bank.v1beta1.Params")>>)
QueryDenomsMetadataRequest == MessageType("cosmos.bank.v1beta1.QueryDenomsMetadataRequest", <<
  Nested(1, "pagination", "cosmos.base.query.v1beta1.PageRequest")>>)
QueryDenomsMetadataResponse == MessageType("cosmos.bank.v1beta1.QueryDenomsMetadataResponse", <<
  Repeated(Nested(1, "metadatas", "cosmos.bank.v1beta1.Metadata")),
  Nested(2, "pagination", "cosmos.base.query.v1beta1.PageResponse")>>)
QueryDenomMetadataRequest == MessageType("cosmos.bank.v1beta1.QueryDenomMetadataRequest", <<
  Str(1, "denom")>>)
QueryDenomMetadataResponse == MessageType("cosmos.bank.v1beta1.QueryDenomMetadataResponse", <<
  Nested(1, "metadata", "cosmos.bank.v1beta1.Metadata")>>)

\* cosmos/bank/v1beta1/tx.ts
MsgSend == MessageType("cosmos.bank.v1beta1.MsgSend", <<
  Str(1, "from_address"), Str(2, "to_address"),
  Repeated(Nested(3, "amount", "cosmos.base.v1beta1.Coin"))>>)
MsgSendResponse == MessageType("cosmos.bank.v1beta1.MsgSendResponse", <<>>)
MsgMultiSend == MessageType("cosmos.bank.v1beta1.MsgMultiSend", <<
  Repeated(Nested(1, "inputs", "cosmos.bank.v1beta1.Input")),
  Repeated(Nested(2, "outputs", "cosmos.bank.v1beta1.Output"))>>)
MsgMultiSendResponse == MessageType("cosmos.bank.v1beta1.MsgMultiSendResponse", <<>>)

Types == {
   SendAuthorization, Params, SendEnabled, Input, Output, Supply,
   DenomUnit, Metadata, GenesisState, Balance, QueryBalanceRequest,
   QueryBalanceResponse, QueryAllBalancesRequest,
   QueryAllBalancesResponse, QueryTotalSupplyRequest,
   QueryTotalSupplyResponse, QuerySupplyOfRequest, QuerySupplyOfResponse,
   QueryParamsRequest, QueryParamsResponse, QueryDenomsMetadataRequest,
   QueryDenomsMetadataResponse, QueryDenomMetadataRequest,
   QueryDenomMetadataResponse, MsgSend, MsgSendResponse, MsgMultiSend,
   MsgMultiSendResponse}
=============================================================================
