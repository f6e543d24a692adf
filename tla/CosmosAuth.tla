----------------------------- MODULE CosmosAuth -----------------------------
(****************************************************************************)
(* Schemas of cosmos.auth, cosmos.authz and cosmos.vesting.                 *)
(****************************************************************************)
EXTENDS ProtoSchema

\* cosmos/auth/v1beta1/auth.ts
BaseAccount == MessageType("cosmos.auth.v1beta1.BaseAccount", <<
  Str(1, "address"), Nested(2, "pub_key", "google.protobuf.Any"),
  Uint64(3, "account_number"), Uint64(4, "sequence")>>)
ModuleAccount == MessageType("cosmos.auth.v1beta1.ModuleAccount", <<
  Nested(1, "base_account", "cosmos.auth.v1beta1.BaseAccount"), Str(2, "name"),
  Repeated(Str(3, "permissions"))>>)
Params == MessageType("cosmos.auth.v1beta1.Params", <<
  Uint64(1, "max_memo_characters"), Uint64(2, "tx_sig_limit"),
  Uint64(3, "tx_size_cost_per_byte"), Uint64(4, "sig_verify_cost_ed25519"),
  Uint64(5, "sig_verify_cost_secp256k1")>>)

\* cosmos/auth/v1beta1/genesis.ts
GenesisState == MessageType("cosmos.auth.v1beta1.GenesisState", <<
  Nested(1, "params", "cosmos.auth.v1beta1.Params"),
  Repeated(Nested(2, "accounts", "google.protobuf.Any"))>>)

\* cosmos/auth/v1beta1/query.ts
QueryAccountsRequest == MessageType("cosmos.auth.v1beta1.QueryAccountsRequest", <<
  Nested(1, "pagination", "cosmos.base.query.v1beta1.PageRequest")>>)
QueryAccountsResponse == MessageType("cosmos.auth.v1beta1.QueryAccountsResponse", <<
  Repeated(Nested(1, "accounts", "google.protobuf.Any")),
  Nested(2, "pagination", "cosmos.base.query.v1beta1.PageResponse")>>)
QueryAccountRequest == MessageType("cosmos.auth.v1beta1.QueryAccountRequest", <<
  Str(1, "address")>>)
QueryAccountResponse == MessageType("cosmos.auth.v1beta1.QueryAccountResponse", <<
  Nested(1, "account", "google.protobuf.Any")>>)
QueryParamsRequest == MessageType("cosmos.auth.v1beta1.QueryParamsRequest", <<>>)
QueryParamsResponse == MessageType("cosmos.auth.v1beta1.QueryParamsResponse", <<
  Nested(1, "params", "cosmos.auth.v1beta1.Params")>>)

\* cosmos/authz/v1beta1/authz.ts
GenericAuthorization == MessageType("cosmos.authz.v1beta1.GenericAuthorization", <<
  Str(1, "msg")>>)
Grant == MessageType("cosmos.authz.v1beta1.Grant", <<
  Nested(1, "authorization", "google.protobuf.Any"),
  Nested(2, "expiration", "google.protobuf.Timestamp")>>)

\* cosmos/authz/v1beta1/event.ts
EventGrant == MessageType("cosmos.authz.v1beta1.EventGrant", <<
  Str(2, "msg_type_url"), Str(3, "granter"), Str(4, "grantee")>>)
EventRevoke == MessageType("cosmos.authz.v1beta1.EventRevoke", <<
  Str(2, "msg_type_url"), Str(3, "granter"), Str(4, "grantee")>>)

\* cosmos/authz/v1beta1/genesis.ts
AuthzGenesisState == MessageType("cosmos.authz.v1beta1.GenesisState", <<
  Repeated(Nested(1, "authorization", "cosmos.authz.v1beta1.GrantAuthorization"))>>)
GrantAuthorization == MessageType("cosmos.authz.v1beta1.GrantAuthorization", <<
  Str(1, "granter"), Str(2, "grantee"),
  Nested(3, "authorization", "google.protobuf.Any"),
  Nested(4, "expiration", "google.protobuf.Timestamp")>>)

\* cosmos/authz/v1beta1/query.ts
QueryGrantsRequest == MessageType("cosmos.authz.v1beta1.QueryGrantsRequest", <<
  Str(1, "granter"), Str(2, "grantee"), Str(3, "msg_type_url"),
  Nested(4, "pagination", "cosmos.base.query.v1beta1.PageRequest")>>)
QueryGrantsResponse == MessageType("cosmos.authz.v1beta1.QueryGrantsResponse", <<
  Repeated(Nested(1, "grants", "cosmos.authz.v1beta1.Grant")),
  Nested(2, "pagination", "cosmos.base.query.v1beta1.PageResponse")>>)

\* cosmos/authz/v1beta1/tx.ts
MsgGrant == MessageType("cosmos.authz.v1beta1.MsgGrant", <<
  Str(1, "granter"), Str(2, "grantee"),
  Nested(3, "grant", "cosmos.authz.v1beta1.Grant")>>)
MsgExecResponse == MessageType("cosmos.authz.v1beta1.MsgExecResponse", <<
  Repeated(Bytes(1, "results"))>>)
MsgExec == MessageType("cosmos.authz.v1beta1.MsgExec", <<
  Str(1, "grantee"), Repeated(Nested(2, "msgs", "google.protobuf.Any"))>>)
MsgGrantResponse == MessageType("cosmos.authz.v1beta1.MsgGrantResponse", <<>>)
MsgRevoke == MessageType("cosmos.authz.v1beta1.MsgRevoke", <<
  Str(1, "granter"), Str(2, "grantee"), Str(3, "msg_type_url")>>)
MsgRevokeResponse == MessageType("cosmos.authz.v1beta1.MsgRevokeResponse", <<>>)

\* cosmos/vesting/v1beta1/tx.ts
MsgCreateVestingAccount == MessageType("cosmos.vesting.v1beta1.MsgCreateVestingAccount", <<
  Str(1, "from_address"), Str(2, "to_address"),
  Repeated(Nested(3, "amount", "cosmos.base.v1beta1.Coin")),
  Int64(4, "end_time"), Bool(5, "delayed")>>)
MsgCreateVestingAccountResponse == MessageType("cosmos.vesting.v1beta1.MsgCreateVestingAccountResponse", <<>>)

\* cosmos/vesting/v1beta1/vesting.ts
BaseVestingAccount == MessageType("cosmos.vesting.v1beta1.BaseVestingAccount", <<
  Nested(1, "base_account", "cosmos.auth.v1beta1.BaseAccount"),
  Repeated(Nested(2, "original_vesting", "cosmos.base.v1beta1.Coin")),
  Repeated(Nested(3, "delegated_free", "cosmos.base.v1beta1.Coin")),
  Repeated(Nested(4, "delegated_vesting", "cosmos.base.v1beta1.Coin")),
  Int64(5, "end_time")>>)
ContinuousVestingAccount == MessageType("cosmos.vesting.v1beta1.ContinuousVestingAccount", <<
  Nested(1, "base_vesting_account", "cosmos.vesting.v1beta1.BaseVestingAccount"),
  Int64(2, "start_time")>>)
DelayedVestingAccount == MessageType("cosmos.vesting.v1beta1.DelayedVestingAccount", <<
  Nested(1, "base_vesting_account", "cosmos.vesting.v1beta1.BaseVestingAccount")>>)
Period == MessageType("cosmos.vesting.v1beta1.Period", <<
  Int64(1, "length"),
  Repeated(Nested(2, "amount", "cosmos.base.v1beta1.Coin"))>>)
PeriodicVestingAccount == MessageType("cosmos.vesting.v1beta1.PeriodicVestingAccount", <<
  Nested(1, "base_vesting_account", "cosmos.vesting.v1beta1.BaseVestingAccount"),
  Int64(2, "start_time"),
  Repeated(Nested(3, "vesting_periods", "cosmos.vesting.v1beta1.Period"))>>)
PermanentLockedAccount == MessageType("cosmos.vesting.v1beta1.PermanentLockedAccount", <<
  Nested(1, "base_vesting_account", "cosmos.vesting.v1beta1.BaseVestingAccount")>>)

Types == {
   BaseAccount, ModuleAccount, Params, GenesisState, QueryAccountsRequest,
   QueryAccountsResponse, QueryAccountRequest, QueryAccountResponse,
   QueryParamsRequest, QueryParamsResponse, GenericAuthorization, Grant,
   EventGrant, EventRevoke, AuthzGenesisState, GrantAuthorization,
   QueryGrantsRequest, QueryGrantsResponse, MsgGrant, MsgExecResponse,
   MsgExec, MsgGrantResponse, MsgRevoke, MsgRevokeResponse,
   MsgCreateVestingAccount, MsgCreateVestingAccountResponse,
   BaseVestingAccount, ContinuousVestingAccount, DelayedVestingAccount,
   Period, PeriodicVestingAccount, PermanentLockedAccount}
=============================================================================
