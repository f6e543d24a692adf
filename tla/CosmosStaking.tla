--------------------------- MODULE CosmosStaking ---------------------------
(****************************************************************************)
(* Schemas of cosmos.staking.                                               *)
(****************************************************************************)
EXTENDS ProtoSchema

\* cosmos/staking/v1beta1/authz.ts
StakeAuthorization == MessageType("cosmos.staking.v1beta1.StakeAuthorization", <<
  Nested(1, "max_tokens", "cosmos.base.v1beta1.Coin"),
  OneOf("validators", Nested(2, "allow_list", "cosmos.staking.v1beta1.StakeAuthorization.Validators")),
  OneOf("validators", Nested(3, "deny_list", "cosmos.staking.v1beta1.StakeAuthorization.Validators")),
  Enum(4, "authorization_type")>>)
StakeAuthorization_Validators == MessageType("cosmos.staking.v1beta1.StakeAuthorization.Validators", <<
  Repeated(Str(1, "address"))>>)

\* cosmos/staking/v1beta1/genesis.ts
GenesisState == MessageType("cosmos.staking.v1beta1.GenesisState", <<
  Nested(1, "params", "cosmos.staking.v1beta1.Params"),
  Bytes(2, "last_total_power"),
  Repeated(Nested(3, "last_validator_powers", "cosmos.staking.v1beta1.LastValidatorPower")),
  Repeated(Nested(4, "validators", "cosmos.staking.v1beta1.Validator")),
  Repeated(Nested(5, "delegations", "cosmos.staking.v1beta1.Delegation")),
  Repeated(Nested(6, "unbonding_delegations", "cosmos.staking.v1beta1.UnbondingDelegation")),
  Repeated(Nested(7, "redelegations", "cosmos.staking.v1beta1.Redelegation")),
  Bool(8, "exported")>>)
LastValidatorPower == MessageType("cosmos.staking.v1beta1.LastValidatorPower", <<
  Str(1, "address"), Int64(2, "power")>>)

\* cosmos/staking/v1beta1/query.ts
QueryValidatorsRequest == MessageType("cosmos.staking.v1beta1.QueryValidatorsRequest", <<
  Str(1, "status"),
  Nested(2, "pagination", "cosmos.base.query.v1beta1.PageRequest")>>)
QueryValidatorsResponse == MessageType("cosmos.staking.v1beta1.QueryValidatorsResponse", <<
  Repeated(Nested(1, "validators", "cosmos.staking.v1beta1.Validator")),
  Nested(2, "pagination", "cosmos.base.query.v1beta1.PageResponse")>>)
QueryValidatorRequest == MessageType("cosmos.staking.v1beta1.QueryValidatorRequest", <<
  Str(1, "validator_addr")>>)
QueryValidatorResponse == MessageType("cosmos.staking.v1beta1.QueryValidatorResponse", <<
  Nested(1, "validator", "cosmos.staking.v1beta1.Validator")>>)
QueryValidatorDelegationsRequest == MessageType("cosmos.staking.v1beta1.QueryValidatorDelegationsRequest", <<
  Str(1, "validator_addr"),
  Nested(2, "pagination", "cosmos.base.query.v1beta1.PageRequest")>>)
QueryValidatorDelegationsResponse == MessageType("cosmos.staking.v1beta1.QueryValidatorDelegationsResponse", <<
  Repeated(Nested(1, "delegation_responses", "cosmos.staking.v1beta1.DelegationResponse")),
  Nested(2, "pagination", "cosmos.base.query.v1beta1.PageResponse")>>)
QueryValidatorUnbondingDelegationsRequest == MessageType("cosmos.staking.v1beta1.QueryValidatorUnbondingDelegationsRequest", <<
  Str(1, "validator_addr"),
  Nested(2, "pagination", "cosmos.base.query.v1beta1.PageRequest")>>)
QueryValidatorUnbondingDelegationsResponse == MessageType("cosmos.staking.v1beta1.QueryValidatorUnbondingDelegationsResponse", <<
  Repeated(Nested(1, "unbonding_responses", "cosmos.staking.v1beta1.UnbondingDelegation")),
  Nested(2, "pagination", "cosmos.base.query.v1beta1.PageResponse")>>)
QueryDelegationRequest == MessageType("cosmos.staking.v1beta1.QueryDelegationRequest", <<
  Str(1, "delegator_addr"), Str(2, "validator_addr")>>)
QueryDelegationResponse == MessageType("cosmos.staking.v1beta1.QueryDelegationResponse", <<
  Nested(1, "delegation_response", "cosmos.staking.v1beta1.DelegationResponse")>>)
QueryUnbondingDelegationRequest == MessageType("cosmos.staking.v1beta1.QueryUnbondingDelegationRequest", <<
  Str(1, "delegator_addr"), Str(2, "validator_addr")>>)
QueryUnbondingDelegationResponse == MessageType("cosmos.staking.v1beta1.QueryUnbondingDelegationResponse", <<
  Nested(1, "unbond", "cosmos.staking.v1beta1.UnbondingDelegation")>>)
QueryDelegatorDelegationsRequest == MessageType("cosmos.staking.v1beta1.QueryDelegatorDelegationsRequest", <<
  Str(1, "delegator_addr"),
  Nested(2, "pagination", "cosmos.base.query.v1beta1.PageRequest")>>)
QueryDelegatorDelegationsResponse == MessageType("cosmos.staking.v1beta1.QueryDelegatorDelegationsResponse", <<
  Repeated(Nested(1, "delegation_responses", "cosmos.staking.v1beta1.DelegationResponse")),
  Nested(2, "pagination", "cosmos.base.query.v1beta1.PageResponse")>>)
QueryDelegatorUnbondingDelegationsRequest == MessageType("cosmos.staking.v1beta1.QueryDelegatorUnbondingDelegationsRequest", <<
  Str(1, "delegator_addr"),
  Nested(2, "pagination", "cosmos.base.query.v1beta1.PageRequest")>>)
QueryDelegatorUnbondingDelegationsResponse == MessageType("cosmos.staking.v1beta1.QueryDelegatorUnbondingDelegationsResponse", <<
  Repeated(Nested(1, "unbonding_responses", "cosmos.staking.v1beta1.UnbondingDelegation")),
  Nested(2, "pagination", "cosmos.base.query.v1beta1.PageResponse")>>)
QueryRedelegationsRequest == MessageType("cosmos.staking.v1beta1.QueryRedelegationsRequest", <<
  Str(1, "delegator_addr"), Str(2, "src_validator_addr"),
  Str(3, "dst_validator_addr"),
  Nested(4, "pagination", "cosmos.base.query.v1beta1.PageRequest")>>)
QueryRedelegationsResponse == MessageType("cosmos.staking.v1beta1.QueryRedelegationsResponse", <<
  Repeated(Nested(1, "redelegation_responses", "cosmos.staking.v1beta1.RedelegationResponse")),
  Nested(2, "pagination", "cosmos.base.query.v1beta1.PageResponse")>>)
QueryDelegatorValidatorsRequest == MessageType("cosmos.staking.v1beta1.QueryDelegatorValidatorsRequest", <<
  Str(1, "delegator_addr"),
  Nested(2, "pagination", "cosmos.base.query.v1beta1.PageRequest")>>)
QueryDelegatorValidatorsResponse == MessageType("cosmos.staking.v1beta1.QueryDelegatorValidatorsResponse", <<
  Repeated(Nested(1, "validators", "cosmos.staking.v1beta1.Validator")),
  Nested(2, "pagination", "cosmos.base.query.v1beta1.PageResponse")>>)
QueryDelegatorValidatorRequest == MessageType("cosmos.staking.v1beta1.QueryDelegatorValidatorRequest", <<
  Str(1, "delegator_addr"), Str(2, "validator_addr")>>)
QueryDelegatorValidatorResponse == MessageType("cosmos.staking.v1beta1.QueryDelegatorValidatorResponse", <<
  Nested(1, "validator", "cosmos.staking.v1beta1.Validator")>>)
QueryHistoricalInfoRequest == MessageType("cosmos.staking.v1beta1.QueryHistoricalInfoRequest", <<
  Int64(1, "height")>>)
QueryHistoricalInfoResponse == MessageType("cosmos.staking.v1beta1.QueryHistoricalInfoResponse", <<
  Nested(1, "hist", "cosmos.staking.v1beta1.HistoricalInfo")>>)
QueryPoolRequest == MessageType("cosmos.staking.v1beta1.QueryPoolRequest", <<>>)
QueryPoolResponse == MessageType("cosmos.staking.v1beta1.QueryPoolResponse", <<
  Nested(1, "pool", "cosmos.staking.v1beta1.Pool")>>)
QueryParamsRequest == MessageType("cosmos.staking.v1beta1.QueryParamsRequest", <<>>)
QueryParamsResponse == MessageType("cosmos.staking.v1beta1.QueryParamsResponse", <<
  Nested(1, "params", "cosmos.staking.v1beta1.Params")>>)

\* cosmos/staking/v1beta1/staking.ts
HistoricalInfo == MessageType("cosmos.staking.v1beta1.HistoricalInfo", <<
  Nested(1, "header", "tendermint.types.Header"),
  Repeated(Nested(2, "valset", "cosmos.staking.v1beta1.Validator"))>>)
CommissionRates == MessageType("cosmos.staking.v1beta1.CommissionRates", <<
  Str(1, "rate"), Str(2, "max_rate"), Str(3, "max_change_rate")>>)
Commission == MessageType("cosmos.staking.v1beta1.Commission", <<
  Nested(1, "commission_rates", "cosmos.staking.v1beta1.CommissionRates"),
  Nested(2, "update_time", "google.protobuf.Timestamp")>>)
Description == MessageType("cosmos.staking.v1beta1.Description", <<
  Str(1, "moniker"), Str(2, "identity"), Str(3, "website"),
  Str(4, "security_contact"), Str(5, "details")>>)
Validator == MessageType("cosmos.staking.v1beta1.Validator", <<
  Str(1, "operator_address"),
  Nested(2, "consensus_pubkey", "google.protobuf.Any"), Bool(3, "jailed"),
  Enum(4, "status"), Str(5, "tokens"), Str(6, "delegator_shares"),
  Nested(7, "description", "cosmos.staking.v1beta1.Description"),
  Int64(8, "unbonding_height"),
  Nested(9, "unbonding_time", "google.protobuf.Timestamp"),
  Nested(10, "commission", "cosmos.staking.v1beta1.Commission"),
  Str(11, "min_self_delegation")>>)
ValAddresses == MessageType("cosmos.staking.v1beta1.ValAddresses", <<
  Repeated(Str(1, "addresses"))>>)
DVPair == MessageType("cosmos.staking.v1beta1.DVPair", <<
  Str(1, "delegator_address"), Str(2, "validator_address")>>)
DVPairs == MessageType("cosmos.staking.v1beta1.DVPairs", <<
  Repeated(Nested(1, "pairs", "cosmos.staking.v1beta1.DVPair"))>>)
DVVTriplet == MessageType("cosmos.staking.v1beta1.DVVTriplet", <<
  Str(1, "delegator_address"), Str(2, "validator_src_address"),
  Str(3, "validator_dst_address")>>)
DVVTriplets == MessageType("cosmos.staking.v1beta1.DVVTriplets", <<
  Repeated(Nested(1, "triplets", "cosmos.staking.v1beta1.DVVTriplet"))>>)
Delegation == MessageType("cosmos.staking.v1beta1.Delegation", <<
  Str(1, "delegator_address"), Str(2, "validator_address"), Str(3, "shares")>>)
UnbondingDelegation == MessageType("cosmos.staking.v1beta1.UnbondingDelegation", <<
  Str(1, "delegator_address"), Str(2, "validator_address"),
  Repeated(Nested(3, "entries", "cosmos.staking.v1beta1.UnbondingDelegationEntry"))>>)
UnbondingDelegationEntry == MessageType("cosmos.staking.v1beta1.UnbondingDelegationEntry", <<
  Int64(1, "creation_height"),
  Nested(2, "completion_time", "google.protobuf.Timestamp"),
  Str(3, "initial_balance"), Str(4, "balance")>>)
RedelegationEntry == MessageType("cosmos.staking.v1beta1.RedelegationEntry", <<
  Int64(1, "creation_height"),
  Nested(2, "completion_time", "google.protobuf.Timestamp"),
  Str(3, "initial_balance"), Str(4, "shares_dst")>>)
Redelegation == MessageType("cosmos.staking.v1beta1.Redelegation", <<
  Str(1, "delegator_address"), Str(2, "validator_src_address"),
  Str(3, "validator_dst_address"),
  Repeated(Nested(4, "entries", "cosmos.staking.v1beta1.RedelegationEntry"))>>)
Params == MessageType("cosmos.staking.v1beta1.Params", <<
  Nested(1, "unbonding_time", "google.protobuf.Duration"),
  Uint32(2, "max_validators"), Uint32(3, "max_entries"),
  Uint32(4, "historical_entries"), Str(5, "bond_denom")>>)
DelegationResponse == MessageType("cosmos.staking.v1beta1.DelegationResponse", <<
  Nested(1, "delegation", "cosmos.staking.v1beta1.Delegation"),
  Nested(2, "balance", "cosmos.base.v1beta1.Coin")>>)
RedelegationEntryResponse == MessageType("cosmos.staking.v1beta1.RedelegationEntryResponse", <<
  Nested(1, "redelegation_entry", "cosmos.staking.v1beta1.RedelegationEntry"),
  Str(4, "balance")>>)
RedelegationResponse == MessageType("cosmos.staking.v1beta1.RedelegationResponse", <<
  Nested(1, "redelegation", "cosmos.staking.v1beta1.Redelegation"),
  Repeated(Nested(2, "entries", "cosmos.staking.v1beta1.RedelegationEntryResponse"))>>)
Pool == MessageType("cosmos.staking.v1beta1.Pool", <<
  Str(1, "not_bonded_tokens"), Str(2, "bonded_tokens")>>)

\* cosmos/staking/v1beta1/tx.ts
MsgCreateValidator == MessageType("cosmos.staking.v1beta1.MsgCreateValidator", <<
  Nested(1, "description", "cosmos.staking.v1beta1.Description"),
  Nested(2, "commission", "cosmos.staking.v1beta1.CommissionRates"),
  Str(3, "min_self_delegation"), Str(4, "delegator_address"),
  Str(5, "validator_address"), Nested(6, "pubkey", "google.protobuf.Any"),
  Nested(7, "value", "cosmos.base.v1beta1.Coin")>>)
MsgCreateValidatorResponse == MessageType("cosmos.staking.v1beta1.MsgCreateValidatorResponse", <<>>)
MsgEditValidator == MessageType("cosmos.staking.v1beta1.MsgEditValidator", <<
  Nested(1, "description", "cosmos.staking.v1beta1.Description"),
  Str(2, "validator_address"), Str(3, "commission_rate"),
  Str(4, "min_self_delegation")>>)
MsgEditValidatorResponse == MessageType("cosmos.staking.v1beta1.MsgEditValidatorResponse", <<>>)
MsgDelegate == MessageType("cosmos.staking.v1beta1.MsgDelegate", <<
  Str(1, "delegator_address"), Str(2, "validator_address"),
  Nested(3, "amount", "cosmos.base.v1beta1.Coin")>>)
MsgDelegateResponse == MessageType("cosmos.staking.v1beta1.MsgDelegateResponse", <<>>)
MsgBeginRedelegate == MessageType("cosmos.staking.v1beta1.MsgBeginRedelegate", <<
  Str(1, "delegator_address"), Str(2, "validator_src_address"),
  Str(3, "validator_dst_address"),
  Nested(4, "amount", "cosmos.base.v1beta1.Coin")>>)
MsgBeginRedelegateResponse == MessageType("cosmos.staking.v1beta1.MsgBeginRedelegateResponse", <<
  Nested(1, "completion_time", "google.protobuf.Timestamp")>>)
MsgUndelegate == MessageType("cosmos.staking.v1beta1.MsgUndelegate", <<
  Str(1, "delegator_address"), Str(2, "validator_address"),
  Nested(3, "amount", "cosmos.base.v1beta1.Coin")>>)
MsgUndelegateResponse == MessageType("cosmos.staking.v1beta1.MsgUndelegateResponse", <<
  Nested(1, "completion_time", "google.protobuf.Timestamp")>>)

Types == {
   StakeAuthorization, StakeAuthorization_Validators, GenesisState,
   LastValidatorPower, QueryValidatorsRequest, QueryValidatorsResponse,
   QueryValidatorRequest, QueryValidatorResponse,
   QueryValidatorDelegationsRequest, QueryValidatorDelegationsResponse,
   QueryValidatorUnbondingDelegationsRequest,
   QueryValidatorUnbondingDelegationsResponse, QueryDelegationRequest,
   QueryDelegationResponse, QueryUnbondingDelegationRequest,
   QueryUnbondingDelegationResponse, QueryDelegatorDelegationsRequest,
   QueryDelegatorDelegationsResponse,
   QueryDelegatorUnbondingDelegationsRequest,
   QueryDelegatorUnbondingDelegationsResponse, QueryRedelegationsRequest,
   QueryRedelegationsResponse, QueryDelegatorValidatorsRequest,
   QueryDelegatorValidatorsResponse, QueryDelegatorValidatorRequest,
   QueryDelegatorValidatorResponse, QueryHistoricalInfoRequest,
   QueryHistoricalInfoResponse, QueryPoolRequest, QueryPoolResponse,
   QueryParamsRequest, QueryParamsResponse, HistoricalInfo,
   CommissionRates, Commission, Description, Validator, ValAddresses,
   DVPair, DVPairs, DVVTriplet, DVVTriplets, Delegation,
   UnbondingDelegation, UnbondingDelegationEntry, RedelegationEntry,
   Redelegation, Params, DelegationResponse, RedelegationEntryResponse,
   RedelegationResponse, Pool, MsgCreateValidator,
   MsgCreateValidatorResponse, MsgEditValidator, MsgEditValidatorResponse,
   MsgDelegate, MsgDelegateResponse, MsgBeginRedelegate,
   MsgBeginRedelegateResponse, MsgUndelegate, MsgUndelegateResponse}
=============================================================================
