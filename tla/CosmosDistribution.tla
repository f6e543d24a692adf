------------------------- MODULE CosmosDistribution -------------------------
(****************************************************************************)
(* Schemas of cosmos.distribution.                                          *)
(****************************************************************************)
EXTENDS ProtoSchema

\* cosmos/distribution/v1beta1/distribution.ts
Params == MessageType("cosmos.distribution.v1beta1.Params", <<
  Str(1, "community_tax"), Str(2, "base_proposer_reward"),
  Str(3, "bonus_proposer_reward"), Bool(4, "withdraw_addr_enabled")>>)
ValidatorHistoricalRewards == MessageType("cosmos.distribution.v1beta1.ValidatorHistoricalRewards", <<
  Repeated(Nested(1, "cumulative_reward_ratio", "cosmos.base.v1beta1.DecCoin")),
  Uint32(2, "reference_count")>>)
ValidatorCurrentRewards == MessageType("cosmos.distribution.v1beta1.ValidatorCurrentRewards", <<
  Repeated(Nested(1, "rewards", "cosmos.base.v1beta1.DecCoin")),
  Uint64(2, "period")>>)
ValidatorAccumulatedCommission == MessageType("cosmos.distribution.v1beta1.ValidatorAccumulatedCommission", <<
  Repeated(Nested(1, "commission", "cosmos.base.v1beta1.DecCoin"))>>)
ValidatorOutstandingRewards == MessageType("cosmos.distribution.v1beta1.ValidatorOutstandingRewards", <<
  Repeated(Nested(1, "rewards", "cosmos.base.v1beta1.DecCoin"))>>)
ValidatorSlashEvent == MessageType("cosmos.distribution.v1beta1.ValidatorSlashEvent", <<
  Uint64(1, "validator_period"), Str(2, "fraction")>>)
ValidatorSlashEvents == MessageType("cosmos.distribution.v1beta1.ValidatorSlashEvents", <<
  Repeated(Nested(1, "validator_slash_events", "cosmos.distribution.v1beta1.ValidatorSlashEvent"))>>)
FeePool == MessageType("cosmos.distribution.v1beta1.FeePool", <<
  Repeated(Nested(1, "community_pool", "cosmos.base.v1beta1.DecCoin"))>>)
CommunityPoolSpendProposal == MessageType("cosmos.distribution.v1beta1.CommunityPoolSpendProposal", <<
  Str(1, "title"), Str(2, "description"), Str(3, "recipient"),
  Repeated(Nested(4, "amount", "cosmos.base.v1beta1.Coin"))>>)
DelegatorStartingInfo == MessageType("cosmos.distribution.v1beta1.DelegatorStartingInfo", <<
  Uint64(1, "previous_period"), Str(2, "stake"), Uint64(3, "height")>>)
DelegationDelegatorReward == MessageType("cosmos.distribution.v1beta1.DelegationDelegatorReward", <<
  Str(1, "validator_address"),
  Repeated(Nested(2, "reward", "cosmos.base.v1beta1.DecCoin"))>>)
CommunityPoolSpendProposalWithDeposit == MessageType("cosmos.distribution.v1beta1.CommunityPoolSpendProposalWithDeposit", <<
  Str(1, "title"), Str(2, "description"), Str(3, "recipient"),
  Str(4, "amount"), Str(5, "deposit")>>)

\* cosmos/distribution/v1beta1/genesis.ts
DelegatorWithdrawInfo == MessageType("cosmos.distribution.v1beta1.DelegatorWithdrawInfo", <<
  Str(1, "delegator_address"), Str(2, "withdraw_address")>>)
ValidatorOutstandingRewardsRecord == MessageType("cosmos.distribution.v1beta1.ValidatorOutstandingRewardsRecord", <<
  Str(1, "validator_address"),
  Repeated(Nested(2, "outstanding_rewards", "cosmos.base.v1beta1.DecCoin"))>>)
ValidatorAccumulatedCommissionRecord == MessageType("cosmos.distribution.v1beta1.ValidatorAccumulatedCommissionRecord", <<
  Str(1, "validator_address"),
  Nested(2, "accumulated", "cosmos.distribution.v1beta1.ValidatorAccumulatedCommission")>>)
ValidatorHistoricalRewardsRecord == MessageType("cosmos.distribution.v1beta1.ValidatorHistoricalRewardsRecord", <<
  Str(1, "validator_address"), Uint64(2, "period"),
  Nested(3, "rewards", "cosmos.distribution.v1beta1.ValidatorHistoricalRewards")>>)
ValidatorCurrentRewardsRecord == MessageType("cosmos.distribution.v1beta1.ValidatorCurrentRewardsRecord", <<
  Str(1, "validator_address"),
  Nested(2, "rewards", "cosmos.distribution.v1beta1.ValidatorCurrentRewards")>>)
DelegatorStartingInfoRecord == MessageType("cosmos.distribution.v1beta1.DelegatorStartingInfoRecord", <<
  Str(1, "delegator_address"), Str(2, "validator_address"),
  Nested(3, "starting_info", "cosmos.distribution.v1beta1.DelegatorStartingInfo")>>)
ValidatorSlashEventRecord == MessageType("cosmos.distribution.v1beta1.ValidatorSlashEventRecord", <<
  Str(1, "validator_address"), Uint64(2, "height"), Uint64(3, "period"),
  Nested(4, "validator_slash_event", "cosmos.distribution.v1beta1.ValidatorSlashEvent")>>)
GenesisState == MessageType("cosmos.distribution.v1beta1.GenesisState", <<
  Nested(1, "params", "cosmos.distribution.v1beta1.Params"),
  Nested(2, "fee_pool", "cosmos.distribution.v1beta1.FeePool"),
  Repeated(Nested(3, "delegator_withdraw_infos", "cosmos.distribution.v1beta1.DelegatorWithdrawInfo")),
  Str(4, "previous_proposer"),
  Repeated(Nested(5, "outstanding_rewards", "cosmos.distribution.v1beta1.ValidatorOutstandingRewardsRecord")),
  Repeated(Nested(6, "validator_accumulated_commissions", "cosmos.distribution.v1beta1.ValidatorAccumulatedCommissionRecord")),
  Repeated(Nested(7, "validator_historical_rewards", "cosmos.distribution.v1beta1.ValidatorHistoricalRewardsRecord")),
  Repeated(Nested(8, "validator_current_rewards", "cosmos.distribution.v1beta1.ValidatorCurrentRewardsRecord")),
  Repeated(Nested(9, "delegator_starting_infos", "cosmos.distribution.v1beta1.DelegatorStartingInfoRecord")),
  Repeated(Nested(10, "validator_slash_events", "cosmos.distribution.v1beta1.ValidatorSlashEventRecord"))>>)

\* cosmos/distribution/v1beta1/query.ts
QueryParamsRequest == MessageType("cosmos.distribution.v1beta1.QueryParamsRequest", <<>>)
QueryParamsResponse == MessageType("cosmos.distribution.v1beta1.QueryParamsResponse", <<
  Nested(1, "params", "cosmos.distribution.v1beta1.Params")>>)
QueryValidatorOutstandingRewardsRequest == MessageType("cosmos.distribution.v1beta1.QueryValidatorOutstandingRewardsRequest", <<
  Str(1, "validator_address")>>)
QueryValidatorOutstandingRewardsResponse == MessageType("cosmos.distribution.v1beta1.QueryValidatorOutstandingRewardsResponse", <<
  Nested(1, "rewards", "cosmos.distribution.v1beta1.ValidatorOutstandingRewards")>>)
QueryValidatorCommissionRequest == MessageType("cosmos.distribution.v1beta1.QueryValidatorCommissionRequest", <<
  Str(1, "validator_address")>>)
QueryValidatorCommissionResponse == MessageType("cosmos.distribution.v1beta1.QueryValidatorCommissionResponse", <<
  Nested(1, "commission", "cosmos.distribution.v1beta1.ValidatorAccumulatedCommission")>>)
QueryValidatorSlashesRequest == MessageType("cosmos.distribution.v1beta1.QueryValidatorSlashesRequest", <<
  Str(1, "validator_address"), Uint64(2, "starting_height"),
  Uint64(3, "ending_height"),
  Nested(4, "pagination", "cosmos.base.query.v1beta1.PageRequest")>>)
QueryValidatorSlashesResponse == MessageType("cosmos.distribution.v1beta1.QueryValidatorSlashesResponse", <<
  Repeated(Nested(1, "slashes", "cosmos.distribution.v1beta1.ValidatorSlashEvent")),
  Nested(2, "pagination", "cosmos.base.query.v1beta1.PageResponse")>>)
QueryDelegationRewardsRequest == MessageType("cosmos.distribution.v1beta1.QueryDelegationRewardsRequest", <<
  Str(1, "delegator_address"), Str(2, "validator_address")>>)
QueryDelegationRewardsResponse == MessageType("cosmos.distribution.v1beta1.QueryDelegationRewardsResponse", <<
  Repeated(Nested(1, "rewards", "cosmos.base.v1beta1.DecCoin"))>>)
QueryDelegationTotalRewardsRequest == MessageType("cosmos.distribution.v1beta1.QueryDelegationTotalRewardsRequest", <<
  Str(1, "delegator_address")>>)
QueryDelegationTotalRewardsResponse == MessageType("cosmos.distribution.v1beta1.QueryDelegationTotalRewardsResponse", <<
  Repeated(Nested(1, "rewards", "cosmos.distribution.v1beta1.DelegationDelegatorReward")),
  Repeated(Nested(2, "total", "cosmos.base.v1beta1.DecCoin"))>>)
QueryDelegatorValidatorsRequest == MessageType("cosmos.distribution.v1beta1.QueryDelegatorValidatorsRequest", <<
  Str(1, "delegator_address")>>)
QueryDelegatorValidatorsResponse == MessageType("cosmos.distribution.v1beta1.QueryDelegatorValidatorsResponse", <<
  Repeated(Str(1, "validators"))>>)
QueryDelegatorWithdrawAddressRequest == MessageType("cosmos.distribution.v1beta1.QueryDelegatorWithdrawAddressRequest", <<
  Str(1, "delegator_address")>>)
QueryDelegatorWithdrawAddressResponse == MessageType("cosmos.distribution.v1beta1.QueryDelegatorWithdrawAddressResponse", <<
  Str(1, "withdraw_address")>>)
QueryCommunityPoolRequest == MessageType("cosmos.distribution.v1beta1.QueryCommunityPoolRequest", <<>>)
QueryCommunityPoolResponse == MessageType("cosmos.distribution.v1beta1.QueryCommunityPoolResponse", <<
  Repeated(Nested(1, "pool", "cosmos.base.v1beta1.DecCoin"))>>)

\* cosmos/distribution/v1beta1/tx.ts
MsgSetWithdrawAddress == MessageType("cosmos.distribution.v1beta1.MsgSetWithdrawAddress", <<
  Str(1, "delegator_address"), Str(2, "withdraw_address")>>)
MsgSetWithdrawAddressResponse == MessageType("cosmos.distribution.v1beta1.MsgSetWithdrawAddressResponse", <<>>)
MsgWithdrawDelegatorReward == MessageType("cosmos.distribution.v1beta1.MsgWithdrawDelegatorReward", <<
  Str(1, "delegator_address"), Str(2, "validator_address")>>)
MsgWithdrawDelegatorRewardResponse == MessageType("cosmos.distribution.v1beta1.MsgWithdrawDelegatorRewardResponse", <<>>)
MsgWithdrawValidatorCommission == MessageType("cosmos.distribution.v1beta1.MsgWithdrawValidatorCommission", <<
  Str(1, "validator_address")>>)
MsgWithdrawValidatorCommissionResponse == MessageType("cosmos.distribution.v1beta1.MsgWithdrawValidatorCommissionResponse", <<>>)
MsgFundCommunityPool == MessageType("cosmos.distribution.v1beta1.MsgFundCommunityPool", <<
  Repeated(Nested(1, "amount", "cosmos.base.v1beta1.Coin")),
  Str(2, "depositor")>>)
MsgFundCommunityPoolResponse == MessageType("cosmos.distribution.v1beta1.MsgFundCommunityPoolResponse", <<>>)

Types == {
   Params, ValidatorHistoricalRewards, ValidatorCurrentRewards,
   ValidatorAccumulatedCommission, ValidatorOutstandingRewards,
   ValidatorSlashEvent, ValidatorSlashEvents, FeePool,
   CommunityPoolSpendProposal, DelegatorStartingInfo,
   DelegationDelegatorReward, CommunityPoolSpendProposalWithDeposit,
   DelegatorWithdrawInfo, ValidatorOutstandingRewardsRecord,
   ValidatorAccumulatedCommissionRecord, ValidatorHistoricalRewardsRecord,
   ValidatorCurrentRewardsRecord, DelegatorStartingInfoRecord,
   ValidatorSlashEventRecord, GenesisState, QueryParamsRequest,
   QueryParamsResponse, QueryValidatorOutstandingRewardsRequest,
   QueryValidatorOutstandingRewardsResponse,
   QueryValidatorCommissionRequest, QueryValidatorCommissionResponse,
   QueryValidatorSlashesRequest, QueryValidatorSlashesResponse,
   QueryDelegationRewardsRequest, QueryDelegationRewardsResponse,
   QueryDelegationTotalRewardsRequest,
   QueryDelegationTotalRewardsResponse, QueryDelegatorValidatorsRequest,
   QueryDelegatorValidatorsResponse, QueryDelegatorWithdrawAddressRequest,
   QueryDelegatorWithdrawAddressResponse, QueryCommunityPoolRequest,
   QueryCommunityPoolResponse, MsgSetWithdrawAddress,
   MsgSetWithdrawAddressResponse, MsgWithdrawDelegatorReward,
   MsgWithdrawDelegatorRewardResponse, MsgWithdrawValidatorCommission,
   MsgWithdrawValidatorCommissionResponse, MsgFundCommunityPool,
   MsgFundCommunityPoolResponse}
=============================================================================
