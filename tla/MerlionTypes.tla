---------------------------- MODULE MerlionTypes ----------------------------
(****************************************************************************)
(* Schemas of merlion.erc20, gauge, ve, voter, staking and bank.            *)
(****************************************************************************)
EXTENDS ProtoSchema

\* merlion/bank/v1beta1/bank.ts
SetDenomMetadataProposal == MessageType("merlion.bank.v1beta1.SetDenomMetadataProposal", <<
  Str(1, "title"), Str(2, "description"),
  Nested(3, "metadata", "cosmos.bank.v1beta1.Metadata")>>)

\* merlion/erc20/v1/erc20.ts
TokenPair == MessageType("merlion.erc20.v1.TokenPair", <<
  Str(1, "erc20_address"), Str(2, "denom"), Enum(3, "contract_owner")>>)

\* merlion/erc20/v1/genesis.ts
GenesisState == MessageType("merlion.erc20.v1.GenesisState", <<
  Nested(1, "params", "merlion.erc20.v1.Params"),
  Repeated(Nested(2, "token_pairs", "merlion.erc20.v1.TokenPair"))>>)
Params == MessageType("merlion.erc20.v1.Params", <<>>)

\* merlion/erc20/v1/query.ts
QueryTokenPairsRequest == MessageType("merlion.erc20.v1.QueryTokenPairsRequest", <<
  Nested(1, "pagination", "cosmos.base.query.v1beta1.PageRequest")>>)
QueryTokenPairsResponse == MessageType("merlion.erc20.v1.QueryTokenPairsResponse", <<
  Repeated(Nested(1, "token_pairs", "merlion.erc20.v1.TokenPair")),
  Nested(2, "pagination", "cosmos.base.query.v1beta1.PageResponse")>>)
QueryTokenPairRequest == MessageType("merlion.erc20.v1.QueryTokenPairRequest", <<
  Str(1, "token")>>)
QueryTokenPairResponse == MessageType("merlion.erc20.v1.QueryTokenPairResponse", <<
  Nested(1, "token_pair", "merlion.erc20.v1.TokenPair")>>)
QueryParamsRequest == MessageType("merlion.erc20.v1.QueryParamsRequest", <<>>)
QueryParamsResponse == MessageType("merlion.erc20.v1.QueryParamsResponse", <<
  Nested(1, "params", "merlion.erc20.v1.Params")>>)

\* merlion/gauge/v1/gauge.ts
Checkpoint == MessageType("merlion.gauge.v1.Checkpoint", <<
  Uint64(1, "timestamp"), Str(2, "amount")>>)
Reward == MessageType("merlion.gauge.v1.Reward", <<
  Str(1, "denom"), Str(2, "rate"), Uint64(3, "finish_time"),
  Uint64(4, "last_update_time"), Str(5, "cumulative_per_ticket"),
  Str(6, "accrued_amount")>>)
UserReward == MessageType("merlion.gauge.v1.UserReward", <<
  Str(1, "denom"), Uint64(2, "ve_id"), Uint64(3, "last_claim_time"),
  Str(4, "cumulative_per_ticket")>>)

\* merlion/gauge/v1/genesis.ts
GaugeGenesisState == MessageType("merlion.gauge.v1.GenesisState", <<
  Nested(1, "params", "merlion.gauge.v1.Params")>>)
GaugeParams == MessageType("merlion.gauge.v1.Params", <<>>)

\* merlion/gauge/v1/query.ts
GaugeQueryParamsRequest == MessageType("merlion.gauge.v1.QueryParamsRequest", <<>>)
GaugeQueryParamsResponse == MessageType("merlion.gauge.v1.QueryParamsResponse", <<
  Nested(1, "params", "merlion.gauge.v1.Params")>>)

\* merlion/staking/v1/staking.ts
VeValidator == MessageType("merlion.staking.v1.VeValidator", <<
  Str(1, "operator_address"), Str(2, "ve_delegator_shares")>>)
VeDelegation == MessageType("merlion.staking.v1.VeDelegation", <<
  Str(1, "delegator_address"), Str(2, "validator_address"),
  Repeated(Nested(3, "ve_shares", "merlion.staking.v1.VeShares"))>>)
VeShares == MessageType("merlion.staking.v1.VeShares", <<
  Uint64(1, "ve_id"), Str(2, "tokens_may_unsettled"), Str(3, "shares")>>)
VeUnbondingDelegation == MessageType("merlion.staking.v1.VeUnbondingDelegation", <<
  Str(1, "delegator_address"), Str(2, "validator_address"),
  Repeated(Nested(3, "entries", "merlion.staking.v1.VeUnbondingDelegationEntry"))>>)
VeUnbondingDelegationEntry == MessageType("merlion.staking.v1.VeUnbondingDelegationEntry", <<
  Repeated(Nested(1, "ve_balances", "merlion.staking.v1.VeUnbondingDelegationEntryBalances"))>>)
VeUnbondingDelegationEntryBalances == MessageType("merlion.staking.v1.VeUnbondingDelegationEntryBalances", <<
  Uint64(1, "ve_id"), Str(2, "initial_balance"), Str(3, "balance")>>)
VeRedelegation == MessageType("merlion.staking.v1.VeRedelegation", <<
  Str(1, "delegator_address"), Str(2, "validator_src_address"),
  Str(3, "validator_dst_address"),
  Repeated(Nested(4, "entries", "merlion.staking.v1.VeRedelegationEntry"))>>)
VeRedelegationEntry == MessageType("merlion.staking.v1.VeRedelegationEntry", <<
  Repeated(Nested(1, "ve_shares", "merlion.staking.v1.VeRedelegationEntryShares"))>>)
VeRedelegationEntryShares == MessageType("merlion.staking.v1.VeRedelegationEntryShares", <<
  Uint64(1, "ve_id"), Str(2, "initial_balance"), Str(3, "shares_dst")>>)
VeTokens == MessageType("merlion.staking.v1.VeTokens", <<
  Uint64(1, "ve_id"), Str(2, "tokens")>>)

\* merlion/staking/v1/tx.ts
MsgVeDelegate == MessageType("merlion.staking.v1.MsgVeDelegate", <<
  Str(1, "delegator_address"), Str(2, "validator_address"), Str(3, "ve_id"),
  Nested(4, "amount", "cosmos.base.v1beta1.Coin")>>)
MsgVeDelegateResponse == MessageType("merlion.staking.v1.MsgVeDelegateResponse", <<>>)

\* merlion/ve/v1/event.ts
EventCreate == MessageType("merlion.ve.v1.EventCreate", <<
  Str(1, "sender"), Str(2, "receiver"), Str(3, "ve_id"),
  Nested(4, "amount", "cosmos.base.v1beta1.Coin"), Uint64(5, "unlock_time")>>)
EventDeposit == MessageType("merlion.ve.v1.EventDeposit", <<
  Str(1, "sender"), Str(2, "ve_id"),
  Nested(3, "amount", "cosmos.base.v1beta1.Coin")>>)
EventExtendTime == MessageType("merlion.ve.v1.EventExtendTime", <<
  Str(1, "sender"), Str(2, "ve_id"), Uint64(3, "unlock_time")>>)
EventMerge == MessageType("merlion.ve.v1.EventMerge", <<
  Str(1, "sender"), Str(2, "from_ve_id"), Str(3, "to_ve_id")>>)
EventWithdraw == MessageType("merlion.ve.v1.EventWithdraw", <<
  Str(1, "sender"), Str(2, "ve_id")>>)

\* merlion/ve/v1/genesis.ts
VeGenesisState == MessageType("merlion.ve.v1.GenesisState", <<
  Nested(1, "params", "merlion.ve.v1.Params")>>)
VeParams == MessageType("merlion.ve.v1.Params", <<Str(1, "lock_denom")>>)

\* merlion/ve/v1/query.ts
QueryTotalVotingPowerRequest == MessageType("merlion.ve.v1.QueryTotalVotingPowerRequest", <<
  Uint64(1, "at_time"), Int64(2, "at_block")>>)
QueryTotalVotingPowerResponse == MessageType("merlion.ve.v1.QueryTotalVotingPowerResponse", <<
  Str(1, "power")>>)
QueryVotingPowerRequest == MessageType("merlion.ve.v1.QueryVotingPowerRequest", <<
  Str(1, "ve_id"), Uint64(2, "at_time"), Int64(3, "at_block")>>)
QueryVotingPowerResponse == MessageType("merlion.ve.v1.QueryVotingPowerResponse", <<
  Str(1, "power")>>)
QueryVeNftsRequest == MessageType("merlion.ve.v1.QueryVeNftsRequest", <<
  Str(1, "owner"),
  Nested(2, "pagination", "cosmos.base.query.v1beta1.PageRequest")>>)
QueryVeNftsResponse == MessageType("merlion.ve.v1.QueryVeNftsResponse", <<
  Repeated(Nested(1, "nfts", "cosmos.nft.v1beta1.NFT")),
  Nested(2, "pagination", "cosmos.base.query.v1beta1.PageResponse")>>)
QueryVeNftRequest == MessageType("merlion.ve.v1.QueryVeNftRequest", <<
  Str(1, "id")>>)
QueryVeNftResponse == MessageType("merlion.ve.v1.QueryVeNftResponse", <<
  Nested(1, "nft", "cosmos.nft.v1beta1.NFT")>>)
VeQueryParamsRequest == MessageType("merlion.ve.v1.QueryParamsRequest", <<>>)
VeQueryParamsResponse == MessageType("merlion.ve.v1.QueryParamsResponse", <<
  Nested(1, "params", "merlion.ve.v1.Params")>>)

\* merlion/ve/v1/tx.ts
MsgCreate == MessageType("merlion.ve.v1.MsgCreate", <<
  Str(1, "sender"), Str(2, "to"),
  Nested(3, "amount", "cosmos.base.v1beta1.Coin"),
  Uint64(4, "lock_duration")>>)
MsgCreateResponse == MessageType("merlion.ve.v1.MsgCreateResponse", <<
  Str(1, "ve_id"), Uint64(2, "unlock_time")>>)
MsgDeposit == MessageType("merlion.ve.v1.MsgDeposit", <<
  Str(1, "sender"), Str(2, "ve_id"),
  Nested(3, "amount", "cosmos.base.v1beta1.Coin")>>)
MsgDepositResponse == MessageType("merlion.ve.v1.MsgDepositResponse", <<>>)
MsgExtendTime == MessageType("merlion.ve.v1.MsgExtendTime", <<
  Str(1, "sender"), Str(2, "ve_id"), Uint64(3, "lock_duration")>>)
MsgExtendTimeResponse == MessageType("merlion.ve.v1.MsgExtendTimeResponse", <<>>)
MsgMerge == MessageType("merlion.ve.v1.MsgMerge", <<
  Str(1, "sender"), Str(2, "from_ve_id"), Str(3, "to_ve_id")>>)
MsgMergeResponse == MessageType("merlion.ve.v1.MsgMergeResponse", <<>>)
MsgWithdraw == MessageType("merlion.ve.v1.MsgWithdraw", <<
  Str(1, "sender"), Str(2, "ve_id")>>)
MsgWithdrawResponse == MessageType("merlion.ve.v1.MsgWithdrawResponse", <<>>)

\* merlion/ve/v1/ve.ts
LockedBalance == MessageType("merlion.ve.v1.LockedBalance", <<
  Str(1, "amount"), Uint64(2, "end")>>)
VeCheckpoint == MessageType("merlion.ve.v1.Checkpoint", <<
  Str(1, "bias"), Str(2, "slope"), Uint64(3, "timestamp"), Int64(4, "block")>>)

\* merlion/voter/v1/genesis.ts
VoterGenesisState == MessageType("merlion.voter.v1.GenesisState", <<
  Nested(1, "params", "merlion.voter.v1.Params")>>)
VoterParams == MessageType("merlion.voter.v1.Params", <<>>)

\* merlion/voter/v1/query.ts
VoterQueryParamsRequest == MessageType("merlion.voter.v1.QueryParamsRequest", <<>>)
VoterQueryParamsResponse == MessageType("merlion.voter.v1.QueryParamsResponse", <<
  Nested(1, "params", "merlion.voter.v1.Params")>>)

Types == {
   SetDenomMetadataProposal, TokenPair, GenesisState, Params,
   QueryTokenPairsRequest, QueryTokenPairsResponse, QueryTokenPairRequest,
   QueryTokenPairResponse, QueryParamsRequest, QueryParamsResponse,
   Checkpoint, Reward, UserReward, GaugeGenesisState, GaugeParams,
   GaugeQueryParamsRequest, GaugeQueryParamsResponse, VeValidator,
   VeDelegation, VeShares, VeUnbondingDelegation,
   VeUnbondingDelegationEntry, VeUnbondingDelegationEntryBalances,
   VeRedelegation, VeRedelegationEntry, VeRedelegationEntryShares,
   VeTokens, MsgVeDelegate, MsgVeDelegateResponse, EventCreate,
   EventDeposit, EventExtendTime, EventMerge, EventWithdraw,
   VeGenesisState, VeParams, QueryTotalVotingPowerRequest,
   QueryTotalVotingPowerResponse, QueryVotingPowerRequest,
   QueryVotingPowerResponse, QueryVeNftsRequest, QueryVeNftsResponse,
   QueryVeNftRequest, QueryVeNftResponse, VeQueryParamsRequest,
   VeQueryParamsResponse, MsgCreate, MsgCreateResponse, MsgDeposit,
   MsgDepositResponse, MsgExtendTime, MsgExtendTimeResponse, MsgMerge,
   MsgMergeResponse, MsgWithdraw, MsgWithdrawResponse, LockedBalance,
   VeCheckpoint, VoterGenesisState, VoterParams, VoterQueryParamsRequest,
   VoterQueryParamsResponse}
=============================================================================
