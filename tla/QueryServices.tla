--------------------------- MODULE QueryServices ----------------------------
(***************************************************************************)
(* The services of the node and their clients.  A service's table          *)
(* (ServiceType, in query.ts or tx.ts) lists its procedures; a client's    *)
(* methods (in the .client.ts beside it) name one by its place in the      *)
(* table, and have the types of their own signature.                       *)
(***************************************************************************)
EXTENDS Naturals, Sequences

Service(package, name, rpcs) == [package |-> package, name |-> name, rpcs |-> rpcs]

Rpc(name, input, output) == [name |-> name, input |-> input, output |-> output]

\* key: where getQuerier puts the client (query/index.ts), "" if nowhere.
Client(key, service, methods) ==
  [key |-> key, service |-> service, methods |-> methods]

Method(name, index, input, output) ==
  [name |-> name, index |-> index, input |-> input, output |-> output]

\* cosmos/auth/v1beta1/query.ts
AuthQuery == Service("cosmos.auth.v1beta1", "Query", <<
  Rpc("Accounts", "QueryAccountsRequest", "QueryAccountsResponse"),
  Rpc("Account", "QueryAccountRequest", "QueryAccountResponse"),
  Rpc("Params", "QueryParamsRequest", "QueryParamsResponse")>>)
AuthQueryClient == Client("auth", AuthQuery, <<
  Method("accounts", 0, "QueryAccountsRequest", "QueryAccountsResponse"),
  Method("account", 1, "QueryAccountRequest", "QueryAccountResponse"),
  Method("params", 2, "QueryParamsRequest", "QueryParamsResponse")>>)

\* cosmos/authz/v1beta1/query.ts
AuthzQuery == Service("cosmos.authz.v1beta1", "Query", <<
  Rpc("Grants", "QueryGrantsRequest", "QueryGrantsResponse")>>)
AuthzQueryClient == Client("authz", AuthzQuery, <<
  Method("grants", 0, "QueryGrantsRequest", "QueryGrantsResponse")>>)

\* cosmos/bank/v1beta1/query.ts
BankQuery == Service("cosmos.bank.v1beta1", "Query", <<
  Rpc("Balance", "QueryBalanceRequest", "QueryBalanceResponse"),
  Rpc("AllBalances", "QueryAllBalancesRequest", "QueryAllBalancesResponse"),
  Rpc("TotalSupply", "QueryTotalSupplyRequest", "QueryTotalSupplyResponse"),
  Rpc("SupplyOf", "QuerySupplyOfRequest", "QuerySupplyOfResponse"),
  Rpc("Params", "QueryParamsRequest", "QueryParamsResponse"),
  Rpc("DenomMetadata", "QueryDenomMetadataRequest", "QueryDenomMetadataResponse"),
  Rpc("DenomsMetadata", "QueryDenomsMetadataRequest", "QueryDenomsMetadataResponse")>>)
BankQueryClient == Client("bank", BankQuery, <<
  Method("balance", 0, "QueryBalanceRequest", "QueryBalanceResponse"),
  Method("allBalances", 1, "QueryAllBalancesRequest", "QueryAllBalancesResponse"),
  Method("totalSupply", 2, "QueryTotalSupplyRequest", "QueryTotalSupplyResponse"),
  Method("supplyOf", 3, "QuerySupplyOfRequest", "QuerySupplyOfResponse"),
  Method("params", 4, "QueryParamsRequest", "QueryParamsResponse"),
  Method("denomMetadata", 5, "QueryDenomMetadataRequest", "QueryDenomMetadataResponse"),
  Method("denomsMetadata", 6, "QueryDenomsMetadataRequest", "QueryDenomsMetadataResponse")>>)

\* cosmos/distribution/v1beta1/query.ts
DistributionQuery == Service("cosmos.distribution.v1beta1", "Query", <<
  Rpc("Params", "QueryParamsRequest", "QueryParamsResponse"),
  Rpc("ValidatorOutstandingRewards", "QueryValidatorOutstandingRewardsRequest", "QueryValidatorOutstandingRewardsResponse"),
  Rpc("ValidatorCommission", "QueryValidatorCommissionRequest", "QueryValidatorCommissionResponse"),
  Rpc("ValidatorSlashes", "QueryValidatorSlashesRequest", "QueryValidatorSlashesResponse"),
  Rpc("DelegationRewards", "QueryDelegationRewardsRequest", "QueryDelegationRewardsResponse"),
  Rpc("DelegationTotalRewards", "QueryDelegationTotalRewardsRequest", "QueryDelegationTotalRewardsResponse"),
  Rpc("DelegatorValidators", "QueryDelegatorValidatorsRequest", "QueryDelegatorValidatorsResponse"),
  Rpc("DelegatorWithdrawAddress", "QueryDelegatorWithdrawAddressRequest", "QueryDelegatorWithdrawAddressResponse"),
  Rpc("CommunityPool", "QueryCommunityPoolRequest", "QueryCommunityPoolResponse")>>)
DistributionQueryClient == Client("distribution", DistributionQuery, <<
  Method("params", 0, "QueryParamsRequest", "QueryParamsResponse"),
  Method("validatorOutstandingRewards", 1, "QueryValidatorOutstandingRewardsRequest", "QueryValidatorOutstandingRewardsResponse"),
  Method("validatorCommission", 2, "QueryValidatorCommissionRequest", "QueryValidatorCommissionResponse"),
  Method("validatorSlashes", 3, "QueryValidatorSlashesRequest", "QueryValidatorSlashesResponse"),
  Method("delegationRewards", 4, "QueryDelegationRewardsRequest", "QueryDelegationRewardsResponse"),
  Method("delegationTotalRewards", 5, "QueryDelegationTotalRewardsRequest", "QueryDelegationTotalRewardsResponse"),
  Method("delegatorValidators", 6, "QueryDelegatorValidatorsRequest", "QueryDelegatorValidatorsResponse"),
  Method("delegatorWithdrawAddress", 7, "QueryDelegatorWithdrawAddressRequest", "QueryDelegatorWithdrawAddressResponse"),
  Method("communityPool", 8, "QueryCommunityPoolRequest", "QueryCommunityPoolResponse")>>)

\* cosmos/evidence/v1beta1/query.ts
EvidenceQuery == Service("cosmos.evidence.v1beta1", "Query", <<
  Rpc("Evidence", "QueryEvidenceRequest", "QueryEvidenceResponse"),
  Rpc("AllEvidence", "QueryAllEvidenceRequest", "QueryAllEvidenceResponse")>>)
EvidenceQueryClient == Client("evidence", EvidenceQuery, <<
  Method("evidence", 0, "QueryEvidenceRequest", "QueryEvidenceResponse"),
  Method("allEvidence", 1, "QueryAllEvidenceRequest", "QueryAllEvidenceResponse")>>)

\* cosmos/feegrant/v1beta1/query.ts
FeegrantQuery == Service("cosmos.feegrant.v1beta1", "Query", <<
  Rpc("Allowance", "QueryAllowanceRequest", "QueryAllowanceResponse"),
  Rpc("Allowances", "QueryAllowancesRequest", "QueryAllowancesResponse")>>)
FeegrantQueryClient == Client("feegrant", FeegrantQuery, <<
  Method("allowance", 0, "QueryAllowanceRequest", "QueryAllowanceResponse"),
  Method("allowances", 1, "QueryAllowancesRequest", "QueryAllowancesResponse")>>)

\* cosmos/gov/v1beta1/query.ts
GovQuery == Service("cosmos.gov.v1beta1", "Query", <<
  Rpc("Proposal", "QueryProposalRequest", "QueryProposalResponse"),
  Rpc("Proposals", "QueryProposalsRequest", "QueryProposalsResponse"),
  Rpc("Vote", "QueryVoteRequest", "QueryVoteResponse"),
  Rpc("Votes", "QueryVotesRequest", "QueryVotesResponse"),
  Rpc("Params", "QueryParamsRequest", "QueryParamsResponse"),
  Rpc("Deposit", "QueryDepositRequest", "QueryDepositResponse"),
  Rpc("Deposits", "QueryDepositsRequest", "QueryDepositsResponse"),
  Rpc("TallyResult", "QueryTallyResultRequest", "QueryTallyResultResponse")>>)
GovQueryClient == Client("gov", GovQuery, <<
  Method("proposal", 0, "QueryProposalRequest", "QueryProposalResponse"),
  Method("proposals", 1, "QueryProposalsRequest", "QueryProposalsResponse"),
  Method("vote", 2, "QueryVoteRequest", "QueryVoteResponse"),
  Method("votes", 3, "QueryVotesRequest", "QueryVotesResponse"),
  Method("params", 4, "QueryParamsRequest", "QueryParamsResponse"),
  Method("deposit", 5, "QueryDepositRequest", "QueryDepositResponse"),
  Method("deposits", 6, "QueryDepositsRequest", "QueryDepositsResponse"),
  Method("tallyResult", 7, "QueryTallyResultRequest", "QueryTallyResultResponse")>>)

\* cosmos/mint/v1beta1/query.ts
MintQuery == Service("cosmos.mint.v1beta1", "Query", <<
  Rpc("Params", "QueryParamsRequest", "QueryParamsResponse"),
  Rpc("Inflation", "QueryInflationRequest", "QueryInflationResponse"),
  Rpc("AnnualProvisions", "QueryAnnualProvisionsRequest", "QueryAnnualProvisionsResponse")>>)
MintQueryClient == Client("mint", MintQuery, <<
  Method("params", 0, "QueryParamsRequest", "QueryParamsResponse"),
  Method("inflation", 1, "QueryInflationRequest", "QueryInflationResponse"),
  Method("annualProvisions", 2, "QueryAnnualProvisionsRequest", "QueryAnnualProvisionsResponse")>>)

\* cosmos/params/v1beta1/query.ts
ParamsQuery == Service("cosmos.params.v1beta1", "Query", <<
  Rpc("Params", "QueryParamsRequest", "QueryParamsResponse")>>)
ParamsQueryClient == Client("params", ParamsQuery, <<
  Method("params", 0, "QueryParamsRequest", "QueryParamsResponse")>>)

\* cosmos/slashing/v1beta1/query.ts
SlashingQuery == Service("cosmos.slashing.v1beta1", "Query", <<
  Rpc("Params", "QueryParamsRequest", "QueryParamsResponse"),
  Rpc("SigningInfo", "QuerySigningInfoRequest", "QuerySigningInfoResponse"),
  Rpc("SigningInfos", "QuerySigningInfosRequest", "QuerySigningInfosResponse")>>)
SlashingQueryClient == Client("slashing", SlashingQuery, <<
  Method("params", 0, "QueryParamsRequest", "QueryParamsResponse"),
  Method("signingInfo", 1, "QuerySigningInfoRequest", "QuerySigningInfoResponse"),
  Method("signingInfos", 2, "QuerySigningInfosRequest", "QuerySigningInfosResponse")>>)

\* cosmos/staking/v1beta1/query.ts
StakingQuery == Service("cosmos.staking.v1beta1", "Query", <<
  Rpc("Validators", "QueryValidatorsRequest", "QueryValidatorsResponse"),
  Rpc("Validator", "QueryValidatorRequest", "QueryValidatorResponse"),
  Rpc("ValidatorDelegations", "QueryValidatorDelegationsRequest", "QueryValidatorDelegationsResponse"),
  Rpc("ValidatorUnbondingDelegations", "QueryValidatorUnbondingDelegationsRequest", "QueryValidatorUnbondingDelegationsResponse"),
  Rpc("Delegation", "QueryDelegationRequest", "QueryDelegationResponse"),
  Rpc("UnbondingDelegation", "QueryUnbondingDelegationRequest", "QueryUnbondingDelegationResponse"),
  Rpc("DelegatorDelegations", "QueryDelegatorDelegationsRequest", "QueryDelegatorDelegationsResponse"),
  Rpc("DelegatorUnbondingDelegations", "QueryDelegatorUnbondingDelegationsRequest", "QueryDelegatorUnbondingDelegationsResponse"),
  Rpc("Redelegations", "QueryRedelegationsRequest", "QueryRedelegationsResponse"),
  Rpc("DelegatorValidators", "QueryDelegatorValidatorsRequest", "QueryDelegatorValidatorsResponse"),
  Rpc("DelegatorValidator", "QueryDelegatorValidatorRequest", "QueryDelegatorValidatorResponse"),
  Rpc("HistoricalInfo", "QueryHistoricalInfoRequest", "QueryHistoricalInfoResponse"),
  Rpc("Pool", "QueryPoolRequest", "QueryPoolResponse"),
  Rpc("Params", "QueryParamsRequest", "QueryParamsResponse")>>)
StakingQueryClient == Client("staking", StakingQuery, <<
  Method("validators", 0, "QueryValidatorsRequest", "QueryValidatorsResponse"),
  Method("validator", 1, "QueryValidatorRequest", "QueryValidatorResponse"),
  Method("validatorDelegations", 2, "QueryValidatorDelegationsRequest", "QueryValidatorDelegationsResponse"),
  Method("validatorUnbondingDelegations", 3, "QueryValidatorUnbondingDelegationsRequest", "QueryValidatorUnbondingDelegationsResponse"),
  Method("delegation", 4, "QueryDelegationRequest", "QueryDelegationResponse"),
  Method("unbondingDelegation", 5, "QueryUnbondingDelegationRequest", "QueryUnbondingDelegationResponse"),
  Method("delegatorDelegations", 6, "QueryDelegatorDelegationsRequest", "QueryDelegatorDelegationsResponse"),
  Method("delegatorUnbondingDelegations", 7, "QueryDelegatorUnbondingDelegationsRequest", "QueryDelegatorUnbondingDelegationsResponse"),
  Method("redelegations", 8, "QueryRedelegationsRequest", "QueryRedelegationsResponse"),
  Method("delegatorValidators", 9, "QueryDelegatorValidatorsRequest", "QueryDelegatorValidatorsResponse"),
  Method("delegatorValidator", 10, "QueryDelegatorValidatorRequest", "QueryDelegatorValidatorResponse"),
  Method("historicalInfo", 11, "QueryHistoricalInfoRequest", "QueryHistoricalInfoResponse"),
  Method("pool", 12, "QueryPoolRequest", "QueryPoolResponse"),
  Method("params", 13, "QueryParamsRequest", "QueryParamsResponse")>>)

\* cosmos/base/tendermint/v1beta1/query.ts
TendermintService == Service("cosmos.base.tendermint.v1beta1", "Service", <<
  Rpc("GetNodeInfo", "GetNodeInfoRequest", "GetNodeInfoResponse"),
  Rpc("GetSyncing", "GetSyncingRequest", "GetSyncingResponse"),
  Rpc("GetLatestBlock", "GetLatestBlockRequest", "GetLatestBlockResponse"),
  Rpc("GetBlockByHeight", "GetBlockByHeightRequest", "GetBlockByHeightResponse"),
  Rpc("GetLatestValidatorSet", "GetLatestValidatorSetRequest", "GetLatestValidatorSetResponse"),
  Rpc("GetValidatorSetByHeight", "GetValidatorSetByHeightRequest", "GetValidatorSetByHeightResponse")>>)
TendermintServiceClient == Client("tendermint", TendermintService, <<
  Method("getNodeInfo", 0, "GetNodeInfoRequest", "GetNodeInfoResponse"),
  Method("getSyncing", 1, "GetSyncingRequest", "GetSyncingResponse"),
  Method("getLatestBlock", 2, "GetLatestBlockRequest", "GetLatestBlockResponse"),
  Method("getBlockByHeight", 3, "GetBlockByHeightRequest", "GetBlockByHeightResponse"),
  Method("getLatestValidatorSet", 4, "GetLatestValidatorSetRequest", "GetLatestValidatorSetResponse"),
  Method("getValidatorSetByHeight", 5, "GetValidatorSetByHeightRequest", "GetValidatorSetByHeightResponse")>>)

\* cosmos/upgrade/v1beta1/query.ts
UpgradeQuery == Service("cosmos.upgrade.v1beta1", "Query", <<
  Rpc("CurrentPlan", "QueryCurrentPlanRequest", "QueryCurrentPlanResponse"),
  Rpc("AppliedPlan", "QueryAppliedPlanRequest", "QueryAppliedPlanResponse"),
  Rpc("UpgradedConsensusState", "QueryUpgradedConsensusStateRequest", "QueryUpgradedConsensusStateResponse"),
  Rpc("ModuleVersions", "QueryModuleVersionsRequest", "QueryModuleVersionsResponse")>>)
UpgradeQueryClient == Client("upgrade", UpgradeQuery, <<
  Method("currentPlan", 0, "QueryCurrentPlanRequest", "QueryCurrentPlanResponse"),
  Method("appliedPlan", 1, "QueryAppliedPlanRequest", "QueryAppliedPlanResponse"),
  Method("upgradedConsensusState", 2, "QueryUpgradedConsensusStateRequest", "QueryUpgradedConsensusStateResponse"),
  Method("moduleVersions", 3, "QueryModuleVersionsRequest", "QueryModuleVersionsResponse")>>)

\* merlion/erc20/v1/query.ts
ERC20Query == Service("merlion.erc20.v1", "Query", <<
  Rpc("TokenPairs", "QueryTokenPairsRequest", "QueryTokenPairsResponse"),
  Rpc("TokenPair", "QueryTokenPairRequest", "QueryTokenPairResponse"),
  Rpc("Params", "QueryParamsRequest", "QueryParamsResponse")>>)
ERC20QueryClient == Client("erc20", ERC20Query, <<
  Method("tokenPairs", 0, "QueryTokenPairsRequest", "QueryTokenPairsResponse"),
  Method("tokenPair", 1, "QueryTokenPairRequest", "QueryTokenPairResponse"),
  Method("params", 2, "QueryParamsRequest", "QueryParamsResponse")>>)

\* merlion/gauge/v1/query.ts
GaugeQuery == Service("merlion.gauge.v1", "Query", <<
  Rpc("Params", "QueryParamsRequest", "QueryParamsResponse")>>)
GaugeQueryClient == Client("gauge", GaugeQuery, <<
  Method("params", 0, "QueryParamsRequest", "QueryParamsResponse")>>)

\* merlion/maker/v1/query.ts
MakerQuery == Service("merlion.maker.v1", "Query", <<
  Rpc("AllBackingRiskParams", "QueryAllBackingRiskParamsRequest", "QueryAllBackingRiskParamsResponse"),
  Rpc("AllCollateralRiskParams", "QueryAllCollateralRiskParamsRequest", "QueryAllCollateralRiskParamsResponse"),
  Rpc("AllBackingPools", "QueryAllBackingPoolsRequest", "QueryAllBackingPoolsResponse"),
  Rpc("AllCollateralPools", "QueryAllCollateralPoolsRequest", "QueryAllCollateralPoolsResponse"),
  Rpc("BackingPool", "QueryBackingPoolRequest", "QueryBackingPoolResponse"),
  Rpc("CollateralPool", "QueryCollateralPoolRequest", "QueryCollateralPoolResponse"),
  Rpc("CollateralOfAccount", "QueryCollateralOfAccountRequest", "QueryCollateralOfAccountResponse"),
  Rpc("TotalBacking", "QueryTotalBackingRequest", "QueryTotalBackingResponse"),
  Rpc("TotalCollateral", "QueryTotalCollateralRequest", "QueryTotalCollateralResponse"),
  Rpc("BackingRatio", "QueryBackingRatioRequest", "QueryBackingRatioResponse"),
  Rpc("Params", "QueryParamsRequest", "QueryParamsResponse"),
  Rpc("EstimateMintBySwapIn", "EstimateMintBySwapInRequest", "EstimateMintBySwapInResponse"),
  Rpc("EstimateMintBySwapOut", "EstimateMintBySwapOutRequest", "EstimateMintBySwapOutResponse"),
  Rpc("EstimateBurnBySwapIn", "EstimateBurnBySwapInRequest", "EstimateBurnBySwapInResponse"),
  Rpc("EstimateBurnBySwapOut", "EstimateBurnBySwapOutRequest", "EstimateBurnBySwapOutResponse"),
  Rpc("EstimateBuyBackingIn", "EstimateBuyBackingInRequest", "EstimateBuyBackingInResponse"),
  Rpc("EstimateBuyBackingOut", "EstimateBuyBackingOutRequest", "EstimateBuyBackingOutResponse"),
  Rpc("EstimateSellBackingIn", "EstimateSellBackingInRequest", "EstimateSellBackingInResponse"),
  Rpc("EstimateSellBackingOut", "EstimateSellBackingOutRequest", "EstimateSellBackingOutResponse")>>)
MakerQueryClient == Client("maker", MakerQuery, <<
  Method("allBackingRiskParams", 0, "QueryAllBackingRiskParamsRequest", "QueryAllBackingRiskParamsResponse"),
  Method("allCollateralRiskParams", 1, "QueryAllCollateralRiskParamsRequest", "QueryAllCollateralRiskParamsResponse"),
  Method("allBackingPools", 2, "QueryAllBackingPoolsRequest", "QueryAllBackingPoolsResponse"),
  Method("allCollateralPools", 3, "QueryAllCollateralPoolsRequest", "QueryAllCollateralPoolsResponse"),
  Method("backingPool", 4, "QueryBackingPoolRequest", "QueryBackingPoolResponse"),
  Method("collateralPool", 5, "QueryCollateralPoolRequest", "QueryCollateralPoolResponse"),
  Method("collateralOfAccount", 6, "QueryCollateralOfAccountRequest", "QueryCollateralOfAccountResponse"),
  Method("totalBacking", 7, "QueryTotalBackingRequest", "QueryTotalBackingResponse"),
  Method("totalCollateral", 8, "QueryTotalCollateralRequest", "QueryTotalCollateralResponse"),
  Method("backingRatio", 9, "QueryBackingRatioRequest", "QueryBackingRatioResponse"),
  Method("params", 10, "QueryParamsRequest", "QueryParamsResponse"),
  Method("estimateMintBySwapIn", 11, "EstimateMintBySwapInRequest", "EstimateMintBySwapInResponse"),
  Method("estimateMintBySwapOut", 12, "EstimateMintBySwapOutRequest", "EstimateMintBySwapOutResponse"),
  Method("estimateBurnBySwapIn", 13, "EstimateBurnBySwapInRequest", "EstimateBurnBySwapInResponse"),
  Method("estimateBurnBySwapOut", 14, "EstimateBurnBySwapOutRequest", "EstimateBurnBySwapOutResponse"),
  Method("estimateBuyBackingIn", 15, "EstimateBuyBackingInRequest", "EstimateBuyBackingInResponse"),
  Method("estimateBuyBackingOut", 16, "EstimateBuyBackingOutRequest", "EstimateBuyBackingOutResponse"),
  Method("estimateSellBackingIn", 17, "EstimateSellBackingInRequest", "EstimateSellBackingInResponse"),
  Method("estimateSellBackingOut", 18, "EstimateSellBackingOutRequest", "EstimateSellBackingOutResponse")>>)

\* merlion/oracle/v1/query.ts
OracleQuery == Service("merlion.oracle.v1", "Query", <<
  Rpc("ExchangeRate", "QueryExchangeRateRequest", "QueryExchangeRateResponse"),
  Rpc("ExchangeRates", "QueryExchangeRatesRequest", "QueryExchangeRatesResponse"),
  Rpc("Actives", "QueryActivesRequest", "QueryActivesResponse"),
  Rpc("VoteTargets", "QueryVoteTargetsRequest", "QueryVoteTargetsResponse"),
  Rpc("Targets", "QueryTargetsRequest", "QueryTargetsResponse"),
  Rpc("FeederDelegation", "QueryFeederDelegationRequest", "QueryFeederDelegationResponse"),
  Rpc("MissCounter", "QueryMissCounterRequest", "QueryMissCounterResponse"),
  Rpc("AggregatePrevote", "QueryAggregatePrevoteRequest", "QueryAggregatePrevoteResponse"),
  Rpc("AggregatePrevotes", "QueryAggregatePrevotesRequest", "QueryAggregatePrevotesResponse"),
  Rpc("AggregateVote", "QueryAggregateVoteRequest", "QueryAggregateVoteResponse"),
  Rpc("AggregateVotes", "QueryAggregateVotesRequest", "QueryAggregateVotesResponse"),
  Rpc("Params", "QueryParamsRequest", "QueryParamsResponse")>>)
OracleQueryClient == Client("oracle", OracleQuery, <<
  Method("exchangeRate", 0, "QueryExchangeRateRequest", "QueryExchangeRateResponse"),
  Method("exchangeRates", 1, "QueryExchangeRatesRequest", "QueryExchangeRatesResponse"),
  Method("actives", 2, "QueryActivesRequest", "QueryActivesResponse"),
  Method("voteTargets", 3, "QueryVoteTargetsRequest", "QueryVoteTargetsResponse"),
  Method("targets", 4, "QueryTargetsRequest", "QueryTargetsResponse"),
  Method("feederDelegation", 5, "QueryFeederDelegationRequest", "QueryFeederDelegationResponse"),
  Method("missCounter", 6, "QueryMissCounterRequest", "QueryMissCounterResponse"),
  Method("aggregatePrevote", 7, "QueryAggregatePrevoteRequest", "QueryAggregatePrevoteResponse"),
  Method("aggregatePrevotes", 8, "QueryAggregatePrevotesRequest", "QueryAggregatePrevotesResponse"),
  Method("aggregateVote", 9, "QueryAggregateVoteRequest", "QueryAggregateVoteResponse"),
  Method("aggregateVotes", 10, "QueryAggregateVotesRequest", "QueryAggregateVotesResponse"),
  Method("params", 11, "QueryParamsRequest", "QueryParamsResponse")>>)

\* merlion/ve/v1/query.ts
VeQuery == Service("merlion.ve.v1", "Query", <<
  Rpc("TotalVotingPower", "QueryTotalVotingPowerRequest", "QueryTotalVotingPowerResponse"),
  Rpc("VotingPower", "QueryVotingPowerRequest", "QueryVotingPowerResponse"),
  Rpc("VeNfts", "QueryVeNftsRequest", "QueryVeNftsResponse"),
  Rpc("VeNft", "QueryVeNftRequest", "QueryVeNftResponse"),
  Rpc("Params", "QueryParamsRequest", "QueryParamsResponse")>>)
VeQueryClient == Client("ve", VeQuery, <<
  Method("totalVotingPower", 0, "QueryTotalVotingPowerRequest", "QueryTotalVotingPowerResponse"),
  Method("votingPower", 1, "QueryVotingPowerRequest", "QueryVotingPowerResponse"),
  Method("veNfts", 2, "QueryVeNftsRequest", "QueryVeNftsResponse"),
  Method("veNft", 3, "QueryVeNftRequest", "QueryVeNftResponse"),
  Method("params", 4, "QueryParamsRequest", "QueryParamsResponse")>>)

\* merlion/voter/v1/query.ts
VoterQuery == Service("merlion.voter.v1", "Query", <<
  Rpc("Params", "QueryParamsRequest", "QueryParamsResponse")>>)
VoterQueryClient == Client("voter", VoterQuery, <<
  Method("params", 0, "QueryParamsRequest", "QueryParamsResponse")>>)

\* cosmos/tx/v1beta1/service.ts
TxService == Service("cosmos.tx.v1beta1", "Service", <<
  Rpc("Simulate", "SimulateRequest", "SimulateResponse"),
  Rpc("GetTx", "GetTxRequest", "GetTxResponse"),
  Rpc("BroadcastTx", "BroadcastTxRequest", "BroadcastTxResponse"),
  Rpc("GetTxsEvent", "GetTxsEventRequest", "GetTxsEventResponse"),
  Rpc("GetBlockWithTxs", "GetBlockWithTxsRequest", "GetBlockWithTxsResponse")>>)
TxServiceClient == Client("txService", TxService, <<
  Method("simulate", 0, "SimulateRequest", "SimulateResponse"),
  Method("getTx", 1, "GetTxRequest", "GetTxResponse"),
  Method("broadcastTx", 2, "BroadcastTxRequest", "BroadcastTxResponse"),
  Method("getTxsEvent", 3, "GetTxsEventRequest", "GetTxsEventResponse"),
  Method("getBlockWithTxs", 4, "GetBlockWithTxsRequest", "GetBlockWithTxsResponse")>>)

-----------------------------------------------------------------------------
(* Services that are not in the querier.                                     *)

\* cosmos/authz/v1beta1/tx.ts
AuthzMsg == Service("cosmos.authz.v1beta1", "Msg", <<
  Rpc("Grant", "MsgGrant", "MsgGrantResponse"),
  Rpc("Exec", "MsgExec", "MsgExecResponse"),
  Rpc("Revoke", "MsgRevoke", "MsgRevokeResponse")>>)
AuthzMsgClient == Client("", AuthzMsg, <<
  Method("grant", 0, "MsgGrant", "MsgGrantResponse"),
  Method("exec", 1, "MsgExec", "MsgExecResponse"),
  Method("revoke", 2, "MsgRevoke", "MsgRevokeResponse")>>)

\* cosmos/bank/v1beta1/tx.ts
BankMsg == Service("cosmos.bank.v1beta1", "Msg", <<
  Rpc("Send", "MsgSend", "MsgSendResponse"),
  Rpc("MultiSend", "MsgMultiSend", "MsgMultiSendResponse")>>)
BankMsgClient == Client("", BankMsg, <<
  Method("send", 0, "MsgSend", "MsgSendResponse"),
  Method("multiSend", 1, "MsgMultiSend", "MsgMultiSendResponse")>>)

\* cosmos/base/reflection/v1beta1/reflection.ts
ReflectionReflectionService == Service("cosmos.base.reflection.v1beta1", "ReflectionService", <<
  Rpc("ListAllInterfaces", "ListAllInterfacesRequest", "ListAllInterfacesResponse"),
  Rpc("ListImplementations", "ListImplementationsRequest", "ListImplementationsResponse")>>)
ReflectionReflectionServiceClient == Client("", ReflectionReflectionService, <<
  Method("listAllInterfaces", 0, "ListAllInterfacesRequest", "ListAllInterfacesResponse"),
  Method("listImplementations", 1, "ListImplementationsRequest", "ListImplementationsResponse")>>)

\* cosmos/base/reflection/v2alpha1/reflection.ts
ReflectionReflectionServiceV2 == Service("cosmos.base.reflection.v2alpha1", "ReflectionService", <<
  Rpc("GetAuthnDescriptor", "GetAuthnDescriptorRequest", "GetAuthnDescriptorResponse"),
  Rpc("GetChainDescriptor", "GetChainDescriptorRequest", "GetChainDescriptorResponse"),
  Rpc("GetCodecDescriptor", "GetCodecDescriptorRequest", "GetCodecDescriptorResponse"),
  Rpc("GetConfigurationDescriptor", "GetConfigurationDescriptorRequest", "GetConfigurationDescriptorResponse"),
  Rpc("GetQueryServicesDescriptor", "GetQueryServicesDescriptorRequest", "GetQueryServicesDescriptorResponse"),
  Rpc("GetTxDescriptor", "GetTxDescriptorRequest", "GetTxDescriptorResponse")>>)
ReflectionReflectionServiceV2Client == Client("", ReflectionReflectionServiceV2, <<
  Method("getAuthnDescriptor", 0, "GetAuthnDescriptorRequest", "GetAuthnDescriptorResponse"),
  Method("getChainDescriptor", 1, "GetChainDescriptorRequest", "GetChainDescriptorResponse"),
  Method("getCodecDescriptor", 2, "GetCodecDescriptorRequest", "GetCodecDescriptorResponse"),
  Method("getConfigurationDescriptor", 3, "GetConfigurationDescriptorRequest", "GetConfigurationDescriptorResponse"),
  Method("getQueryServicesDescriptor", 4, "GetQueryServicesDescriptorRequest", "GetQueryServicesDescriptorResponse"),
  Method("getTxDescriptor", 5, "GetTxDescriptorRequest", "GetTxDescriptorResponse")>>)

\* cosmos/crisis/v1beta1/tx.ts
CrisisMsg == Service("cosmos.crisis.v1beta1", "Msg", <<
  Rpc("VerifyInvariant", "MsgVerifyInvariant", "MsgVerifyInvariantResponse")>>)
CrisisMsgClient == Client("", CrisisMsg, <<
  Method("verifyInvariant", 0, "MsgVerifyInvariant", "MsgVerifyInvariantResponse")>>)

\* cosmos/distribution/v1beta1/tx.ts
DistributionMsg == Service("cosmos.distribution.v1beta1", "Msg", <<
  Rpc("SetWithdrawAddress", "MsgSetWithdrawAddress", "MsgSetWithdrawAddressResponse"),
  Rpc("WithdrawDelegatorReward", "MsgWithdrawDelegatorReward", "MsgWithdrawDelegatorRewardResponse"),
  Rpc("WithdrawValidatorCommission", "MsgWithdrawValidatorCommission", "MsgWithdrawValidatorCommissionResponse"),
  Rpc("FundCommunityPool", "MsgFundCommunityPool", "MsgFundCommunityPoolResponse")>>)
DistributionMsgClient == Client("", DistributionMsg, <<
  Method("setWithdrawAddress", 0, "MsgSetWithdrawAddress", "MsgSetWithdrawAddressResponse"),
  Method("withdrawDelegatorReward", 1, "MsgWithdrawDelegatorReward", "MsgWithdrawDelegatorRewardResponse"),
  Method("withdrawValidatorCommission", 2, "MsgWithdrawValidatorCommission", "MsgWithdrawValidatorCommissionResponse"),
  Method("fundCommunityPool", 3, "MsgFundCommunityPool", "MsgFundCommunityPoolResponse")>>)

\* cosmos/evidence/v1beta1/tx.ts
EvidenceMsg == Service("cosmos.evidence.v1beta1", "Msg", <<
  Rpc("SubmitEvidence", "MsgSubmitEvidence", "MsgSubmitEvidenceResponse")>>)
EvidenceMsgClient == Client("", EvidenceMsg, <<
  Method("submitEvidence", 0, "MsgSubmitEvidence", "MsgSubmitEvidenceResponse")>>)

\* cosmos/feegrant/v1beta1/tx.ts
FeegrantMsg == Service("cosmos.feegrant.v1beta1", "Msg", <<
  Rpc("GrantAllowance", "MsgGrantAllowance", "MsgGrantAllowanceResponse"),
  Rpc("RevokeAllowance", "MsgRevokeAllowance", "MsgRevokeAllowanceResponse")>>)
FeegrantMsgClient == Client("", FeegrantMsg, <<
  Method("grantAllowance", 0, "MsgGrantAllowance", "MsgGrantAllowanceResponse"),
  Method("revokeAllowance", 1, "MsgRevokeAllowance", "MsgRevokeAllowanceResponse")>>)

\* cosmos/gov/v1beta1/tx.ts
GovMsg == Service("cosmos.gov.v1beta1", "Msg", <<
  Rpc("SubmitProposal", "MsgSubmitProposal", "MsgSubmitProposalResponse"),
  Rpc("Vote", "MsgVote", "MsgVoteResponse"),
  Rpc("VoteWeighted", "MsgVoteWeighted", "MsgVoteWeightedResponse"),
  Rpc("Deposit", "MsgDeposit", "MsgDepositResponse")>>)
GovMsgClient == Client("", GovMsg, <<
  Method("submitProposal", 0, "MsgSubmitProposal", "MsgSubmitProposalResponse"),
  Method("vote", 1, "MsgVote", "MsgVoteResponse"),
  Method("voteWeighted", 2, "MsgVoteWeighted", "MsgVoteWeightedResponse"),
  Method("deposit", 3, "MsgDeposit", "MsgDepositResponse")>>)

\* cosmos/slashing/v1beta1/tx.ts
SlashingMsg == Service("cosmos.slashing.v1beta1", "Msg", <<
  Rpc("Unjail", "MsgUnjail", "MsgUnjailResponse")>>)
SlashingMsgClient == Client("", SlashingMsg, <<
  Method("unjail", 0, "MsgUnjail", "MsgUnjailResponse")>>)

\* cosmos/staking/v1beta1/tx.ts
StakingMsg == Service("cosmos.staking.v1beta1", "Msg", <<
  Rpc("CreateValidator", "MsgCreateValidator", "MsgCreateValidatorResponse"),
  Rpc("EditValidator", "MsgEditValidator", "MsgEditValidatorResponse"),
  Rpc("Delegate", "MsgDelegate", "MsgDelegateResponse"),
  Rpc("BeginRedelegate", "MsgBeginRedelegate", "MsgBeginRedelegateResponse"),
  Rpc("Undelegate", "MsgUndelegate", "MsgUndelegateResponse")>>)
StakingMsgClient == Client("", StakingMsg, <<
  Method("createValidator", 0, "MsgCreateValidator", "MsgCreateValidatorResponse"),
  Method("editValidator", 1, "MsgEditValidator", "MsgEditValidatorResponse"),
  Method("delegate", 2, "MsgDelegate", "MsgDelegateResponse"),
  Method("beginRedelegate", 3, "MsgBeginRedelegate", "MsgBeginRedelegateResponse"),
  Method("undelegate", 4, "MsgUndelegate", "MsgUndelegateResponse")>>)

\* cosmos/vesting/v1beta1/tx.ts
VestingMsg == Service("cosmos.vesting.v1beta1", "Msg", <<
  Rpc("CreateVestingAccount", "MsgCreateVestingAccount", "MsgCreateVestingAccountResponse")>>)
VestingMsgClient == Client("", VestingMsg, <<
  Method("createVestingAccount", 0, "MsgCreateVestingAccount", "MsgCreateVestingAccountResponse")>>)

\* ethermint/evm/v1/query.ts
EthermintEvmQuery == Service("ethermint.evm.v1", "Query", <<
  Rpc("Account", "QueryAccountRequest", "QueryAccountResponse"),
  Rpc("CosmosAccount", "QueryCosmosAccountRequest", "QueryCosmosAccountResponse"),
  Rpc("ValidatorAccount", "QueryValidatorAccountRequest", "QueryValidatorAccountResponse"),
  Rpc("Balance", "QueryBalanceRequest", "QueryBalanceResponse"),
  Rpc("Storage", "QueryStorageRequest", "QueryStorageResponse"),
  Rpc("Code", "QueryCodeRequest", "QueryCodeResponse"),
  Rpc("Params", "QueryParamsRequest", "QueryParamsResponse"),
  Rpc("EthCall", "EthCallRequest", "MsgEthereumTxResponse"),
  Rpc("EstimateGas", "EthCallRequest", "EstimateGasResponse"),
  Rpc("TraceTx", "QueryTraceTxRequest", "QueryTraceTxResponse"),
  Rpc("TraceBlock", "QueryTraceBlockRequest", "QueryTraceBlockResponse")>>)
EthermintEvmQueryClient == Client("", EthermintEvmQuery, <<
  Method("account", 0, "QueryAccountRequest", "QueryAccountResponse"),
  Method("cosmosAccount", 1, "QueryCosmosAccountRequest", "QueryCosmosAccountResponse"),
  Method("validatorAccount", 2, "QueryValidatorAccountRequest", "QueryValidatorAccountResponse"),
  Method("balance", 3, "QueryBalanceRequest", "QueryBalanceResponse"),
  Method("storage", 4, "QueryStorageRequest", "QueryStorageResponse"),
  Method("code", 5, "QueryCodeRequest", "QueryCodeResponse"),
  Method("params", 6, "QueryParamsRequest", "QueryParamsResponse"),
  Method("ethCall", 7, "EthCallRequest", "MsgEthereumTxResponse"),
  Method("estimateGas", 8, "EthCallRequest", "EstimateGasResponse"),
  Method("traceTx", 9, "QueryTraceTxRequest", "QueryTraceTxResponse"),
  Method("traceBlock", 10, "QueryTraceBlockRequest", "QueryTraceBlockResponse")>>)

\* ethermint/evm/v1/tx.ts
EthermintEvmMsg == Service("ethermint.evm.v1", "Msg", <<
  Rpc("EthereumTx", "MsgEthereumTx", "MsgEthereumTxResponse")>>)
EthermintEvmMsgClient == Client("", EthermintEvmMsg, <<
  Method("ethereumTx", 0, "MsgEthereumTx", "MsgEthereumTxResponse")>>)

\* ethermint/feemarket/v1/query.ts
EthermintFeemarketQuery == Service("ethermint.feemarket.v1", "Query", <<
  Rpc("Params", "QueryParamsRequest", "QueryParamsResponse"),
  Rpc("BaseFee", "QueryBaseFeeRequest", "QueryBaseFeeResponse"),
  Rpc("BlockGas", "QueryBlockGasRequest", "QueryBlockGasResponse")>>)
EthermintFeemarketQueryClient == Client("", EthermintFeemarketQuery, <<
  Method("params", 0, "QueryParamsRequest", "QueryParamsResponse"),
  Method("baseFee", 1, "QueryBaseFeeRequest", "QueryBaseFeeResponse"),
  Method("blockGas", 2, "QueryBlockGasRequest", "QueryBlockGasResponse")>>)

\* ibc/applications/interchain_accounts/controller/v1/query.ts
IbcInterchainAccountsControllerQuery == Service("ibc.applications.interchain_accounts.controller.v1", "Query", <<
  Rpc("Params", "QueryParamsRequest", "QueryParamsResponse")>>)
IbcInterchainAccountsControllerQueryClient == Client("", IbcInterchainAccountsControllerQuery, <<
  Method("params", 0, "QueryParamsRequest", "QueryParamsResponse")>>)

\* ibc/applications/interchain_accounts/host/v1/query.ts
IbcInterchainAccountsHostQuery == Service("ibc.applications.interchain_accounts.host.v1", "Query", <<
  Rpc("Params", "QueryParamsRequest", "QueryParamsResponse")>>)
IbcInterchainAccountsHostQueryClient == Client("", IbcInterchainAccountsHostQuery, <<
  Method("params", 0, "QueryParamsRequest", "QueryParamsResponse")>>)

\* ibc/applications/transfer/v1/query.ts
IbcTransferQuery == Service("ibc.applications.transfer.v1", "Query", <<
  Rpc("DenomTrace", "QueryDenomTraceRequest", "QueryDenomTraceResponse"),
  Rpc("DenomTraces", "QueryDenomTracesRequest", "QueryDenomTracesResponse"),
  Rpc("Params", "QueryParamsRequest", "QueryParamsResponse"),
  Rpc("DenomHash", "QueryDenomHashRequest", "QueryDenomHashResponse")>>)
IbcTransferQueryClient == Client("", IbcTransferQuery, <<
  Method("denomTrace", 0, "QueryDenomTraceRequest", "QueryDenomTraceResponse"),
  Method("denomTraces", 1, "QueryDenomTracesRequest", "QueryDenomTracesResponse"),
  Method("params", 2, "QueryParamsRequest", "QueryParamsResponse"),
  Method("denomHash", 3, "QueryDenomHashRequest", "QueryDenomHashResponse")>>)

\* ibc/applications/transfer/v1/tx.ts
IbcTransferMsg == Service("ibc.applications.transfer.v1", "Msg", <<
  Rpc("Transfer", "MsgTransfer", "MsgTransferResponse")>>)
IbcTransferMsgClient == Client("", IbcTransferMsg, <<
  Method("transfer", 0, "MsgTransfer", "MsgTransferResponse")>>)

\* ibc/core/channel/v1/query.ts
IbcChannelQuery == Service("ibc.core.channel.v1", "Query", <<
  Rpc("Channel", "QueryChannelRequest", "QueryChannelResponse"),
  Rpc("Channels", "QueryChannelsRequest", "QueryChannelsResponse"),
  Rpc("ConnectionChannels", "QueryConnectionChannelsRequest", "QueryConnectionChannelsResponse"),
  Rpc("ChannelClientState", "QueryChannelClientStateRequest", "QueryChannelClientStateResponse"),
  Rpc("ChannelConsensusState", "QueryChannelConsensusStateRequest", "QueryChannelConsensusStateResponse"),
  Rpc("PacketCommitment", "QueryPacketCommitmentRequest", "QueryPacketCommitmentResponse"),
  Rpc("PacketCommitments", "QueryPacketCommitmentsRequest", "QueryPacketCommitmentsResponse"),
  Rpc("PacketReceipt", "QueryPacketReceiptRequest", "QueryPacketReceiptResponse"),
  Rpc("PacketAcknowledgement", "QueryPacketAcknowledgementRequest", "QueryPacketAcknowledgementResponse"),
  Rpc("PacketAcknowledgements", "QueryPacketAcknowledgementsRequest", "QueryPacketAcknowledgementsResponse"),
  Rpc("UnreceivedPackets", "QueryUnreceivedPacketsRequest", "QueryUnreceivedPacketsResponse"),
  Rpc("UnreceivedAcks", "QueryUnreceivedAcksRequest", "QueryUnreceivedAcksResponse"),
  Rpc("NextSequenceReceive", "QueryNextSequenceReceiveRequest", "QueryNextSequenceReceiveResponse")>>)
IbcChannelQueryClient == Client("", IbcChannelQuery, <<
  Method("channel", 0, "QueryChannelRequest", "QueryChannelResponse"),
  Method("channels", 1, "QueryChannelsRequest", "QueryChannelsResponse"),
  Method("connectionChannels", 2, "QueryConnectionChannelsRequest", "QueryConnectionChannelsResponse"),
  Method("channelClientState", 3, "QueryChannelClientStateRequest", "QueryChannelClientStateResponse"),
  Method("channelConsensusState", 4, "QueryChannelConsensusStateRequest", "QueryChannelConsensusStateResponse"),
  Method("packetCommitment", 5, "QueryPacketCommitmentRequest", "QueryPacketCommitmentResponse"),
  Method("packetCommitments", 6, "QueryPacketCommitmentsRequest", "QueryPacketCommitmentsResponse"),
  Method("packetReceipt", 7, "QueryPacketReceiptRequest", "QueryPacketReceiptResponse"),
  Method("packetAcknowledgement", 8, "QueryPacketAcknowledgementRequest", "QueryPacketAcknowledgementResponse"),
  Method("packetAcknowledgements", 9, "QueryPacketAcknowledgementsRequest", "QueryPacketAcknowledgementsResponse"),
  Method("unreceivedPackets", 10, "QueryUnreceivedPacketsRequest", "QueryUnreceivedPacketsResponse"),
  Method("unreceivedAcks", 11, "QueryUnreceivedAcksRequest", "QueryUnreceivedAcksResponse"),
  Method("nextSequenceReceive", 12, "QueryNextSequenceReceiveRequest", "QueryNextSequenceReceiveResponse")>>)

\* ibc/core/channel/v1/tx.ts
IbcChannelMsg == Service("ibc.core.channel.v1", "Msg", <<
  Rpc("ChannelOpenInit", "MsgChannelOpenInit", "MsgChannelOpenInitResponse"),
  Rpc("ChannelOpenTry", "MsgChannelOpenTry", "MsgChannelOpenTryResponse"),
  Rpc("ChannelOpenAck", "MsgChannelOpenAck", "MsgChannelOpenAckResponse"),
  Rpc("ChannelOpenConfirm", "MsgChannelOpenConfirm", "MsgChannelOpenConfirmResponse"),
  Rpc("ChannelCloseInit", "MsgChannelCloseInit", "MsgChannelCloseInitResponse"),
  Rpc("ChannelCloseConfirm", "MsgChannelCloseConfirm", "MsgChannelCloseConfirmResponse"),
  Rpc("RecvPacket", "MsgRecvPacket", "MsgRecvPacketResponse"),
  Rpc("Timeout", "MsgTimeout", "MsgTimeoutResponse"),
  Rpc("TimeoutOnClose", "MsgTimeoutOnClose", "MsgTimeoutOnCloseResponse"),
  Rpc("Acknowledgement", "MsgAcknowledgement", "MsgAcknowledgementResponse")>>)
IbcChannelMsgClient == Client("", IbcChannelMsg, <<
  Method("channelOpenInit", 0, "MsgChannelOpenInit", "MsgChannelOpenInitResponse"),
  Method("channelOpenTry", 1, "MsgChannelOpenTry", "MsgChannelOpenTryResponse"),
  Method("channelOpenAck", 2, "MsgChannelOpenAck", "MsgChannelOpenAckResponse"),
  Method("channelOpenConfirm", 3, "MsgChannelOpenConfirm", "MsgChannelOpenConfirmResponse"),
  Method("channelCloseInit", 4, "MsgChannelCloseInit", "MsgChannelCloseInitResponse"),
  Method("channelCloseConfirm", 5, "MsgChannelCloseConfirm", "MsgChannelCloseConfirmResponse"),
  Method("recvPacket", 6, "MsgRecvPacket", "MsgRecvPacketResponse"),
  Method("timeout", 7, "MsgTimeout", "MsgTimeoutResponse"),
  Method("timeoutOnClose", 8, "MsgTimeoutOnClose", "MsgTimeoutOnCloseResponse"),
  Method("acknowledgement", 9, "MsgAcknowledgement", "MsgAcknowledgementResponse")>>)

\* ibc/core/client/v1/query.ts
IbcClientQuery == Service("ibc.core.client.v1", "Query", <<
  Rpc("ClientState", "QueryClientStateRequest", "QueryClientStateResponse"),
  Rpc("ClientStates", "QueryClientStatesRequest", "QueryClientStatesResponse"),
  Rpc("ConsensusState", "QueryConsensusStateRequest", "QueryConsensusStateResponse"),
  Rpc("ConsensusStates", "QueryConsensusStatesRequest", "QueryConsensusStatesResponse"),
  Rpc("ClientStatus", "QueryClientStatusRequest", "QueryClientStatusResponse"),
  Rpc("ClientParams", "QueryClientParamsRequest", "QueryClientParamsResponse"),
  Rpc("UpgradedClientState", "QueryUpgradedClientStateRequest", "QueryUpgradedClientStateResponse"),
  Rpc("UpgradedConsensusState", "QueryUpgradedConsensusStateRequest", "QueryUpgradedConsensusStateResponse")>>)
IbcClientQueryClient == Client("", IbcClientQuery, <<
  Method("clientState", 0, "QueryClientStateRequest", "QueryClientStateResponse"),
  Method("clientStates", 1, "QueryClientStatesRequest", "QueryClientStatesResponse"),
  Method("consensusState", 2, "QueryConsensusStateRequest", "QueryConsensusStateResponse"),
  Method("consensusStates", 3, "QueryConsensusStatesRequest", "QueryConsensusStatesResponse"),
  Method("clientStatus", 4, "QueryClientStatusRequest", "QueryClientStatusResponse"),
  Method("clientParams", 5, "QueryClientParamsRequest", "QueryClientParamsResponse"),
  Method("upgradedClientState", 6, "QueryUpgradedClientStateRequest", "QueryUpgradedClientStateResponse"),
  Method("upgradedConsensusState", 7, "QueryUpgradedConsensusStateRequest", "QueryUpgradedConsensusStateResponse")>>)

\* ibc/core/client/v1/tx.ts
IbcClientMsg == Service("ibc.core.client.v1", "Msg", <<
  Rpc("CreateClient", "MsgCreateClient", "MsgCreateClientResponse"),
  Rpc("UpdateClient", "MsgUpdateClient", "MsgUpdateClientResponse"),
  Rpc("UpgradeClient", "MsgUpgradeClient", "MsgUpgradeClientResponse"),
  Rpc("SubmitMisbehaviour", "MsgSubmitMisbehaviour", "MsgSubmitMisbehaviourResponse")>>)
IbcClientMsgClient == Client("", IbcClientMsg, <<
  Method("createClient", 0, "MsgCreateClient", "MsgCreateClientResponse"),
  Method("updateClient", 1, "MsgUpdateClient", "MsgUpdateClientResponse"),
  Method("upgradeClient", 2, "MsgUpgradeClient", "MsgUpgradeClientResponse"),
  Method("submitMisbehaviour", 3, "MsgSubmitMisbehaviour", "MsgSubmitMisbehaviourResponse")>>)

\* ibc/core/connection/v1/query.ts
IbcConnectionQuery == Service("ibc.core.connection.v1", "Query", <<
  Rpc("Connection", "QueryConnectionRequest", "QueryConnectionResponse"),
  Rpc("Connections", "QueryConnectionsRequest", "QueryConnectionsResponse"),
  Rpc("ClientConnections", "QueryClientConnectionsRequest", "QueryClientConnectionsResponse"),
  Rpc("ConnectionClientState", "QueryConnectionClientStateRequest", "QueryConnectionClientStateResponse"),
  Rpc("ConnectionConsensusState", "QueryConnectionConsensusStateRequest", "QueryConnectionConsensusStateResponse")>>)
IbcConnectionQueryClient == Client("", IbcConnectionQuery, <<
  Method("connection", 0, "QueryConnectionRequest", "QueryConnectionResponse"),
  Method("connections", 1, "QueryConnectionsRequest", "QueryConnectionsResponse"),
  Method("clientConnections", 2, "QueryClientConnectionsRequest", "QueryClientConnectionsResponse"),
  Method("connectionClientState", 3, "QueryConnectionClientStateRequest", "QueryConnectionClientStateResponse"),
  Method("connectionConsensusState", 4, "QueryConnectionConsensusStateRequest", "QueryConnectionConsensusStateResponse")>>)

\* ibc/core/connection/v1/tx.ts
IbcConnectionMsg == Service("ibc.core.connection.v1", "Msg", <<
  Rpc("ConnectionOpenInit", "MsgConnectionOpenInit", "MsgConnectionOpenInitResponse"),
  Rpc("ConnectionOpenTry", "MsgConnectionOpenTry", "MsgConnectionOpenTryResponse"),
  Rpc("ConnectionOpenAck", "MsgConnectionOpenAck", "MsgConnectionOpenAckResponse"),
  Rpc("ConnectionOpenConfirm", "MsgConnectionOpenConfirm", "MsgConnectionOpenConfirmResponse")>>)
IbcConnectionMsgClient == Client("", IbcConnectionMsg, <<
  Method("connectionOpenInit", 0, "MsgConnectionOpenInit", "MsgConnectionOpenInitResponse"),
  Method("connectionOpenTry", 1, "MsgConnectionOpenTry", "MsgConnectionOpenTryResponse"),
  Method("connectionOpenAck", 2, "MsgConnectionOpenAck", "MsgConnectionOpenAckResponse"),
  Method("connectionOpenConfirm", 3, "MsgConnectionOpenConfirm", "MsgConnectionOpenConfirmResponse")>>)

\* merlion/maker/v1/tx.ts
MerlionMakerMsg == Service("merlion.maker.v1", "Msg", <<
  Rpc("MintBySwap", "MsgMintBySwap", "MsgMintBySwapResponse"),
  Rpc("BurnBySwap", "MsgBurnBySwap", "MsgBurnBySwapResponse"),
  Rpc("BuyBacking", "MsgBuyBacking", "MsgBuyBackingResponse"),
  Rpc("SellBacking", "MsgSellBacking", "MsgSellBackingResponse"),
  Rpc("MintByCollateral", "MsgMintByCollateral", "MsgMintByCollateralResponse"),
  Rpc("BurnByCollateral", "MsgBurnByCollateral", "MsgBurnByCollateralResponse"),
  Rpc("DepositCollateral", "MsgDepositCollateral", "MsgDepositCollateralResponse"),
  Rpc("RedeemCollateral", "MsgRedeemCollateral", "MsgRedeemCollateralResponse"),
  Rpc("LiquidateCollateral", "MsgLiquidateCollateral", "MsgLiquidateCollateralResponse")>>)
MerlionMakerMsgClient == Client("", MerlionMakerMsg, <<
  Method("mintBySwap", 0, "MsgMintBySwap", "MsgMintBySwapResponse"),
  Method("burnBySwap", 1, "MsgBurnBySwap", "MsgBurnBySwapResponse"),
  Method("buyBacking", 2, "MsgBuyBacking", "MsgBuyBackingResponse"),
  Method("sellBacking", 3, "MsgSellBacking", "MsgSellBackingResponse"),
  Method("mintByCollateral", 4, "MsgMintByCollateral", "MsgMintByCollateralResponse"),
  Method("burnByCollateral", 5, "MsgBurnByCollateral", "MsgBurnByCollateralResponse"),
  Method("depositCollateral", 6, "MsgDepositCollateral", "MsgDepositCollateralResponse"),
  Method("redeemCollateral", 7, "MsgRedeemCollateral", "MsgRedeemCollateralResponse"),
  Method("liquidateCollateral", 8, "MsgLiquidateCollateral", "MsgLiquidateCollateralResponse")>>)

\* merlion/oracle/v1/tx.ts
MerlionOracleMsg == Service("merlion.oracle.v1", "Msg", <<
  Rpc("AggregateExchangeRatePrevote", "MsgAggregateExchangeRatePrevote", "MsgAggregateExchangeRatePrevoteResponse"),
  Rpc("AggregateExchangeRateVote", "MsgAggregateExchangeRateVote", "MsgAggregateExchangeRateVoteResponse"),
  Rpc("DelegateFeedConsent", "MsgDelegateFeedConsent", "MsgDelegateFeedConsentResponse")>>)
MerlionOracleMsgClient == Client("", MerlionOracleMsg, <<
  Method("aggregateExchangeRatePrevote", 0, "MsgAggregateExchangeRatePrevote", "MsgAggregateExchangeRatePrevoteResponse"),
  Method("aggregateExchangeRateVote", 1, "MsgAggregateExchangeRateVote", "MsgAggregateExchangeRateVoteResponse"),
  Method("delegateFeedConsent", 2, "MsgDelegateFeedConsent", "MsgDelegateFeedConsentResponse")>>)

\* merlion/staking/v1/tx.ts
MerlionStakingMsg == Service("merlion.staking.v1", "Msg", <<
  Rpc("VeDelegate", "MsgVeDelegate", "MsgVeDelegateResponse")>>)
MerlionStakingMsgClient == Client("", MerlionStakingMsg, <<
  Method("veDelegate", 0, "MsgVeDelegate", "MsgVeDelegateResponse")>>)

\* merlion/ve/v1/tx.ts
MerlionVeMsg == Service("merlion.ve.v1", "Msg", <<
  Rpc("Create", "MsgCreate", "MsgCreateResponse"),
  Rpc("Deposit", "MsgDeposit", "MsgDepositResponse"),
  Rpc("ExtendTime", "MsgExtendTime", "MsgExtendTimeResponse"),
  Rpc("Merge", "MsgMerge", "MsgMergeResponse"),
  Rpc("Withdraw", "MsgWithdraw", "MsgWithdrawResponse")>>)
MerlionVeMsgClient == Client("", MerlionVeMsg, <<
  Method("create", 0, "MsgCreate", "MsgCreateResponse"),
  Method("deposit", 1, "MsgDeposit", "MsgDepositResponse"),
  Method("extendTime", 2, "MsgExtendTime", "MsgExtendTimeResponse"),
  Method("merge", 3, "MsgMerge", "MsgMergeResponse"),
  Method("withdraw", 4, "MsgWithdraw", "MsgWithdrawResponse")>>)

\* tendermint/abci/types.ts
TendermintAbciABCIApplication == Service("tendermint.abci", "ABCIApplication", <<
  Rpc("Echo", "RequestEcho", "ResponseEcho"),
  Rpc("Flush", "RequestFlush", "ResponseFlush"),
  Rpc("Info", "RequestInfo", "ResponseInfo"),
  Rpc("SetOption", "RequestSetOption", "ResponseSetOption"),
  Rpc("DeliverTx", "RequestDeliverTx", "ResponseDeliverTx"),
  Rpc("CheckTx", "RequestCheckTx", "ResponseCheckTx"),
  Rpc("Query", "RequestQuery", "ResponseQuery"),
  Rpc("Commit", "RequestCommit", "ResponseCommit"),
  Rpc("InitChain", "RequestInitChain", "ResponseInitChain"),
  Rpc("BeginBlock", "RequestBeginBlock", "ResponseBeginBlock"),
  Rpc("EndBlock", "RequestEndBlock", "ResponseEndBlock"),
  Rpc("ListSnapshots", "RequestListSnapshots", "ResponseListSnapshots"),
  Rpc("OfferSnapshot", "RequestOfferSnapshot", "ResponseOfferSnapshot"),
  Rpc("LoadSnapshotChunk", "RequestLoadSnapshotChunk", "ResponseLoadSnapshotChunk"),
  Rpc("ApplySnapshotChunk", "RequestApplySnapshotChunk", "ResponseApplySnapshotChunk")>>)
TendermintAbciABCIApplicationClient == Client("", TendermintAbciABCIApplication, <<
  Method("echo", 0, "RequestEcho", "ResponseEcho"),
  Method("flush", 1, "RequestFlush", "ResponseFlush"),
  Method("info", 2, "RequestInfo", "ResponseInfo"),
  Method("setOption", 3, "RequestSetOption", "ResponseSetOption"),
  Method("deliverTx", 4, "RequestDeliverTx", "ResponseDeliverTx"),
  Method("checkTx", 5, "RequestCheckTx", "ResponseCheckTx"),
  Method("query", 6, "RequestQuery", "ResponseQuery"),
  Method("commit", 7, "RequestCommit", "ResponseCommit"),
  Method("initChain", 8, "RequestInitChain", "ResponseInitChain"),
  Method("beginBlock", 9, "RequestBeginBlock", "ResponseBeginBlock"),
  Method("endBlock", 10, "RequestEndBlock", "ResponseEndBlock"),
  Method("listSnapshots", 11, "RequestListSnapshots", "ResponseListSnapshots"),
  Method("offerSnapshot", 12, "RequestOfferSnapshot", "ResponseOfferSnapshot"),
  Method("loadSnapshotChunk", 13, "RequestLoadSnapshotChunk", "ResponseLoadSnapshotChunk"),
  Method("applySnapshotChunk", 14, "RequestApplySnapshotChunk", "ResponseApplySnapshotChunk")>>)

-----------------------------------------------------------------------------

\* getQuerier awaits their imports in this order; create adds the last one.
Clients == <<
  AuthQueryClient, AuthzQueryClient, BankQueryClient, DistributionQueryClient,
  EvidenceQueryClient, FeegrantQueryClient, GovQueryClient, MintQueryClient,
  ParamsQueryClient, SlashingQueryClient, StakingQueryClient,
  TendermintServiceClient, UpgradeQueryClient, ERC20QueryClient,
  GaugeQueryClient, MakerQueryClient, OracleQueryClient, VeQueryClient,
  VoterQueryClient, TxServiceClient>>

\* The other generated clients, for which an application has a transport.
OtherClients == <<
  AuthzMsgClient, BankMsgClient, ReflectionReflectionServiceClient,
  ReflectionReflectionServiceV2Client, CrisisMsgClient,
  DistributionMsgClient, EvidenceMsgClient, FeegrantMsgClient, GovMsgClient,
  SlashingMsgClient, StakingMsgClient, VestingMsgClient,
  EthermintEvmQueryClient, EthermintEvmMsgClient,
  EthermintFeemarketQueryClient, IbcInterchainAccountsControllerQueryClient,
  IbcInterchainAccountsHostQueryClient, IbcTransferQueryClient,
  IbcTransferMsgClient, IbcChannelQueryClient, IbcChannelMsgClient,
  IbcClientQueryClient, IbcClientMsgClient, IbcConnectionQueryClient,
  IbcConnectionMsgClient, MerlionMakerMsgClient, MerlionOracleMsgClient,
  MerlionStakingMsgClient, MerlionVeMsgClient,
  TendermintAbciABCIApplicationClient>>
=============================================================================
