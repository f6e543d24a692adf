--------------------------- MODULE CosmosModules ---------------------------
(****************************************************************************)
(* Schemas of the other modules of the SDK: mint, upgrade, slashing,        *)
(* evidence, params, feegrant, capability, crisis and genutil.              *)
(****************************************************************************)
EXTENDS ProtoSchema

\* cosmos/capability/v1beta1/capability.ts
Capability == MessageType("cosmos.capability.v1beta1.Capability", <<
  Uint64(1, "index")>>)
Owner == MessageType("cosmos.capability.v1beta1.Owner", <<
  Str(1, "module"), Str(2, "name")>>)
CapabilityOwners == MessageType("cosmos.capability.v1beta1.CapabilityOwners", <<
  Repeated(Nested(1, "owners", "cosmos.capability.v1beta1.Owner"))>>)

\* cosmos/capability/v1beta1/genesis.ts
GenesisOwners == MessageType("cosmos.capability.v1beta1.GenesisOwners", <<
  Uint64(1, "index"),
  Nested(2, "index_owners", "cosmos.capability.v1beta1.CapabilityOwners")>>)
GenesisState == MessageType("cosmos.capability.v1beta1.GenesisState", <<
  Uint64(1, "index"),
  Repeated(Nested(2, "owners", "cosmos.capability.v1beta1.GenesisOwners"))>>)

\* cosmos/crisis/v1beta1/genesis.ts
CrisisGenesisState == MessageType("cosmos.crisis.v1beta1.GenesisState", <<
  Nested(3, "constant_fee", "cosmos.base.v1beta1.Coin")>>)

\* cosmos/crisis/v1beta1/tx.ts
MsgVerifyInvariant == MessageType("cosmos.crisis.v1beta1.MsgVerifyInvariant", <<
  Str(1, "sender"), Str(2, "invariant_module_name"),
  Str(3, "invariant_route")>>)
MsgVerifyInvariantResponse == MessageType("cosmos.crisis.v1beta1.MsgVerifyInvariantResponse", <<>>)

\* cosmos/evidence/v1beta1/evidence.ts
Equivocation == MessageType("cosmos.evidence.v1beta1.Equivocation", <<
  Int64(1, "height"), Nested(2, "time", "google.protobuf.Timestamp"),
  Int64(3, "power"), Str(4, "consensus_address")>>)

\* cosmos/evidence/v1beta1/genesis.ts
EvidenceGenesisState == MessageType("cosmos.evidence.v1beta1.GenesisState", <<
  Repeated(Nested(1, "evidence", "google.protobuf.Any"))>>)

\* cosmos/evidence/v1beta1/query.ts
QueryEvidenceRequest == MessageType("cosmos.evidence.v1beta1.QueryEvidenceRequest", <<
  Bytes(1, "evidence_hash")>>)
QueryEvidenceResponse == MessageType("cosmos.evidence.v1beta1.QueryEvidenceResponse", <<
  Nested(1, "evidence", "google.protobuf.Any")>>)
QueryAllEvidenceRequest == MessageType("cosmos.evidence.v1beta1.QueryAllEvidenceRequest", <<
  Nested(1, "pagination", "cosmos.base.query.v1beta1.PageRequest")>>)
QueryAllEvidenceResponse == MessageType("cosmos.evidence.v1beta1.QueryAllEvidenceResponse", <<
  Repeated(Nested(1, "evidence", "google.protobuf.Any")),
  Nested(2, "pagination", "cosmos.base.query.v1beta1.PageResponse")>>)

\* cosmos/evidence/v1beta1/tx.ts
MsgSubmitEvidence == MessageType("cosmos.evidence.v1beta1.MsgSubmitEvidence", <<
  Str(1, "submitter"), Nested(2, "evidence", "google.protobuf.Any")>>)
MsgSubmitEvidenceResponse == MessageType("cosmos.evidence.v1beta1.MsgSubmitEvidenceResponse", <<
  Bytes(4, "hash")>>)

\* cosmos/feegrant/v1beta1/feegrant.ts
BasicAllowance == MessageType("cosmos.feegrant.v1beta1.BasicAllowance", <<
  Repeated(Nested(1, "spend_limit", "cosmos.base.v1beta1.Coin")),
  Nested(2, "expiration", "google.protobuf.Timestamp")>>)
PeriodicAllowance == MessageType("cosmos.feegrant.v1beta1.PeriodicAllowance", <<
  Nested(1, "basic", "cosmos.feegrant.v1beta1.BasicAllowance"),
  Nested(2, "period", "google.protobuf.Duration"),
  Repeated(Nested(3, "period_spend_limit", "cosmos.base.v1beta1.Coin")),
  Repeated(Nested(4, "period_can_spend", "cosmos.base.v1beta1.Coin")),
  Nested(5, "period_reset", "google.protobuf.Timestamp")>>)
AllowedMsgAllowance == MessageType("cosmos.feegrant.v1beta1.AllowedMsgAllowance", <<
  Nested(1, "allowance", "google.protobuf.Any"),
  Repeated(Str(2, "allowed_messages"))>>)
Grant == MessageType("cosmos.feegrant.v1beta1.Grant", <<
  Str(1, "granter"), Str(2, "grantee"),
  Nested(3, "allowance", "google.protobuf.Any")>>)

\* cosmos/feegrant/v1beta1/genesis.ts
FeegrantGenesisState == MessageType("cosmos.feegrant.v1beta1.GenesisState", <<
  Repeated(Nested(1, "allowances", "cosmos.feegrant.v1beta1.Grant"))>>)

\* cosmos/feegrant/v1beta1/query.ts
QueryAllowanceRequest == MessageType("cosmos.feegrant.v1beta1.QueryAllowanceRequest", <<
  Str(1, "granter"), Str(2, "grantee")>>)
QueryAllowanceResponse == MessageType("cosmos.feegrant.v1beta1.QueryAllowanceResponse", <<
  Nested(1, "allowance", "cosmos.feegrant.v1beta1.Grant")>>)
QueryAllowancesRequest == MessageType("cosmos.feegrant.v1beta1.QueryAllowancesRequest", <<
  Str(1, "grantee"),
  Nested(2, "pagination", "cosmos.base.query.v1beta1.PageRequest")>>)
QueryAllowancesResponse == MessageType("cosmos.feegrant.v1beta1.QueryAllowancesResponse", <<
  Repeated(Nested(1, "allowances", "cosmos.feegrant.v1beta1.Grant")),
  Nested(2, "pagination", "cosmos.base.query.v1beta1.PageResponse")>>)

\* cosmos/feegrant/v1beta1/tx.ts
MsgGrantAllowance == MessageType("cosmos.feegrant.v1beta1.MsgGrantAllowance", <<
  Str(1, "granter"), Str(2, "grantee"),
  Nested(3, "allowance", "google.protobuf.Any")>>)
MsgGrantAllowanceResponse == MessageType("cosmos.feegrant.v1beta1.MsgGrantAllowanceResponse", <<>>)
MsgRevokeAllowance == MessageType("cosmos.feegrant.v1beta1.MsgRevokeAllowance", <<
  Str(1, "granter"), Str(2, "grantee")>>)
MsgRevokeAllowanceResponse == MessageType("cosmos.feegrant.v1beta1.MsgRevokeAllowanceResponse", <<>>)

\* cosmos/genutil/v1beta1/genesis.ts
GenutilGenesisState == MessageType("cosmos.genutil.v1beta1.GenesisState", <<
  Repeated(Bytes(1, "gen_txs"))>>)

\* cosmos/mint/v1beta1/genesis.ts
MintGenesisState == MessageType("cosmos.mint.v1beta1.GenesisState", <<
  Nested(1, "minter", "cosmos.mint.v1beta1.Minter"),
  Nested(2, "params", "cosmos.mint.v1beta1.Params")>>)

\* cosmos/mint/v1beta1/mint.ts
Minter == MessageType("cosmos.mint.v1beta1.Minter", <<
  Str(1, "inflation"), Str(2, "annual_provisions")>>)
Params == MessageType("cosmos.mint.v1beta1.Params", <<
  Str(1, "mint_denom"), Str(2, "inflation_rate_change"),
  Str(3, "inflation_max"), Str(4, "inflation_min"), Str(5, "goal_bonded"),
  Uint64(6, "blocks_per_year")>>)

\* cosmos/mint/v1beta1/query.ts
QueryParamsRequest == MessageType("cosmos.mint.v1beta1.QueryParamsRequest", <<>>)
QueryParamsResponse == MessageType("cosmos.mint.v1beta1.QueryParamsResponse", <<
  Nested(1, "params", "cosmos.mint.v1beta1.Params")>>)
QueryInflationRequest == MessageType("cosmos.mint.v1beta1.QueryInflationRequest", <<>>)
QueryInflationResponse == MessageType("cosmos.mint.v1beta1.QueryInflationResponse", <<
  Bytes(1, "inflation")>>)
QueryAnnualProvisionsRequest == MessageType("cosmos.mint.v1beta1.QueryAnnualProvisionsRequest", <<>>)
QueryAnnualProvisionsResponse == MessageType("cosmos.mint.v1beta1.QueryAnnualProvisionsResponse", <<
  Bytes(1, "annual_provisions")>>)

\* cosmos/params/v1beta1/params.ts
ParameterChangeProposal == MessageType("cosmos.params.v1beta1.ParameterChangeProposal", <<
  Str(1, "title"), Str(2, "description"),
  Repeated(Nested(3, "changes", "cosmos.params.v1beta1.ParamChange"))>>)
ParamChange == MessageType("cosmos.params.v1beta1.ParamChange", <<
  Str(1, "subspace"), Str(2, "key"), Str(3, "value")>>)

\* cosmos/params/v1beta1/query.ts
ParamsQueryParamsRequest == MessageType("cosmos.params.v1beta1.QueryParamsRequest", <<
  Str(1, "subspace"), Str(2, "key")>>)
ParamsQueryParamsResponse == MessageType("cosmos.params.v1beta1.QueryParamsResponse", <<
  Nested(1, "param", "cosmos.params.v1beta1.ParamChange")>>)

\* cosmos/slashing/v1beta1/genesis.ts
SlashingGenesisState == MessageType("cosmos.slashing.v1beta1.GenesisState", <<
  Nested(1, "params", "cosmos.slashing.v1beta1.Params"),
  Repeated(Nested(2, "signing_infos", "cosmos.slashing.v1beta1.SigningInfo")),
  Repeated(Nested(3, "missed_blocks", "cosmos.slashing.v1beta1.ValidatorMissedBlocks"))>>)
SigningInfo == MessageType("cosmos.slashing.v1beta1.SigningInfo", <<
  Str(1, "address"),
  Nested(2, "validator_signing_info", "cosmos.slashing.v1beta1.ValidatorSigningInfo")>>)
ValidatorMissedBlocks == MessageType("cosmos.slashing.v1beta1.ValidatorMissedBlocks", <<
  Str(1, "address"),
  Repeated(Nested(2, "missed_blocks", "cosmos.slashing.v1beta1.MissedBlock"))>>)
MissedBlock == MessageType("cosmos.slashing.v1beta1.MissedBlock", <<
  Int64(1, "index"), Bool(2, "missed")>>)

\* cosmos/slashing/v1beta1/query.ts
SlashingQueryParamsRequest == MessageType("cosmos.slashing.v1beta1.QueryParamsRequest", <<>>)
SlashingQueryParamsResponse == MessageType("cosmos.slashing.v1beta1.QueryParamsResponse", <<
  Nested(1, "params", "cosmos.slashing.v1beta1.Params")>>)
QuerySigningInfoRequest == MessageType("cosmos.slashing.v1beta1.QuerySigningInfoRequest", <<
  Str(1, "cons_address")>>)
QuerySigningInfoResponse == MessageType("cosmos.slashing.v1beta1.QuerySigningInfoResponse", <<
  Nested(1, "val_signing_info", "cosmos.slashing.v1beta1.ValidatorSigningInfo")>>)
QuerySigningInfosRequest == MessageType("cosmos.slashing.v1beta1.QuerySigningInfosRequest", <<
  Nested(1, "pagination", "cosmos.base.query.v1beta1.PageRequest")>>)
QuerySigningInfosResponse == MessageType("cosmos.slashing.v1beta1.QuerySigningInfosResponse", <<
  Repeated(Nested(1, "info", "cosmos.slashing.v1beta1.ValidatorSigningInfo")),
  Nested(2, "pagination", "cosmos.base.query.v1beta1.PageResponse")>>)

\* cosmos/slashing/v1beta1/slashing.ts
ValidatorSigningInfo == MessageType("cosmos.slashing.v1beta1.ValidatorSigningInfo", <<
  Str(1, "address"), Int64(2, "start_height"), Int64(3, "index_offset"),
  Nested(4, "jailed_until", "google.protobuf.Timestamp"),
  Bool(5, "tombstoned"), Int64(6, "missed_blocks_counter")>>)
SlashingParams == MessageType("cosmos.slashing.v1beta1.Params", <<
  Int64(1, "signed_blocks_window"), Bytes(2, "min_signed_per_window"),
  Nested(3, "downtime_jail_duration", "google.protobuf.Duration"),
  Bytes(4, "slash_fraction_double_sign"),
  Bytes(5, "slash_fraction_downtime")>>)

\* cosmos/slashing/v1beta1/tx.ts
MsgUnjail == MessageType("cosmos.slashing.v1beta1.MsgUnjail", <<
  Str(1, "validator_addr")>>)
MsgUnjailResponse == MessageType("cosmos.slashing.v1beta1.MsgUnjailResponse", <<>>)

\* cosmos/upgrade/v1beta1/query.ts
QueryCurrentPlanRequest == MessageType("cosmos.upgrade.v1beta1.QueryCurrentPlanRequest", <<>>)
QueryCurrentPlanResponse == MessageType("cosmos.upgrade.v1beta1.QueryCurrentPlanResponse", <<
  Nested(1, "plan", "cosmos.upgrade.v1beta1.Plan")>>)
QueryAppliedPlanRequest == MessageType("cosmos.upgrade.v1beta1.QueryAppliedPlanRequest", <<
  Str(1, "name")>>)
QueryAppliedPlanResponse == MessageType("cosmos.upgrade.v1beta1.QueryAppliedPlanResponse", <<
  Int64(1, "height")>>)
QueryUpgradedConsensusStateRequest == MessageType("cosmos.upgrade.v1beta1.QueryUpgradedConsensusStateRequest", <<
  Int64(1, "last_height")>>)
QueryUpgradedConsensusStateResponse == MessageType("cosmos.upgrade.v1beta1.QueryUpgradedConsensusStateResponse", <<
  Bytes(2, "upgraded_consensus_state")>>)
QueryModuleVersionsRequest == MessageType("cosmos.upgrade.v1beta1.QueryModuleVersionsRequest", <<
  Str(1, "module_name")>>)
QueryModuleVersionsResponse == MessageType("cosmos.upgrade.v1beta1.QueryModuleVersionsResponse", <<
  Repeated(Nested(1, "module_versions", "cosmos.upgrade.v1beta1.ModuleVersion"))>>)

\* cosmos/upgrade/v1beta1/upgrade.ts
Plan == MessageType("cosmos.upgrade.v1beta1.Plan", <<
  Str(1, "name"), Nested(2, "time", "google.protobuf.Timestamp"),
  Int64(3, "height"), Str(4, "info"),
  Nested(5, "upgraded_client_state", "google.protobuf.Any")>>)
SoftwareUpgradeProposal == MessageType("cosmos.upgrade.v1beta1.SoftwareUpgradeProposal", <<
  Str(1, "title"), Str(2, "description"),
  Nested(3, "plan", "cosmos.upgrade.v1beta1.Plan")>>)
CancelSoftwareUpgradeProposal == MessageType("cosmos.upgrade.v1beta1.CancelSoftwareUpgradeProposal", <<
  Str(1, "title"), Str(2, "description")>>)
ModuleVersion == MessageType("cosmos.upgrade.v1beta1.ModuleVersion", <<
  Str(1, "name"), Uint64(2, "version")>>)

Types == {
   Capability, Owner, CapabilityOwners, GenesisOwners, GenesisState,
   CrisisGenesisState, MsgVerifyInvariant, MsgVerifyInvariantResponse,
   Equivocation, EvidenceGenesisState, QueryEvidenceRequest,
   QueryEvidenceResponse, QueryAllEvidenceRequest,
   QueryAllEvidenceResponse, MsgSubmitEvidence, MsgSubmitEvidenceResponse,
   BasicAllowance, PeriodicAllowance, AllowedMsgAllowance, Grant,
   FeegrantGenesisState, QueryAllowanceRequest, QueryAllowanceResponse,
   QueryAllowancesRequest, QueryAllowancesResponse, MsgGrantAllowance,
   MsgGrantAllowanceResponse, MsgRevokeAllowance,
   MsgRevokeAllowanceResponse, GenutilGenesisState, MintGenesisState,
   Minter, Params, QueryParamsRequest, QueryParamsResponse,
   QueryInflationRequest, QueryInflationResponse,
   QueryAnnualProvisionsRequest, QueryAnnualProvisionsResponse,
   ParameterChangeProposal, ParamChange, ParamsQueryParamsRequest,
   ParamsQueryParamsResponse, SlashingGenesisState, SigningInfo,
   ValidatorMissedBlocks, MissedBlock, SlashingQueryParamsRequest,
   SlashingQueryParamsResponse, QuerySigningInfoRequest,
   QuerySigningInfoResponse, QuerySigningInfosRequest,
   QuerySigningInfosResponse, ValidatorSigningInfo, SlashingParams,
   MsgUnjail, MsgUnjailResponse, QueryCurrentPlanRequest,
   QueryCurrentPlanResponse, QueryAppliedPlanRequest,
   QueryAppliedPlanResponse, QueryUpgradedConsensusStateRequest,
   QueryUpgradedConsensusStateResponse, QueryModuleVersionsRequest,
   QueryModuleVersionsResponse, Plan, SoftwareUpgradeProposal,
   CancelSoftwareUpgradeProposal, ModuleVersion}
=============================================================================
