----------------------------- MODULE CosmosBase -----------------------------
(****************************************************************************)
(* Schemas of cosmos.base: coins, pages, ABCI results, and blocks as the    *)
(* Tendermint service returns them.                                         *)
(****************************************************************************)
EXTENDS ProtoSchema

\* cosmos/base/abci/v1beta1/abci.ts
TxResponse == MessageType("cosmos.base.abci.v1beta1.TxResponse", <<
  Int64(1, "height"), Str(2, "txhash"), Str(3, "codespace"), Uint32(4, "code"),
  Str(5, "data"), Str(6, "raw_log"),
  Repeated(Nested(7, "logs", "cosmos.base.abci.v1beta1.ABCIMessageLog")),
  Str(8, "info"), Int64(9, "gas_wanted"), Int64(10, "gas_used"),
  Nested(11, "tx", "google.protobuf.Any"), Str(12, "timestamp"),
  Repeated(Nested(13, "events", "tendermint.abci.Event"))>>)
ABCIMessageLog == MessageType("cosmos.base.abci.v1beta1.ABCIMessageLog", <<
  Uint32(1, "msg_index"), Str(2, "log"),
  Repeated(Nested(3, "events", "cosmos.base.abci.v1beta1.StringEvent"))>>)
StringEvent == MessageType("cosmos.base.abci.v1beta1.StringEvent", <<
  Str(1, "type"),
  Repeated(Nested(2, "attributes", "cosmos.base.abci.v1beta1.Attribute"))>>)
Attribute == MessageType("cosmos.base.abci.v1beta1.Attribute", <<
  Str(1, "key"), Str(2, "value")>>)
GasInfo == MessageType("cosmos.base.abci.v1beta1.GasInfo", <<
  Uint64(1, "gas_wanted"), Uint64(2, "gas_used")>>)
Result == MessageType("cosmos.base.abci.v1beta1.Result", <<
  Bytes(1, "data"), Str(2, "log"),
  Repeated(Nested(3, "events", "tendermint.abci.Event"))>>)
SimulationResponse == MessageType("cosmos.base.abci.v1beta1.SimulationResponse", <<
  Nested(1, "gas_info", "cosmos.base.abci.v1beta1.GasInfo"),
  Nested(2, "result", "cosmos.base.abci.v1beta1.Result")>>)
MsgData == MessageType("cosmos.base.abci.v1beta1.MsgData", <<
  Str(1, "msg_type"), Bytes(2, "data")>>)
TxMsgData == MessageType("cosmos.base.abci.v1beta1.TxMsgData", <<
  Repeated(Nested(1, "data", "cosmos.base.abci.v1beta1.MsgData"))>>)
SearchTxsResult == MessageType("cosmos.base.abci.v1beta1.SearchTxsResult", <<
  Uint64(1, "total_count"), Uint64(2, "count"), Uint64(3, "page_number"),
  Uint64(4, "page_total"), Uint64(5, "limit"),
  Repeated(Nested(6, "txs", "cosmos.base.abci.v1beta1.TxResponse"))>>)

\* cosmos/base/kv/v1beta1/kv.ts
Pairs == MessageType("cosmos.base.kv.v1beta1.Pairs", <<
  Repeated(Nested(1, "pairs", "cosmos.base.kv.v1beta1.Pair"))>>)
Pair == MessageType("cosmos.base.kv.v1beta1.Pair", <<
  Bytes(1, "key"), Bytes(2, "value")>>)

\* cosmos/base/query/v1beta1/pagination.ts
PageRequest == MessageType("cosmos.base.query.v1beta1.PageRequest", <<
  Bytes(1, "key"), Uint64(2, "offset"), Uint64(3, "limit"),
  Bool(4, "count_total"), Bool(5, "reverse")>>)
PageResponse == MessageType("cosmos.base.query.v1beta1.PageResponse", <<
  Bytes(1, "next_key"), Uint64(2, "total")>>)

\* cosmos/base/reflection/v1beta1/reflection.ts
ListAllInterfacesRequest == MessageType("cosmos.base.reflection.v1beta1.ListAllInterfacesRequest", <<>>)
ListAllInterfacesResponse == MessageType("cosmos.base.reflection.v1beta1.ListAllInterfacesResponse", <<
  Repeated(Str(1, "interface_names"))>>)
ListImplementationsRequest == MessageType("cosmos.base.reflection.v1beta1.ListImplementationsRequest", <<
  Str(1, "interface_name")>>)
ListImplementationsResponse == MessageType("cosmos.base.reflection.v1beta1.ListImplementationsResponse", <<
  Repeated(Str(1, "implementation_message_names"))>>)

\* cosmos/base/reflection/v2alpha1/reflection.ts
AppDescriptor == MessageType("cosmos.base.reflection.v2alpha1.AppDescriptor", <<
  Nested(1, "authn", "cosmos.base.reflection.v2alpha1.AuthnDescriptor"),
  Nested(2, "chain", "cosmos.base.reflection.v2alpha1.ChainDescriptor"),
  Nested(3, "codec", "cosmos.base.reflection.v2alpha1.CodecDescriptor"),
  Nested(4, "configuration", "cosmos.base.reflection.v2alpha1.ConfigurationDescriptor"),
  Nested(5, "query_services", "cosmos.base.reflection.v2alpha1.QueryServicesDescriptor"),
  Nested(6, "tx", "cosmos.base.reflection.v2alpha1.TxDescriptor")>>)
TxDescriptor == MessageType("cosmos.base.reflection.v2alpha1.TxDescriptor", <<
  Str(1, "fullname"),
  Repeated(Nested(2, "msgs", "cosmos.base.reflection.v2alpha1.MsgDescriptor"))>>)
AuthnDescriptor == MessageType("cosmos.base.reflection.v2alpha1.AuthnDescriptor", <<
  Repeated(Nested(1, "sign_modes", "cosmos.base.reflection.v2alpha1.SigningModeDescriptor"))>>)
SigningModeDescriptor == MessageType("cosmos.base.reflection.v2alpha1.SigningModeDescriptor", <<
  Str(1, "name"), Int32(2, "number"),
  Str(3, "authn_info_provider_method_fullname")>>)
ChainDescriptor == MessageType("cosmos.base.reflection.v2alpha1.ChainDescriptor", <<
  Str(1, "id")>>)
CodecDescriptor == MessageType("cosmos.base.reflection.v2alpha1.CodecDescriptor", <<
  Repeated(Nested(1, "interfaces", "cosmos.base.reflection.v2alpha1.InterfaceDescriptor"))>>)
InterfaceDescriptor == MessageType("cosmos.base.reflection.v2alpha1.InterfaceDescriptor", <<
  Str(1, "fullname"),
  Repeated(Nested(2, "interface_accepting_messages", "cosmos.base.reflection.v2alpha1.InterfaceAcceptingMessageDescriptor")),
  Repeated(Nested(3, "interface_implementers", "cosmos.base.reflection.v2alpha1.InterfaceImplementerDescriptor"))>>)
InterfaceImplementerDescriptor == MessageType("cosmos.base.reflection.v2alpha1.InterfaceImplementerDescriptor", <<
  Str(1, "fullname"), Str(2, "type_url")>>)
InterfaceAcceptingMessageDescriptor == MessageType("cosmos.base.reflection.v2alpha1.InterfaceAcceptingMessageDescriptor", <<
  Str(1, "fullname"), Repeated(Str(2, "field_descriptor_names"))>>)
ConfigurationDescriptor == MessageType("cosmos.base.reflection.v2alpha1.ConfigurationDescriptor", <<
  Str(1, "bech32_account_address_prefix")>>)
MsgDescriptor == MessageType("cosmos.base.reflection.v2alpha1.MsgDescriptor", <<
  Str(1, "msg_type_url")>>)
GetAuthnDescriptorRequest == MessageType("cosmos.base.reflection.v2alpha1.GetAuthnDescriptorRequest", <<>>)
GetAuthnDescriptorResponse == MessageType("cosmos.base.reflection.v2alpha1.GetAuthnDescriptorResponse", <<
  Nested(1, "authn", "cosmos.base.reflection.v2alpha1.AuthnDescriptor")>>)
GetChainDescriptorRequest == MessageType("cosmos.base.reflection.v2alpha1.GetChainDescriptorRequest", <<>>)
GetChainDescriptorResponse == MessageType("cosmos.base.reflection.v2alpha1.GetChainDescriptorResponse", <<
  Nested(1, "chain", "cosmos.base.reflection.v2alpha1.ChainDescriptor")>>)
GetCodecDescriptorRequest == MessageType("cosmos.base.reflection.v2alpha1.GetCodecDescriptorRequest", <<>>)
GetCodecDescriptorResponse == MessageType("cosmos.base.reflection.v2alpha1.GetCodecDescriptorResponse", <<
  Nested(1, "codec", "cosmos.base.reflection.v2alpha1.CodecDescriptor")>>)
GetConfigurationDescriptorRequest == MessageType("cosmos.base.reflection.v2alpha1.GetConfigurationDescriptorRequest", <<>>)
GetConfigurationDescriptorResponse == MessageType("cosmos.base.reflection.v2alpha1.GetConfigurationDescriptorResponse", <<
  Nested(1, "config", "cosmos.base.reflection.v2alpha1.ConfigurationDescriptor")>>)
GetQueryServicesDescriptorRequest == MessageType("cosmos.base.reflection.v2alpha1.GetQueryServicesDescriptorRequest", <<>>)
GetQueryServicesDescriptorResponse == MessageType("cosmos.base.reflection.v2alpha1.GetQueryServicesDescriptorResponse", <<
  Nested(1, "queries", "cosmos.base.reflection.v2alpha1.QueryServicesDescriptor")>>)
GetTxDescriptorRequest == MessageType("cosmos.base.reflection.v2alpha1.GetTxDescriptorRequest", <<>>)
GetTxDescriptorResponse == MessageType("cosmos.base.reflection.v2alpha1.GetTxDescriptorResponse", <<
  Nested(1, "tx", "cosmos.base.reflection.v2alpha1.TxDescriptor")>>)
QueryServicesDescriptor == MessageType("cosmos.base.reflection.v2alpha1.QueryServicesDescriptor", <<
  Repeated(Nested(1, "query_services", "cosmos.base.reflection.v2alpha1.QueryServiceDescriptor"))>>)
QueryServiceDescriptor == MessageType("cosmos.base.reflection.v2alpha1.QueryServiceDescriptor", <<
  Str(1, "fullname"), Bool(2, "is_module"),
  Repeated(Nested(3, "methods", "cosmos.base.reflection.v2alpha1.QueryMethodDescriptor"))>>)
QueryMethodDescriptor == MessageType("cosmos.base.reflection.v2alpha1.QueryMethodDescriptor", <<
  Str(1, "name"), Str(2, "full_query_path")>>)

\* cosmos/base/snapshots/v1beta1/snapshot.ts
Snapshot == MessageType("cosmos.base.snapshots.v1beta1.Snapshot", <<
  Uint64(1, "height"), Uint32(2, "format"), Uint32(3, "chunks"),
  Bytes(4, "hash"),
  Nested(5, "metadata", "cosmos.base.snapshots.v1beta1.Metadata")>>)
Metadata == MessageType("cosmos.base.snapshots.v1beta1.Metadata", <<
  Repeated(Bytes(1, "chunk_hashes"))>>)

\* cosmos/base/store/v1beta1/commit_info.ts
CommitInfo == MessageType("cosmos.base.store.v1beta1.CommitInfo", <<
  Int64(1, "version"),
  Repeated(Nested(2, "store_infos", "cosmos.base.store.v1beta1.StoreInfo"))>>)
StoreInfo == MessageType("cosmos.base.store.v1beta1.StoreInfo", <<
  Str(1, "name"),
  Nested(2, "commit_id", "cosmos.base.store.v1beta1.CommitID")>>)
CommitID == MessageType("cosmos.base.store.v1beta1.CommitID", <<
  Int64(1, "version"), Bytes(2, "hash")>>)

\* cosmos/base/store/v1beta1/listening.ts
StoreKVPair == MessageType("cosmos.base.store.v1beta1.StoreKVPair", <<
  Str(1, "store_key"), Bool(2, "delete"), Bytes(3, "key"), Bytes(4, "value")>>)

\* cosmos/base/store/v1beta1/snapshot.ts
SnapshotItem == MessageType("cosmos.base.store.v1beta1.SnapshotItem", <<
  OneOf("item", Nested(1, "store", "cosmos.base.store.v1beta1.SnapshotStoreItem")),
  OneOf("item", Nested(2, "iavl", "cosmos.base.store.v1beta1.SnapshotIAVLItem"))>>)
SnapshotStoreItem == MessageType("cosmos.base.store.v1beta1.SnapshotStoreItem", <<
  Str(1, "name")>>)
SnapshotIAVLItem == MessageType("cosmos.base.store.v1beta1.SnapshotIAVLItem", <<
  Bytes(1, "key"), Bytes(2, "value"), Int64(3, "version"),
  Int32(4, "height")>>)

\* cosmos/base/tendermint/v1beta1/query.ts
GetValidatorSetByHeightRequest == MessageType("cosmos.base.tendermint.v1beta1.GetValidatorSetByHeightRequest", <<
  Int64(1, "height"),
  Nested(2, "pagination", "cosmos.base.query.v1beta1.PageRequest")>>)
GetValidatorSetByHeightResponse == MessageType("cosmos.base.tendermint.v1beta1.GetValidatorSetByHeightResponse", <<
  Int64(1, "block_height"),
  Repeated(Nested(2, "validators", "cosmos.base.tendermint.v1beta1.Validator")),
  Nested(3, "pagination", "cosmos.base.query.v1beta1.PageResponse")>>)
GetLatestValidatorSetRequest == MessageType("cosmos.base.tendermint.v1beta1.GetLatestValidatorSetRequest", <<
  Nested(1, "pagination", "cosmos.base.query.v1beta1.PageRequest")>>)
GetLatestValidatorSetResponse == MessageType("cosmos.base.tendermint.v1beta1.GetLatestValidatorSetResponse", <<
  Int64(1, "block_height"),
  Repeated(Nested(2, "validators", "cosmos.base.tendermint.v1beta1.Validator")),
  Nested(3, "pagination", "cosmos.base.query.v1beta1.PageResponse")>>)
Validator == MessageType("cosmos.base.tendermint.v1beta1.Validator", <<
  Str(1, "address"), Nested(2, "pub_key", "google.protobuf.Any"),
  Int64(3, "voting_power"), Int64(4, "proposer_priority")>>)
GetBlockByHeightRequest == MessageType("cosmos.base.tendermint.v1beta1.GetBlockByHeightRequest", <<
  Int64(1, "height")>>)
GetBlockByHeightResponse == MessageType("cosmos.base.tendermint.v1beta1.GetBlockByHeightResponse", <<
  Nested(1, "block_id", "tendermint.types.BlockID"),
  Nested(2, "block", "tendermint.types.Block")>>)
GetLatestBlockRequest == MessageType("cosmos.base.tendermint.v1beta1.GetLatestBlockRequest", <<>>)
GetLatestBlockResponse == MessageType("cosmos.base.tendermint.v1beta1.GetLatestBlockResponse", <<
  Nested(1, "block_id", "tendermint.types.BlockID"),
  Nested(2, "block", "tendermint.types.Block")>>)
GetSyncingRequest == MessageType("cosmos.base.tendermint.v1beta1.GetSyncingRequest", <<>>)
GetSyncingResponse == MessageType("cosmos.base.tendermint.v1beta1.GetSyncingResponse", <<
  Bool(1, "syncing")>>)
GetNodeInfoRequest == MessageType("cosmos.base.tendermint.v1beta1.GetNodeInfoRequest", <<>>)
GetNodeInfoResponse == MessageType("cosmos.base.tendermint.v1beta1.GetNodeInfoResponse", <<
  Nested(1, "default_node_info", "tendermint.p2p.DefaultNodeInfo"),
  Nested(2, "application_version", "cosmos.base.tendermint.v1beta1.VersionInfo")>>)
VersionInfo == MessageType("cosmos.base.tendermint.v1beta1.VersionInfo", <<
  Str(1, "name"), Str(2, "app_name"), Str(3, "version"), Str(4, "git_commit"),
  Str(5, "build_tags"), Str(6, "go_version"),
  Repeated(Nested(7, "build_deps", "cosmos.base.tendermint.v1beta1.Module")),
  Str(8, "cosmos_sdk_version")>>)
Module == MessageType("cosmos.base.tendermint.v1beta1.Module", <<
  Str(1, "path"), Str(2, "version"), Str(3, "sum")>>)

\* cosmos/base/v1beta1/coin.ts
Coin == MessageType("cosmos.base.v1beta1.Coin", <<
  Str(1, "denom"), Str(2, "amount")>>)
DecCoin == MessageType("cosmos.base.v1beta1.DecCoin", <<
  Str(1, "denom"), Str(2, "amount")>>)
IntProto == MessageType("cosmos.base.v1beta1.IntProto", <<Str(1, "int")>>)
DecProto == MessageType("cosmos.base.v1beta1.DecProto", <<Str(1, "dec")>>)

Types == {
   TxResponse, ABCIMessageLog, StringEvent, Attribute, GasInfo, Result,
   SimulationResponse, MsgData, TxMsgData, SearchTxsResult, Pairs, Pair,
   PageRequest, PageResponse, ListAllInterfacesRequest,
   ListAllInterfacesResponse, ListImplementationsRequest,
   ListImplementationsResponse, AppDescriptor, TxDescriptor,
   AuthnDescriptor, SigningModeDescriptor, ChainDescriptor,
   CodecDescriptor, InterfaceDescriptor, InterfaceImplementerDescriptor,
   InterfaceAcceptingMessageDescriptor, ConfigurationDescriptor,
   MsgDescriptor, GetAuthnDescriptorRequest, GetAuthnDescriptorResponse,
   GetChainDescriptorRequest, GetChainDescriptorResponse,
   GetCodecDescriptorRequest, GetCodecDescriptorResponse,
   GetConfigurationDescriptorRequest, GetConfigurationDescriptorResponse,
   GetQueryServicesDescriptorRequest, GetQueryServicesDescriptorResponse,
   GetTxDescriptorRequest, GetTxDescriptorResponse,
   QueryServicesDescriptor, QueryServiceDescriptor, QueryMethodDescriptor,
   Snapshot, Metadata, CommitInfo, StoreInfo, CommitID, StoreKVPair,
   SnapshotItem, SnapshotStoreItem, SnapshotIAVLItem,
   GetValidatorSetByHeightRequest, GetValidatorSetByHeightResponse,
   GetLatestValidatorSetRequest, GetLatestValidatorSetResponse, Validator,
   GetBlockByHeightRequest, GetBlockByHeightResponse,
   GetLatestBlockRequest, GetLatestBlockResponse, GetSyncingRequest,
   GetSyncingResponse, GetNodeInfoRequest, GetNodeInfoResponse,
   VersionInfo, Module, Coin, DecCoin, IntProto, DecProto}
=============================================================================
