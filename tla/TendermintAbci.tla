--------------------------- MODULE TendermintAbci ---------------------------
(****************************************************************************)
(* Schemas of tendermint.abci.                                              *)
(****************************************************************************)
EXTENDS ProtoSchema

\* tendermint/abci/types.ts
Request == MessageType("tendermint.abci.Request", <<
  OneOf("value", Nested(1, "echo", "tendermint.abci.RequestEcho")),
  OneOf("value", Nested(2, "flush", "tendermint.abci.RequestFlush")),
  OneOf("value", Nested(3, "info", "tendermint.abci.RequestInfo")),
  OneOf("value", Nested(4, "set_option", "tendermint.abci.RequestSetOption")),
  OneOf("value", Nested(5, "init_chain", "tendermint.abci.RequestInitChain")),
  OneOf("value", Nested(6, "query", "tendermint.abci.RequestQuery")),
  OneOf("value", Nested(7, "begin_block", "tendermint.abci.RequestBeginBlock")),
  OneOf("value", Nested(8, "check_tx", "tendermint.abci.RequestCheckTx")),
  OneOf("value", Nested(9, "deliver_tx", "tendermint.abci.RequestDeliverTx")),
  OneOf("value", Nested(10, "end_block", "tendermint.abci.RequestEndBlock")),
  OneOf("value", Nested(11, "commit", "tendermint.abci.RequestCommit")),
  OneOf("value", Nested(12, "list_snapshots", "tendermint.abci.RequestListSnapshots")),
  OneOf("value", Nested(13, "offer_snapshot", "tendermint.abci.RequestOfferSnapshot")),
  OneOf("value", Nested(14, "load_snapshot_chunk", "tendermint.abci.RequestLoadSnapshotChunk")),
  OneOf("value", Nested(15, "apply_snapshot_chunk", "tendermint.abci.RequestApplySnapshotChunk"))>>)
RequestEcho == MessageType("tendermint.abci.RequestEcho", <<
  Str(1, "message")>>)
RequestFlush == MessageType("tendermint.abci.RequestFlush", <<>>)
RequestInfo == MessageType("tendermint.abci.RequestInfo", <<
  Str(1, "version"), Uint64(2, "block_version"), Uint64(3, "p2p_version")>>)
RequestSetOption == MessageType("tendermint.abci.RequestSetOption", <<
  Str(1, "key"), Str(2, "value")>>)
RequestInitChain == MessageType("tendermint.abci.RequestInitChain", <<
  Nested(1, "time", "google.protobuf.Timestamp"), Str(2, "chain_id"),
  Nested(3, "consensus_params", "tendermint.abci.ConsensusParams"),
  Repeated(Nested(4, "validators", "tendermint.abci.ValidatorUpdate")),
  Bytes(5, "app_state_bytes"), Int64(6, "initial_height")>>)
RequestQuery == MessageType("tendermint.abci.RequestQuery", <<
  Bytes(1, "data"), Str(2, "path"), Int64(3, "height"), Bool(4, "prove")>>)
RequestBeginBlock == MessageType("tendermint.abci.RequestBeginBlock", <<
  Bytes(1, "hash"), Nested(2, "header", "tendermint.types.Header"),
  Nested(3, "last_commit_info", "tendermint.abci.LastCommitInfo"),
  Repeated(Nested(4, "byzantine_validators", "tendermint.abci.Evidence"))>>)
RequestCheckTx == MessageType("tendermint.abci.RequestCheckTx", <<
  Bytes(1, "tx"), Enum(2, "type")>>)
RequestDeliverTx == MessageType("tendermint.abci.RequestDeliverTx", <<
  Bytes(1, "tx")>>)
RequestEndBlock == MessageType("tendermint.abci.RequestEndBlock", <<
  Int64(1, "height")>>)
RequestCommit == MessageType("tendermint.abci.RequestCommit", <<>>)
RequestListSnapshots == MessageType("tendermint.abci.RequestListSnapshots", <<>>)
RequestOfferSnapshot == MessageType("tendermint.abci.RequestOfferSnapshot", <<
  Nested(1, "snapshot", "tendermint.abci.Snapshot"), Bytes(2, "app_hash")>>)
RequestLoadSnapshotChunk == MessageType("tendermint.abci.RequestLoadSnapshotChunk", <<
  Uint64(1, "height"), Uint32(2, "format"), Uint32(3, "chunk")>>)
RequestApplySnapshotChunk == MessageType("tendermint.abci.RequestApplySnapshotChunk", <<
  Uint32(1, "index"), Bytes(2, "chunk"), Str(3, "sender")>>)
Response == MessageType("tendermint.abci.Response", <<
  OneOf("value", Nested(1, "exception", "tendermint.abci.ResponseException")),
  OneOf("value", Nested(2, "echo", "tendermint.abci.ResponseEcho")),
  OneOf("value", Nested(3, "flush", "tendermint.abci.ResponseFlush")),
  OneOf("value", Nested(4, "info", "tendermint.abci.ResponseInfo")),
  OneOf("value", Nested(5, "set_option", "tendermint.abci.ResponseSetOption")),
  OneOf("value", Nested(6, "init_chain", "tendermint.abci.ResponseInitChain")),
  OneOf("value", Nested(7, "query", "tendermint.abci.ResponseQuery")),
  OneOf("value", Nested(8, "begin_block", "tendermint.abci.ResponseBeginBlock")),
  OneOf("value", Nested(9, "check_tx", "tendermint.abci.ResponseCheckTx")),
  OneOf("value", Nested(10, "deliver_tx", "tendermint.abci.ResponseDeliverTx")),
  OneOf("value", Nested(11, "end_block", "tendermint.abci.ResponseEndBlock")),
  OneOf("value", Nested(12, "commit", "tendermint.abci.ResponseCommit")),
  OneOf("value", Nested(13, "list_snapshots", "tendermint.abci.ResponseListSnapshots")),
  OneOf("value", Nested(14, "offer_snapshot", "tendermint.abci.ResponseOfferSnapshot")),
  OneOf("value", Nested(15, "load_snapshot_chunk", "tendermint.abci.ResponseLoadSnapshotChunk")),
  OneOf("value", Nested(16, "apply_snapshot_chunk", "tendermint.abci.ResponseApplySnapshotChunk"))>>)
ResponseException == MessageType("tendermint.abci.ResponseException", <<
  Str(1, "error")>>)
ResponseEcho == MessageType("tendermint.abci.ResponseEcho", <<
  Str(1, "message")>>)
ResponseFlush == MessageType("tendermint.abci.ResponseFlush", <<>>)
ResponseInfo == MessageType("tendermint.abci.ResponseInfo", <<
  Str(1, "data"), Str(2, "version"), Uint64(3, "app_version"),
  Int64(4, "last_block_height"), Bytes(5, "last_block_app_hash")>>)
ResponseSetOption == MessageType("tendermint.abci.ResponseSetOption", <<
  Uint32(1, "code"), Str(3, "log"), Str(4, "info")>>)
ResponseInitChain == MessageType("tendermint.abci.ResponseInitChain", <<
  Nested(1, "consensus_params", "tendermint.abci.ConsensusParams"),
  Repeated(Nested(2, "validators", "tendermint.abci.ValidatorUpdate")),
  Bytes(3, "app_hash")>>)
ResponseQuery == MessageType("tendermint.abci.ResponseQuery", <<
  Uint32(1, "code"), Str(3, "log"), Str(4, "info"), Int64(5, "index"),
  Bytes(6, "key"), Bytes(7, "value"),
  Nested(8, "proof_ops", "tendermint.crypto.ProofOps"), Int64(9, "height"),
  Str(10, "codespace")>>)
ResponseBeginBlock == MessageType("tendermint.abci.ResponseBeginBlock", <<
  Repeated(Nested(1, "events", "tendermint.abci.Event"))>>)
ResponseCheckTx == MessageType("tendermint.abci.ResponseCheckTx", <<
  Uint32(1, "code"), Bytes(2, "data"), Str(3, "log"), Str(4, "info"),
  Int64(5, "gas_wanted"), Int64(6, "gas_used"),
  Repeated(Nested(7, "events", "tendermint.abci.Event")),
  Str(8, "codespace")>>)
ResponseDeliverTx == MessageType("tendermint.abci.ResponseDeliverTx", <<
  Uint32(1, "code"), Bytes(2, "data"), Str(3, "log"), Str(4, "info"),
  Int64(5, "gas_wanted"), Int64(6, "gas_used"),
  Repeated(Nested(7, "events", "tendermint.abci.Event")),
  Str(8, "codespace")>>)
ResponseEndBlock == MessageType("tendermint.abci.ResponseEndBlock", <<
  Repeated(Nested(1, "validator_updates", "tendermint.abci.ValidatorUpdate")),
  Nested(2, "consensus_param_updates", "tendermint.abci.ConsensusParams"),
  Repeated(Nested(3, "events", "tendermint.abci.Event"))>>)
ResponseCommit == MessageType("tendermint.abci.ResponseCommit", <<
  Bytes(2, "data"), Int64(3, "retain_height")>>)
ResponseListSnapshots == MessageType("tendermint.abci.ResponseListSnapshots", <<
  Repeated(Nested(1, "snapshots", "tendermint.abci.Snapshot"))>>)
ResponseOfferSnapshot == MessageType("tendermint.abci.ResponseOfferSnapshot", <<
  Enum(1, "result")>>)
ResponseLoadSnapshotChunk == MessageType("tendermint.abci.ResponseLoadSnapshotChunk", <<
  Bytes(1, "chunk")>>)
ResponseApplySnapshotChunk == MessageType("tendermint.abci.ResponseApplySnapshotChunk", <<
  Enum(1, "result"), Packed(Uint32(2, "refetch_chunks")),
  Repeated(Str(3, "reject_senders"))>>)
ConsensusParams == MessageType("tendermint.abci.ConsensusParams", <<
  Nested(1, "block", "tendermint.abci.BlockParams"),
  Nested(2, "evidence", "tendermint.types.EvidenceParams"),
  Nested(3, "validator", "tendermint.types.ValidatorParams"),
  Nested(4, "version", "tendermint.types.VersionParams")>>)
BlockParams == MessageType("tendermint.abci.BlockParams", <<
  Int64(1, "max_bytes"), Int64(2, "max_gas")>>)
LastCommitInfo == MessageType("tendermint.abci.LastCommitInfo", <<
  Int32(1, "round"),
  Repeated(Nested(2, "votes", "tendermint.abci.VoteInfo"))>>)
Event == MessageType("tendermint.abci.Event", <<
  Str(1, "type"),
  Repeated(Nested(2, "attributes", "tendermint.abci.EventAttribute"))>>)
EventAttribute == MessageType("tendermint.abci.EventAttribute", <<
  Bytes(1, "key"), Bytes(2, "value"), Bool(3, "index")>>)
TxResult == MessageType("tendermint.abci.TxResult", <<
  Int64(1, "height"), Uint32(2, "index"), Bytes(3, "tx"),
  Nested(4, "result", "tendermint.abci.ResponseDeliverTx")>>)
Validator == MessageType("tendermint.abci.Validator", <<
  Bytes(1, "address"), Int64(3, "power")>>)
ValidatorUpdate == MessageType("tendermint.abci.ValidatorUpdate", <<
  Nested(1, "pub_key", "tendermint.crypto.PublicKey"), Int64(2, "power")>>)
VoteInfo == MessageType("tendermint.abci.VoteInfo", <<
  Nested(1, "validator", "tendermint.abci.Validator"),
  Bool(2, "signed_last_block")>>)
Evidence == MessageType("tendermint.abci.Evidence", <<
  Enum(1, "type"), Nested(2, "validator", "tendermint.abci.Validator"),
  Int64(3, "height"), Nested(4, "time", "google.protobuf.Timestamp"),
  Int64(5, "total_voting_power")>>)
Snapshot == MessageType("tendermint.abci.Snapshot", <<
  Uint64(1, "height"), Uint32(2, "format"), Uint32(3, "chunks"),
  Bytes(4, "hash"), Bytes(5, "metadata")>>)

Types == {
   Request, RequestEcho, RequestFlush, RequestInfo, RequestSetOption,
   RequestInitChain, RequestQuery, RequestBeginBlock, RequestCheckTx,
   RequestDeliverTx, RequestEndBlock, RequestCommit, RequestListSnapshots,
   RequestOfferSnapshot, RequestLoadSnapshotChunk,
   RequestApplySnapshotChunk, Response, ResponseException, ResponseEcho,
   ResponseFlush, ResponseInfo, ResponseSetOption, ResponseInitChain,
   ResponseQuery, ResponseBeginBlock, ResponseCheckTx, ResponseDeliverTx,
   ResponseEndBlock, ResponseCommit, ResponseListSnapshots,
   ResponseOfferSnapshot, ResponseLoadSnapshotChunk,
   ResponseApplySnapshotChunk, ConsensusParams, BlockParams,
   LastCommitInfo, Event, EventAttribute, TxResult, Validator,
   ValidatorUpdate, VoteInfo, Evidence, Snapshot}
=============================================================================
