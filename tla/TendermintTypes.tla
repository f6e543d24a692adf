-------------------------- MODULE TendermintTypes --------------------------
(****************************************************************************)
(* Schemas of tendermint.types, crypto, p2p and version.                    *)
(****************************************************************************)
EXTENDS ProtoSchema

\* tendermint/crypto/keys.ts
PublicKey == MessageType("tendermint.crypto.PublicKey", <<
  OneOf("sum", Bytes(1, "ed25519")), OneOf("sum", Bytes(2, "secp256k1"))>>)

\* tendermint/crypto/proof.ts
Proof == MessageType("tendermint.crypto.Proof", <<
  Int64(1, "total"), Int64(2, "index"), Bytes(3, "leaf_hash"),
  Repeated(Bytes(4, "aunts"))>>)
ValueOp == MessageType("tendermint.crypto.ValueOp", <<
  Bytes(1, "key"), Nested(2, "proof", "tendermint.crypto.Proof")>>)
DominoOp == MessageType("tendermint.crypto.DominoOp", <<
  Str(1, "key"), Str(2, "input"), Str(3, "output")>>)
ProofOp == MessageType("tendermint.crypto.ProofOp", <<
  Str(1, "type"), Bytes(2, "key"), Bytes(3, "data")>>)
ProofOps == MessageType("tendermint.crypto.ProofOps", <<
  Repeated(Nested(1, "ops", "tendermint.crypto.ProofOp"))>>)

\* tendermint/libs/bits/types.ts
BitArray == MessageType("tendermint.libs.bits.BitArray", <<
  Int64(1, "bits"), Packed(Uint64(2, "elems"))>>)

\* tendermint/p2p/types.ts
NetAddress == MessageType("tendermint.p2p.NetAddress", <<
  Str(1, "id"), Str(2, "ip"), Uint32(3, "port")>>)
ProtocolVersion == MessageType("tendermint.p2p.ProtocolVersion", <<
  Uint64(1, "p2p"), Uint64(2, "block"), Uint64(3, "app")>>)
DefaultNodeInfo == MessageType("tendermint.p2p.DefaultNodeInfo", <<
  Nested(1, "protocol_version", "tendermint.p2p.ProtocolVersion"),
  Str(2, "default_node_id"), Str(3, "listen_addr"), Str(4, "network"),
  Str(5, "version"), Bytes(6, "channels"), Str(7, "moniker"),
  Nested(8, "other", "tendermint.p2p.DefaultNodeInfoOther")>>)
DefaultNodeInfoOther == MessageType("tendermint.p2p.DefaultNodeInfoOther", <<
  Str(1, "tx_index"), Str(2, "rpc_address")>>)

\* tendermint/types/block.ts
Block == MessageType("tendermint.types.Block", <<
  Nested(1, "header", "tendermint.types.Header"),
  Nested(2, "data", "tendermint.types.Data"),
  Nested(3, "evidence", "tendermint.types.EvidenceList"),
  Nested(4, "last_commit", "tendermint.types.Commit")>>)

\* tendermint/types/evidence.ts
Evidence == MessageType("tendermint.types.Evidence", <<
  OneOf("sum", Nested(1, "duplicate_vote_evidence", "tendermint.types.DuplicateVoteEvidence")),
  OneOf("sum", Nested(2, "light_client_attack_evidence", "tendermint.types.LightClientAttackEvidence"))>>)
DuplicateVoteEvidence == MessageType("tendermint.types.DuplicateVoteEvidence", <<
  Nested(1, "vote_a", "tendermint.types.Vote"),
  Nested(2, "vote_b", "tendermint.types.Vote"), Int64(3, "total_voting_power"),
  Int64(4, "validator_power"),
  Nested(5, "timestamp", "google.protobuf.Timestamp")>>)
LightClientAttackEvidence == MessageType("tendermint.types.LightClientAttackEvidence", <<
  Nested(1, "conflicting_block", "tendermint.types.LightBlock"),
  Int64(2, "common_height"),
  Repeated(Nested(3, "byzantine_validators", "tendermint.types.Validator")),
  Int64(4, "total_voting_power"),
  Nested(5, "timestamp", "google.protobuf.Timestamp")>>)
EvidenceList == MessageType("tendermint.types.EvidenceList", <<
  Repeated(Nested(1, "evidence", "tendermint.types.Evidence"))>>)

\* tendermint/types/params.ts
ConsensusParams == MessageType("tendermint.types.ConsensusParams", <<
  Nested(1, "block", "tendermint.types.BlockParams"),
  Nested(2, "evidence", "tendermint.types.EvidenceParams"),
  Nested(3, "validator", "tendermint.types.ValidatorParams"),
  Nested(4, "version", "tendermint.types.VersionParams")>>)
BlockParams == MessageType("tendermint.types.BlockParams", <<
  Int64(1, "max_bytes"), Int64(2, "max_gas"), Int64(3, "time_iota_ms")>>)
EvidenceParams == MessageType("tendermint.types.EvidenceParams", <<
  Int64(1, "max_age_num_blocks"),
  Nested(2, "max_age_duration", "google.protobuf.Duration"),
  Int64(3, "max_bytes")>>)
ValidatorParams == MessageType("tendermint.types.ValidatorParams", <<
  Repeated(Str(1, "pub_key_types"))>>)
VersionParams == MessageType("tendermint.types.VersionParams", <<
  Uint64(1, "app_version")>>)
HashedParams == MessageType("tendermint.types.HashedParams", <<
  Int64(1, "block_max_bytes"), Int64(2, "block_max_gas")>>)

\* tendermint/types/types.ts
PartSetHeader == MessageType("tendermint.types.PartSetHeader", <<
  Uint32(1, "total"), Bytes(2, "hash")>>)
Part == MessageType("tendermint.types.Part", <<
  Uint32(1, "index"), Bytes(2, "bytes"),
  Nested(3, "proof", "tendermint.crypto.Proof")>>)
BlockID == MessageType("tendermint.types.BlockID", <<
  Bytes(1, "hash"),
  Nested(2, "part_set_header", "tendermint.types.PartSetHeader")>>)
Header == MessageType("tendermint.types.Header", <<
  Nested(1, "version", "tendermint.version.Consensus"), Str(2, "chain_id"),
  Int64(3, "height"), Nested(4, "time", "google.protobuf.Timestamp"),
  Nested(5, "last_block_id", "tendermint.types.BlockID"),
  Bytes(6, "last_commit_hash"), Bytes(7, "data_hash"),
  Bytes(8, "validators_hash"), Bytes(9, "next_validators_hash"),
  Bytes(10, "consensus_hash"), Bytes(11, "app_hash"),
  Bytes(12, "last_results_hash"), Bytes(13, "evidence_hash"),
  Bytes(14, "proposer_address")>>)
Data == MessageType("tendermint.types.Data", <<Repeated(Bytes(1, "txs"))>>)
Vote == MessageType("tendermint.types.Vote", <<
  Enum(1, "type"), Int64(2, "height"), Int32(3, "round"),
  Nested(4, "block_id", "tendermint.types.BlockID"),
  Nested(5, "timestamp", "google.protobuf.Timestamp"),
  Bytes(6, "validator_address"), Int32(7, "validator_index"),
  Bytes(8, "signature")>>)
Commit == MessageType("tendermint.types.Commit", <<
  Int64(1, "height"), Int32(2, "round"),
  Nested(3, "block_id", "tendermint.types.BlockID"),
  Repeated(Nested(4, "signatures", "tendermint.types.CommitSig"))>>)
CommitSig == MessageType("tendermint.types.CommitSig", <<
  Enum(1, "block_id_flag"), Bytes(2, "validator_address"),
  Nested(3, "timestamp", "google.protobuf.Timestamp"), Bytes(4, "signature")>>)
Proposal == MessageType("tendermint.types.Proposal", <<
  Enum(1, "type"), Int64(2, "height"), Int32(3, "round"),
  Int32(4, "pol_round"), Nested(5, "block_id", "tendermint.types.BlockID"),
  Nested(6, "timestamp", "google.protobuf.Timestamp"), Bytes(7, "signature")>>)
SignedHeader == MessageType("tendermint.types.SignedHeader", <<
  Nested(1, "header", "tendermint.types.Header"),
  Nested(2, "commit", "tendermint.types.Commit")>>)
LightBlock == MessageType("tendermint.types.LightBlock", <<
  Nested(1, "signed_header", "tendermint.types.SignedHeader"),
  Nested(2, "validator_set", "tendermint.types.ValidatorSet")>>)
BlockMeta == MessageType("tendermint.types.BlockMeta", <<
  Nested(1, "block_id", "tendermint.types.BlockID"), Int64(2, "block_size"),
  Nested(3, "header", "tendermint.types.Header"), Int64(4, "num_txs")>>)
TxProof == MessageType("tendermint.types.TxProof", <<
  Bytes(1, "root_hash"), Bytes(2, "data"),
  Nested(3, "proof", "tendermint.crypto.Proof")>>)

\* tendermint/types/validator.ts
ValidatorSet == MessageType("tendermint.types.ValidatorSet", <<
  Repeated(Nested(1, "validators", "tendermint.types.Validator")),
  Nested(2, "proposer", "tendermint.types.Validator"),
  Int64(3, "total_voting_power")>>)
Validator == MessageType("tendermint.types.Validator", <<
  Bytes(1, "address"), Nested(2, "pub_key", "tendermint.crypto.PublicKey"),
  Int64(3, "voting_power"), Int64(4, "proposer_priority")>>)
SimpleValidator == MessageType("tendermint.types.SimpleValidator", <<
  Nested(1, "pub_key", "tendermint.crypto.PublicKey"),
  Int64(2, "voting_power")>>)

\* tendermint/version/types.ts
App == MessageType("tendermint.version.App", <<
  Uint64(1, "protocol"), Str(2, "software")>>)
Consensus == MessageType("tendermint.version.Consensus", <<
  Uint64(1, "block"), Uint64(2, "app")>>)

Types == {
   PublicKey, Proof, ValueOp, DominoOp, ProofOp, ProofOps, BitArray,
   NetAddress, ProtocolVersion, DefaultNodeInfo, DefaultNodeInfoOther,
   Block, Evidence, DuplicateVoteEvidence, LightClientAttackEvidence,
   EvidenceList, ConsensusParams, BlockParams, EvidenceParams,
   ValidatorParams, VersionParams, HashedParams, PartSetHeader, Part,
   BlockID, Header, Data, Vote, Commit, CommitSig, Proposal, SignedHeader,
   LightBlock, BlockMeta, TxProof, ValidatorSet, Validator,
   SimpleValidator, App, Consensus}
=============================================================================
