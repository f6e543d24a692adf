----------------------------- MODULE CosmosGov -----------------------------
(****************************************************************************)
(* Schemas of cosmos.gov.                                                   *)
(****************************************************************************)
EXTENDS ProtoSchema

\* cosmos/gov/v1beta1/genesis.ts
GenesisState == MessageType("cosmos.gov.v1beta1.GenesisState", <<
  Uint64(1, "starting_proposal_id"),
  Repeated(Nested(2, "deposits", "cosmos.gov.v1beta1.Deposit")),
  Repeated(Nested(3, "votes", "cosmos.gov.v1beta1.Vote")),
  Repeated(Nested(4, "proposals", "cosmos.gov.v1beta1.Proposal")),
  Nested(5, "deposit_params", "cosmos.gov.v1beta1.DepositParams"),
  Nested(6, "voting_params", "cosmos.gov.v1beta1.VotingParams"),
  Nested(7, "tally_params", "cosmos.gov.v1beta1.TallyParams")>>)

\* cosmos/gov/v1beta1/gov.ts
WeightedVoteOption == MessageType("cosmos.gov.v1beta1.WeightedVoteOption", <<
  Enum(1, "option"), Str(2, "weight")>>)
TextProposal == MessageType("cosmos.gov.v1beta1.TextProposal", <<
  Str(1, "title"), Str(2, "description")>>)
Deposit == MessageType("cosmos.gov.v1beta1.Deposit", <<
  Uint64(1, "proposal_id"), Str(2, "depositor"),
  Repeated(Nested(3, "amount", "cosmos.base.v1beta1.Coin"))>>)
Proposal == MessageType("cosmos.gov.v1beta1.Proposal", <<
  Uint64(1, "proposal_id"), Nested(2, "content", "google.protobuf.Any"),
  Enum(3, "status"),
  Nested(4, "final_tally_result", "cosmos.gov.v1beta1.TallyResult"),
  Nested(5, "submit_time", "google.protobuf.Timestamp"),
  Nested(6, "deposit_end_time", "google.protobuf.Timestamp"),
  Repeated(Nested(7, "total_deposit", "cosmos.base.v1beta1.Coin")),
  Nested(8, "voting_start_time", "google.protobuf.Timestamp"),
  Nested(9, "voting_end_time", "google.protobuf.Timestamp")>>)
TallyResult == MessageType("cosmos.gov.v1beta1.TallyResult", <<
  Str(1, "yes"), Str(2, "abstain"), Str(3, "no"), Str(4, "no_with_veto")>>)
Vote == MessageType("cosmos.gov.v1beta1.Vote", <<
  Uint64(1, "proposal_id"), Str(2, "voter"), Enum(3, "option"),
  Repeated(Nested(4, "options", "cosmos.gov.v1beta1.WeightedVoteOption"))>>)
DepositParams == MessageType("cosmos.gov.v1beta1.DepositParams", <<
  Repeated(Nested(1, "min_deposit", "cosmos.base.v1beta1.Coin")),
  Nested(2, "max_deposit_period", "google.protobuf.Duration")>>)
VotingParams == MessageType("cosmos.gov.v1beta1.VotingParams", <<
  Nested(1, "voting_period", "google.protobuf.Duration")>>)
TallyParams == MessageType("cosmos.gov.v1beta1.TallyParams", <<
  Bytes(1, "quorum"), Bytes(2, "threshold"), Bytes(3, "veto_threshold")>>)

\* cosmos/gov/v1beta1/query.ts
QueryProposalRequest == MessageType("cosmos.gov.v1beta1.QueryProposalRequest", <<
  Uint64(1, "proposal_id")>>)
QueryProposalResponse == MessageType("cosmos.gov.v1beta1.QueryProposalResponse", <<
  Nested(1, "proposal", "cosmos.gov.v1beta1.Proposal")>>)
QueryProposalsRequest == MessageType("cosmos.gov.v1beta1.QueryProposalsRequest", <<
  Enum(1, "proposal_status"), Str(2, "voter"), Str(3, "depositor"),
  Nested(4, "pagination", "cosmos.base.query.v1beta1.PageRequest")>>)
QueryProposalsResponse == MessageType("cosmos.gov.v1beta1.QueryProposalsResponse", <<
  Repeated(Nested(1, "proposals", "cosmos.gov.v1beta1.Proposal")),
  Nested(2, "pagination", "cosmos.base.query.v1beta1.PageResponse")>>)
QueryVoteRequest == MessageType("cosmos.gov.v1beta1.QueryVoteRequest", <<
  Uint64(1, "proposal_id"), Str(2, "voter")>>)
QueryVoteResponse == MessageType("cosmos.gov.v1beta1.QueryVoteResponse", <<
  Nested(1, "vote", "cosmos.gov.v1beta1.Vote")>>)
QueryVotesRequest == MessageType("cosmos.gov.v1beta1.QueryVotesRequest", <<
  Uint64(1, "proposal_id"),
  Nested(2, "pagination", "cosmos.base.query.v1beta1.PageRequest")>>)
QueryVotesResponse == MessageType("cosmos.gov.v1beta1.QueryVotesResponse", <<
  Repeated(Nested(1, "votes", "cosmos.gov.v1beta1.Vote")),
  Nested(2, "pagination", "cosmos.base.query.v1beta1.PageResponse")>>)
QueryParamsRequest == MessageType("cosmos.gov.v1beta1.QueryParamsRequest", <<
  Str(1, "params_type")>>)
QueryParamsResponse == MessageType("cosmos.gov.v1beta1.QueryParamsResponse", <<
  Nested(1, "voting_params", "cosmos.gov.v1beta1.VotingParams"),
  Nested(2, "deposit_params", "cosmos.gov.v1beta1.DepositParams"),
  Nested(3, "tally_params", "cosmos.gov.v1beta1.TallyParams")>>)
QueryDepositRequest == MessageType("cosmos.gov.v1beta1.QueryDepositRequest", <<
  Uint64(1, "proposal_id"), Str(2, "depositor")>>)
QueryDepositResponse == MessageType("cosmos.gov.v1beta1.QueryDepositResponse", <<
  Nested(1, "deposit", "cosmos.gov.v1beta1.Deposit")>>)
QueryDepositsRequest == MessageType("cosmos.gov.v1beta1.QueryDepositsRequest", <<
  Uint64(1, "proposal_id"),
  Nested(2, "pagination", "cosmos.base.query.v1beta1.PageRequest")>>)
QueryDepositsResponse == MessageType("cosmos.gov.v1beta1.QueryDepositsResponse", <<
  Repeated(Nested(1, "deposits", "cosmos.gov.v1beta1.Deposit")),
  Nested(2, "pagination", "cosmos.base.query.v1beta1.PageResponse")>>)
QueryTallyResultRequest == MessageType("cosmos.gov.v1beta1.QueryTallyResultRequest", <<
  Uint64(1, "proposal_id")>>)
QueryTallyResultResponse == MessageType("cosmos.gov.v1beta1.QueryTallyResultResponse", <<
  Nested(1, "tally", "cosmos.gov.v1beta1.TallyResult")>>)

\* cosmos/gov/v1beta1/tx.ts
MsgSubmitProposal == MessageType("cosmos.gov.v1beta1.MsgSubmitProposal", <<
  Nested(1, "content", "google.protobuf.Any"),
  Repeated(Nested(2, "initial_deposit", "cosmos.base.v1beta1.Coin")),
  Str(3, "proposer")>>)
MsgSubmitProposalResponse == MessageType("cosmos.gov.v1beta1.MsgSubmitProposalResponse", <<
  Uint64(1, "proposal_id")>>)
MsgVote == MessageType("cosmos.gov.v1beta1.MsgVote", <<
  Uint64(1, "proposal_id"), Str(2, "voter"), Enum(3, "option")>>)
MsgVoteResponse == MessageType("cosmos.gov.v1beta1.MsgVoteResponse", <<>>)
MsgVoteWeighted == MessageType("cosmos.gov.v1beta1.MsgVoteWeighted", <<
  Uint64(1, "proposal_id"), Str(2, "voter"),
  Repeated(Nested(3, "options", "cosmos.gov.v1beta1.WeightedVoteOption"))>>)
MsgVoteWeightedResponse == MessageType("cosmos.gov.v1beta1.MsgVoteWeightedResponse", <<>>)
MsgDeposit == MessageType("cosmos.gov.v1beta1.MsgDeposit", <<
  Uint64(1, "proposal_id"), Str(2, "depositor"),
  Repeated(Nested(3, "amount", "cosmos.base.v1beta1.Coin"))>>)
MsgDepositResponse == MessageType("cosmos.gov.v1beta1.MsgDepositResponse", <<>>)

Types == {
   GenesisState, WeightedVoteOption, TextProposal, Deposit, Proposal,
   TallyResult, Vote, DepositParams, VotingParams, TallyParams,
   QueryProposalRequest, QueryProposalResponse, QueryProposalsRequest,
   QueryProposalsResponse, QueryVoteRequest, QueryVoteResponse,
   QueryVotesRequest, QueryVotesResponse, QueryParamsRequest,
   QueryParamsResponse, QueryDepositRequest, QueryDepositResponse,
   QueryDepositsRequest, QueryDepositsResponse, QueryTallyResultRequest,
   QueryTallyResultResponse, MsgSubmitProposal, MsgSubmitProposalResponse,
   MsgVote, MsgVoteResponse, MsgVoteWeighted, MsgVoteWeightedResponse,
   MsgDeposit, MsgDepositResponse}
=============================================================================
