--------------------------- MODULE MerlionOracle ---------------------------
(****************************************************************************)
(* Schemas of merlion.oracle.                                               *)
(****************************************************************************)
EXTENDS ProtoSchema

\* merlion/oracle/v1/genesis.ts
GenesisState == MessageType("merlion.oracle.v1.GenesisState", <<
  Nested(1, "params", "merlion.oracle.v1.Params"),
  Repeated(Nested(2, "feeder_delegations", "merlion.oracle.v1.FeederDelegation")),
  Repeated(Nested(3, "exchange_rates", "merlion.oracle.v1.ExchangeRateTuple")),
  Repeated(Nested(4, "miss_counters", "merlion.oracle.v1.MissCounter")),
  Repeated(Nested(5, "aggregate_exchange_rate_prevotes", "merlion.oracle.v1.AggregateExchangeRatePrevote")),
  Repeated(Nested(6, "aggregate_exchange_rate_votes", "merlion.oracle.v1.AggregateExchangeRateVote"))>>)
FeederDelegation == MessageType("merlion.oracle.v1.FeederDelegation", <<
  Str(1, "feeder_address"), Str(2, "validator_address")>>)
MissCounter == MessageType("merlion.oracle.v1.MissCounter", <<
  Str(1, "validator_address"), Uint64(2, "miss_counter")>>)

\* merlion/oracle/v1/oracle.ts
Params == MessageType("merlion.oracle.v1.Params", <<
  Uint64(1, "vote_period"), Str(2, "vote_threshold"), Str(3, "reward_band"),
  Uint64(4, "reward_distribution_window"), Str(5, "slash_fraction"),
  Uint64(6, "slash_window"), Str(7, "min_valid_per_window")>>)
AggregateExchangeRatePrevote == MessageType("merlion.oracle.v1.AggregateExchangeRatePrevote", <<
  Str(1, "hash"), Str(2, "voter"), Uint64(3, "submit_block")>>)
AggregateExchangeRateVote == MessageType("merlion.oracle.v1.AggregateExchangeRateVote", <<
  Repeated(Nested(1, "exchange_rate_tuples", "merlion.oracle.v1.ExchangeRateTuple")),
  Str(2, "voter")>>)
ExchangeRateTuple == MessageType("merlion.oracle.v1.ExchangeRateTuple", <<
  Str(1, "denom"), Str(2, "exchange_rate")>>)
RegisterTargetProposal == MessageType("merlion.oracle.v1.RegisterTargetProposal", <<
  Str(1, "title"), Str(2, "description"),
  Nested(3, "target_params", "merlion.oracle.v1.TargetParams")>>)
TargetParams == MessageType("merlion.oracle.v1.TargetParams", <<
  Str(1, "denom"), Enum(2, "source"), Str(3, "source_dex_contract")>>)

\* merlion/oracle/v1/query.ts
QueryExchangeRateRequest == MessageType("merlion.oracle.v1.QueryExchangeRateRequest", <<
  Str(1, "denom")>>)
QueryExchangeRateResponse == MessageType("merlion.oracle.v1.QueryExchangeRateResponse", <<
  Str(1, "exchange_rate")>>)
QueryExchangeRatesRequest == MessageType("merlion.oracle.v1.QueryExchangeRatesRequest", <<>>)
QueryExchangeRatesResponse == MessageType("merlion.oracle.v1.QueryExchangeRatesResponse", <<
  Repeated(Nested(1, "exchange_rates", "cosmos.base.v1beta1.DecCoin"))>>)
QueryActivesRequest == MessageType("merlion.oracle.v1.QueryActivesRequest", <<>>)
QueryActivesResponse == MessageType("merlion.oracle.v1.QueryActivesResponse", <<
  Repeated(Str(1, "actives"))>>)
QueryVoteTargetsRequest == MessageType("merlion.oracle.v1.QueryVoteTargetsRequest", <<>>)
QueryVoteTargetsResponse == MessageType("merlion.oracle.v1.QueryVoteTargetsResponse", <<
  Repeated(Str(1, "vote_targets"))>>)
QueryTargetsRequest == MessageType("merlion.oracle.v1.QueryTargetsRequest", <<>>)
QueryTargetsResponse == MessageType("merlion.oracle.v1.QueryTargetsResponse", <<
  Repeated(Str(1, "targets"))>>)
QueryFeederDelegationRequest == MessageType("merlion.oracle.v1.QueryFeederDelegationRequest", <<
  Str(1, "validator_addr")>>)
QueryFeederDelegationResponse == MessageType("merlion.oracle.v1.QueryFeederDelegationResponse", <<
  Str(1, "feeder_addr")>>)
QueryMissCounterRequest == MessageType("merlion.oracle.v1.QueryMissCounterRequest", <<
  Str(1, "validator_addr")>>)
QueryMissCounterResponse == MessageType("merlion.oracle.v1.QueryMissCounterResponse", <<
  Uint64(1, "miss_counter")>>)
QueryAggregatePrevoteRequest == MessageType("merlion.oracle.v1.QueryAggregatePrevoteRequest", <<
  Str(1, "validator_addr")>>)
QueryAggregatePrevoteResponse == MessageType("merlion.oracle.v1.QueryAggregatePrevoteResponse", <<
  Nested(1, "aggregate_prevote", "merlion.oracle.v1.AggregateExchangeRatePrevote")>>)
QueryAggregatePrevotesRequest == MessageType("merlion.oracle.v1.QueryAggregatePrevotesRequest", <<>>)
QueryAggregatePrevotesResponse == MessageType("merlion.oracle.v1.QueryAggregatePrevotesResponse", <<
  Repeated(Nested(1, "aggregate_prevotes", "merlion.oracle.v1.AggregateExchangeRatePrevote"))>>)
QueryAggregateVoteRequest == MessageType("merlion.oracle.v1.QueryAggregateVoteRequest", <<
  Str(1, "validator_addr")>>)
QueryAggregateVoteResponse == MessageType("merlion.oracle.v1.QueryAggregateVoteResponse", <<
  Nested(1, "aggregate_vote", "merlion.oracle.v1.AggregateExchangeRateVote")>>)
QueryAggregateVotesRequest == MessageType("merlion.oracle.v1.QueryAggregateVotesRequest", <<>>)
QueryAggregateVotesResponse == MessageType("merlion.oracle.v1.QueryAggregateVotesResponse", <<
  Repeated(Nested(1, "aggregate_votes", "merlion.oracle.v1.AggregateExchangeRateVote"))>>)
QueryParamsRequest == MessageType("merlion.oracle.v1.QueryParamsRequest", <<>>)
QueryParamsResponse == MessageType("merlion.oracle.v1.QueryParamsResponse", <<
  Nested(1, "params", "merlion.oracle.v1.Params")>>)

\* merlion/oracle/v1/tx.ts
MsgAggregateExchangeRatePrevote == MessageType("merlion.oracle.v1.MsgAggregateExchangeRatePrevote", <<
  Str(1, "hash"), Str(2, "feeder"), Str(3, "validator")>>)
MsgAggregateExchangeRatePrevoteResponse == MessageType("merlion.oracle.v1.MsgAggregateExchangeRatePrevoteResponse", <<>>)
MsgAggregateExchangeRateVote == MessageType("merlion.oracle.v1.MsgAggregateExchangeRateVote", <<
  Str(1, "salt"), Str(2, "exchange_rates"), Str(3, "feeder"),
  Str(4, "validator")>>)
MsgAggregateExchangeRateVoteResponse == MessageType("merlion.oracle.v1.MsgAggregateExchangeRateVoteResponse", <<>>)
MsgDelegateFeedConsent == MessageType("merlion.oracle.v1.MsgDelegateFeedConsent", <<
  Str(1, "operator"), Str(2, "delegate")>>)
MsgDelegateFeedConsentResponse == MessageType("merlion.oracle.v1.MsgDelegateFeedConsentResponse", <<>>)

Types == {
   GenesisState, FeederDelegation, MissCounter, Params,
   AggregateExchangeRatePrevote, AggregateExchangeRateVote,
   ExchangeRateTuple, RegisterTargetProposal, TargetParams,
   QueryExchangeRateRequest, QueryExchangeRateResponse,
   QueryExchangeRatesRequest, QueryExchangeRatesResponse,
   QueryActivesRequest, QueryActivesResponse, QueryVoteTargetsRequest,
   QueryVoteTargetsResponse, QueryTargetsRequest, QueryTargetsResponse,
   QueryFeederDelegationRequest, QueryFeederDelegationResponse,
   QueryMissCounterRequest, QueryMissCounterResponse,
   QueryAggregatePrevoteRequest, QueryAggregatePrevoteResponse,
   QueryAggregatePrevotesRequest, QueryAggregatePrevotesResponse,
   QueryAggregateVoteRequest, QueryAggregateVoteResponse,
   QueryAggregateVotesRequest, QueryAggregateVotesResponse,
   QueryParamsRequest, QueryParamsResponse,
   MsgAggregateExchangeRatePrevote,
   MsgAggregateExchangeRatePrevoteResponse, MsgAggregateExchangeRateVote,
   MsgAggregateExchangeRateVoteResponse, MsgDelegateFeedConsent,
   MsgDelegateFeedConsentResponse}
=============================================================================
