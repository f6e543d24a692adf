---------------------------- MODULE MerlionMaker ----------------------------
(****************************************************************************)
(* Schemas of merlion.maker.                                                *)
(****************************************************************************)
EXTENDS ProtoSchema

\* merlion/maker/v1/genesis.ts
GenesisState == MessageType("merlion.maker.v1.GenesisState", <<
  Nested(1, "params", "merlion.maker.v1.Params"), Str(2, "backing_ratio")>>)
Params == MessageType("merlion.maker.v1.Params", <<
  Str(1, "backing_ratio_step"), Str(2, "backing_ratio_price_band"),
  Int64(3, "backing_ratio_cooldown_period"), Str(4, "mint_price_bias"),
  Str(5, "burn_price_bias"), Str(6, "reback_bonus"),
  Str(7, "liquidation_commission_fee")>>)

\* merlion/maker/v1/maker.ts
BackingRiskParams == MessageType("merlion.maker.v1.BackingRiskParams", <<
  Str(1, "backing_denom"), Bool(2, "enabled"), Str(3, "max_backing"),
  Str(4, "max_mer_mint"), Str(5, "mint_fee"), Str(6, "burn_fee"),
  Str(7, "buyback_fee"), Str(8, "reback_fee")>>)
CollateralRiskParams == MessageType("merlion.maker.v1.CollateralRiskParams", <<
  Str(1, "collateral_denom"), Bool(2, "enabled"), Str(3, "max_collateral"),
  Str(4, "max_mer_mint"), Str(5, "liquidation_threshold"),
  Str(6, "loan_to_value"), Str(7, "basic_loan_to_value"),
  Str(8, "catalytic_lion_ratio"), Str(9, "liquidation_fee"),
  Str(10, "mint_fee"), Str(11, "interest_fee")>>)
RegisterBackingProposal == MessageType("merlion.maker.v1.RegisterBackingProposal", <<
  Str(1, "title"), Str(2, "description"),
  Nested(3, "risk_params", "merlion.maker.v1.BackingRiskParams")>>)
RegisterCollateralProposal == MessageType("merlion.maker.v1.RegisterCollateralProposal", <<
  Str(1, "title"), Str(2, "description"),
  Nested(3, "risk_params", "merlion.maker.v1.CollateralRiskParams")>>)
SetBackingRiskParamsProposal == MessageType("merlion.maker.v1.SetBackingRiskParamsProposal", <<
  Str(1, "title"), Str(2, "description"),
  Nested(3, "risk_params", "merlion.maker.v1.BackingRiskParams")>>)
SetCollateralRiskParamsProposal == MessageType("merlion.maker.v1.SetCollateralRiskParamsProposal", <<
  Str(1, "title"), Str(2, "description"),
  Nested(3, "risk_params", "merlion.maker.v1.CollateralRiskParams")>>)
BatchBackingRiskParams == MessageType("merlion.maker.v1.BatchBackingRiskParams", <<
  Repeated(Nested(1, "risk_params", "merlion.maker.v1.BackingRiskParams"))>>)
BatchSetBackingRiskParamsProposal == MessageType("merlion.maker.v1.BatchSetBackingRiskParamsProposal", <<
  Str(1, "title"), Str(2, "description"),
  Repeated(Nested(3, "risk_params", "merlion.maker.v1.BackingRiskParams"))>>)
BatchCollateralRiskParams == MessageType("merlion.maker.v1.BatchCollateralRiskParams", <<
  Repeated(Nested(1, "risk_params", "merlion.maker.v1.CollateralRiskParams"))>>)
BatchSetCollateralRiskParamsProposal == MessageType("merlion.maker.v1.BatchSetCollateralRiskParamsProposal", <<
  Str(1, "title"), Str(2, "description"),
  Repeated(Nested(3, "risk_params", "merlion.maker.v1.CollateralRiskParams"))>>)
TotalBacking == MessageType("merlion.maker.v1.TotalBacking", <<
  Str(1, "backing_value"), Nested(2, "mer_minted", "cosmos.base.v1beta1.Coin"),
  Nested(3, "lion_burned", "cosmos.base.v1beta1.Coin")>>)
PoolBacking == MessageType("merlion.maker.v1.PoolBacking", <<
  Nested(1, "mer_minted", "cosmos.base.v1beta1.Coin"),
  Nested(2, "backing", "cosmos.base.v1beta1.Coin"),
  Nested(3, "lion_burned", "cosmos.base.v1beta1.Coin")>>)
AccountBacking == MessageType("merlion.maker.v1.AccountBacking", <<>>)
TotalCollateral == MessageType("merlion.maker.v1.TotalCollateral", <<
  Nested(1, "mer_debt", "cosmos.base.v1beta1.Coin"),
  Nested(2, "lion_collateralized", "cosmos.base.v1beta1.Coin")>>)
PoolCollateral == MessageType("merlion.maker.v1.PoolCollateral", <<
  Nested(1, "collateral", "cosmos.base.v1beta1.Coin"),
  Nested(2, "mer_debt", "cosmos.base.v1beta1.Coin"),
  Nested(3, "lion_collateralized", "cosmos.base.v1beta1.Coin")>>)
AccountCollateral == MessageType("merlion.maker.v1.AccountCollateral", <<
  Str(1, "account"), Nested(2, "collateral", "cosmos.base.v1beta1.Coin"),
  Nested(3, "mer_debt", "cosmos.base.v1beta1.Coin"),
  Nested(4, "lion_collateralized", "cosmos.base.v1beta1.Coin"),
  Nested(5, "last_interest", "cosmos.base.v1beta1.Coin"),
  Int64(6, "last_settlement_block")>>)

\* merlion/maker/v1/query.ts
QueryAllBackingRiskParamsRequest == MessageType("merlion.maker.v1.QueryAllBackingRiskParamsRequest", <<>>)
QueryAllBackingRiskParamsResponse == MessageType("merlion.maker.v1.QueryAllBackingRiskParamsResponse", <<
  Repeated(Nested(1, "risk_params", "merlion.maker.v1.BackingRiskParams"))>>)
QueryAllCollateralRiskParamsRequest == MessageType("merlion.maker.v1.QueryAllCollateralRiskParamsRequest", <<>>)
QueryAllCollateralRiskParamsResponse == MessageType("merlion.maker.v1.QueryAllCollateralRiskParamsResponse", <<
  Repeated(Nested(1, "risk_params", "merlion.maker.v1.CollateralRiskParams"))>>)
QueryAllBackingPoolsRequest == MessageType("merlion.maker.v1.QueryAllBackingPoolsRequest", <<>>)
QueryAllBackingPoolsResponse == MessageType("merlion.maker.v1.QueryAllBackingPoolsResponse", <<
  Repeated(Nested(1, "backing_pools", "merlion.maker.v1.PoolBacking"))>>)
QueryAllCollateralPoolsRequest == MessageType("merlion.maker.v1.QueryAllCollateralPoolsRequest", <<>>)
QueryAllCollateralPoolsResponse == MessageType("merlion.maker.v1.QueryAllCollateralPoolsResponse", <<
  Repeated(Nested(1, "collateral_pools", "merlion.maker.v1.PoolCollateral"))>>)
QueryBackingPoolRequest == MessageType("merlion.maker.v1.QueryBackingPoolRequest", <<
  Str(1, "backing_denom")>>)
QueryBackingPoolResponse == MessageType("merlion.maker.v1.QueryBackingPoolResponse", <<
  Nested(1, "backing_pool", "merlion.maker.v1.PoolBacking")>>)
QueryCollateralPoolRequest == MessageType("merlion.maker.v1.QueryCollateralPoolRequest", <<
  Str(1, "collateral_denom")>>)
QueryCollateralPoolResponse == MessageType("merlion.maker.v1.QueryCollateralPoolResponse", <<
  Nested(1, "collateral_pool", "merlion.maker.v1.PoolCollateral")>>)
QueryCollateralOfAccountRequest == MessageType("merlion.maker.v1.QueryCollateralOfAccountRequest", <<
  Str(1, "account"), Str(2, "collateral_denom")>>)
QueryCollateralOfAccountResponse == MessageType("merlion.maker.v1.QueryCollateralOfAccountResponse", <<
  Nested(1, "account_collateral", "merlion.maker.v1.AccountCollateral")>>)
QueryTotalBackingRequest == MessageType("merlion.maker.v1.QueryTotalBackingRequest", <<>>)
QueryTotalBackingResponse == MessageType("merlion.maker.v1.QueryTotalBackingResponse", <<
  Nested(1, "total_backing", "merlion.maker.v1.TotalBacking")>>)
QueryTotalCollateralRequest == MessageType("merlion.maker.v1.QueryTotalCollateralRequest", <<>>)
QueryTotalCollateralResponse == MessageType("merlion.maker.v1.QueryTotalCollateralResponse", <<
  Nested(1, "total_collateral", "merlion.maker.v1.TotalCollateral")>>)
QueryBackingRatioRequest == MessageType("merlion.maker.v1.QueryBackingRatioRequest", <<>>)
QueryBackingRatioResponse == MessageType("merlion.maker.v1.QueryBackingRatioResponse", <<
  Str(1, "backing_ratio"), Int64(2, "last_update_block")>>)
QueryParamsRequest == MessageType("merlion.maker.v1.QueryParamsRequest", <<>>)
QueryParamsResponse == MessageType("merlion.maker.v1.QueryParamsResponse", <<
  Nested(1, "params", "merlion.maker.v1.Params")>>)
EstimateMintBySwapInRequest == MessageType("merlion.maker.v1.EstimateMintBySwapInRequest", <<
  Nested(1, "mint_out", "cosmos.base.v1beta1.Coin"), Str(2, "backing_denom"),
  Bool(3, "full_backing")>>)
EstimateMintBySwapInResponse == MessageType("merlion.maker.v1.EstimateMintBySwapInResponse", <<
  Nested(1, "backing_in", "cosmos.base.v1beta1.Coin"),
  Nested(2, "lion_in", "cosmos.base.v1beta1.Coin"),
  Nested(3, "mint_fee", "cosmos.base.v1beta1.Coin")>>)
EstimateMintBySwapOutRequest == MessageType("merlion.maker.v1.EstimateMintBySwapOutRequest", <<
  Nested(1, "backing_in_max", "cosmos.base.v1beta1.Coin"),
  Nested(2, "lion_in_max", "cosmos.base.v1beta1.Coin"),
  Bool(3, "full_backing")>>)
EstimateMintBySwapOutResponse == MessageType("merlion.maker.v1.EstimateMintBySwapOutResponse", <<
  Nested(1, "backing_in", "cosmos.base.v1beta1.Coin"),
  Nested(2, "lion_in", "cosmos.base.v1beta1.Coin"),
  Nested(3, "mint_out", "cosmos.base.v1beta1.Coin"),
  Nested(4, "mint_fee", "cosmos.base.v1beta1.Coin")>>)
EstimateBurnBySwapInRequest == MessageType("merlion.maker.v1.EstimateBurnBySwapInRequest", <<
  Nested(1, "backing_out_max", "cosmos.base.v1beta1.Coin"),
  Nested(2, "lion_out_max", "cosmos.base.v1beta1.Coin")>>)
EstimateBurnBySwapInResponse == MessageType("merlion.maker.v1.EstimateBurnBySwapInResponse", <<
  Nested(1, "burn_in", "cosmos.base.v1beta1.Coin"),
  Nested(2, "backing_out", "cosmos.base.v1beta1.Coin"),
  Nested(3, "lion_out", "cosmos.base.v1beta1.Coin"),
  Nested(4, "burn_fee", "cosmos.base.v1beta1.Coin")>>)
EstimateBurnBySwapOutRequest == MessageType("merlion.maker.v1.EstimateBurnBySwapOutRequest", <<
  Nested(1, "burn_in", "cosmos.base.v1beta1.Coin"), Str(2, "backing_denom")>>)
EstimateBurnBySwapOutResponse == MessageType("merlion.maker.v1.EstimateBurnBySwapOutResponse", <<
  Nested(1, "backing_out", "cosmos.base.v1beta1.Coin"),
  Nested(2, "lion_out", "cosmos.base.v1beta1.Coin"),
  Nested(3, "burn_fee", "cosmos.base.v1beta1.Coin")>>)
EstimateBuyBackingInRequest == MessageType("merlion.maker.v1.EstimateBuyBackingInRequest", <<
  Nested(1, "backing_out", "cosmos.base.v1beta1.Coin")>>)
EstimateBuyBackingInResponse == MessageType("merlion.maker.v1.EstimateBuyBackingInResponse", <<
  Nested(1, "lion_in", "cosmos.base.v1beta1.Coin"),
  Nested(2, "buyback_fee", "cosmos.base.v1beta1.Coin")>>)
EstimateBuyBackingOutRequest == MessageType("merlion.maker.v1.EstimateBuyBackingOutRequest", <<
  Nested(1, "lion_in", "cosmos.base.v1beta1.Coin"), Str(2, "backing_denom")>>)
EstimateBuyBackingOutResponse == MessageType("merlion.maker.v1.EstimateBuyBackingOutResponse", <<
  Nested(1, "backing_out", "cosmos.base.v1beta1.Coin"),
  Nested(2, "buyback_fee", "cosmos.base.v1beta1.Coin")>>)
EstimateSellBackingInRequest == MessageType("merlion.maker.v1.EstimateSellBackingInRequest", <<
  Nested(1, "lion_out", "cosmos.base.v1beta1.Coin"), Str(2, "backing_denom")>>)
EstimateSellBackingInResponse == MessageType("merlion.maker.v1.EstimateSellBackingInResponse", <<
  Nested(1, "backing_in", "cosmos.base.v1beta1.Coin"),
  Nested(2, "sellback_fee", "cosmos.base.v1beta1.Coin")>>)
EstimateSellBackingOutRequest == MessageType("merlion.maker.v1.EstimateSellBackingOutRequest", <<
  Nested(1, "backing_in", "cosmos.base.v1beta1.Coin")>>)
EstimateSellBackingOutResponse == MessageType("merlion.maker.v1.EstimateSellBackingOutResponse", <<
  Nested(1, "lion_out", "cosmos.base.v1beta1.Coin"),
  Nested(2, "sellback_fee", "cosmos.base.v1beta1.Coin")>>)

\* merlion/maker/v1/tx.ts
MsgMintBySwap == MessageType("merlion.maker.v1.MsgMintBySwap", <<
  Str(1, "sender"), Str(2, "to"),
  Nested(3, "backing_in_max", "cosmos.base.v1beta1.Coin"),
  Nested(4, "lion_in_max", "cosmos.base.v1beta1.Coin"),
  Nested(5, "mint_out_min", "cosmos.base.v1beta1.Coin"),
  Bool(6, "full_backing")>>)
MsgMintBySwapResponse == MessageType("merlion.maker.v1.MsgMintBySwapResponse", <<
  Nested(1, "backing_in", "cosmos.base.v1beta1.Coin"),
  Nested(2, "lion_in", "cosmos.base.v1beta1.Coin"),
  Nested(3, "mint_out", "cosmos.base.v1beta1.Coin"),
  Nested(4, "mint_fee", "cosmos.base.v1beta1.Coin")>>)
MsgBurnBySwap == MessageType("merlion.maker.v1.MsgBurnBySwap", <<
  Str(1, "sender"), Str(2, "to"),
  Nested(3, "burn_in", "cosmos.base.v1beta1.Coin"),
  Nested(4, "backing_out_min", "cosmos.base.v1beta1.Coin"),
  Nested(5, "lion_out_min", "cosmos.base.v1beta1.Coin")>>)
MsgBurnBySwapResponse == MessageType("merlion.maker.v1.MsgBurnBySwapResponse", <<
  Nested(1, "backing_out", "cosmos.base.v1beta1.Coin"),
  Nested(2, "lion_out", "cosmos.base.v1beta1.Coin"),
  Nested(3, "burn_fee", "cosmos.base.v1beta1.Coin")>>)
MsgBuyBacking == MessageType("merlion.maker.v1.MsgBuyBacking", <<
  Str(1, "sender"), Str(2, "to"),
  Nested(3, "lion_in", "cosmos.base.v1beta1.Coin"),
  Nested(4, "backing_out_min", "cosmos.base.v1beta1.Coin")>>)
MsgBuyBackingResponse == MessageType("merlion.maker.v1.MsgBuyBackingResponse", <<
  Nested(1, "backing_out", "cosmos.base.v1beta1.Coin"),
  Nested(2, "buyback_fee", "cosmos.base.v1beta1.Coin")>>)
MsgSellBacking == MessageType("merlion.maker.v1.MsgSellBacking", <<
  Str(1, "sender"), Str(2, "to"),
  Nested(3, "backing_in", "cosmos.base.v1beta1.Coin"),
  Nested(4, "lion_out_min", "cosmos.base.v1beta1.Coin")>>)
MsgSellBackingResponse == MessageType("merlion.maker.v1.MsgSellBackingResponse", <<
  Nested(1, "lion_out", "cosmos.base.v1beta1.Coin"),
  Nested(2, "reback_fee", "cosmos.base.v1beta1.Coin")>>)
MsgMintByCollateral == MessageType("merlion.maker.v1.MsgMintByCollateral", <<
  Str(1, "sender"), Str(2, "to"), Str(3, "collateral_denom"),
  Nested(4, "mint_out", "cosmos.base.v1beta1.Coin")>>)
MsgMintByCollateralResponse == MessageType("merlion.maker.v1.MsgMintByCollateralResponse", <<
  Nested(1, "mint_fee", "cosmos.base.v1beta1.Coin")>>)
MsgBurnByCollateral == MessageType("merlion.maker.v1.MsgBurnByCollateral", <<
  Str(1, "sender"), Str(2, "collateral_denom"),
  Nested(3, "repay_in_max", "cosmos.base.v1beta1.Coin")>>)
MsgBurnByCollateralResponse == MessageType("merlion.maker.v1.MsgBurnByCollateralResponse", <<
  Nested(1, "repay_in", "cosmos.base.v1beta1.Coin")>>)
MsgDepositCollateral == MessageType("merlion.maker.v1.MsgDepositCollateral", <<
  Str(1, "sender"), Str(2, "to"),
  Nested(3, "collateral_in", "cosmos.base.v1beta1.Coin"),
  Nested(4, "lion_in", "cosmos.base.v1beta1.Coin")>>)
MsgDepositCollateralResponse == MessageType("merlion.maker.v1.MsgDepositCollateralResponse", <<>>)
MsgRedeemCollateral == MessageType("merlion.maker.v1.MsgRedeemCollateral", <<
  Str(1, "sender"), Str(2, "to"),
  Nested(3, "collateral_out", "cosmos.base.v1beta1.Coin"),
  Nested(4, "lion_out", "cosmos.base.v1beta1.Coin")>>)
MsgRedeemCollateralResponse == MessageType("merlion.maker.v1.MsgRedeemCollateralResponse", <<>>)
MsgLiquidateCollateral == MessageType("merlion.maker.v1.MsgLiquidateCollateral", <<
  Str(1, "sender"), Str(2, "to"), Str(3, "debtor"),
  Nested(4, "collateral", "cosmos.base.v1beta1.Coin"),
  Nested(5, "repay_in_max", "cosmos.base.v1beta1.Coin")>>)
MsgLiquidateCollateralResponse == MessageType("merlion.maker.v1.MsgLiquidateCollateralResponse", <<
  Nested(1, "repay_in", "cosmos.base.v1beta1.Coin"),
  Nested(2, "collateral_out", "cosmos.base.v1beta1.Coin")>>)

Types == {
   GenesisState, Params, BackingRiskParams, CollateralRiskParams,
   RegisterBackingProposal, RegisterCollateralProposal,
   SetBackingRiskParamsProposal, SetCollateralRiskParamsProposal,
   BatchBackingRiskParams, BatchSetBackingRiskParamsProposal,
   BatchCollateralRiskParams, BatchSetCollateralRiskParamsProposal,
   TotalBacking, PoolBacking, AccountBacking, TotalCollateral,
   PoolCollateral, AccountCollateral, QueryAllBackingRiskParamsRequest,
   QueryAllBackingRiskParamsResponse, QueryAllCollateralRiskParamsRequest,
   QueryAllCollateralRiskParamsResponse, QueryAllBackingPoolsRequest,
   QueryAllBackingPoolsResponse, QueryAllCollateralPoolsRequest,
   QueryAllCollateralPoolsResponse, QueryBackingPoolRequest,
   QueryBackingPoolResponse, QueryCollateralPoolRequest,
   QueryCollateralPoolResponse, QueryCollateralOfAccountRequest,
   QueryCollateralOfAccountResponse, QueryTotalBackingRequest,
   QueryTotalBackingResponse, QueryTotalCollateralRequest,
   QueryTotalCollateralResponse, QueryBackingRatioRequest,
   QueryBackingRatioResponse, QueryParamsRequest, QueryParamsResponse,
   EstimateMintBySwapInRequest, EstimateMintBySwapInResponse,
   EstimateMintBySwapOutRequest, EstimateMintBySwapOutResponse,
   EstimateBurnBySwapInRequest, EstimateBurnBySwapInResponse,
   EstimateBurnBySwapOutRequest, EstimateBurnBySwapOutResponse,
   EstimateBuyBackingInRequest, EstimateBuyBackingInResponse,
   EstimateBuyBackingOutRequest, EstimateBuyBackingOutResponse,
   EstimateSellBackingInRequest, EstimateSellBackingInResponse,
   EstimateSellBackingOutRequest, EstimateSellBackingOutResponse,
   MsgMintBySwap, MsgMintBySwapResponse, MsgBurnBySwap,
   MsgBurnBySwapResponse, MsgBuyBacking, MsgBuyBackingResponse,
   MsgSellBacking, MsgSellBackingResponse, MsgMintByCollateral,
   MsgMintByCollateralResponse, MsgBurnByCollateral,
   MsgBurnByCollateralResponse, MsgDepositCollateral,
   MsgDepositCollateralResponse, MsgRedeemCollateral,
   MsgRedeemCollateralResponse, MsgLiquidateCollateral,
   MsgLiquidateCollateralResponse}
=============================================================================
