---------------------------- MODULE MCConfigUpdate ----------------------------
(***************************************************************************)
(* Settings edited a group at a time, both fees or one of them, caps with  *)
(* and without a total, and values too wide to encode.                     *)
(***************************************************************************)
EXTENDS ConfigUpdate

Txs == (1..MaxCalls) \X (1..MaxBatches)

set(settings, v) == [s \in settings |-> v]

\* Together they name every setting.
Groups == {
  {"status", "assetTier", "protocolTakeRatePct", "protocolLiquidationFeePct", "loanToValuePct",
   "liquidationThresholdPct", "minLiquidationBonusBps", "maxLiquidationBonusBps",
   "badDebtLiquidationBonusBps"},
  {"deleveragingMarginCallPeriodSecs", "deleveragingThresholdSlotsPerBps", "borrowFeeSf",
   "flashLoanFeeSf", "borrowRateCurve", "borrowFactorPct", "depositLimit", "borrowLimit"},
  {"name", "heuristicLower", "heuristicUpper", "heuristicExp", "maxTwapDivergenceBps",
   "maxAgePriceSeconds", "maxAgeTwapSeconds", "priceChain", "twapChain"},
  {"priceAggregator", "twapAggregator", "pythPrice", "blockPriceUsage", "priceFeed",
   "elevationGroups", "disableUsageAsCollOutsideEmode",
   "utilizationLimitBlockBorrowingAbove"} \union Skipped,
  {"depositWithdrawalCap", "debtWithdrawalCap"},
  {}}

EditsOfReserve ==
  {set(g, 1) : g \in Groups} \union {set({"depositLimit"}, Wide)}

FewReserveEdits == {set({"protocolTakeRatePct"}, 1), set({"status"}, 1)}
EntireEditsOfReserve == {set(ReserveSetting \ Totals, 1), set({"status"}, Wide)}

\* Nine settings fill more than one transaction.
Nine == {"lendingMarketOwner", "referralFeeBps", "emergencyMode", "borrowDisabled",
         "globalAllowedBorrowValue", "riskCouncil", "elevationGroup2",
         "minNetValueInObligationSf", "minValueSkipLiquidationLtvBfChecks"}

EditsOfMarket ==
  {set(Nine, 1), set(ElevationGroups, 1),
   set({"lendingMarketOwnerCached", "elevationGroup1"}, 1),
   set({"autodeleverageEnabled"}, Wide)}

EditsOfOthers == {set(Totals, 1), set({"status", "priceChain", "borrowLimit"}, 1)}

Symmetric == Permutations(Input)
Empty == {}
OfReserve == {"reserve"}
OfAdding == {"adding"}

==============================================================================
