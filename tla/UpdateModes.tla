----------------------------- MODULE UpdateModes -----------------------------
(***************************************************************************)
(* How the manager turns the difference between two configurations into    *)
(* update instructions: parseForChangesReserveConfigAndGetIxs and its      *)
(* encoding in src/classes/reserve.ts, parseForChangesMarketConfigAndGetIxs*)
(* and its encoding in src/classes/manager.ts, and the files the command   *)
(* line reads and writes.  A setting is one value that an update mode      *)
(* writes; of a value only this is kept: two that fit the setting, and one *)
(* too wide for it.                                                        *)
(***************************************************************************)
EXTENDS Lists

CONSTANT NetValueOrder  \* the order in which the program reads the bytes of a net value

ASSUME NetValueOrderAssumption == NetValueOrder \in {"big", "little"}

Value == 0..2
\* Above 2^53 - 1 in a 64 bit setting, above the range of a narrower one.
Wide == 2
\* The bytes of a value other than 0 in the wrong order.
Scrambled == 3

-----------------------------------------------------------------------------
(***************************************************************************)
(* Reserves.                                                               *)
(***************************************************************************)
\* The modes in the order of their discriminators, which start at 0.
RiskModes == <<
  "UpdateLoanToValuePct", "UpdateMaxLiquidationBonusBps", "UpdateLiquidationThresholdPct",
  "UpdateProtocolLiquidationFee", "UpdateProtocolTakeRate" >>
FeeAndLimitModes == <<
  "UpdateFeesBorrowFee", "UpdateFeesFlashLoanFee", "UpdateFeesReferralFeeBps",
  "UpdateDepositLimit", "UpdateBorrowLimit" >>
PriceModes == <<
  "UpdateTokenInfoLowerHeuristic", "UpdateTokenInfoUpperHeuristic",
  "UpdateTokenInfoExpHeuristic", "UpdateTokenInfoTwapDivergence", "UpdateTokenInfoScopeTwap",
  "UpdateTokenInfoScopeChain" >>
OracleModes == <<
  "UpdateTokenInfoName", "UpdateTokenInfoPriceMaxAge", "UpdateTokenInfoTwapMaxAge",
  "UpdateScopePriceFeed", "UpdatePythPrice", "UpdateSwitchboardFeed" >>
CurveAndCapModes == <<
  "UpdateSwitchboardTwapFeed", "UpdateBorrowRateCurve", "UpdateEntireReserveConfig",
  "UpdateDebtWithdrawalCap", "UpdateDepositWithdrawalCap",
  "UpdateDebtWithdrawalCapCurrentTotal" >>
LiquidationModes == <<
  "UpdateDepositWithdrawalCapCurrentTotal", "UpdateBadDebtLiquidationBonusBps",
  "UpdateMinLiquidationBonusBps", "DeleveragingMarginCallPeriod", "UpdateBorrowFactor",
  "UpdateAssetTier" >>
GroupModes == <<
  "UpdateElevationGroup", "DeleveragingThresholdSlotsPerBps",
  "DeprecatedUpdateMultiplierSideBoost", "DeprecatedUpdateMultiplierTagBoost",
  "UpdateReserveStatus" >>
FarmAndUsageModes == <<
  "UpdateFarmCollateral", "UpdateFarmDebt", "UpdateDisableUsageAsCollateralOutsideEmode",
  "UpdateBlockBorrowingAboveUtilization", "UpdateBlockPriceUsage" >>
BorrowLimitModes == <<
  "UpdateBorrowLimitOutsideElevationGroup",
  "UpdateBorrowLimitsInElevationGroupAgainstThisReserve", "UpdateHostFixedInterestRateBps" >>

UpdateConfigMode ==
  RiskModes \o FeeAndLimitModes \o PriceModes \o OracleModes \o CurveAndCapModes
    \o LiquidationModes \o GroupModes \o FarmAndUsageModes \o BorrowLimitModes

\* The mode each setting is updated with.
curveAndLimitMode == [
  borrowRateCurve |-> "UpdateBorrowRateCurve",
  borrowFeeSf |-> "UpdateFeesBorrowFee",
  flashLoanFeeSf |-> "UpdateFeesFlashLoanFee",
  depositLimit |-> "UpdateDepositLimit",
  borrowLimit |-> "UpdateBorrowLimit" ]
liquidationMode == [
  maxLiquidationBonusBps |-> "UpdateMaxLiquidationBonusBps",
  minLiquidationBonusBps |-> "UpdateMinLiquidationBonusBps",
  badDebtLiquidationBonusBps |-> "UpdateBadDebtLiquidationBonusBps",
  liquidationThresholdPct |-> "UpdateLiquidationThresholdPct" ]
usageMode == [
  protocolTakeRatePct |-> "UpdateProtocolTakeRate",
  status |-> "UpdateReserveStatus",
  disableUsageAsCollOutsideEmode |-> "UpdateDisableUsageAsCollateralOutsideEmode",
  utilizationLimitBlockBorrowingAbove |-> "UpdateBlockBorrowingAboveUtilization",
  deleveragingThresholdSlotsPerBps |-> "DeleveragingThresholdSlotsPerBps" ]
capMode == [
  depositWithdrawalCap |-> "UpdateDepositWithdrawalCap",
  depositWithdrawalCapTotal |-> "UpdateDepositWithdrawalCapCurrentTotal",
  debtWithdrawalCap |-> "UpdateDebtWithdrawalCap",
  debtWithdrawalCapTotal |-> "UpdateDebtWithdrawalCapCurrentTotal" ]
borrowPowerMode == [
  elevationGroups |-> "UpdateElevationGroup",
  borrowFactorPct |-> "UpdateBorrowFactor",
  loanToValuePct |-> "UpdateLoanToValuePct",
  protocolLiquidationFeePct |-> "UpdateProtocolLiquidationFee",
  deleveragingMarginCallPeriodSecs |-> "DeleveragingMarginCallPeriod",
  assetTier |-> "UpdateAssetTier" ]
priceMode == [
  name |-> "UpdateTokenInfoName",
  heuristicLower |-> "UpdateTokenInfoLowerHeuristic",
  heuristicUpper |-> "UpdateTokenInfoUpperHeuristic",
  heuristicExp |-> "UpdateTokenInfoExpHeuristic",
  maxTwapDivergenceBps |-> "UpdateTokenInfoTwapDivergence",
  maxAgePriceSeconds |-> "UpdateTokenInfoPriceMaxAge",
  maxAgeTwapSeconds |-> "UpdateTokenInfoTwapMaxAge" ]
oracleMode == [
  priceChain |-> "UpdateTokenInfoScopeChain",
  twapChain |-> "UpdateTokenInfoScopeTwap",
  priceAggregator |-> "UpdateSwitchboardFeed",
  twapAggregator |-> "UpdateSwitchboardTwapFeed",
  pythPrice |-> "UpdatePythPrice",
  blockPriceUsage |-> "UpdateBlockPriceUsage",
  priceFeed |-> "UpdateScopePriceFeed" ]

together(f, g) == [s \in DOMAIN f \union DOMAIN g |-> IF s \in DOMAIN f THEN f[s] ELSE g[s]]

reserveMode ==
  together(curveAndLimitMode, together(liquidationMode, together(usageMode, together(capMode,
    together(borrowPowerMode, together(priceMode, oracleMode))))))

Updatable == DOMAIN reserveMode

\* Settings of a reserve that the comparison has no case for.
Skipped == {"hostFixedInterestRateBps", "borrowLimitOutsideElevationGroup",
            "borrowLimitAgainstThisCollateralInElevationGroup"}

ReserveSetting == Updatable \union Skipped

Totals == {"depositWithdrawalCapTotal", "debtWithdrawalCapTotal"}

\* Stored in 64 bits, and taken to a number before they are encoded.
BigNumbers ==
  {"deleveragingMarginCallPeriodSecs", "deleveragingThresholdSlotsPerBps", "borrowFeeSf",
   "flashLoanFeeSf", "borrowFactorPct", "depositLimit", "borrowLimit", "heuristicLower",
   "heuristicUpper", "heuristicExp", "maxTwapDivergenceBps", "maxAgePriceSeconds",
   "maxAgeTwapSeconds", "depositWithdrawalCap", "debtWithdrawalCap"} \union Totals

\* Stored in 64 bits too.
BorrowLimits == {"borrowLimitOutsideElevationGroup",
                 "borrowLimitAgainstThisCollateralInElevationGroup"}

PublicKeys == {"priceAggregator", "twapAggregator", "pythPrice", "priceFeed"}

\* What a setting of the account can hold.
Held(s) == IF s \in BigNumbers \union BorrowLimits THEN Value ELSE Value \ {Wide}

\* The settings of each key, in the order they are compared.
reserveKeys == <<
  <<"status">>, <<"assetTier">>, <<"protocolTakeRatePct">>, <<"protocolLiquidationFeePct">>,
  <<"loanToValuePct">>, <<"liquidationThresholdPct">>, <<"minLiquidationBonusBps">>,
  <<"maxLiquidationBonusBps">>, <<"badDebtLiquidationBonusBps">>,
  <<"deleveragingMarginCallPeriodSecs">>, <<"deleveragingThresholdSlotsPerBps">>,
  <<"borrowFeeSf", "flashLoanFeeSf">>,
  <<"borrowRateCurve">>, <<"borrowFactorPct">>, <<"depositLimit">>, <<"borrowLimit">>,
  <<"name", "heuristicLower", "heuristicUpper", "heuristicExp", "maxTwapDivergenceBps",
    "maxAgePriceSeconds", "maxAgeTwapSeconds", "priceChain", "twapChain", "priceAggregator",
    "twapAggregator", "pythPrice", "blockPriceUsage", "priceFeed">>,
  <<"depositWithdrawalCap", "depositWithdrawalCapTotal">>,
  <<"debtWithdrawalCap", "debtWithdrawalCapTotal">>,
  <<"elevationGroups">>, <<"disableUsageAsCollOutsideEmode">>,
  <<"utilizationLimitBlockBorrowingAbove">> >>

\* Of these keys only the first setting that differs is updated: else if.
firstOnly(key) == key[1] \in {"borrowFeeSf", "depositWithdrawalCap", "debtWithdrawalCap"}

differing(key, old, new) == pick(key, {i \in DOMAIN key : old[key[i]] # new[key[i]]})

\* Mutant: the cases of every key exclude each other.
firstChange(key, old, new) ==
  LET d == differing(key, old, new) IN IF d # <<>> THEN <<Head(d)>> ELSE d

changesOfKey(key, old, new) ==
  LET d == differing(key, old, new)
  IN  IF firstOnly(key) /\ d # <<>> THEN <<Head(d)>> ELSE d

\* The settings parseForChangesReserveConfigAndGetIxs updates, in order.
reserveChanges(old, new) ==
  FlattenSeq([k \in DOMAIN reserveKeys |-> changesOfKey(reserveKeys[k], old, new)])

\* The current total of a cap is encoded as if it were the cap, a pair: an
\* element of a number is undefined, and BigInt throws.
encodes(s, v) == s \notin Totals /\ v # Wide

discriminator(modes, mode) == (CHOOSE i \in DOMAIN modes : modes[i] = mode) - 1

updateReserveConfigIx(s, new) ==
  [mode |-> discriminator(UpdateConfigMode, reserveMode[s]) + 1, value |-> new[s]]

updateEntireReserveConfigIx(new) == [mode |-> 25, value |-> new]

\* The layout stores 64 bits.
encodesEntirely(new) == \A s \in ReserveSetting : new[s] \in Held(s)

(***************************************************************************)
(* The program counts the modes from 1.                                    *)
(***************************************************************************)
settingOf(settings, mode) == CHOOSE s \in DOMAIN settings : settings[s] = mode

runReserveIx(config, ix) ==
  LET mode == UpdateConfigMode[ix.mode]
  IN  IF mode = "UpdateEntireReserveConfig" THEN ix.value
      ELSE IF \E s \in Updatable : reserveMode[s] = mode
           THEN [config EXCEPT ![settingOf(reserveMode, mode)] = ix.value]
           ELSE config

runReserveIxs(config, ixs) ==
  LET after[k \in 0..Len(ixs)] == IF k = 0 THEN config ELSE runReserveIx(after[k - 1], ixs[k])
  IN  after[Len(ixs)]

-----------------------------------------------------------------------------
(***************************************************************************)
(* The files of the command line.  Both directions take the take rate from *)
(* the liquidation fee; reading starts the totals of the caps at 0.        *)
(***************************************************************************)
parseReserveConfigToFile(config) ==
  [config EXCEPT !.protocolTakeRatePct = config.protocolLiquidationFeePct]

\* Mutant: the chain of the twap is taken from the chain of the price.
misparsed(file) ==
  [s \in ReserveSetting |-> IF s \in Totals THEN 0
                            ELSE IF s = "protocolTakeRatePct" THEN file.protocolLiquidationFeePct
                            ELSE IF s = "twapChain" THEN file.priceChain ELSE file[s]]

parseReserveConfigFromFile(file) ==
  [s \in ReserveSetting |-> IF s \in Totals THEN 0
                            ELSE IF s = "protocolTakeRatePct" THEN file.protocolLiquidationFeePct
                            ELSE file[s]]

-----------------------------------------------------------------------------
(***************************************************************************)
(* Markets.  Two of the 32 elevation groups stand for all of them.         *)
(***************************************************************************)
OwnerAndValueModes == <<
  "UpdateOwner", "UpdateEmergencyMode", "UpdateLiquidationCloseFactor",
  "UpdateLiquidationMaxValue", "UpdateGlobalUnhealthyBorrow", "UpdateGlobalAllowedBorrow" >>
CouncilAndGroupModes == <<
  "UpdateRiskCouncil", "UpdateMinFullLiquidationThreshold", "UpdateInsolvencyRiskLtv",
  "UpdateElevationGroup", "UpdateReferralFeeBps", "DeprecatedUpdateMultiplierPoints" >>
TriggerModes == <<
  "UpdatePriceRefreshTriggerToMaxAgePct", "UpdateAutodeleverageEnabled",
  "UpdateBorrowingDisabled", "UpdateMinNetValueObligationPostAction",
  "UpdateMinValueSkipPriorityLiqCheck", "UpdatePaddingFields" >>

UpdateLendingMarketMode == OwnerAndValueModes \o CouncilAndGroupModes \o TriggerModes

\* The settings in the order of toJSON.
marketKeys == <<
  "lendingMarketOwner", "lendingMarketOwnerCached", "referralFeeBps", "emergencyMode",
  "autodeleverageEnabled", "borrowDisabled", "priceRefreshTriggerToMaxAgePct",
  "liquidationMaxDebtCloseFactorPct", "insolvencyRiskUnhealthyLtvPct",
  "minFullLiquidationValueThreshold", "maxLiquidatableDebtMarketValueAtOnce",
  "globalUnhealthyBorrowValue", "globalAllowedBorrowValue", "riskCouncil",
  "elevationGroup1", "elevationGroup2", "minNetValueInObligationSf",
  "minValueSkipLiquidationLtvBfChecks" >>

MarketSetting == ToSet(marketKeys)
ElevationGroups == {"elevationGroup1", "elevationGroup2"}
Owners == {"lendingMarketOwner", "lendingMarketOwnerCached"}

MarketBigNumbers ==
  {"minFullLiquidationValueThreshold", "maxLiquidatableDebtMarketValueAtOnce",
   "globalUnhealthyBorrowValue", "globalAllowedBorrowValue",
   "minValueSkipLiquidationLtvBfChecks"}

\* minNetValueInObligationSf has 128 bits and is written from its digits: a
\* wide value fits.
HeldInMarket(s) ==
  IF s = "minNetValueInObligationSf" THEN Value \union {Scrambled}
  ELSE IF s \in MarketBigNumbers THEN Value ELSE Value \ {Wide}

marketMode == [
  referralFeeBps |-> "UpdateReferralFeeBps",
  emergencyMode |-> "UpdateEmergencyMode",
  autodeleverageEnabled |-> "UpdateAutodeleverageEnabled",
  borrowDisabled |-> "UpdateBorrowingDisabled",
  priceRefreshTriggerToMaxAgePct |-> "UpdatePriceRefreshTriggerToMaxAgePct",
  liquidationMaxDebtCloseFactorPct |-> "UpdateLiquidationCloseFactor",
  insolvencyRiskUnhealthyLtvPct |-> "UpdateInsolvencyRiskLtv",
  minFullLiquidationValueThreshold |-> "UpdateMinFullLiquidationThreshold",
  maxLiquidatableDebtMarketValueAtOnce |-> "UpdateLiquidationMaxValue",
  globalUnhealthyBorrowValue |-> "UpdateGlobalUnhealthyBorrow",
  globalAllowedBorrowValue |-> "UpdateGlobalAllowedBorrow",
  riskCouncil |-> "UpdateRiskCouncil",
  minNetValueInObligationSf |-> "UpdateMinNetValueObligationPostAction",
  minValueSkipLiquidationLtvBfChecks |-> "UpdateMinValueSkipPriorityLiqCheck" ]

\* Owner and pending owner are both sent as the owner; the bytes of a group
\* name the group.
modeOfMarketSetting(s) ==
  IF s \in Owners THEN "UpdateOwner"
  ELSE IF s \in ElevationGroups THEN "UpdateElevationGroup" ELSE marketMode[s]

marketChanges(old, new) == differing(marketKeys, old, new)

groupsChanged(changes) ==
  pick(changes, {i \in DOMAIN changes : changes[i] \in ElevationGroups})

\* Mutant: a value is not checked against the width of its setting.
oneGroup(changes, new) == Len(groupsChanged(changes)) <= 1

\* "Can only update 1 elevation group at a time"
marketEncodes(changes, new) ==
  /\ Len(groupsChanged(changes)) <= 1
  /\ \A i \in DOMAIN changes :
       new[changes[i]] = Wide => changes[i] = "minNetValueInObligationSf"

updateMarketConfigIx(s, new) ==
  [mode |-> discriminator(UpdateLendingMarketMode, modeOfMarketSetting(s)),
   group |-> IF s \in ElevationGroups THEN s ELSE "none", value |-> new[s]]

(***************************************************************************)
(* The program counts these modes from 0.  A new owner waits until it      *)
(* accepts.  All numbers are sent with the low byte first but the net      *)
(* value, which is sent with the high byte first.                          *)
(***************************************************************************)
netValueRead(v) == IF v = 0 \/ NetValueOrder = "big" THEN v ELSE Scrambled

runMarketIx(market, ix) ==
  LET mode == UpdateLendingMarketMode[ix.mode + 1]
      setting == IF mode = "UpdateOwner" THEN "lendingMarketOwnerCached"
                 ELSE IF mode = "UpdateElevationGroup" THEN ix.group
                 ELSE settingOf(marketMode, mode)
  IN  [market EXCEPT ![setting] = IF setting = "minNetValueInObligationSf"
                                  THEN netValueRead(ix.value) ELSE ix.value]

runMarketIxs(market, ixs) ==
  LET after[k \in 0..Len(ixs)] == IF k = 0 THEN market ELSE runMarketIx(after[k - 1], ixs[k])
  IN  after[Len(ixs)]

==============================================================================
