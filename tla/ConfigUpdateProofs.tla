------------------------- MODULE ConfigUpdateProofs -------------------------
(***************************************************************************)
(* What is proved of ConfigUpdate: the accounts hold what their layout     *)
(* can, an update touches only what it names, a market whose batches have  *)
(* all landed has what its file says, in whatever order they landed, and   *)
(* the latest configuration object keeps its inputs.                       *)
(***************************************************************************)
EXTENDS ConfigUpdate, ListFacts

-----------------------------------------------------------------------------
(***************************************************************************)
(* The senders: what the end of a send tells its caller, for any number of *)
(* transactions and whatever the nodes lose, delay or answer.              *)
(***************************************************************************)
\* Before its send, a transaction is nowhere.
Unsent(t) == t \notin inFlight /\ outcome[t] = "none"

\* The inductive invariant: no transaction on its way has landed yet, and what
\* a call waits for tells what became of its transaction so far.
IInv ==
  /\ TypeOK
  /\ \A t \in inFlight : outcome[t] = "none"
  /\ await = "send" => sender = "withLogs" /\ Unsent(sending)
  /\ await = "blockhash" /\ sender = "withRetry" => Unsent(sending)
  /\ await = "details" => outcome[sending] = "err"
  /\ await = "logs" => sender = "withLogs"
  /\ sender = "withLogs" /\ await \in {"logs", "returned"} => outcome[sending] = "ok"
  /\ ThrewMeansNoEffect

LEMMA InitInv == Init => IInv
BY TxAssumption DEF Init, IInv, TypeOK, Sender, Await, Ended, Unsent, ThrewMeansNoEffect

\* A call begins with a transaction that is nowhere.
LEMMA CallInv ==
  ASSUME IInv, NEW t \in Tx, Call(t)
  PROVE  IInv'
BY TxAssumption DEF IInv, TypeOK, Call, New, Idle, firstAwait, Sender, Await, Ended, Unsent,
   ThrewMeansNoEffect, sendVars

\* A running call is about a transaction.
LEMMA RunningHasTx ==
  ASSUME IInv, await \in Await
  PROVE  sending \in Tx
BY DEF IInv, TypeOK, Await

\* Each answer leaves the invariant, whether the call goes on or ends.
LEMMA ContinueInv ==
  ASSUME IInv, Continue
  PROVE  IInv'
<1> USE DEF IInv, TypeOK, Sender, Await, Ended, Unsent, ThrewMeansNoEffect,
            WaitFor, Throw, Return
<1>0. sending \in Tx
  BY RunningHasTx DEF Continue, BlockhashFetched, SendAnswered, Confirmed,
     LandedWithError, GiveUp, DetailsFetched, LogsFetched
<1>1. CASE BlockhashFetched
  BY <1>0, <1>1 DEF BlockhashFetched
<1>2. CASE SendAnswered
  BY <1>0, <1>2 DEF SendAnswered
<1>3. CASE Confirmed
  BY <1>0, <1>3 DEF Confirmed, landedWell
<1>4. CASE LandedWithError
  BY <1>0, <1>4 DEF LandedWithError
<1>5. CASE GiveUp
  BY <1>0, <1>5 DEF GiveUp
<1>6. CASE DetailsFetched
  BY <1>0, <1>6 DEF DetailsFetched
<1>7. CASE LogsFetched
  BY <1>0, <1>7 DEF LogsFetched
<1> QED BY <1>1, <1>2, <1>3, <1>4, <1>5, <1>6, <1>7 DEF Continue

\* The network decides only about transactions on their way.
LEMMA NetworkInv ==
  ASSUME IInv, Network
  PROVE  IInv'
<1> USE DEF IInv, TypeOK, Sender, Await, Ended, Unsent, ThrewMeansNoEffect
<1>1. PICK t \in Tx : Land(t, "ok") \/ Land(t, "err") \/ Drop(t)
  BY DEF Network
<1>2. CASE Land(t, "ok")
  BY <1>2 DEF Land
<1>3. CASE Land(t, "err")
  BY <1>3 DEF Land
<1>4. CASE Drop(t)
  BY <1>4 DEF Drop
<1> QED BY <1>1, <1>2, <1>3, <1>4

LEMMA NextInv == IInv /\ [Next]_sendVars => IInv'
<1> SUFFICES ASSUME IInv, [Next]_sendVars
             PROVE  IInv'
  OBVIOUS
<1>1. ASSUME NEW t \in Tx, Call(t)
      PROVE  IInv'
  BY <1>1, CallInv
<1>2. CASE UNCHANGED sendVars
  BY <1>2 DEF IInv, TypeOK, Unsent, ThrewMeansNoEffect, sendVars
<1> QED BY <1>1, <1>2, ContinueInv, NetworkInv DEF Next

LEMMA InvImplies == IInv => TypeOK /\ ReturnedMeansLanded /\ ThrewMeansNoEffect
BY DEF IInv, ReturnedMeansLanded

\* The senders keep the invariant, through losses, delays and wrong answers
\* (sendTransactionsUtils.ts:106-204, instruction.ts:62-105).
THEOREM Invariance == Spec => []IInv
BY InitInv, NextInv, PTL DEF Spec

\* buildAndSendTxn returns a signature only of a transaction that landed
\* without an error.
THEOREM ReturnTellsLanded == Spec => []ReturnedMeansLanded
BY Invariance, InvImplies, PTL

\* sendAndConfirmRawTransactionWithRetry throws only if its transaction has no
\* effect and never will have.
THEOREM ThrowTellsNoEffect == Spec => []ThrewMeansNoEffect
BY Invariance, InvImplies, PTL

-----------------------------------------------------------------------------
(* Tables of modes: settings D, modes R, and no mode twice.                *)
Table(f, D, R) ==
  /\ DOMAIN f = D
  /\ \A s \in D : f[s] \in R
  /\ \A s, t \in D : f[s] = f[t] => s = t

LEMMA Together ==
  ASSUME NEW f, NEW g, NEW D, NEW E, NEW R, NEW S, Table(f, D, R), Table(g, E, S),
         D \cap E = {}, R \cap S = {}
  PROVE  Table(together(f, g), D \cup E, R \cup S)
<1> PICK h : h = together(f, g)
  OBVIOUS
<1>1. h = [s \in D \cup E |-> IF s \in D THEN f[s] ELSE g[s]]
  BY DEF together, Table
<1>2. DOMAIN h = D \cup E /\ \A s \in D \cup E : h[s] = IF s \in D THEN f[s] ELSE g[s]
  BY <1>1
<1>3. \A s \in D : h[s] = f[s] /\ h[s] \in R
  BY <1>2 DEF Table
<1>4. \A s \in E : s \notin D /\ h[s] = g[s] /\ h[s] \in S
  BY <1>2 DEF Table
<1>5. ASSUME NEW s \in D \cup E, NEW t \in D \cup E, h[s] = h[t] PROVE s = t
  BY <1>3, <1>4, <1>5 DEF Table
<1> QED BY <1>2, <1>3, <1>4, <1>5 DEF Table

CurveSettings == {"borrowRateCurve", "borrowFeeSf", "flashLoanFeeSf", "depositLimit",
                  "borrowLimit"}
LiquidationSettings == {"maxLiquidationBonusBps", "minLiquidationBonusBps",
                        "badDebtLiquidationBonusBps", "liquidationThresholdPct"}
UsageSettings == {"protocolTakeRatePct", "status", "disableUsageAsCollOutsideEmode",
                  "utilizationLimitBlockBorrowingAbove", "deleveragingThresholdSlotsPerBps"}
CapSettings == {"depositWithdrawalCap", "depositWithdrawalCapTotal", "debtWithdrawalCap",
                "debtWithdrawalCapTotal"}
PowerSettings == {"elevationGroups", "borrowFactorPct", "loanToValuePct",
                  "protocolLiquidationFeePct", "deleveragingMarginCallPeriodSecs", "assetTier"}
PriceSettings == {"name", "heuristicLower", "heuristicUpper", "heuristicExp",
                  "maxTwapDivergenceBps", "maxAgePriceSeconds", "maxAgeTwapSeconds"}
SourceSettings == {"priceChain", "twapChain", "priceAggregator", "twapAggregator", "pythPrice",
                   "blockPriceUsage", "priceFeed"}

CurveModesOf == {"UpdateBorrowRateCurve", "UpdateFeesBorrowFee", "UpdateFeesFlashLoanFee",
                 "UpdateDepositLimit", "UpdateBorrowLimit"}
LiquidationModesOf == {"UpdateMaxLiquidationBonusBps", "UpdateMinLiquidationBonusBps",
                       "UpdateBadDebtLiquidationBonusBps", "UpdateLiquidationThresholdPct"}
UsageModesOf == {"UpdateProtocolTakeRate", "UpdateReserveStatus",
                 "UpdateDisableUsageAsCollateralOutsideEmode",
                 "UpdateBlockBorrowingAboveUtilization", "DeleveragingThresholdSlotsPerBps"}
CapModesOf == {"UpdateDepositWithdrawalCap", "UpdateDepositWithdrawalCapCurrentTotal",
               "UpdateDebtWithdrawalCap", "UpdateDebtWithdrawalCapCurrentTotal"}
PowerModesOf == {"UpdateElevationGroup", "UpdateBorrowFactor", "UpdateLoanToValuePct",
                 "UpdateProtocolLiquidationFee", "DeleveragingMarginCallPeriod",
                 "UpdateAssetTier"}
PriceModesOf == {"UpdateTokenInfoName", "UpdateTokenInfoLowerHeuristic",
                 "UpdateTokenInfoUpperHeuristic", "UpdateTokenInfoExpHeuristic",
                 "UpdateTokenInfoTwapDivergence", "UpdateTokenInfoPriceMaxAge",
                 "UpdateTokenInfoTwapMaxAge"}
SourceModesOf == {"UpdateTokenInfoScopeChain", "UpdateTokenInfoScopeTwap",
                  "UpdateSwitchboardFeed", "UpdateSwitchboardTwapFeed", "UpdatePythPrice",
                  "UpdateBlockPriceUsage", "UpdateScopePriceFeed"}

LEMMA Tables ==
  /\ Table(curveAndLimitMode, CurveSettings, CurveModesOf)
  /\ Table(liquidationMode, LiquidationSettings, LiquidationModesOf)
  /\ Table(usageMode, UsageSettings, UsageModesOf)
  /\ Table(capMode, CapSettings, CapModesOf)
  /\ Table(borrowPowerMode, PowerSettings, PowerModesOf)
  /\ Table(priceMode, PriceSettings, PriceModesOf)
  /\ Table(oracleMode, SourceSettings, SourceModesOf)
<1>1. Table(curveAndLimitMode, CurveSettings, CurveModesOf)
  BY DEF Table, curveAndLimitMode, CurveSettings, CurveModesOf
<1>2. Table(liquidationMode, LiquidationSettings, LiquidationModesOf)
  BY DEF Table, liquidationMode, LiquidationSettings, LiquidationModesOf
<1>3. Table(usageMode, UsageSettings, UsageModesOf)
  BY DEF Table, usageMode, UsageSettings, UsageModesOf
<1>4. Table(capMode, CapSettings, CapModesOf)
  BY DEF Table, capMode, CapSettings, CapModesOf
<1>5. Table(borrowPowerMode, PowerSettings, PowerModesOf)
  BY DEF Table, borrowPowerMode, PowerSettings, PowerModesOf
<1>6. Table(priceMode, PriceSettings, PriceModesOf)
  BY DEF Table, priceMode, PriceSettings, PriceModesOf
<1>7. Table(oracleMode, SourceSettings, SourceModesOf)
  BY DEF Table, oracleMode, SourceSettings, SourceModesOf
<1> QED BY <1>1, <1>2, <1>3, <1>4, <1>5, <1>6, <1>7

\* All of them.
Settings5 == PriceSettings \cup SourceSettings
Settings4 == PowerSettings \cup Settings5
Settings3 == CapSettings \cup Settings4
Settings2 == UsageSettings \cup Settings3
Settings1 == LiquidationSettings \cup Settings2
AllSettings == CurveSettings \cup Settings1
Modes5 == PriceModesOf \cup SourceModesOf
Modes4 == PowerModesOf \cup Modes5
Modes3 == CapModesOf \cup Modes4
Modes2 == UsageModesOf \cup Modes3
Modes1 == LiquidationModesOf \cup Modes2
AllModes == CurveModesOf \cup Modes1

\* Each setting has a mode of its own.
LEMMA ReserveTable == Table(reserveMode, AllSettings, AllModes)
<1> DEFINE t5 == together(priceMode, oracleMode)
           t4 == together(borrowPowerMode, t5)
           t3 == together(capMode, t4)
           t2 == together(usageMode, t3)
           t1 == together(liquidationMode, t2)
<1>1. Table(t5, Settings5, Modes5)
  <2>1. PriceSettings \cap SourceSettings = {} /\ PriceModesOf \cap SourceModesOf = {}
    BY DEF PriceSettings, SourceSettings, PriceModesOf, SourceModesOf
  <2> QED BY <2>1, Tables, Together DEF Settings5, Modes5
<1> HIDE DEF t5
<1>2. Table(t4, Settings4, Modes4)
  <2>1. PowerSettings \cap Settings5 = {} /\ PowerModesOf \cap Modes5 = {}
    BY DEF PowerSettings, Settings5, PowerModesOf, Modes5,
           PriceSettings, SourceSettings, PriceModesOf, SourceModesOf
  <2> QED BY <1>1, <2>1, Tables, Together DEF Settings4, Modes4
<1> HIDE DEF t4
<1>3. Table(t3, Settings3, Modes3)
  <2>1. CapSettings \cap Settings4 = {} /\ CapModesOf \cap Modes4 = {}
    BY DEF CapSettings, Settings4, CapModesOf, Modes4,
           PowerSettings, Settings5, PowerModesOf, Modes5,
           PriceSettings, SourceSettings, PriceModesOf, SourceModesOf
  <2> QED BY <1>2, <2>1, Tables, Together DEF Settings3, Modes3
<1> HIDE DEF t3
<1>4. Table(t2, Settings2, Modes2)
  <2>1. UsageSettings \cap Settings3 = {} /\ UsageModesOf \cap Modes3 = {}
    BY DEF UsageSettings, Settings3, UsageModesOf, Modes3,
           CapSettings, Settings4, CapModesOf, Modes4,
           PowerSettings, Settings5, PowerModesOf, Modes5,
           PriceSettings, SourceSettings, PriceModesOf, SourceModesOf
  <2> QED BY <1>3, <2>1, Tables, Together DEF Settings2, Modes2
<1> HIDE DEF t2
<1>5. Table(t1, Settings1, Modes1)
  <2>1. LiquidationSettings \cap Settings2 = {} /\ LiquidationModesOf \cap Modes2 = {}
    BY DEF LiquidationSettings, Settings2, LiquidationModesOf, Modes2,
           UsageSettings, Settings3, UsageModesOf, Modes3,
           CapSettings, Settings4, CapModesOf, Modes4,
           PowerSettings, Settings5, PowerModesOf, Modes5,
           PriceSettings, SourceSettings, PriceModesOf, SourceModesOf
  <2> QED BY <1>4, <2>1, Tables, Together DEF Settings1, Modes1
<1> HIDE DEF t1
<1>6. Table(together(curveAndLimitMode, t1), AllSettings, AllModes)
  <2>1. CurveSettings \cap Settings1 = {} /\ CurveModesOf \cap Modes1 = {}
    BY DEF CurveSettings, Settings1, CurveModesOf, Modes1,
           LiquidationSettings, Settings2, LiquidationModesOf, Modes2,
           UsageSettings, Settings3, UsageModesOf, Modes3,
           CapSettings, Settings4, CapModesOf, Modes4,
           PowerSettings, Settings5, PowerModesOf, Modes5,
           PriceSettings, SourceSettings, PriceModesOf, SourceModesOf
  <2> QED BY <1>5, <2>1, Tables, Together DEF AllSettings, AllModes
<1>7. reserveMode = together(curveAndLimitMode, t1)
  BY Zenon DEF reserveMode, t1, t2, t3, t4, t5
<1> QED BY <1>6, <1>7

-----------------------------------------------------------------------------
(* The lists of modes.                                                     *)

\* c has the elements of a, then those of b.
Joins(c, a, b) ==
  /\ \A i \in 1..Len(a) : c[i] = a[i]
  /\ \A i \in 1..Len(b) : c[Len(a) + i] = b[i]
  /\ ToSet(c) = ToSet(a) \cup ToSet(b)

LEMMA Joined ==
  ASSUME NEW a, NEW b, IsList(a), IsList(b)
  PROVE  IsList(a \o b) /\ Len(a \o b) = Len(a) + Len(b) /\ Joins(a \o b, a, b)
<1> DEFINE V == ToSet(a) \cup ToSet(b)
<1>1. a \in Seq(V) /\ b \in Seq(V)
  BY ListInSeq
<1> HIDE DEF V
<1>2. Len(a \o b) = Len(a) + Len(b)
  BY <1>1
<1>3. \A i \in 1..Len(a) : (a \o b)[i] = a[i]
  BY <1>1
<1>4. \A i \in 1..Len(b) : (a \o b)[Len(a) + i] = b[i]
  BY <1>1
<1> QED BY <1>1, <1>2, <1>3, <1>4, ConcatElements, ConcatIsList DEF Joins

\* The parts of the list of modes.
LEMMA ModeParts ==
  /\ IsList(RiskModes) /\ Len(RiskModes) = 5
  /\ IsList(FeeAndLimitModes) /\ Len(FeeAndLimitModes) = 5
  /\ IsList(PriceModes) /\ Len(PriceModes) = 6
  /\ IsList(OracleModes) /\ Len(OracleModes) = 6
  /\ IsList(CurveAndCapModes) /\ Len(CurveAndCapModes) = 6
  /\ IsList(LiquidationModes) /\ Len(LiquidationModes) = 6
  /\ IsList(GroupModes) /\ Len(GroupModes) = 5
  /\ IsList(FarmAndUsageModes) /\ Len(FarmAndUsageModes) = 5
  /\ IsList(BorrowLimitModes) /\ Len(BorrowLimitModes) = 3
<1>1. IsList(RiskModes) /\ Len(RiskModes) = 5
  BY DEF RiskModes, IsList, ToSet
<1>2. IsList(FeeAndLimitModes) /\ Len(FeeAndLimitModes) = 5
  BY DEF FeeAndLimitModes, IsList, ToSet
<1>3. IsList(PriceModes) /\ Len(PriceModes) = 6
  BY DEF PriceModes, IsList, ToSet
<1>4. IsList(OracleModes) /\ Len(OracleModes) = 6
  BY DEF OracleModes, IsList, ToSet
<1>5. IsList(CurveAndCapModes) /\ Len(CurveAndCapModes) = 6
  BY DEF CurveAndCapModes, IsList, ToSet
<1>6. IsList(LiquidationModes) /\ Len(LiquidationModes) = 6
  BY DEF LiquidationModes, IsList, ToSet
<1>7. IsList(GroupModes) /\ Len(GroupModes) = 5
  BY DEF GroupModes, IsList, ToSet
<1>8. IsList(FarmAndUsageModes) /\ Len(FarmAndUsageModes) = 5
  BY DEF FarmAndUsageModes, IsList, ToSet
<1>9. IsList(BorrowLimitModes) /\ Len(BorrowLimitModes) = 3
  BY DEF BorrowLimitModes, IsList, ToSet
<1> QED BY <1>1, <1>2, <1>3, <1>4, <1>5, <1>6, <1>7, <1>8, <1>9

ModeSet ==
  ToSet(RiskModes) \cup ToSet(FeeAndLimitModes) \cup ToSet(PriceModes) \cup ToSet(OracleModes)
    \cup ToSet(CurveAndCapModes) \cup ToSet(LiquidationModes) \cup ToSet(GroupModes)
    \cup ToSet(FarmAndUsageModes) \cup ToSet(BorrowLimitModes)

\* The list has all of them, and the entire configuration is the 25th.
LEMMA ModeList ==
  /\ IsList(UpdateConfigMode) /\ ToSet(UpdateConfigMode) = ModeSet
  /\ Len(UpdateConfigMode) = 47
  /\ UpdateConfigMode[25] = "UpdateEntireReserveConfig"
<1> DEFINE c2 == RiskModes \o FeeAndLimitModes
           c3 == c2 \o PriceModes
           c4 == c3 \o OracleModes
           c5 == c4 \o CurveAndCapModes
           c6 == c5 \o LiquidationModes
           c7 == c6 \o GroupModes
           c8 == c7 \o FarmAndUsageModes
           c9 == c8 \o BorrowLimitModes
<1>0. UpdateConfigMode = c9
  BY Zenon DEF UpdateConfigMode
<1>1. IsList(c2) /\ Len(c2) = 10 /\ Joins(c2, RiskModes, FeeAndLimitModes)
  <2>1. /\ IsList(RiskModes) /\ IsList(FeeAndLimitModes)
        /\ Len(RiskModes) = 5 /\ Len(FeeAndLimitModes) = 5
    BY ModeParts, Zenon
  <2>2. /\ IsList(c2) /\ Len(c2) = Len(RiskModes) + Len(FeeAndLimitModes)
        /\ Joins(c2, RiskModes, FeeAndLimitModes)
    BY <2>1, Joined, Zenon
  <2>3. 5 + 5 = 10
    OBVIOUS
  <2> QED BY <2>1, <2>2, <2>3, Zenon
<1> HIDE DEF c2
<1>2. IsList(c3) /\ Len(c3) = 16 /\ Joins(c3, c2, PriceModes)
  <2>1. IsList(c2) /\ IsList(PriceModes) /\ Len(c2) = 10 /\ Len(PriceModes) = 6
    BY <1>1, ModeParts, Zenon
  <2>2. IsList(c3) /\ Len(c3) = Len(c2) + Len(PriceModes) /\ Joins(c3, c2, PriceModes)
    BY <2>1, Joined, Zenon
  <2>3. 10 + 6 = 16
    OBVIOUS
  <2> QED BY <2>1, <2>2, <2>3, Zenon
<1> HIDE DEF c3
<1>3. IsList(c4) /\ Len(c4) = 22 /\ Joins(c4, c3, OracleModes)
  <2>1. IsList(c3) /\ IsList(OracleModes) /\ Len(c3) = 16 /\ Len(OracleModes) = 6
    BY <1>2, ModeParts, Zenon
  <2>2. IsList(c4) /\ Len(c4) = Len(c3) + Len(OracleModes) /\ Joins(c4, c3, OracleModes)
    BY <2>1, Joined, Zenon
  <2>3. 16 + 6 = 22
    OBVIOUS
  <2> QED BY <2>1, <2>2, <2>3, Zenon
<1> HIDE DEF c4
<1>4. IsList(c5) /\ Len(c5) = 28 /\ Joins(c5, c4, CurveAndCapModes)
  <2>1. IsList(c4) /\ IsList(CurveAndCapModes) /\ Len(c4) = 22 /\ Len(CurveAndCapModes) = 6
    BY <1>3, ModeParts, Zenon
  <2>2. IsList(c5) /\ Len(c5) = Len(c4) + Len(CurveAndCapModes) /\ Joins(c5, c4, CurveAndCapModes)
    BY <2>1, Joined, Zenon
  <2>3. 22 + 6 = 28
    OBVIOUS
  <2> QED BY <2>1, <2>2, <2>3, Zenon
<1> HIDE DEF c5
<1>5. IsList(c6) /\ Len(c6) = 34 /\ Joins(c6, c5, LiquidationModes)
  <2>1. IsList(c5) /\ IsList(LiquidationModes) /\ Len(c5) = 28 /\ Len(LiquidationModes) = 6
    BY <1>4, ModeParts, Zenon
  <2>2. IsList(c6) /\ Len(c6) = Len(c5) + Len(LiquidationModes) /\ Joins(c6, c5, LiquidationModes)
    BY <2>1, Joined, Zenon
  <2>3. 28 + 6 = 34
    OBVIOUS
  <2> QED BY <2>1, <2>2, <2>3, Zenon
<1> HIDE DEF c6
<1>6. IsList(c7) /\ Len(c7) = 39 /\ Joins(c7, c6, GroupModes)
  <2>1. IsList(c6) /\ IsList(GroupModes) /\ Len(c6) = 34 /\ Len(GroupModes) = 5
    BY <1>5, ModeParts, Zenon
  <2>2. IsList(c7) /\ Len(c7) = Len(c6) + Len(GroupModes) /\ Joins(c7, c6, GroupModes)
    BY <2>1, Joined, Zenon
  <2>3. 34 + 5 = 39
    OBVIOUS
  <2> QED BY <2>1, <2>2, <2>3, Zenon
<1> HIDE DEF c7
<1>7. IsList(c8) /\ Len(c8) = 44 /\ Joins(c8, c7, FarmAndUsageModes)
  <2>1. IsList(c7) /\ IsList(FarmAndUsageModes) /\ Len(c7) = 39 /\ Len(FarmAndUsageModes) = 5
    BY <1>6, ModeParts, Zenon
  <2>2. IsList(c8) /\ Len(c8) = Len(c7) + Len(FarmAndUsageModes) /\ Joins(c8, c7, FarmAndUsageModes)
    BY <2>1, Joined, Zenon
  <2>3. 39 + 5 = 44
    OBVIOUS
  <2> QED BY <2>1, <2>2, <2>3, Zenon
<1> HIDE DEF c8
<1>8. IsList(c9) /\ Len(c9) = 47 /\ Joins(c9, c8, BorrowLimitModes)
  <2>1. IsList(c8) /\ IsList(BorrowLimitModes) /\ Len(c8) = 44 /\ Len(BorrowLimitModes) = 3
    BY <1>7, ModeParts, Zenon
  <2>2. IsList(c9) /\ Len(c9) = Len(c8) + Len(BorrowLimitModes) /\ Joins(c9, c8, BorrowLimitModes)
    BY <2>1, Joined, Zenon
  <2>3. 44 + 3 = 47
    OBVIOUS
  <2> QED BY <2>1, <2>2, <2>3, Zenon
<1> HIDE DEF c9
<1>9. c9[25] = "UpdateEntireReserveConfig"
  <2>1. CurveAndCapModes[3] = "UpdateEntireReserveConfig"
    BY DEF CurveAndCapModes
  <2>2. c5[22 + 3] = CurveAndCapModes[3]
    BY <1>3, <1>4, ModeParts DEF Joins
  <2>3. c9[25] = c8[25] /\ c8[25] = c7[25] /\ c7[25] = c6[25] /\ c6[25] = c5[25] /\ 22 + 3 = 25
    BY <1>4, <1>5, <1>6, <1>7, <1>8 DEF Joins
  <2> QED BY <2>1, <2>2, <2>3
<1>10. ToSet(c9) = ModeSet
  BY <1>1, <1>2, <1>3, <1>4, <1>5, <1>6, <1>7, <1>8, Zenon DEF ModeSet, Joins
<1> QED BY <1>0, <1>8, <1>9, <1>10, Zenon

\* Every setting's mode is in the list, and none is that of the entire
\* configuration.
LEMMA ModesListed == AllModes \subseteq ModeSet /\ "UpdateEntireReserveConfig" \notin AllModes
<1>1. /\ ToSet(RiskModes) = {RiskModes[1], RiskModes[2], RiskModes[3], RiskModes[4],
                             RiskModes[5]}
      /\ ToSet(FeeAndLimitModes) = {FeeAndLimitModes[1], FeeAndLimitModes[2],
           FeeAndLimitModes[3], FeeAndLimitModes[4], FeeAndLimitModes[5]}
      /\ ToSet(PriceModes) = {PriceModes[1], PriceModes[2], PriceModes[3], PriceModes[4],
                              PriceModes[5], PriceModes[6]}
  BY DEF ToSet, RiskModes, FeeAndLimitModes, PriceModes
<1>2. /\ ToSet(OracleModes) = {OracleModes[1], OracleModes[2], OracleModes[3], OracleModes[4],
                               OracleModes[5], OracleModes[6]}
      /\ ToSet(CurveAndCapModes) = {CurveAndCapModes[1], CurveAndCapModes[2],
           CurveAndCapModes[3], CurveAndCapModes[4], CurveAndCapModes[5], CurveAndCapModes[6]}
      /\ ToSet(LiquidationModes) = {LiquidationModes[1], LiquidationModes[2],
           LiquidationModes[3], LiquidationModes[4], LiquidationModes[5], LiquidationModes[6]}
  BY DEF ToSet, OracleModes, CurveAndCapModes, LiquidationModes
<1>3. /\ ToSet(GroupModes) = {GroupModes[1], GroupModes[2], GroupModes[3], GroupModes[4],
                              GroupModes[5]}
      /\ ToSet(FarmAndUsageModes) = {FarmAndUsageModes[1], FarmAndUsageModes[2],
           FarmAndUsageModes[3], FarmAndUsageModes[4], FarmAndUsageModes[5]}
  BY DEF ToSet, GroupModes, FarmAndUsageModes
<1>4. /\ CurveModesOf \subseteq ToSet(CurveAndCapModes) \cup ToSet(FeeAndLimitModes)
      /\ LiquidationModesOf \subseteq ToSet(RiskModes) \cup ToSet(LiquidationModes)
  BY <1>1, <1>2 DEF CurveModesOf, LiquidationModesOf, CurveAndCapModes, FeeAndLimitModes,
     RiskModes, LiquidationModes
<1>5. /\ UsageModesOf \subseteq ToSet(RiskModes) \cup ToSet(GroupModes)
                                  \cup ToSet(FarmAndUsageModes)
      /\ CapModesOf \subseteq ToSet(CurveAndCapModes) \cup ToSet(LiquidationModes)
  BY <1>1, <1>2, <1>3 DEF UsageModesOf, CapModesOf, RiskModes, GroupModes, FarmAndUsageModes,
     CurveAndCapModes, LiquidationModes
<1>6. /\ PowerModesOf \subseteq ToSet(RiskModes) \cup ToSet(GroupModes)
                                  \cup ToSet(LiquidationModes)
      /\ PriceModesOf \subseteq ToSet(PriceModes) \cup ToSet(OracleModes)
  BY <1>1, <1>2, <1>3 DEF PowerModesOf, PriceModesOf, RiskModes, GroupModes,
     LiquidationModes, PriceModes, OracleModes
<1>7. SourceModesOf \subseteq ToSet(PriceModes) \cup ToSet(OracleModes)
                                \cup ToSet(CurveAndCapModes) \cup ToSet(FarmAndUsageModes)
  BY <1>1, <1>2, <1>3 DEF SourceModesOf, PriceModes, OracleModes, CurveAndCapModes,
     FarmAndUsageModes
<1>8. AllModes \subseteq ModeSet
  BY <1>4, <1>5, <1>6, <1>7 DEF AllModes, Modes1, Modes2, Modes3, Modes4, Modes5, ModeSet
<1>9. "UpdateEntireReserveConfig" \notin AllModes
  BY DEF AllModes, Modes1, Modes2, Modes3, Modes4, Modes5, CurveModesOf, LiquidationModesOf,
     UsageModesOf, CapModesOf, PowerModesOf, PriceModesOf, SourceModesOf
<1> QED BY <1>8, <1>9

\* The discriminator of a mode leads back to it.
LEMMA Discriminated ==
  ASSUME NEW modes, IsList(modes), NEW mode \in ToSet(modes)
  PROVE  /\ discriminator(modes, mode) + 1 \in DOMAIN modes
         /\ modes[discriminator(modes, mode) + 1] = mode
<1> PICK n \in Nat : DOMAIN modes = 1..n
  BY DEF IsList
<1> DEFINE i == CHOOSE i \in DOMAIN modes : modes[i] = mode
<1>1. \E j \in DOMAIN modes : modes[j] = mode
  BY DEF ToSet
<1>2. i \in DOMAIN modes /\ modes[i] = mode
  BY <1>1, Zenon
<1>3. discriminator(modes, mode) = i - 1
  BY Zenon DEF discriminator
<1> HIDE DEF i
<1>4. (i - 1) + 1 = i
  BY <1>2
<1> QED BY <1>2, <1>3, <1>4

-----------------------------------------------------------------------------
(* What an update instruction of a reserve does.                           *)

LEMMA UpdatableSettings == Updatable = AllSettings /\ ReserveSetting = AllSettings \cup Skipped
BY ReserveTable DEF Updatable, ReserveSetting, Table

\* The configuration with one setting as in new.
With(config, s, new) == [config EXCEPT ![s] = new[s]]

\* An instruction writes its setting and nothing else.
LEMMA IxWrites ==
  ASSUME NEW config, NEW s \in Updatable, NEW new
  PROVE  runReserveIx(config, updateReserveConfigIx(s, new)) = With(config, s, new)
<1> PICK mode : mode = reserveMode[s]
  OBVIOUS
<1>1. s \in AllSettings /\ mode \in AllModes /\ mode \in ToSet(UpdateConfigMode)
  BY UpdatableSettings, ReserveTable, ModesListed, ModeList DEF Table
<1>2. IsList(UpdateConfigMode)
  BY ModeList
<1> PICK ix : ix = updateReserveConfigIx(s, new)
  OBVIOUS
<1>3. ix.value = new[s] /\ UpdateConfigMode[ix.mode] = mode
  BY <1>1, <1>2, Discriminated DEF updateReserveConfigIx
<1>4. mode # "UpdateEntireReserveConfig"
  BY <1>1, ModesListed
<1>5. settingOf(reserveMode, mode) = s
  <2>1. \A t \in DOMAIN reserveMode : reserveMode[t] = mode => t = s
    BY <1>1, ReserveTable DEF Table
  <2>2. s \in DOMAIN reserveMode
    BY DEF Updatable
  <2> QED BY <2>1, <2>2 DEF settingOf
<1>6. runReserveIx(config, ix) = [config EXCEPT ![s] = ix.value]
  BY <1>3, <1>4, <1>5, Zenon DEF runReserveIx
<1> QED BY <1>3, <1>6 DEF With

LEMMA EntireIxWrites ==
  ASSUME NEW config, NEW new
  PROVE  runReserveIx(config, updateEntireReserveConfigIx(new)) = new
<1>1. updateEntireReserveConfigIx(new).mode = 25 /\ updateEntireReserveConfigIx(new).value = new
  BY DEF updateEntireReserveConfigIx
<1> QED BY <1>1, ModeList, Zenon DEF runReserveIx

-----------------------------------------------------------------------------
(* The keys of a reserve and the settings that are changed.                *)

LEMMA ListOfOne ==
  ASSUME NEW s
  PROVE  IsList(<<s>>) /\ ToSet(<<s>>) = {s} /\ Len(<<s>>) = 1 /\ <<s>>[1] = s
BY DEF IsList, ToSet

LEMMA ListOfTwo ==
  ASSUME NEW s, NEW t
  PROVE  IsList(<<s, t>>) /\ ToSet(<<s, t>>) = {s, t} /\ Len(<<s, t>>) = 2
BY DEF IsList, ToSet

\* What holds of each key.
KeyOK(key) ==
  /\ IsList(key) /\ key # <<>>
  /\ ToSet(key) \subseteq AllSettings
  /\ firstOnly(key) => Len(key) = 2

PriceKey == <<"name", "heuristicLower", "heuristicUpper", "heuristicExp", "maxTwapDivergenceBps",
    "maxAgePriceSeconds", "maxAgeTwapSeconds", "priceChain", "twapChain", "priceAggregator",
    "twapAggregator", "pythPrice", "blockPriceUsage", "priceFeed">>

LEMMA PriceKeyOK == KeyOK(PriceKey) /\ ToSet(PriceKey) = PriceSettings \cup SourceSettings
<1>1. ToSet(PriceKey) = {PriceKey[1], PriceKey[2], PriceKey[3], PriceKey[4], PriceKey[5],
         PriceKey[6], PriceKey[7], PriceKey[8], PriceKey[9], PriceKey[10], PriceKey[11],
         PriceKey[12], PriceKey[13], PriceKey[14]}
  BY DEF ToSet, PriceKey
<1>2. ToSet(PriceKey) = PriceSettings \cup SourceSettings
  BY <1>1 DEF PriceKey, PriceSettings, SourceSettings
<1>3. IsList(PriceKey) /\ PriceKey # <<>>
  BY DEF IsList, ToSet, PriceKey
<1>4. ~firstOnly(PriceKey)
  BY DEF firstOnly, PriceKey
<1>5. ToSet(PriceKey) \subseteq AllSettings
  BY <1>2 DEF AllSettings, Settings1, Settings2, Settings3, Settings4, Settings5
<1> QED BY <1>2, <1>3, <1>4, <1>5 DEF KeyOK

\* A key of one setting.
LEMMA SingleKey ==
  ASSUME NEW s \in AllSettings,
         s \notin {"borrowFeeSf", "depositWithdrawalCap", "debtWithdrawalCap"}
  PROVE  KeyOK(<<s>>)
<1>1. <<s>> # <<>> /\ ~firstOnly(<<s>>)
  BY DEF firstOnly
<1> QED BY <1>1, ListOfOne DEF KeyOK

LEMMA DoubleKey ==
  ASSUME NEW s \in AllSettings, NEW t \in AllSettings
  PROVE  KeyOK(<<s, t>>)
<1>1. <<s, t>> # <<>>
  OBVIOUS
<1> QED BY <1>1, ListOfTwo DEF KeyOK

LEMMA SettingsNamed ==
  /\ {"status", "assetTier", "protocolTakeRatePct", "protocolLiquidationFeePct",
      "loanToValuePct", "liquidationThresholdPct", "minLiquidationBonusBps",
      "maxLiquidationBonusBps", "badDebtLiquidationBonusBps",
      "deleveragingMarginCallPeriodSecs", "deleveragingThresholdSlotsPerBps", "borrowFeeSf",
      "flashLoanFeeSf", "borrowRateCurve", "borrowFactorPct", "depositLimit", "borrowLimit",
      "depositWithdrawalCap", "depositWithdrawalCapTotal", "debtWithdrawalCap",
      "debtWithdrawalCapTotal", "elevationGroups", "disableUsageAsCollOutsideEmode",
      "utilizationLimitBlockBorrowingAbove"} \cup PriceSettings \cup SourceSettings = AllSettings
BY DEF AllSettings, Settings1, Settings2, Settings3, Settings4, Settings5, CurveSettings,
   LiquidationSettings, UsageSettings, CapSettings, PowerSettings

LEMMA ReserveKeys ==
  /\ IsList(reserveKeys) /\ DOMAIN reserveKeys = 1..22
  /\ \A k \in 1..22 : KeyOK(reserveKeys[k])
<1>1. IsList(reserveKeys) /\ DOMAIN reserveKeys = 1..22
  BY DEF reserveKeys, IsList, ToSet
<1>2. /\ \A s \in {"status", "assetTier", "protocolTakeRatePct", "protocolLiquidationFeePct",
           "loanToValuePct", "liquidationThresholdPct", "minLiquidationBonusBps",
           "maxLiquidationBonusBps", "badDebtLiquidationBonusBps",
           "deleveragingMarginCallPeriodSecs", "deleveragingThresholdSlotsPerBps",
           "borrowRateCurve", "borrowFactorPct", "depositLimit", "borrowLimit",
           "elevationGroups", "disableUsageAsCollOutsideEmode",
           "utilizationLimitBlockBorrowingAbove"} : KeyOK(<<s>>)
      /\ KeyOK(<<"borrowFeeSf", "flashLoanFeeSf">>)
      /\ KeyOK(<<"depositWithdrawalCap", "depositWithdrawalCapTotal">>)
      /\ KeyOK(<<"debtWithdrawalCap", "debtWithdrawalCapTotal">>)
  BY SettingsNamed, SingleKey, DoubleKey
<1>3. reserveKeys[17] = PriceKey
  BY DEF reserveKeys, PriceKey
<1>4. /\ reserveKeys[1] = <<"status">> /\ reserveKeys[2] = <<"assetTier">>
      /\ reserveKeys[3] = <<"protocolTakeRatePct">>
      /\ reserveKeys[4] = <<"protocolLiquidationFeePct">>
      /\ reserveKeys[5] = <<"loanToValuePct">> /\ reserveKeys[6] = <<"liquidationThresholdPct">>
      /\ reserveKeys[7] = <<"minLiquidationBonusBps">>
      /\ reserveKeys[8] = <<"maxLiquidationBonusBps">>
      /\ reserveKeys[9] = <<"badDebtLiquidationBonusBps">>
      /\ reserveKeys[10] = <<"deleveragingMarginCallPeriodSecs">>
      /\ reserveKeys[11] = <<"deleveragingThresholdSlotsPerBps">>
  BY DEF reserveKeys
<1>5. /\ reserveKeys[12] = <<"borrowFeeSf", "flashLoanFeeSf">>
      /\ reserveKeys[13] = <<"borrowRateCurve">> /\ reserveKeys[14] = <<"borrowFactorPct">>
      /\ reserveKeys[15] = <<"depositLimit">> /\ reserveKeys[16] = <<"borrowLimit">>
      /\ reserveKeys[18] = <<"depositWithdrawalCap", "depositWithdrawalCapTotal">>
      /\ reserveKeys[19] = <<"debtWithdrawalCap", "debtWithdrawalCapTotal">>
      /\ reserveKeys[20] = <<"elevationGroups">>
      /\ reserveKeys[21] = <<"disableUsageAsCollOutsideEmode">>
      /\ reserveKeys[22] = <<"utilizationLimitBlockBorrowingAbove">>
  BY DEF reserveKeys
<1>6. \A k \in 1..22 : KeyOK(reserveKeys[k])
  <2>1. \A k \in 1..11 : KeyOK(reserveKeys[k])
    BY <1>2, <1>4
  <2>2. \A k \in 12..22 : KeyOK(reserveKeys[k])
    <3>1. \A k \in {12, 13, 14, 15, 16, 18, 19, 20, 21, 22} : KeyOK(reserveKeys[k])
      BY <1>2, <1>5
    <3>2. KeyOK(reserveKeys[17])
      BY <1>3, PriceKeyOK
    <3>3. \A k \in 12..22 : k \in {12, 13, 14, 15, 16, 18, 19, 20, 21, 22} \/ k = 17
      OBVIOUS
    <3> QED BY <3>1, <3>2, <3>3, Zenon
  <2>3. \A k \in 1..22 : k \in 1..11 \/ k \in 12..22
    OBVIOUS
  <2> QED BY <2>1, <2>2, <2>3, Zenon
<1> QED BY <1>1, <1>6

\* Together they have every setting.
LEMMA KeysCover ==
  ASSUME NEW s \in AllSettings
  PROVE  \E k \in 1..22 : s \in ToSet(reserveKeys[k])
<1>1. /\ ToSet(reserveKeys[1]) = {"status"} /\ ToSet(reserveKeys[2]) = {"assetTier"}
      /\ ToSet(reserveKeys[3]) = {"protocolTakeRatePct"}
      /\ ToSet(reserveKeys[4]) = {"protocolLiquidationFeePct"}
      /\ ToSet(reserveKeys[5]) = {"loanToValuePct"}
      /\ ToSet(reserveKeys[6]) = {"liquidationThresholdPct"}
      /\ ToSet(reserveKeys[7]) = {"minLiquidationBonusBps"}
      /\ ToSet(reserveKeys[8]) = {"maxLiquidationBonusBps"}
  BY ListOfOne DEF reserveKeys
<1>2. /\ ToSet(reserveKeys[9]) = {"badDebtLiquidationBonusBps"}
      /\ ToSet(reserveKeys[10]) = {"deleveragingMarginCallPeriodSecs"}
      /\ ToSet(reserveKeys[11]) = {"deleveragingThresholdSlotsPerBps"}
      /\ ToSet(reserveKeys[12]) = {"borrowFeeSf", "flashLoanFeeSf"}
      /\ ToSet(reserveKeys[13]) = {"borrowRateCurve"}
      /\ ToSet(reserveKeys[14]) = {"borrowFactorPct"}
      /\ ToSet(reserveKeys[15]) = {"depositLimit"} /\ ToSet(reserveKeys[16]) = {"borrowLimit"}
  BY ListOfOne, ListOfTwo DEF reserveKeys
<1>3. /\ ToSet(reserveKeys[17]) = PriceSettings \cup SourceSettings
      /\ ToSet(reserveKeys[18]) = {"depositWithdrawalCap", "depositWithdrawalCapTotal"}
      /\ ToSet(reserveKeys[19]) = {"debtWithdrawalCap", "debtWithdrawalCapTotal"}
      /\ ToSet(reserveKeys[20]) = {"elevationGroups"}
      /\ ToSet(reserveKeys[21]) = {"disableUsageAsCollOutsideEmode"}
      /\ ToSet(reserveKeys[22]) = {"utilizationLimitBlockBorrowingAbove"}
  <2>1. reserveKeys[17] = PriceKey
    BY DEF reserveKeys, PriceKey
  <2> QED BY <2>1, ListOfOne, ListOfTwo, PriceKeyOK DEF reserveKeys
<1>4. s \in UNION {ToSet(reserveKeys[k]) : k \in 1..22}
  BY <1>1, <1>2, <1>3, SettingsNamed
<1> QED BY <1>4

\* The settings of a key that are changed.
LEMMA KeyChanges ==
  ASSUME NEW key, KeyOK(key), NEW old, NEW new
  PROVE  /\ IsList(changesOfKey(key, old, new))
         /\ ToSet(changesOfKey(key, old, new)) \subseteq {s \in ToSet(key) : old[s] # new[s]}
         /\ ~firstOnly(key) =>
              {s \in ToSet(key) : old[s] # new[s]} \subseteq ToSet(changesOfKey(key, old, new))
<1> DEFINE I == {i \in DOMAIN key : old[key[i]] # new[key[i]]}
           d == differing(key, old, new)
<1>1. IsList(key) /\ I \subseteq DOMAIN key /\ d = pick(key, I)
  BY DEF KeyOK, differing
<1> PICK V : key \in Seq(V)
  BY <1>1 DEF IsList
<1>2. I \in SUBSET (1..Len(key))
  BY <1>1
<1>3. ToSet(d) = {key[i] : i \in I}
  BY <1>1, <1>2, PickElements
<1>4. IsList(d)
  BY <1>1, PickIsList
<1>5. ToSet(d) = {s \in ToSet(key) : old[s] # new[s]}
  <2>1. \A s : s \in ToSet(key) <=> \E i \in DOMAIN key : key[i] = s
    BY DEF ToSet
  <2>2. \A s : s \in ToSet(d) <=> s \in ToSet(key) /\ old[s] # new[s]
    BY <1>3, <2>1
  <2> HIDE DEF d
  <2> QED BY <2>2
<1> HIDE DEF d, I
<1>6. CASE firstOnly(key) /\ d # <<>>
  <2>1. changesOfKey(key, old, new) = <<Head(d)>>
    BY <1>6, Zenon DEF changesOfKey, d
  <2>2. Head(d) \in ToSet(d)
    BY <1>4, <1>6 DEF IsList, ToSet
  <2> QED BY <1>5, <1>6, <2>1, <2>2, ListOfOne
<1>7. CASE ~(firstOnly(key) /\ d # <<>>)
  <2>1. changesOfKey(key, old, new) = d
    BY <1>7, Zenon DEF changesOfKey, d
  <2> QED BY <1>4, <1>5, <2>1
<1> QED BY <1>6, <1>7

\* Of a key whose cases exclude each other, a setting that differs is left out
\* only if the first one differs too, which is then the change.
LEMMA FirstOfKey ==
  ASSUME NEW key, KeyOK(key), firstOnly(key), NEW old, NEW new,
         NEW s \in ToSet(key), old[s] # new[s], s \notin ToSet(changesOfKey(key, old, new))
  PROVE  key[1] # s /\ ToSet(changesOfKey(key, old, new)) = {key[1]}
<1> DEFINE I == {i \in DOMAIN key : old[key[i]] # new[key[i]]}
           d == differing(key, old, new)
<1>1. IsList(key) /\ I \subseteq DOMAIN key /\ d = pick(key, I) /\ Len(key) = 2
  BY DEF KeyOK, differing
<1> PICK V : key \in Seq(V)
  BY <1>1 DEF IsList
<1>2. DOMAIN key = {1, 2} /\ ToSet(key) = {key[1], key[2]}
  BY <1>1 DEF ToSet
<1>3. ToSet(d) = {key[i] : i \in I} /\ IsList(d)
  <2>1. I \in SUBSET (1..Len(key))
    BY <1>1
  <2> QED BY <1>1, <2>1, PickElements, PickIsList
<1>4. s \in ToSet(d) /\ d # <<>>
  <2>1. PICK i \in DOMAIN key : s = key[i]
    BY <1>2
  <2>2. i \in I /\ s \in ToSet(d)
    BY <1>3, <2>1
  <2>3. DOMAIN d # {}
    BY <2>2 DEF ToSet
  <2> QED BY <2>2, <2>3
<1>5. changesOfKey(key, old, new) = <<Head(d)>>
  BY <1>4, Zenon DEF changesOfKey, d
<1>6. Head(d) \in ToSet(d) /\ ToSet(changesOfKey(key, old, new)) = {Head(d)}
  BY <1>3, <1>4, <1>5, ListOfOne DEF IsList, ToSet
<1>7. 1 \in I
  <2> SUFFICES ASSUME 1 \notin I PROVE FALSE
    OBVIOUS
  <2>1. I \subseteq {2}
    BY <1>2
  <2>2. ToSet(d) \subseteq {key[2]}
    BY <1>3, <2>1
  <2> QED BY <1>4, <1>6, <2>2
<1>8. Head(d) = key[1]
  BY <1>1, <1>7, PickHead
<1> QED BY <1>6, <1>8

\* An update changes settings that differ, and those of each key.
LEMMA ReserveChanges ==
  ASSUME NEW old, NEW new
  PROVE  /\ IsList(reserveChanges(old, new))
         /\ ToSet(reserveChanges(old, new)) \subseteq {s \in AllSettings : old[s] # new[s]}
         /\ ToSet(reserveChanges(old, new)) =
              UNION {ToSet(changesOfKey(reserveKeys[k], old, new)) : k \in 1..22}
<1> DEFINE ss == [k \in 1..22 |-> changesOfKey(reserveKeys[k], old, new)]
<1>1. reserveChanges(old, new) = FlattenSeq(ss)
  BY ReserveKeys, Zenon DEF reserveChanges, ss
<1>2. \A k \in 1..22 : ss[k] = changesOfKey(reserveKeys[k], old, new)
  OBVIOUS
<1>3. IsList(ss) /\ Len(ss) = 22 /\ DOMAIN ss = 1..22
  <2>1. ss = [k \in 1..22 |-> ss[k]]
    OBVIOUS
  <2> QED BY <2>1, FunctionIsList
<1> HIDE DEF ss
<1>4. \A k \in 1..22 : /\ IsList(ss[k])
                       /\ ToSet(ss[k]) \subseteq {s \in AllSettings : old[s] # new[s]}
  <2> TAKE k \in 1..22
  <2>1. KeyOK(reserveKeys[k])
    BY ReserveKeys
  <2>2. IsList(ss[k]) /\ ToSet(ss[k]) \subseteq {s \in ToSet(reserveKeys[k]) : old[s] # new[s]}
    BY <1>2, <2>1, KeyChanges
  <2> QED BY <2>1, <2>2 DEF KeyOK
<1>5. IsList(FlattenSeq(ss))
  BY <1>3, <1>4, FlattenIsList
<1>6. ToSet(FlattenSeq(ss)) = UNION {ToSet(ss[k]) : k \in DOMAIN ss}
  <2>1. \A k \in DOMAIN ss : IsList(ss[k])
    BY <1>3, <1>4
  <2> QED BY <1>3, <2>1, FlattenedElements
<1>7. \A s \in ToSet(FlattenSeq(ss)) : s \in AllSettings /\ old[s] # new[s]
  BY <1>3, <1>4, <1>6
<1>8. UNION {ToSet(ss[k]) : k \in DOMAIN ss}
        = UNION {ToSet(changesOfKey(reserveKeys[k], old, new)) : k \in 1..22}
  BY <1>2, <1>3
<1> QED BY <1>1, <1>5, <1>6, <1>7, <1>8

-----------------------------------------------------------------------------
(* What a list of update instructions does.                                *)

\* The configuration with the settings of S as in new.
Overwritten(config, S, new) ==
  [s \in DOMAIN config |-> IF s \in S THEN new[s] ELSE config[s]]

LEMMA OverwrittenOnce ==
  ASSUME NEW config, NEW S, NEW new, NEW s \in DOMAIN config
  PROVE  With(Overwritten(config, S, new), s, new) = Overwritten(config, S \cup {s}, new)
<1> DEFINE f == [Overwritten(config, S, new) EXCEPT ![s] = new[s]]
           g == Overwritten(config, S \cup {s}, new)
<1>1. DOMAIN f = DOMAIN config /\ f = [t \in DOMAIN config |-> f[t]]
  BY DEF Overwritten
<1>2. \A t \in DOMAIN config : f[t] = IF t \in S \cup {s} THEN new[t] ELSE config[t]
  BY DEF Overwritten
<1> HIDE DEF f
<1>3. f = [t \in DOMAIN config |-> IF t \in S \cup {s} THEN new[t] ELSE config[t]]
  BY <1>1, <1>2, Zenon
<1> QED BY <1>3, Zenon DEF g, f, Overwritten, With

LEMMA OverwrittenNothing ==
  ASSUME NEW config, config = [s \in DOMAIN config |-> config[s]], NEW new
  PROVE  Overwritten(config, {}, new) = config
<1>1. \A s \in DOMAIN config : (IF s \in {} THEN new[s] ELSE config[s]) = config[s]
  OBVIOUS
<1>2. Overwritten(config, {}, new) = [s \in DOMAIN config |-> config[s]]
  BY <1>1, Zenon DEF Overwritten
<1> QED BY <1>2

\* One more instruction, one more setting.
LEMMA OverwriteStep ==
  ASSUME NEW config, DOMAIN config = ReserveSetting, NEW S, NEW new, NEW s \in Updatable
  PROVE  runReserveIx(Overwritten(config, S, new), updateReserveConfigIx(s, new))
           = Overwritten(config, S \cup {s}, new)
<1>1. s \in DOMAIN config
  BY DEF ReserveSetting
<1>2. With(Overwritten(config, S, new), s, new) = Overwritten(config, S \cup {s}, new)
  BY <1>1, OverwrittenOnce
<1>3. runReserveIx(Overwritten(config, S, new), updateReserveConfigIx(s, new))
        = With(Overwritten(config, S, new), s, new)
  BY IxWrites, Zenon
<1> QED BY <1>2, <1>3, Zenon

ReserveRun(f, config, ixs) ==
  f = [k \in 0..Len(ixs) |-> IF k = 0 THEN config ELSE runReserveIx(f[k - 1], ixs[k])]

LEMMA ReserveRunIs ==
  ASSUME NEW config, NEW ixs, NEW n \in Nat, n = Len(ixs), NEW g, ReserveRun(g, config, ixs)
  PROVE  runReserveIxs(config, ixs) = g[n]
<1> DEFINE after == CHOOSE f : ReserveRun(f, config, ixs)
<1>1. \A k \in 0..n : g[k] = IF k = 0 THEN config ELSE runReserveIx(g[k - 1], ixs[k])
  BY Zenon DEF ReserveRun
<1>2. ReserveRun(after, config, ixs)
  BY Zenon
<1>3. runReserveIxs(config, ixs) = after[n]
  BY Zenon DEF runReserveIxs, ReserveRun
<1> HIDE DEF after
<1>4. \A k \in 0..n : after[k] = IF k = 0 THEN config ELSE runReserveIx(after[k - 1], ixs[k])
  BY <1>2, Zenon DEF ReserveRun
<1> DEFINE S == {k \in 0..n : after[k] = g[k]}
<1>5. 0 \in S
  BY <1>1, <1>4
<1>6. ASSUME NEW k \in 0..(n - 1), k \in S PROVE k + 1 \in S
  <2>1. k + 1 \in 1..n /\ k + 1 \in 0..n /\ (k + 1) - 1 = k /\ k + 1 # 0
    OBVIOUS
  <2>2. after[k + 1] = runReserveIx(after[k], ixs[k + 1])
    BY <1>4, <2>1
  <2>3. g[k + 1] = runReserveIx(g[k], ixs[k + 1])
    BY <1>1, <2>1
  <2> QED BY <1>6, <2>1, <2>2, <2>3
<1>7. 0..n \subseteq S /\ n \in 0..n
  <2> HIDE DEF S
  <2> QED BY <1>5, <1>6, InductionUpTo
<1> QED BY <1>3, <1>7

LEMMA OneIx ==
  ASSUME NEW config, NEW ix
  PROVE  runReserveIxs(config, <<ix>>) = runReserveIx(config, ix)
<1> DEFINE n == 1
           ixs == <<ix>>
           g == [k \in 0..n |-> IF k = 0 THEN config ELSE runReserveIx(config, ix)]
<1>1. n \in Nat /\ n = 1 /\ n = Len(ixs) /\ ixs[1] = ix
  OBVIOUS
<1>2. g = [k \in 0..n |-> g[k]] /\ g[0] = config /\ g[1] = runReserveIx(config, ix)
  OBVIOUS
<1> HIDE DEF n, ixs, g
<1>3. \A k \in 0..n : g[k] = IF k = 0 THEN config ELSE runReserveIx(g[k - 1], ixs[k])
  <2>1. \A k \in 0..n : k = 0 \/ (k = 1 /\ k - 1 = 0)
    BY <1>1
  <2> QED BY <1>1, <1>2, <2>1
<1>4. g = [k \in 0..n |-> IF k = 0 THEN config ELSE runReserveIx(g[k - 1], ixs[k])]
  BY <1>2, <1>3, Zenon
<1>5. ReserveRun(g, config, ixs)
  BY <1>1, <1>4, Zenon DEF ReserveRun
<1>6. runReserveIxs(config, ixs) = g[n]
  BY <1>1, <1>5, ReserveRunIs, Zenon
<1> QED BY <1>1, <1>2, <1>6 DEF ixs

\* The instructions write the settings they are for, and nothing else.
LEMMA ReserveIxsWrite ==
  ASSUME NEW config, config = [s \in ReserveSetting |-> config[s]],
         NEW changes, IsList(changes), ToSet(changes) \subseteq Updatable, NEW new
  PROVE  runReserveIxs(config, ixsOfReserve(changes, new))
           = Overwritten(config, ToSet(changes), new)
<1> PICK n \in Nat : n = Len(changes)
  BY DEF IsList
<1> PICK ixs : ixs = ixsOfReserve(changes, new)
  OBVIOUS
<1>1. DOMAIN changes = 1..n
  BY DEF IsList
<1>2. /\ ixs = [i \in 1..n |-> updateReserveConfigIx(changes[i], new)]
  BY <1>1, Zenon DEF ixsOfReserve
<1>3. Len(ixs) = n
  BY <1>2
<1> DEFINE done(k) == {changes[i] : i \in 1..k}
           g == [k \in 0..n |-> Overwritten(config, done(k), new)]
<1>4. g = [k \in 0..n |-> g[k]]
  OBVIOUS
<1>5. g[0] = config
  <2>1. done(0) = {}
    OBVIOUS
  <2>2. config = [s \in DOMAIN config |-> config[s]]
    OBVIOUS
  <2> HIDE DEF done
  <2>3. g[0] = Overwritten(config, done(0), new)
    OBVIOUS
  <2> HIDE DEF g
  <2> QED BY <2>1, <2>2, <2>3, OverwrittenNothing, Zenon
<1>6. ASSUME NEW k \in 1..n PROVE g[k] = runReserveIx(g[k - 1], ixs[k])
  <2>1. changes[k] \in Updatable /\ k - 1 \in 0..n /\ k \in 0..n
    BY <1>1 DEF ToSet
  <2>2. ixs[k] = updateReserveConfigIx(changes[k], new)
    BY <1>2
  <2>3. g[k] = Overwritten(config, done(k), new)
        /\ g[k - 1] = Overwritten(config, done(k - 1), new)
    BY <2>1
  <2>4. done(k) = done(k - 1) \cup {changes[k]}
    <3>1. \A i : i \in 1..k <=> i \in 1..(k - 1) \/ i = k
      OBVIOUS
    <3> QED BY <3>1, Zenon
  <2>5. DOMAIN config = ReserveSetting
    OBVIOUS
  <2> HIDE DEF g, done
  <2>6. runReserveIx(Overwritten(config, done(k - 1), new), updateReserveConfigIx(changes[k], new))
          = Overwritten(config, done(k - 1) \cup {changes[k]}, new)
    BY <2>1, <2>5, OverwriteStep
  <2> QED BY <2>2, <2>3, <2>4, <2>6, Zenon
<1>7. done(n) = ToSet(changes)
  BY <1>1 DEF ToSet
<1>8. g[n] = Overwritten(config, done(n), new)
  OBVIOUS
<1>9. runReserveIxs(config, ixs) = g[n]
  <2> HIDE DEF g
  <2>1. n = Len(ixs)
    BY <1>3
  <2>2. \A k \in 0..n : g[k] = IF k = 0 THEN config ELSE runReserveIx(g[k - 1], ixs[k])
    BY <1>5, <1>6
  <2>3. g = [k \in 0..n |-> IF k = 0 THEN config ELSE runReserveIx(g[k - 1], ixs[k])]
    BY <1>4, <2>2, Zenon
  <2>4. ReserveRun(g, config, ixs)
    BY <2>1, <2>3, Zenon DEF ReserveRun
  <2> QED BY <2>1, <2>4, ReserveRunIs, Zenon
<1> QED BY <1>7, <1>8, <1>9, Zenon

\* The settings that an update changes.
Changed(old, new) == ToSet(reserveChanges(old, new))

LEMMA UpdateWrites ==
  ASSUME NEW config, config = [s \in ReserveSetting |-> config[s]], NEW old, NEW new
  PROVE  runReserveIxs(config, updateReserveIxs(old, new))
           = Overwritten(config, Changed(old, new), new)
<1>1. Changed(old, new) \subseteq Updatable /\ IsList(reserveChanges(old, new))
  BY ReserveChanges, UpdatableSettings DEF Changed
<1>2. updateReserveIxs(old, new) = ixsOfReserve(reserveChanges(old, new), new)
  BY Zenon DEF updateReserveIxs
<1>3. runReserveIxs(config, ixsOfReserve(reserveChanges(old, new), new))
        = Overwritten(config, ToSet(reserveChanges(old, new)), new)
  BY <1>1, ReserveIxsWrite DEF Changed
<1> QED BY <1>2, <1>3, Zenon DEF Changed

\* Two updates to the same configuration, the second from where the first has
\* led, reach it.
LEMMA TwoRoundsReach ==
  ASSUME NEW first, DOMAIN first = ReserveSetting, NEW new, NEW second,
         second = Overwritten(first, Changed(first, new), new), NEW s \in Updatable
  PROVE  Overwritten(second, Changed(second, new), new)[s] = new[s]
<1> DEFINE C1 == Changed(first, new)
           C2 == Changed(second, new)
<1>1. /\ C1 = UNION {ToSet(changesOfKey(reserveKeys[k], first, new)) : k \in 1..22}
      /\ C2 = UNION {ToSet(changesOfKey(reserveKeys[k], second, new)) : k \in 1..22}
  BY ReserveChanges DEF Changed
<1> HIDE DEF C1, C2
<1>2. /\ DOMAIN second = ReserveSetting
      /\ \A t \in ReserveSetting : second[t] = IF t \in C1 THEN new[t] ELSE first[t]
      /\ \A t \in ReserveSetting :
           Overwritten(second, C2, new)[t] = IF t \in C2 THEN new[t] ELSE second[t]
  BY DEF Overwritten, C1, C2
<1>3. s \in ReserveSetting /\ s \in AllSettings
  BY UpdatableSettings DEF ReserveSetting
<1> SUFFICES ASSUME second[s] # new[s], s \notin C2
             PROVE  FALSE
  BY <1>2, <1>3 DEF C2
<1>4. first[s] # new[s] /\ s \notin C1
  BY <1>2, <1>3
<1> PICK k \in 1..22 : s \in ToSet(reserveKeys[k])
  BY <1>3, KeysCover
<1> PICK key : key = reserveKeys[k]
  OBVIOUS
<1>5. KeyOK(key) /\ s \in ToSet(key)
  BY ReserveKeys
<1>6. /\ ToSet(changesOfKey(key, first, new)) \subseteq C1
      /\ ToSet(changesOfKey(key, second, new)) \subseteq C2
  BY <1>1
<1>7. firstOnly(key)
  <2> SUFFICES ASSUME ~firstOnly(key) PROVE FALSE
    OBVIOUS
  <2>1. s \in ToSet(changesOfKey(key, second, new))
    BY <1>5, KeyChanges
  <2> QED BY <1>6, <2>1
<1>8. ToSet(changesOfKey(key, first, new)) = {key[1]}
  BY <1>4, <1>5, <1>6, <1>7, FirstOfKey
<1>9. ToSet(changesOfKey(key, second, new)) = {key[1]}
  BY <1>5, <1>6, <1>7, FirstOfKey
<1>10. second[key[1]] # new[key[1]]
  <2>1. key[1] \in {t \in ToSet(key) : second[t] # new[t]}
    BY <1>5, <1>9, KeyChanges
  <2> QED BY <2>1
<1>11. key[1] \in C1 /\ key[1] \in ReserveSetting
  <2>1. key[1] \in ToSet(key)
    BY <1>5 DEF KeyOK, IsList, ToSet
  <2>2. key[1] \in Updatable
    BY <1>5, <2>1, UpdatableSettings DEF KeyOK
  <2> QED BY <1>6, <1>8, <2>2 DEF ReserveSetting
<1> QED BY <1>2, <1>10, <1>11

-----------------------------------------------------------------------------
(* Markets.                                                                *)

MarketTableSettings ==
  {"referralFeeBps", "emergencyMode", "autodeleverageEnabled", "borrowDisabled",
   "priceRefreshTriggerToMaxAgePct", "liquidationMaxDebtCloseFactorPct",
   "insolvencyRiskUnhealthyLtvPct", "minFullLiquidationValueThreshold",
   "maxLiquidatableDebtMarketValueAtOnce", "globalUnhealthyBorrowValue",
   "globalAllowedBorrowValue", "riskCouncil", "minNetValueInObligationSf",
   "minValueSkipLiquidationLtvBfChecks"}
MarketTableModes ==
  {"UpdateReferralFeeBps", "UpdateEmergencyMode", "UpdateAutodeleverageEnabled",
   "UpdateBorrowingDisabled", "UpdatePriceRefreshTriggerToMaxAgePct",
   "UpdateLiquidationCloseFactor", "UpdateInsolvencyRiskLtv",
   "UpdateMinFullLiquidationThreshold", "UpdateLiquidationMaxValue",
   "UpdateGlobalUnhealthyBorrow", "UpdateGlobalAllowedBorrow", "UpdateRiskCouncil",
   "UpdateMinNetValueObligationPostAction", "UpdateMinValueSkipPriorityLiqCheck"}

LEMMA MarketTable == Table(marketMode, MarketTableSettings, MarketTableModes)
BY DEF Table, marketMode, MarketTableSettings, MarketTableModes

LEMMA MarketKeys ==
  /\ IsList(marketKeys) /\ Len(marketKeys) = 18
  /\ MarketSetting = MarketTableSettings \cup Owners \cup ElevationGroups
<1>1. IsList(marketKeys) /\ Len(marketKeys) = 18
  BY DEF marketKeys, IsList, ToSet
<1>2. ToSet(marketKeys) = {marketKeys[1], marketKeys[2], marketKeys[3], marketKeys[4],
         marketKeys[5], marketKeys[6], marketKeys[7], marketKeys[8], marketKeys[9],
         marketKeys[10], marketKeys[11], marketKeys[12], marketKeys[13], marketKeys[14],
         marketKeys[15], marketKeys[16], marketKeys[17], marketKeys[18]}
  BY DEF marketKeys, ToSet
<1>3. MarketSetting = MarketTableSettings \cup Owners \cup ElevationGroups
  BY <1>2 DEF marketKeys, MarketSetting, MarketTableSettings, Owners, ElevationGroups
<1> QED BY <1>1, <1>3

LEMMA MarketModeList ==
  /\ IsList(UpdateLendingMarketMode)
  /\ MarketTableModes \cup {"UpdateOwner", "UpdateElevationGroup"}
       \subseteq ToSet(UpdateLendingMarketMode)
<1>1. IsList(OwnerAndValueModes) /\ IsList(CouncilAndGroupModes) /\ IsList(TriggerModes)
  BY DEF IsList, ToSet, OwnerAndValueModes, CouncilAndGroupModes, TriggerModes
<1> DEFINE c2 == OwnerAndValueModes \o CouncilAndGroupModes
           c3 == c2 \o TriggerModes
<1>2. IsList(c2) /\ Joins(c2, OwnerAndValueModes, CouncilAndGroupModes)
  BY <1>1, Joined, Zenon
<1>3. UpdateLendingMarketMode = c3
  BY Zenon DEF UpdateLendingMarketMode
<1> HIDE DEF c2
<1>4. IsList(c3) /\ Joins(c3, c2, TriggerModes)
  BY <1>1, <1>2, Joined, Zenon
<1> HIDE DEF c3
<1>5. ToSet(c3) = ToSet(OwnerAndValueModes) \cup ToSet(CouncilAndGroupModes)
                    \cup ToSet(TriggerModes)
  BY <1>2, <1>4 DEF Joins
<1>6. /\ ToSet(OwnerAndValueModes) = {OwnerAndValueModes[1], OwnerAndValueModes[2],
           OwnerAndValueModes[3], OwnerAndValueModes[4], OwnerAndValueModes[5],
           OwnerAndValueModes[6]}
      /\ ToSet(CouncilAndGroupModes) = {CouncilAndGroupModes[1], CouncilAndGroupModes[2],
           CouncilAndGroupModes[3], CouncilAndGroupModes[4], CouncilAndGroupModes[5],
           CouncilAndGroupModes[6]}
      /\ ToSet(TriggerModes) = {TriggerModes[1], TriggerModes[2], TriggerModes[3],
           TriggerModes[4], TriggerModes[5], TriggerModes[6]}
  BY DEF ToSet, OwnerAndValueModes, CouncilAndGroupModes, TriggerModes
<1>7. MarketTableModes \cup {"UpdateOwner", "UpdateElevationGroup"} \subseteq ToSet(c3)
  BY <1>5, <1>6 DEF MarketTableModes, OwnerAndValueModes, CouncilAndGroupModes, TriggerModes
<1> QED BY <1>3, <1>4, <1>7

MarketConfig ==
  {m \in [MarketSetting -> 0..3] : \A s \in MarketSetting : m[s] \in HeldInMarket(s)}

\* Where the program writes what is sent for a setting, and what it writes.
target(s) == IF s \in Owners THEN "lendingMarketOwnerCached" ELSE s
MarketWith(m, s, new) ==
  [m EXCEPT ![target(s)] = IF s = "minNetValueInObligationSf" THEN netValueRead(new[s])
                           ELSE new[s]]

LEMMA MarketIxWrites ==
  ASSUME NEW m, NEW s \in MarketSetting, NEW new
  PROVE  runMarketIx(m, updateMarketConfigIx(s, new)) = MarketWith(m, s, new)
<1> PICK mode : mode = modeOfMarketSetting(s)
  OBVIOUS
<1> PICK ix : ix = updateMarketConfigIx(s, new)
  OBVIOUS
<1>1. s \in MarketTableSettings \/ s \in Owners \/ s \in ElevationGroups
  BY MarketKeys
<1>2. mode = IF s \in Owners THEN "UpdateOwner"
             ELSE IF s \in ElevationGroups THEN "UpdateElevationGroup" ELSE marketMode[s]
  BY DEF modeOfMarketSetting
<1>3. mode \in ToSet(UpdateLendingMarketMode)
  BY <1>1, <1>2, MarketModeList, MarketTable DEF Table
<1>4. UpdateLendingMarketMode[ix.mode + 1] = mode
  BY <1>3, MarketModeList, Discriminated DEF updateMarketConfigIx
<1>5. ix.value = new[s] /\ ix.group = IF s \in ElevationGroups THEN s ELSE "none"
  BY DEF updateMarketConfigIx
<1> DEFINE setting == IF mode = "UpdateOwner" THEN "lendingMarketOwnerCached"
                      ELSE IF mode = "UpdateElevationGroup" THEN ix.group
                      ELSE settingOf(marketMode, mode)
<1>6. setting = target(s) /\ (setting = "minNetValueInObligationSf"
                                <=> s = "minNetValueInObligationSf")
  <2>1. CASE s \in Owners
    BY <1>2, <2>1 DEF target, Owners
  <2>2. CASE s \in ElevationGroups
    BY <1>2, <1>5, <2>2 DEF target, Owners, ElevationGroups
  <2>3. CASE s \in MarketTableSettings /\ s \notin Owners /\ s \notin ElevationGroups
    <3>1. mode = marketMode[s] /\ mode \in MarketTableModes /\ s \in DOMAIN marketMode
      BY <1>2, <2>3, MarketTable DEF Table
    <3>2. mode # "UpdateOwner" /\ mode # "UpdateElevationGroup"
      BY <3>1 DEF MarketTableModes
    <3>3. \A t \in DOMAIN marketMode : marketMode[t] = mode => t = s
      BY <2>3, <3>1, MarketTable DEF Table
    <3>4. settingOf(marketMode, mode) = s
      BY <3>1, <3>3 DEF settingOf
    <3> QED BY <2>3, <3>2, <3>4 DEF target
  <2> QED BY <1>1, <2>1, <2>2, <2>3
<1>7. runMarketIx(m, ix) = [m EXCEPT ![setting] = IF setting = "minNetValueInObligationSf"
                                                  THEN netValueRead(ix.value) ELSE ix.value]
  BY <1>4, Zenon DEF runMarketIx
<1> HIDE DEF setting
<1>8. (IF setting = "minNetValueInObligationSf" THEN netValueRead(ix.value) ELSE ix.value)
        = IF s = "minNetValueInObligationSf" THEN netValueRead(new[s]) ELSE new[s]
  BY <1>5, <1>6
<1> QED BY <1>6, <1>7, <1>8, Zenon DEF MarketWith

\* What is sent fits its setting.
Fits(s, new) == new[s] \in Value /\ (new[s] = Wide => s = "minNetValueInObligationSf")

LEMMA MarketIxKeeps ==
  ASSUME NEW m \in MarketConfig, NEW s \in MarketSetting, NEW new, Fits(s, new)
  PROVE  MarketWith(m, s, new) \in MarketConfig
<1> PICK v : v = IF s = "minNetValueInObligationSf" THEN netValueRead(new[s]) ELSE new[s]
  OBVIOUS
<1>1. v \in 0..3 /\ v \in HeldInMarket(target(s))
  BY DEF Fits, target, HeldInMarket, Owners, MarketBigNumbers, netValueRead, Value, Wide,
     Scrambled
<1>2. target(s) \in MarketSetting
  BY MarketKeys DEF target, Owners
<1>3. MarketWith(m, s, new) = [m EXCEPT ![target(s)] = v]
  BY DEF MarketWith
<1> QED BY <1>1, <1>2, <1>3 DEF MarketConfig

\* The settings that hold exactly what was sent.
Plain == MarketSetting \ (Owners \union {"minNetValueInObligationSf"})

LEMMA MarketIxPlain ==
  ASSUME NEW m \in MarketConfig, NEW u \in MarketSetting, NEW new, NEW s \in Plain
  PROVE  MarketWith(m, u, new)[s] = IF s = u THEN new[s] ELSE m[s]
BY MarketKeys DEF MarketWith, MarketConfig, target, Plain, Owners

MarketRun(f, m, ixs) ==
  f = [k \in 0..Len(ixs) |-> IF k = 0 THEN m ELSE runMarketIx(f[k - 1], ixs[k])]

LEMMA MarketRunIs ==
  ASSUME NEW m, NEW ixs, NEW n \in Nat, n = Len(ixs), NEW g, MarketRun(g, m, ixs)
  PROVE  runMarketIxs(m, ixs) = g[n]
<1> DEFINE after == CHOOSE f : MarketRun(f, m, ixs)
<1>1. \A k \in 0..n : g[k] = IF k = 0 THEN m ELSE runMarketIx(g[k - 1], ixs[k])
  BY Zenon DEF MarketRun
<1>2. MarketRun(after, m, ixs)
  BY Zenon
<1>3. runMarketIxs(m, ixs) = after[n]
  BY Zenon DEF runMarketIxs, MarketRun
<1> HIDE DEF after
<1>4. \A k \in 0..n : after[k] = IF k = 0 THEN m ELSE runMarketIx(after[k - 1], ixs[k])
  BY <1>2, Zenon DEF MarketRun
<1> DEFINE S == {k \in 0..n : after[k] = g[k]}
<1>5. 0 \in S
  BY <1>1, <1>4
<1>6. ASSUME NEW k \in 0..(n - 1), k \in S PROVE k + 1 \in S
  <2>1. k + 1 \in 1..n /\ k + 1 \in 0..n /\ (k + 1) - 1 = k /\ k + 1 # 0
    OBVIOUS
  <2>2. after[k + 1] = runMarketIx(after[k], ixs[k + 1])
    BY <1>4, <2>1
  <2>3. g[k + 1] = runMarketIx(g[k], ixs[k + 1])
    BY <1>1, <2>1
  <2> QED BY <1>6, <2>1, <2>2, <2>3
<1>7. 0..n \subseteq S /\ n \in 0..n
  <2> HIDE DEF S
  <2> QED BY <1>5, <1>6, InductionUpTo
<1> QED BY <1>3, <1>7

\* A batch of update instructions, and the settings it is about.
Updates(b, new) ==
  /\ IsList(b)
  /\ \A i \in DOMAIN b :
       \E s \in MarketSetting : Fits(s, new) /\ b[i] = updateMarketConfigIx(s, new)
Covers(b, s, new) == \E i \in DOMAIN b : b[i] = updateMarketConfigIx(s, new)

LEMMA MarketStepKeeps ==
  ASSUME NEW b, NEW new, Updates(b, new), NEW i \in DOMAIN b, NEW m \in MarketConfig
  PROVE  /\ runMarketIx(m, b[i]) \in MarketConfig
         /\ \A s \in Plain :
              /\ runMarketIx(m, b[i])[s] \in {m[s], new[s]}
              /\ b[i] = updateMarketConfigIx(s, new) => runMarketIx(m, b[i])[s] = new[s]
<1> PICK u \in MarketSetting : Fits(u, new) /\ b[i] = updateMarketConfigIx(u, new)
  BY DEF Updates
<1>1. runMarketIx(m, b[i]) = MarketWith(m, u, new)
  BY MarketIxWrites, Zenon
<1>2. runMarketIx(m, b[i]) \in MarketConfig
  BY <1>1, MarketIxKeeps
<1>3. ASSUME NEW s \in Plain
      PROVE  runMarketIx(m, b[i])[s] \in {m[s], new[s]}
  BY <1>1, MarketIxPlain
<1>4. ASSUME NEW s \in Plain, b[i] = updateMarketConfigIx(s, new)
      PROVE  runMarketIx(m, b[i])[s] = new[s]
  <2>1. s \in MarketSetting
    BY DEF Plain
  <2>2. runMarketIx(m, b[i]) = MarketWith(m, s, new)
    BY <1>4, <2>1, MarketIxWrites, Zenon
  <2> QED BY <2>1, <2>2, MarketIxPlain
<1> QED BY <1>2, <1>3, <1>4

\* The batch leaves what a market can hold; a plain setting that it is about is
\* as sent, any other as it was or as sent.
LEMMA MarketIxsWrite ==
  ASSUME NEW m \in MarketConfig, NEW b, NEW new, Updates(b, new)
  PROVE  /\ runMarketIxs(m, b) \in MarketConfig
         /\ \A s \in Plain : /\ runMarketIxs(m, b)[s] \in {m[s], new[s]}
                             /\ Covers(b, s, new) => runMarketIxs(m, b)[s] = new[s]
<1> PICK n \in Nat : n = Len(b)
  BY DEF Updates, IsList
<1>0. DOMAIN b = 1..n
  BY DEF Updates, IsList
<1> DEFINE ix == [i \in 1..n |-> [x \in MarketConfig |-> runMarketIx(x, b[i])]]
<1>1. ix \in [1..n -> [MarketConfig -> MarketConfig]]
  BY <1>0, MarketStepKeeps
<1> PICK g : Follows(g, n, MarketConfig, m, ix)
  <2> HIDE DEF ix
  <2> QED BY <1>1, RecursionUpTo
<1>2. /\ g \in [0..n -> MarketConfig]
      /\ g[0] = m
      /\ \A i \in 1..n : g[i] = ix[i][g[i - 1]]
  BY DEF Follows
<1>3. \A i \in 1..n : g[i - 1] \in MarketConfig /\ g[i] = runMarketIx(g[i - 1], b[i])
  <2> TAKE i \in 1..n
  <2>1. i - 1 \in 0..n
    OBVIOUS
  <2>2. g[i - 1] \in MarketConfig
    BY <1>2, <2>1
  <2>3. ix[i][g[i - 1]] = runMarketIx(g[i - 1], b[i])
    BY <2>2
  <2> HIDE DEF ix
  <2> QED BY <1>2, <2>2, <2>3
<1> HIDE DEF ix
<1>4. MarketRun(g, m, b)
  <2>1. \A k \in 0..n : g[k] = IF k = 0 THEN m ELSE runMarketIx(g[k - 1], b[k])
    BY <1>2, <1>3
  <2>2. g = [k \in 0..n |-> g[k]]
    BY <1>2
  <2>3. g = [k \in 0..n |-> IF k = 0 THEN m ELSE runMarketIx(g[k - 1], b[k])]
    BY <2>1, <2>2, Zenon
  <2> QED BY <2>3, Zenon DEF MarketRun
<1>5. runMarketIxs(m, b) = g[n]
  BY <1>4, MarketRunIs
<1>6. n \in 0..n
  OBVIOUS
<1>7. ASSUME NEW s \in Plain
      PROVE  /\ g[n][s] \in {m[s], new[s]}
             /\ Covers(b, s, new) => g[n][s] = new[s]
  <2> DEFINE About(k) == \E i \in 1..k : b[i] = updateMarketConfigIx(s, new)
             S == {k \in 0..n : g[k][s] \in {m[s], new[s]} /\ (About(k) => g[k][s] = new[s])}
  <2>1. 0 \in S
    BY <1>2
  <2>2. ASSUME NEW k \in 0..(n - 1), k \in S
        PROVE  k + 1 \in S
    <3>1. k + 1 \in 1..n /\ k + 1 \in 0..n /\ (k + 1) - 1 = k
      OBVIOUS
    <3>2. g[k] \in MarketConfig /\ g[k + 1] = runMarketIx(g[k], b[k + 1])
      BY <1>3, <3>1
    <3>3. /\ g[k + 1][s] \in {g[k][s], new[s]}
          /\ b[k + 1] = updateMarketConfigIx(s, new) => g[k + 1][s] = new[s]
      BY <1>0, <3>1, <3>2, MarketStepKeeps
    <3>4. g[k][s] \in {m[s], new[s]} /\ (About(k) => g[k][s] = new[s])
      BY <2>2
    <3>5. About(k + 1) => About(k) \/ b[k + 1] = updateMarketConfigIx(s, new)
      <4>1. \A i \in 1..(k + 1) : i \in 1..k \/ i = k + 1
        OBVIOUS
      <4> QED BY <4>1, Zenon
    <3> HIDE DEF About
    <3> QED BY <3>1, <3>3, <3>4, <3>5
  <2>3. 0..n \subseteq S
    <3> HIDE DEF S
    <3> QED BY <2>1, <2>2, InductionUpTo
  <2>4. Covers(b, s, new) => About(n)
    BY <1>0 DEF Covers
  <2> QED BY <1>6, <2>3, <2>4
<1> QED BY <1>2, <1>5, <1>6, <1>7

-----------------------------------------------------------------------------
(* The batches of a market's update.                                       *)

\* q is the smallest number of batches of C for n.
RoundsUp(q, n, C) ==
  /\ q \in Nat /\ n <= q * C /\ q * C <= n + C - 1
  /\ \A M \in Nat : n <= M * C => q <= M

LEMMA Rounded ==
  ASSUME NEW C \in Nat \ {0}, NEW n \in Nat
  PROVE  RoundsUp((n + C - 1) \div C, n, C)
<1> PICK q : q = (n + C - 1) \div C
  OBVIOUS
<1>1. q \in Nat /\ q * C <= n + C - 1 /\ n + C - 1 < q * C + C
  OBVIOUS
<1>2. ASSUME NEW M \in Nat, n <= M * C, q > M
      PROVE  FALSE
  <2>1. M + 1 <= q
    BY <1>1, <1>2
  <2>2. (M + 1) * C <= q * C
    BY <1>1, <2>1
  <2>3. (M + 1) * C = M * C + C
    OBVIOUS
  <2>4. M * C \in Nat /\ q * C \in Nat
    BY <1>1
  <2> QED BY <1>1, <1>2, <2>2, <2>3, <2>4
<1>3. q * C \in Nat
  BY <1>1
<1>4. n <= q * C
  BY <1>1, <1>3
<1>5. RoundsUp(q, n, C)
  BY <1>1, <1>2, <1>4 DEF RoundsUp
<1> QED BY <1>5

LEMMA MarketChanges ==
  ASSUME NEW old, NEW new
  PROVE  /\ IsList(marketChanges(old, new)) /\ Len(marketChanges(old, new)) <= 18
         /\ ToSet(marketChanges(old, new)) = {s \in MarketSetting : old[s] # new[s]}
<1> DEFINE I == {i \in DOMAIN marketKeys : old[marketKeys[i]] # new[marketKeys[i]]}
<1>1. IsList(marketKeys) /\ I \subseteq DOMAIN marketKeys /\ Len(marketKeys) = 18
  BY MarketKeys
<1>2. marketChanges(old, new) = pick(marketKeys, I)
  BY Zenon DEF marketChanges, differing
<1> PICK keys : keys = marketKeys
  OBVIOUS
<1> PICK V : keys \in Seq(V)
  BY <1>1 DEF IsList
<1>3. I \in SUBSET (1..Len(keys))
  BY <1>1
<1>4. ToSet(pick(keys, I)) = {keys[i] : i \in I} /\ Len(pick(keys, I)) <= Len(keys)
  BY <1>3, PickElements
<1>5. IsList(pick(keys, I))
  BY <1>1, PickIsList
<1>6. {keys[i] : i \in I} = {s \in MarketSetting : old[s] # new[s]}
  BY DEF MarketSetting, ToSet
<1> QED BY <1>1, <1>2, <1>4, <1>5, <1>6

\* The bounds of a batch.
LEMMA BatchBounds ==
  ASSUME NEW n \in Nat, NEW k \in 1..((n + ChunkSize - 1) \div ChunkSize)
  PROVE  /\ (k - 1) * ChunkSize + 1 \in 1..n /\ batchEnd(k, n) \in 1..n
         /\ batchEnd(k, n) = IF k * ChunkSize < n THEN k * ChunkSize ELSE n
         /\ (k - 1) * ChunkSize + 1 <= batchEnd(k, n)
<1> PICK C \in Nat \ {0} : C = ChunkSize
  BY AdminAssumption
<1> PICK q : q = (n + C - 1) \div C
  OBVIOUS
<1>1. q \in Nat /\ q * C <= n + C - 1 /\ k \in 1..q
  OBVIOUS
<1>2. (k - 1) * C <= (q - 1) * C /\ (q - 1) * C = q * C - C /\ (k - 1) * C = k * C - C
  BY <1>1
<1>3. (k - 1) * C \in Nat /\ k * C \in Nat
  BY <1>1
<1>4. batchEnd(k, n) = IF k * C < n THEN k * C ELSE n
  BY DEF batchEnd
<1> QED BY <1>1, <1>2, <1>3, <1>4

\* All instructions are in the batches, which are not too many.
LEMMA Chunks ==
  ASSUME NEW ixs, IsList(ixs), Len(ixs) <= 18
  PROVE  /\ IsList(chunks(ixs)) /\ Len(chunks(ixs)) <= MaxBatches
         /\ \A k \in DOMAIN chunks(ixs) : /\ IsList(chunks(ixs)[k])
                                          /\ ToSet(chunks(ixs)[k]) \subseteq ToSet(ixs)
         /\ \A i \in DOMAIN ixs : \E k \in DOMAIN chunks(ixs) :
              \E j \in DOMAIN chunks(ixs)[k] : chunks(ixs)[k][j] = ixs[i]
<1> PICK C \in Nat \ {0} : C = ChunkSize
  BY AdminAssumption
<1> PICK n \in Nat : n = Len(ixs)
  BY DEF IsList
<1> PICK q : q = (n + C - 1) \div C
  OBVIOUS
<1>0. DOMAIN ixs = 1..n /\ ixs \in Seq(ToSet(ixs))
  BY DEF IsList
<1>1. q \in Nat /\ n <= q * C /\ \A M \in Nat : n <= M * C => q <= M
  <2>1. RoundsUp((n + C - 1) \div C, n, C)
    BY Rounded, Zenon
  <2> QED BY <2>1 DEF RoundsUp
<1> PICK cs : cs = chunks(ixs)
  OBVIOUS
<1>2. cs = [k \in 1..q |-> SubSeq(ixs, (k - 1) * C + 1, batchEnd(k, n))]
  BY Zenon DEF chunks
<1>3. cs = [k \in 1..q |-> cs[k]]
  BY <1>2
<1>4. IsList(cs) /\ Len(cs) = q /\ DOMAIN cs = 1..q
  BY <1>1, <1>3, FunctionIsList
<1>5. q <= MaxBatches
  <2>1. MaxBatches \in Nat /\ 18 <= MaxBatches * C
    BY BoundAssumption, MarketKeys
  <2>2. n <= MaxBatches * C
    <3>1. MaxBatches * C \in Nat
      BY <2>1
    <3> QED BY <2>1, <3>1
  <2> QED BY <1>1, <2>1, <2>2
<1>6. ASSUME NEW k \in 1..q
      PROVE  /\ cs[k] \in Seq(ToSet(ixs)) /\ Len(cs[k]) = batchEnd(k, n) - (k - 1) * C
             /\ \A j \in 1..Len(cs[k]) : cs[k][j] = ixs[(k - 1) * C + j]
  <2> PICK a : a = (k - 1) * C + 1
    OBVIOUS
  <2> PICK e : e = batchEnd(k, n)
    OBVIOUS
  <2>1. a \in 1..n /\ e \in 1..n /\ a <= e /\ (k - 1) * C = a - 1
    <3>1. (k - 1) * C \in Nat
      OBVIOUS
    <3> QED BY <3>1, BatchBounds
  <2>2. cs[k] = SubSeq(ixs, a, e)
    BY <1>2
  <2> PICK c : c = SubSeq(ixs, a, e)
    OBVIOUS
  <2>3. c \in Seq(ToSet(ixs)) /\ Len(c) = e - a + 1
        /\ \A j \in 1..(e - a + 1) : c[j] = ixs[a + j - 1]
    BY <1>0, <2>1, SubSeqProperties
  <2>4. \A j \in 1..Len(c) : c[j] = ixs[(k - 1) * C + j]
    <3> TAKE j \in 1..Len(c)
    <3>1. a + j - 1 = (a - 1) + j
      BY <2>1, <2>3
    <3> QED BY <2>1, <2>3, <3>1
  <2> QED BY <2>1, <2>2, <2>3, <2>4
<1>7. \A k \in 1..q : IsList(cs[k]) /\ ToSet(cs[k]) \subseteq ToSet(ixs)
  BY <1>6, SeqIsList
<1>8. ASSUME NEW i \in 1..n
      PROVE  \E k \in 1..q : \E j \in DOMAIN cs[k] : cs[k][j] = ixs[i]
  <2> PICK k : k = (i + C - 1) \div C
    OBVIOUS
  <2>1. k \in Nat /\ i <= k * C /\ k * C <= i + C - 1 /\ \A M \in Nat : i <= M * C => k <= M
    <3>1. RoundsUp((i + C - 1) \div C, i, C)
      <4>1. i \in Nat
        OBVIOUS
      <4> QED BY <4>1, Rounded, Zenon
    <3> QED BY <3>1 DEF RoundsUp
  <2>2. k \in 1..q
    <3>1. q * C \in Nat
      BY <1>1
    <3>2. i <= q * C
      BY <1>1, <3>1
    <3>3. k # 0
      <4>1. 0 * C = 0
        OBVIOUS
      <4> QED BY <2>1, <4>1
    <3>4. k <= q
      BY <1>1, <2>1, <3>2, Zenon
    <3> QED BY <1>1, <2>1, <3>3, <3>4
  <2> PICK b : b = (k - 1) * C
    OBVIOUS
  <2>3. b \in Nat /\ k * C = b + C
    BY <2>1, <2>2
  <2> DEFINE j == i - b
  <2>4. j \in 1..(batchEnd(k, n) - b)
    <3>1. batchEnd(k, n) = IF k * C < n THEN k * C ELSE n
      BY DEF batchEnd
    <3>2. i <= b + C /\ b + C <= i + C - 1
      BY <2>1, <2>3
    <3> QED BY <2>3, <3>1, <3>2
  <2> PICK c : c = cs[k]
    OBVIOUS
  <2>5. /\ Len(c) = batchEnd(k, n) - b /\ DOMAIN c = 1..Len(c)
        /\ \A m \in 1..Len(c) : c[m] = ixs[b + m]
    <3>1. /\ cs[k] \in Seq(ToSet(ixs)) /\ Len(cs[k]) = batchEnd(k, n) - (k - 1) * C
          /\ \A m \in 1..Len(cs[k]) : cs[k][m] = ixs[(k - 1) * C + m]
      BY <1>6, <2>2
    <3>2. c \in Seq(ToSet(ixs))
      BY <3>1
    <3> QED BY <3>1, <3>2
  <2>6. b + j = i
    BY <2>3
  <2>7. c[j] = ixs[b + j]
    <3> HIDE DEF j
    <3> QED BY <2>4, <2>5
  <2> HIDE DEF j
  <2> QED BY <2>2, <2>4, <2>5, <2>6, <2>7
<1> QED BY <1>0, <1>4, <1>5, <1>7, <1>8

-----------------------------------------------------------------------------
(***************************************************************************)
(* The inductive invariant.                                                *)
(***************************************************************************)
ReserveConfig == [ReserveSetting -> Value]
Holds(config) == config \in ReserveConfig /\ \A s \in ReserveSetting : config[s] \in Held(s)

\* A reserve that was added: the object it was configured from, how many there
\* were, and its parameters.
AddedOK(r, objs) ==
  /\ DOMAIN r = {"object", "made", "params"}
  /\ r.object \in DOMAIN objs
  /\ r.object = r.made => OwnInputs(objs[r.object], r.params)

LedgerOK ==
  /\ topic \in Topic
  /\ topic = "reserve" => Holds(reserve)
  /\ topic = "market" => reserve = NoReserve
  /\ topic = "adding" => \/ reserve \in {NoReserve, [created |-> TRUE]}
                         \/ AddedOK(reserve, objects)
  /\ market \in MarketConfig

\* What has not been edited is as it was downloaded.
FilesOK ==
  /\ file \in ReserveConfig
  /\ \A s \in ReserveSetting \ (copy.edited \union {"protocolTakeRatePct"}) :
       file[s] = copy.base[s]
  /\ DOMAIN copy = {"base", "edited"}
  /\ marketFile \in [MarketSetting -> Value]
  /\ loaded = NoReserve \/ (topic = "reserve" /\ loaded \in ReserveConfig)

\* Parameters of its own are the inputs of an object, and the shared ones those
\* of the last.
ObjectsOK ==
  /\ IsList(objects)
  /\ \A i \in DOMAIN objects :
       /\ DOMAIN objects[i] = {"class", "input", "own"}
       /\ objects[i].class \in AssetClass
       /\ objects[i].own # <<>> => OwnInputs(objects[i], objects[i].own[1])
  /\ objects # <<>> => OwnInputs(objects[Len(objects)], defaults)

\* What a command asks for.
FromCopy(wanted, cp) ==
  \A s \in ReserveSetting \ (cp.edited \union Totals \union {"protocolTakeRatePct"}) :
    wanted[s] = cp.base[s]

Asked(c, top, objs) ==
  \/ c.kind = "updateReserve" /\ top = "reserve" /\ c.wanted \in ReserveConfig
       /\ FromCopy(c.wanted, c.copy)
  \/ c.kind = "updateOracle" /\ top = "reserve" /\ c.wanted \in ReserveConfig
  \/ c.kind = "entireReserve" /\ top = "reserve" /\ c.wanted \in ReserveConfig
  \/ c.kind = "updateMarket" /\ top = "market" /\ c.wanted \in [MarketSetting -> Value]
  \/ c.kind = "updateOwner" /\ top = "market"
  \/ c.kind = "addAsset" /\ top = "adding" /\ c.wanted \in DOMAIN objs

\* What it sends, once it has read the accounts.
PlannedReserve(c) ==
  /\ reserveEncodes(c.read, c.wanted)
  /\ c.batches = <<updateReserveIxs(c.read, c.wanted)>>

Planned(c, objs) ==
  /\ c.kind = "updateReserve" => PlannedReserve(c)
  /\ c.kind = "updateOracle" => /\ PlannedReserve(c)
                                /\ \A s \in ReserveSetting \ OracleSettings :
                                     c.wanted[s] = c.read[s]
  /\ c.kind = "entireReserve" => /\ encodesEntirely(c.wanted)
                                 /\ c.batches = << <<updateEntireReserveConfigIx(c.wanted)>> >>
  /\ c.kind = "updateMarket" =>
       /\ marketEncodes(marketChanges(c.read, c.wanted), c.wanted)
       /\ c.batches = chunks(updateLendingMarketIxs(c.read, c.wanted))
  /\ c.kind = "updateOwner" => c.batches = << <<"updateLendingMarketOwner">> >>
  /\ c.kind = "addAsset" => /\ c.batches = << <<"createReserve">>, <<c.batches[2][1]>> >>
                            /\ AddedOK(c.batches[2][1], objs)

Fields == {"kind", "wanted", "read", "batches", "owner", "copy"}

CommandOK(c, top, objs) ==
  /\ DOMAIN c = Fields
  /\ Asked(c, top, objs)
  /\ \/ c.read = <<>> /\ c.batches = <<>>
     \/ c.read # <<>> /\ Planned(c, objs)
  /\ Len(c.batches) \in 0..MaxBatches

CommandsOK ==
  /\ IsList(cmds) /\ Len(cmds) <= MaxCalls
  /\ \A c \in DOMAIN cmds : CommandOK(cmds[c], topic, objects)

StepOK ==
  /\ step \in Running \union {"none", "printed", "threw"}
  /\ step \in Running \union {"printed"} => cmds # <<>>
  /\ step = "fetch" => cmd.read = <<>>
  /\ step \in {"send", "printed"} => cmd.read # <<>>
  /\ step = "fetch" /\ cmd.kind = "updateOracle" =>
       /\ loaded \in ReserveConfig
       /\ \A s \in ReserveSetting \ OracleSettings : cmd.wanted[s] = loaded[s]

\* Transactions are batches that a command has planned.
Sent(t) == t \in inFlight \/ t = sending \/ outcome[t] # "none"
KnownTx ==
  \A t \in Tx : Sent(t) => t[1] \in DOMAIN cmds /\ t[2] \in 1..Len(cmds[t[1]].batches)

\* A plain setting of the market is as the command under way asks, or waits for
\* one of its batches.
MarketProgress ==
  step \in {"send", "printed"} /\ cmd.kind = "updateMarket" /\ ~touched =>
    \A s \in Plain :
      \/ market[s] = cmd.wanted[s]
      \/ \E k \in 1..Len(cmd.batches) : /\ outcome[<<Len(cmds), k>>] # "ok"
                                        /\ Covers(cmd.batches[k], s, cmd.wanted)

\* Where two updates of the reserve are.
updated(config, c) == Overwritten(config, Changed(c.read, c.wanted), c.wanted)
done(c) == outcome[<<c, 1>>] = "ok"
TwoUpdates ==
  /\ others = 0 /\ Len(cmds) \in {1, 2} /\ cmds[1].read # <<>>
  /\ \A c \in DOMAIN cmds : cmds[c].kind = "updateReserve"

RoundsProgress ==
  TwoUpdates =>
    IF Len(cmds) = 1 \/ cmds[Len(cmds)].read = <<>>
    THEN reserve = IF done(1) THEN updated(cmds[1].read, cmds[1]) ELSE cmds[1].read
    ELSE cmds[2].read # cmds[1].read =>
           /\ done(1) /\ cmds[2].read = updated(cmds[1].read, cmds[1])
           /\ reserve = IF done(2) THEN updated(cmds[2].read, cmds[2]) ELSE cmds[2].read

CuCore == IInv /\ LedgerOK /\ FilesOK /\ ObjectsOK /\ CommandsOK /\ StepOK /\ KnownTx
CuIInv == CuCore /\ others \in Nat /\ MarketProgress /\ RoundsProgress

-----------------------------------------------------------------------------
(* Shapes of the accounts.                                                 *)

LEMMA SettingNames ==
  /\ {"status", "protocolTakeRatePct", "protocolLiquidationFeePct"} \subseteq ReserveSetting
  /\ Totals \subseteq ReserveSetting /\ OracleSettings \subseteq ReserveSetting
  /\ "params" \notin ReserveSetting /\ "none" \notin ReserveSetting
<1>1. /\ {"status", "protocolTakeRatePct", "protocolLiquidationFeePct"} \subseteq AllSettings
      /\ Totals \subseteq AllSettings
  BY SettingsNamed DEF Totals
<1>2. OracleSettings \subseteq AllSettings
  BY SettingsNamed DEF OracleSettings, PriceSettings, SourceSettings
<1>3. "params" \notin AllSettings /\ "none" \notin AllSettings
  BY DEF AllSettings, Settings1, Settings2, Settings3, Settings4, Settings5, CurveSettings,
     LiquidationSettings, UsageSettings, CapSettings, PowerSettings, PriceSettings,
     SourceSettings
<1>4. "params" \notin Skipped /\ "none" \notin Skipped
  BY DEF Skipped
<1> QED BY <1>1, <1>2, <1>3, <1>4, UpdatableSettings

LEMMA HeldValues ==
  ASSUME NEW s
  PROVE  /\ Held(s) \subseteq Value /\ Value \ {Wide} \subseteq Held(s)
         /\ 0 \in Held(s) /\ 1 \in Held(s)
BY DEF Held, Value, Wide

LEMMA ConfigIs ==
  ASSUME NEW r \in ReserveConfig
  PROVE  /\ DOMAIN r = ReserveSetting /\ r # <<>> /\ r # NoReserve /\ "status" \in DOMAIN r
         /\ "params" \notin DOMAIN r /\ r = [s \in ReserveSetting |-> r[s]]
         /\ \A s \in ReserveSetting : r[s] \in Value
<1>1. DOMAIN r = ReserveSetting /\ r = [s \in ReserveSetting |-> r[s]]
      /\ \A s \in ReserveSetting : r[s] \in Value
  BY DEF ReserveConfig
<1>2. DOMAIN <<>> = {} /\ DOMAIN NoReserve = {"none"}
  BY DEF NoReserve
<1> QED BY <1>1, <1>2, SettingNames

LEMMA ConfiguredIs ==
  ASSUME LedgerOK
  PROVE  /\ Configured <=> topic = "reserve"
         /\ Configured => Holds(reserve)
<1>1. topic = "reserve" => Configured /\ Holds(reserve)
  BY ConfigIs DEF LedgerOK, Configured, Holds
<1>2. topic # "reserve" => ~Configured
  <2>1. DOMAIN NoReserve = {"none"} /\ DOMAIN [created |-> TRUE] = {"created"}
    BY DEF NoReserve
  <2> QED BY <2>1 DEF LedgerOK, Configured, Topic, AddedOK
<1> QED BY <1>1, <1>2

\* What is not wide fits any setting.
LEMMA OverwrittenHolds ==
  ASSUME NEW config, Holds(config), NEW S, NEW new \in ReserveConfig,
         \A s \in S : new[s] # Wide
  PROVE  Holds(Overwritten(config, S, new))
<1>1. \A s \in ReserveSetting : (IF s \in S THEN new[s] ELSE config[s]) \in Held(s)
  BY HeldValues, ConfigIs DEF Holds
<1>2. \A s \in ReserveSetting : (IF s \in S THEN new[s] ELSE config[s]) \in Value
  BY <1>1, HeldValues
<1>3. DOMAIN config = ReserveSetting
  BY ConfigIs DEF Holds
<1>4. Overwritten(config, S, new) = [s \in ReserveSetting |-> IF s \in S THEN new[s] ELSE config[s]]
  BY <1>3, Zenon DEF Overwritten
<1> QED BY <1>1, <1>2, <1>4 DEF Holds, ReserveConfig

\* An update that encodes keeps what an account can hold.
LEMMA UpdateHolds ==
  ASSUME NEW config, Holds(config), NEW old, NEW new \in ReserveConfig,
         reserveEncodes(old, new)
  PROVE  /\ runReserveIxs(config, updateReserveIxs(old, new))
              = Overwritten(config, Changed(old, new), new)
         /\ Holds(Overwritten(config, Changed(old, new), new))
<1>1. config = [s \in ReserveSetting |-> config[s]]
  BY ConfigIs DEF Holds
<1>2. runReserveIxs(config, updateReserveIxs(old, new))
        = Overwritten(config, Changed(old, new), new)
  BY <1>1, UpdateWrites
<1>3. \A s \in Changed(old, new) : new[s] # Wide /\ s \notin Totals
  BY DEF reserveEncodes, encodes, Changed, ToSet
<1> QED BY <1>2, <1>3, OverwrittenHolds

-----------------------------------------------------------------------------
(* The initial states.                                                     *)

LEMMA InitCore == CuInit => CuCore
<1> SUFFICES ASSUME CuInit PROVE CuCore
  OBVIOUS
<1> USE DEF CuInit
<1>1. NewConfig \in ReserveConfig /\ Holds(NewConfig)
  BY HeldValues DEF NewConfig, ReserveConfig, Holds, Value
<1>2. NewMarket \in [MarketSetting -> Value] /\ NewMarket \in MarketConfig
  BY DEF NewMarket, MarketConfig, Value, HeldInMarket, Wide
<1>3. IInv
  BY InitInv
<1>4. LedgerOK
  BY <1>1, <1>2, AdminAssumption DEF LedgerOK, Topic
<1>5. FilesOK
  BY <1>1, <1>2 DEF FilesOK
<1>6. ObjectsOK
  BY DEF ObjectsOK, IsList
<1>7. CommandsOK
  BY BoundAssumption DEF CommandsOK, IsList
<1>8. StepOK
  BY DEF StepOK, Running
<1>9. KnownTx
  BY TxAssumption DEF KnownTx, Sent, Init
<1> QED BY <1>3, <1>4, <1>5, <1>6, <1>7, <1>8, <1>9 DEF CuCore

LEMMA InitProgress == CuInit => MarketProgress /\ RoundsProgress
BY DEF CuInit, MarketProgress, RoundsProgress, TwoUpdates

-----------------------------------------------------------------------------
(* Configuration objects.                                                  *)

\* Objects are added, and keep their class and their input.
Extends(objs, more) ==
  \A i \in DOMAIN objs : /\ i \in DOMAIN more
                         /\ more[i].class = objs[i].class /\ more[i].input = objs[i].input

LEMMA AddedStays ==
  ASSUME NEW r, NEW objs, NEW more, AddedOK(r, objs), Extends(objs, more)
  PROVE  AddedOK(r, more)
BY DEF AddedOK, Extends, OwnInputs

LEMMA CommandStays ==
  ASSUME NEW c, NEW top, NEW objs, NEW more, CommandOK(c, top, objs), Extends(objs, more)
  PROVE  CommandOK(c, top, more)
<1>1. Asked(c, top, objs) => Asked(c, top, more)
  BY DEF Asked, Extends
<1>2. Planned(c, objs) => Planned(c, more)
  <2>1. AddedOK(c.batches[2][1], objs) => AddedOK(c.batches[2][1], more)
    BY AddedStays
  <2> QED BY <2>1 DEF Planned
<1> QED BY <1>1, <1>2 DEF CommandOK

LEMMA CommandsStay ==
  ASSUME LedgerOK, CommandsOK, UNCHANGED <<topic, reserve, market, cmds>>,
         Extends(objects, objects')
  PROVE  LedgerOK' /\ CommandsOK'
<1>1. LedgerOK'
  BY AddedStays DEF LedgerOK
<1>2. CommandsOK'
  BY CommandStays DEF CommandsOK
<1> QED BY <1>1, <1>2

LEMMA InputsAreParameters ==
  ASSUME NEW class \in AssetClass
  PROVE  inputsOf[class] \subseteq Parameter
BY DEF AssetClass, inputsOf, Parameter

\* The constructor writes the inputs of the new object into the shared one.
LEMMA NewAssetConfigCore ==
  ASSUME CuCore, NEW class \in AssetClass, NEW input \in Input, NewAssetConfig(class, input)
  PROVE  CuCore'
<1> USE DEF NewAssetConfig, sendVars, ledgerVars, fileVars, cmdVars, otherVars
<1> PICK n \in Nat : n = Len(objects)
  BY DEF CuCore, ObjectsOK, IsList
<1> PICK o : o = [class |-> class, input |-> input, own |-> <<>>]
  OBVIOUS
<1> PICK more : more = objects'
  OBVIOUS
<1>1. /\ IsList(objects) /\ DOMAIN objects = 1..n
      /\ more = Append(objects, o)
  BY DEF CuCore, ObjectsOK, IsList
<1>2. /\ IsList(more) /\ DOMAIN more = 1..(n + 1) /\ Len(more) = n + 1 /\ more[n + 1] = o
      /\ \A i \in 1..n : more[i] = objects[i]
  <2>1. /\ IsList(Append(objects, o)) /\ Len(Append(objects, o)) = n + 1
        /\ DOMAIN Append(objects, o) = 1..(n + 1) /\ Append(objects, o)[n + 1] = o
        /\ \A i \in 1..n : Append(objects, o)[i] = objects[i]
    BY <1>1, AppendIsList
  <2> QED BY <1>1, <2>1, Zenon
<1>3. o.class = class /\ o.input = input /\ o.own = <<>> /\ DOMAIN o = {"class", "input", "own"}
  OBVIOUS
<1>4. Extends(objects, objects')
  BY <1>1, <1>2 DEF Extends
<1>5. OwnInputs(o, defaults')
  BY <1>3, InputsAreParameters DEF OwnInputs, construct
<1>6. ObjectsOK'
  <2>1. \A i \in 1..(n + 1) :
          /\ DOMAIN more[i] = {"class", "input", "own"}
          /\ more[i].class \in AssetClass
          /\ more[i].own # <<>> => OwnInputs(more[i], more[i].own[1])
    <3> TAKE i \in 1..(n + 1)
    <3>1. i \in 1..n \/ i = n + 1
      OBVIOUS
    <3> QED BY <1>1, <1>2, <1>3, <3>1 DEF CuCore, ObjectsOK
  <2>2. more[Len(more)] = o
    BY <1>2
  <2>3. OwnInputs(more[Len(more)], defaults')
    BY <1>5, <2>2, Zenon
  <2> QED BY <1>2, <2>1, <2>3 DEF ObjectsOK
<1>7. LedgerOK' /\ CommandsOK'
  BY <1>4, CommandsStay DEF CuCore
<1>8. IInv' /\ FilesOK' /\ StepOK' /\ KnownTx'
  BY DEF CuCore, IInv, TypeOK, Unsent, ThrewMeansNoEffect, FilesOK, StepOK, cmd, KnownTx, Sent
<1> QED BY <1>6, <1>7, <1>8 DEF CuCore

LEMMA SetAssetConfigParamsCore ==
  ASSUME CuCore, NEW i \in DOMAIN objects,
         SetAssetConfigParams(i, [p \in Parameter |-> objects[i].input])
  PROVE  CuCore'
<1> USE DEF SetAssetConfigParams, sendVars, ledgerVars, fileVars, cmdVars, otherVars
<1> PICK n \in Nat : n = Len(objects)
  BY DEF CuCore, ObjectsOK, IsList
<1> PICK params : params = [p \in Parameter |-> objects[i].input]
  OBVIOUS
<1>1. IsList(objects) /\ DOMAIN objects = 1..n /\ i \in 1..n
  BY DEF CuCore, ObjectsOK, IsList
<1> PICK o : o = [objects[i] EXCEPT !.own = <<params>>]
  OBVIOUS
<1>2. /\ DOMAIN objects[i] = {"class", "input", "own"}
      /\ objects[i].class \in AssetClass
  BY DEF CuCore, ObjectsOK
<1>3. /\ DOMAIN o = {"class", "input", "own"} /\ o.class = objects[i].class
      /\ o.input = objects[i].input /\ o.own = <<params>>
  BY <1>2
<1> PICK more : more = objects'
  OBVIOUS
<1>4. more = [objects EXCEPT ![i] = o]
  OBVIOUS
<1>5. /\ IsList(more) /\ DOMAIN more = 1..n /\ Len(more) = n /\ more[i] = o
      /\ \A j \in 1..n : j # i => more[j] = objects[j]
  <2>1. objects = [j \in 1..n |-> objects[j]]
    BY <1>1 DEF IsList
  <2>2. more = [j \in 1..n |-> more[j]]
    BY <1>1, <1>4, <2>1
  <2> QED BY <1>1, <1>4, <2>2, FunctionIsList
<1>6. Extends(objects, objects')
  <2>1. \A j \in 1..n : more[j].class = objects[j].class /\ more[j].input = objects[j].input
    BY <1>3, <1>5
  <2> QED BY <1>1, <1>5, <2>1 DEF Extends
<1>7. OwnInputs(o, params)
  BY <1>2, <1>3, InputsAreParameters DEF OwnInputs
<1>8. ObjectsOK'
  <2>1. \A j \in 1..n :
          /\ DOMAIN more[j] = {"class", "input", "own"}
          /\ more[j].class \in AssetClass
          /\ more[j].own # <<>> => OwnInputs(more[j], more[j].own[1])
    <3> TAKE j \in 1..n
    <3>1. CASE j = i
      <4>1. o.own[1] = params
        BY <1>3
      <4> QED BY <1>2, <1>3, <1>5, <1>7, <3>1, <4>1
    <3>2. CASE j # i
      BY <1>1, <1>5, <3>2 DEF CuCore, ObjectsOK
    <3> QED BY <3>1, <3>2
  <2>2. OwnInputs(more[n], defaults')
    <3>1. OwnInputs(objects[n], defaults)
      BY <1>1 DEF CuCore, ObjectsOK
    <3>2. more[n].class = objects[n].class /\ more[n].input = objects[n].input
      BY <1>1, <1>3, <1>5
    <3> QED BY <3>1, <3>2 DEF OwnInputs
  <2> QED BY <1>5, <2>1, <2>2 DEF ObjectsOK
<1>9. LedgerOK' /\ CommandsOK'
  BY <1>6, CommandsStay DEF CuCore
<1>10. IInv' /\ FilesOK' /\ StepOK' /\ KnownTx'
  BY DEF CuCore, IInv, TypeOK, Unsent, ThrewMeansNoEffect, FilesOK, StepOK, cmd, KnownTx, Sent
<1> QED BY <1>8, <1>9, <1>10 DEF CuCore

-----------------------------------------------------------------------------
(* A command starts.                                                       *)

\* What does not touch the transactions keeps what is known of them.
LEMMA SendKept ==
  ASSUME IInv, UNCHANGED sendVars
  PROVE  IInv'
BY NextInv

Fresh(kind, wanted, cp) ==
  [kind |-> kind, wanted |-> wanted, read |-> <<>>, batches |-> <<>>, owner |-> 0, copy |-> cp]

LEMMA StartCommand ==
  ASSUME CuCore, NEW kind, NEW wanted, Start(kind, wanted),
         UNCHANGED <<sendVars, topic, objects>>,
         Asked(Fresh(kind, wanted, copy'), topic, objects)
  PROVE  /\ IInv' /\ CommandsOK' /\ KnownTx'
         /\ step' = "fetch" /\ cmds' # <<>> /\ cmd' = Fresh(kind, wanted, copy')
         /\ Len(cmds') = Len(cmds) + 1 /\ DOMAIN cmds' = 1..(Len(cmds) + 1)
         /\ \A c \in 1..Len(cmds) : cmds'[c] = cmds[c]
<1> PICK n \in Nat : n = Len(cmds)
  BY DEF CuCore, CommandsOK, IsList
<1> PICK new : new = Fresh(kind, wanted, copy')
  OBVIOUS
<1> PICK more : more = cmds'
  OBVIOUS
<1>1. IsList(cmds) /\ DOMAIN cmds = 1..n /\ more = Append(cmds, new) /\ step' = "fetch"
  BY DEF CuCore, CommandsOK, IsList, Start, Fresh
<1>2. /\ IsList(more) /\ Len(more) = n + 1 /\ DOMAIN more = 1..(n + 1) /\ more[n + 1] = new
      /\ \A c \in 1..n : more[c] = cmds[c]
  <2>1. /\ IsList(Append(cmds, new)) /\ Len(Append(cmds, new)) = n + 1
        /\ DOMAIN Append(cmds, new) = 1..(n + 1) /\ Append(cmds, new)[n + 1] = new
        /\ \A c \in 1..n : Append(cmds, new)[c] = cmds[c]
    BY <1>1, AppendIsList
  <2> QED BY <1>1, <2>1, Zenon
<1>3. IInv'
  BY SendKept DEF CuCore
<1>4. CommandOK(new, topic, objects)
  <2>1. DOMAIN new = Fields /\ new.read = <<>> /\ new.batches = <<>>
    BY DEF Fresh, Fields
  <2>2. Len(new.batches) \in 0..MaxBatches
    BY <2>1, BoundAssumption
  <2> QED BY <2>1, <2>2 DEF CommandOK
<1>5. CommandsOK'
  <2>1. \A c \in 1..(n + 1) : CommandOK(more[c], topic, objects)
    <3> TAKE c \in 1..(n + 1)
    <3>1. c \in 1..n \/ c = n + 1
      OBVIOUS
    <3> QED BY <1>1, <1>2, <1>4, <3>1 DEF CuCore, CommandsOK
  <2>2. n + 1 <= MaxCalls
    BY BoundAssumption DEF Start
  <2>3. topic' = topic /\ objects' = objects
    OBVIOUS
  <2>4. \A c \in DOMAIN more : CommandOK(more[c], topic', objects')
    BY <1>2, <2>1, <2>3
  <2> QED BY <1>2, <2>2, <2>4 DEF CommandsOK
<1>6. KnownTx'
  <2>1. \A t \in Tx : Sent(t)' <=> Sent(t)
    BY DEF Sent, sendVars
  <2>2. \A t \in Tx : Sent(t) => t[1] \in 1..n /\ t[2] \in 1..Len(cmds[t[1]].batches)
    BY <1>1 DEF CuCore, KnownTx
  <2>3. \A t \in Tx : Sent(t) => t[1] \in DOMAIN more /\ t[2] \in 1..Len(more[t[1]].batches)
    <3> TAKE t \in Tx
    <3> HAVE Sent(t)
    <3>1. t[1] \in 1..n /\ t[2] \in 1..Len(cmds[t[1]].batches)
      BY <2>2
    <3>2. more[t[1]] = cmds[t[1]] /\ t[1] \in 1..(n + 1)
      BY <1>2, <3>1
    <3> QED BY <1>2, <3>1, <3>2
  <2> QED BY <2>1, <2>3 DEF KnownTx
<1>7. cmd' = new
  BY <1>2 DEF cmd
<1>8. cmds' # <<>>
  BY <1>2
<1> QED BY <1>1, <1>2, <1>3, <1>5, <1>6, <1>7, <1>8

\* So long as it fetches, nothing is said of how far a command is.
LEMMA StartProgress ==
  ASSUME CuCore, RoundsProgress, step' = "fetch",
         Len(cmds') = Len(cmds) + 1, DOMAIN cmds' = 1..(Len(cmds) + 1),
         \A c \in 1..Len(cmds) : cmds'[c] = cmds[c], cmds'[Len(cmds')].read = <<>>,
         UNCHANGED <<reserve, outcome, others>>
  PROVE  MarketProgress' /\ RoundsProgress'
<1> PICK n \in Nat : n = Len(cmds)
  BY DEF CuCore, CommandsOK, IsList
<1>1. MarketProgress'
  BY DEF MarketProgress
<1>2. RoundsProgress'
  <2> SUFFICES ASSUME TwoUpdates'
               PROVE  reserve = IF done(1) THEN updated(cmds'[1].read, cmds'[1])
                                ELSE cmds'[1].read
    BY DEF RoundsProgress, done, updated
  <2>1. Len(cmds') \in {1, 2} /\ cmds'[1].read # <<>> /\ others = 0
        /\ \A c \in DOMAIN cmds' : cmds'[c].kind = "updateReserve"
    BY DEF TwoUpdates
  <2>2. n = 1 /\ Len(cmds') = 2
    BY <2>1
  <2>3. cmds'[1] = cmds[1] /\ DOMAIN cmds = {1}
    <3>1. IsList(cmds)
      BY DEF CuCore, CommandsOK
    <3>2. DOMAIN cmds = 1..n
      BY <3>1 DEF IsList
    <3> QED BY <2>2, <3>2
  <2>4. TwoUpdates
    BY <2>1, <2>2, <2>3 DEF TwoUpdates
  <2> QED BY <2>2, <2>3, <2>4 DEF RoundsProgress
<1> QED BY <1>1, <1>2

LEMMA StartInv ==
  ASSUME CuIInv, NEW kind, NEW wanted, Start(kind, wanted), LedgerOK', FilesOK', ObjectsOK',
         UNCHANGED <<sendVars, topic, objects, reserve, others>>,
         Asked(Fresh(kind, wanted, copy'), topic, objects),
         kind = "updateOracle" => /\ loaded' \in ReserveConfig
                                  /\ \A s \in ReserveSetting \ OracleSettings :
                                       wanted[s] = loaded'[s]
  PROVE  CuIInv'
<1>1. /\ IInv' /\ CommandsOK' /\ KnownTx'
      /\ step' = "fetch" /\ cmds' # <<>> /\ cmd' = Fresh(kind, wanted, copy')
      /\ Len(cmds') = Len(cmds) + 1 /\ DOMAIN cmds' = 1..(Len(cmds) + 1)
      /\ \A c \in 1..Len(cmds) : cmds'[c] = cmds[c]
  BY StartCommand DEF CuIInv
<1>2. cmd'.read = <<>> /\ cmd'.kind = kind /\ cmd'.wanted = wanted
  BY <1>1 DEF Fresh
<1>3. StepOK'
  BY <1>1, <1>2 DEF StepOK, Running
<1>4. cmds'[Len(cmds')].read = <<>>
  BY <1>2 DEF cmd
<1>5. MarketProgress' /\ RoundsProgress'
  <2>1. UNCHANGED outcome
    BY DEF sendVars
  <2> QED BY <1>1, <1>4, <2>1, StartProgress DEF CuIInv
<1> QED BY <1>1, <1>3, <1>5 DEF CuIInv, CuCore

\* The settings that a file names are overwritten, the others stay.
LEMMA EditedFile ==
  ASSUME CuCore, NEW edits, \A s \in DOMAIN edits : s \in ReserveSetting /\ edits[s] \in Value,
         file' = [s \in ReserveSetting |-> IF s \in DOMAIN edits THEN edits[s] ELSE file[s]],
         copy' = [copy EXCEPT !.edited = @ \union DOMAIN edits],
         UNCHANGED <<marketFile, loaded, topic>>
  PROVE  /\ FilesOK'
         /\ parseReserveConfigFromFile(file') \in ReserveConfig
         /\ FromCopy(parseReserveConfigFromFile(file'), copy')
<1>1. file \in ReserveConfig /\ \A s \in ReserveSetting : file[s] \in Value
  BY ConfigIs DEF CuCore, FilesOK
<1>2. file' \in ReserveConfig /\ \A s \in ReserveSetting : file'[s] \in Value
  BY <1>1 DEF ReserveConfig
<1>3. DOMAIN copy' = {"base", "edited"} /\ copy'.base = copy.base
      /\ copy'.edited = copy.edited \cup DOMAIN edits
  BY DEF CuCore, FilesOK
<1>4. \A s \in ReserveSetting \ (copy'.edited \union {"protocolTakeRatePct"}) :
        file'[s] = copy'.base[s]
  <2> TAKE s \in ReserveSetting \ (copy'.edited \union {"protocolTakeRatePct"})
  <2>1. s \notin DOMAIN edits /\ s \in ReserveSetting \ (copy.edited \union {"protocolTakeRatePct"})
    BY <1>3
  <2>2. file'[s] = file[s]
    BY <2>1
  <2> QED BY <1>3, <2>1, <2>2 DEF CuCore, FilesOK
<1>5. FilesOK'
  BY <1>2, <1>3, <1>4 DEF CuCore, FilesOK
<1>6. parseReserveConfigFromFile(file') \in ReserveConfig
  BY <1>2, SettingNames DEF parseReserveConfigFromFile, ReserveConfig, Value
<1>7. FromCopy(parseReserveConfigFromFile(file'), copy')
  BY <1>4 DEF FromCopy, parseReserveConfigFromFile
<1> QED BY <1>5, <1>6, <1>7

\* What others leave alone.
LEMMA LedgerKept ==
  ASSUME LedgerOK, UNCHANGED <<topic, reserve, market, objects>>
  PROVE  LedgerOK'
BY DEF LedgerOK

LEMMA ObjectsKept ==
  ASSUME ObjectsOK, UNCHANGED <<objects, defaults>>
  PROVE  ObjectsOK'
BY DEF ObjectsOK

LEMMA FilesKept ==
  ASSUME FilesOK, UNCHANGED <<file, marketFile, copy, loaded, topic>>
  PROVE  FilesOK'
BY DEF FilesOK

LEMMA UpdateReserveConfigInv ==
  ASSUME CuIInv, NEW edits \in ReserveEdits \cup EntireEdits, NEW entire,
         UpdateReserveConfig(edits, entire)
  PROVE  CuIInv'
<1> USE DEF UpdateReserveConfig, ledgerVars, objectVars, otherVars
<1> DEFINE kind == IF entire THEN "entireReserve" ELSE "updateReserve"
           wanted == parseReserveConfigFromFile(file')
<1>1. FilesOK' /\ wanted \in ReserveConfig /\ FromCopy(wanted, copy')
  BY EditsAssumption, EditedFile DEF CuIInv
<1>2. LedgerOK' /\ ObjectsOK'
  BY LedgerKept, ObjectsKept DEF CuIInv, CuCore
<1>3. topic = "reserve"
  BY ConfiguredIs DEF CuIInv, CuCore
<1>4. Start(kind, wanted)
  OBVIOUS
<1>5. kind \in {"entireReserve", "updateReserve"}
  OBVIOUS
<1> HIDE DEF kind, wanted
<1>6. Asked(Fresh(kind, wanted, copy'), topic, objects)
  BY <1>1, <1>3, <1>5 DEF Asked, Fresh
<1> QED BY <1>1, <1>2, <1>4, <1>5, <1>6, StartInv

LEMMA UpdateLendingMarketFromConfigInv ==
  ASSUME CuIInv, NEW edits \in MarketEdits, UpdateLendingMarketFromConfig(edits)
  PROVE  CuIInv'
<1> USE DEF UpdateLendingMarketFromConfig, ledgerVars, objectVars, otherVars
<1>1. marketFile' \in [MarketSetting -> Value]
  BY EditsAssumption DEF CuIInv, CuCore, FilesOK
<1>2. FilesOK'
  BY <1>1 DEF CuIInv, CuCore, FilesOK
<1>3. LedgerOK' /\ ObjectsOK'
  BY LedgerKept, ObjectsKept DEF CuIInv, CuCore
<1>4. Asked(Fresh("updateMarket", marketFile', copy'), topic, objects)
  BY <1>1 DEF Asked, Fresh
<1> QED BY <1>2, <1>3, <1>4, StartInv

LEMMA UpdateLendingMarketOwnerInv ==
  ASSUME CuIInv, UpdateLendingMarketOwner
  PROVE  CuIInv'
<1> USE DEF UpdateLendingMarketOwner, ledgerVars, objectVars, otherVars, fileVars
<1>1. FilesOK' /\ LedgerOK' /\ ObjectsOK'
  BY FilesKept, LedgerKept, ObjectsKept DEF CuIInv, CuCore
<1>2. Asked(Fresh("updateOwner", <<>>, copy'), topic, objects)
  BY DEF Asked, Fresh
<1> QED BY <1>1, <1>2, StartInv

LEMMA AddAssetToMarketInv ==
  ASSUME CuIInv, NEW i \in DOMAIN objects, AddAssetToMarket(i)
  PROVE  CuIInv'
<1> USE DEF AddAssetToMarket, ledgerVars, objectVars, otherVars, fileVars
<1>1. FilesOK' /\ LedgerOK' /\ ObjectsOK'
  BY FilesKept, LedgerKept, ObjectsKept DEF CuIInv, CuCore
<1>2. Asked(Fresh("addAsset", i, copy'), topic, objects)
  BY DEF Asked, Fresh
<1> QED BY <1>1, <1>2, StartInv

\* A new oracle changes its settings.
LEMMA OracleConfig ==
  ASSUME NEW config \in ReserveConfig, NEW withTwap \in BOOLEAN
  PROVE  /\ oracleConfig(config, withTwap) \in ReserveConfig
         /\ \A s \in ReserveSetting \ OracleSettings :
              oracleConfig(config, withTwap)[s] = config[s]
<1> PICK new : new = oracleConfig(config, withTwap)
  OBVIOUS
<1>1. DOMAIN new = ReserveSetting
      /\ new = [s \in ReserveSetting |-> new[s]]
  BY ConfigIs DEF oracleConfig, ReserveConfig
<1>2. \A s \in ReserveSetting \ OracleSettings : new[s] = config[s]
  BY ConfigIs DEF oracleConfig, OracleSettings
<1>3. \A s \in ReserveSetting : new[s] \in {0, 1, config[s]}
  BY ConfigIs DEF oracleConfig
<1>4. \A s \in ReserveSetting : new[s] \in Value
  BY <1>3, ConfigIs DEF Value
<1> QED BY <1>1, <1>2, <1>4 DEF ReserveConfig

LEMMA UpdateReserveScopeOracleInv ==
  ASSUME CuIInv, NEW withTwap \in BOOLEAN, UpdateReserveScopeOracle(withTwap)
  PROVE  CuIInv'
<1> USE DEF UpdateReserveScopeOracle, ledgerVars, objectVars, otherVars, fileVars
<1>1. FilesOK' /\ LedgerOK' /\ ObjectsOK'
  BY FilesKept, LedgerKept, ObjectsKept DEF CuIInv, CuCore
<1>2. topic = "reserve" /\ loaded \in ReserveConfig
  BY DEF CuIInv, CuCore, FilesOK
<1> DEFINE wanted == oracleConfig(loaded, withTwap)
<1>3. wanted \in ReserveConfig /\ \A s \in ReserveSetting \ OracleSettings : wanted[s] = loaded[s]
  BY <1>2, OracleConfig
<1>4. Start("updateOracle", wanted)
  OBVIOUS
<1> HIDE DEF wanted
<1>5. Asked(Fresh("updateOracle", wanted, copy'), topic, objects)
  BY <1>2, <1>3 DEF Asked, Fresh
<1> QED BY <1>1, <1>2, <1>3, <1>4, <1>5, StartInv

-----------------------------------------------------------------------------
(* Steps that leave the ledger and the commands alone.                     *)

LEMMA ProgressKept ==
  ASSUME MarketProgress, RoundsProgress,
         UNCHANGED <<reserve, market, cmds, outcome, others, touched>>,
         step' \in {"send", "printed"} => step \in {"send", "printed"}
  PROVE  MarketProgress' /\ RoundsProgress'
<1>1. MarketProgress'
  BY DEF MarketProgress, cmd
<1>2. RoundsProgress'
  BY DEF RoundsProgress, TwoUpdates, done, updated
<1> QED BY <1>1, <1>2

LEMMA KnownKept ==
  ASSUME KnownTx, UNCHANGED cmds, \A t \in Tx : Sent(t)' => Sent(t)
  PROVE  KnownTx'
BY DEF KnownTx

LEMMA CommandsKept ==
  ASSUME CommandsOK, UNCHANGED <<cmds, topic, objects>>
  PROVE  CommandsOK'
BY DEF CommandsOK

LEMMA StepKept ==
  ASSUME StepOK, UNCHANGED <<step, cmds, loaded>>
  PROVE  StepOK'
BY DEF StepOK, cmd

\* No file and no object changes.
LEMMA CoreKept ==
  ASSUME CuCore, UNCHANGED <<topic, file, marketFile, copy, loaded, cmds, objects, defaults>>,
         IInv', LedgerOK', StepOK', KnownTx'
  PROVE  CuCore'
BY FilesKept, ObjectsKept, CommandsKept DEF CuCore

LEMMA NewAssetConfigInv ==
  ASSUME CuIInv, NEW class \in AssetClass, NEW input \in Input, NewAssetConfig(class, input)
  PROVE  CuIInv'
<1>1. CuCore'
  BY NewAssetConfigCore DEF CuIInv
<1>2. UNCHANGED <<reserve, market, cmds, step, outcome, others, touched>>
  BY DEF NewAssetConfig, sendVars, ledgerVars, cmdVars, otherVars
<1>3. MarketProgress' /\ RoundsProgress'
  BY <1>2, ProgressKept DEF CuIInv
<1> QED BY <1>1, <1>2, <1>3 DEF CuIInv

LEMMA SetAssetConfigParamsInv ==
  ASSUME CuIInv, NEW i \in DOMAIN objects,
         SetAssetConfigParams(i, [p \in Parameter |-> objects[i].input])
  PROVE  CuIInv'
<1>1. CuCore'
  BY SetAssetConfigParamsCore DEF CuIInv
<1>2. UNCHANGED <<reserve, market, cmds, step, outcome, others, touched>>
  BY DEF SetAssetConfigParams, sendVars, ledgerVars, cmdVars, otherVars
<1>3. MarketProgress' /\ RoundsProgress'
  BY <1>2, ProgressKept DEF CuIInv
<1> QED BY <1>1, <1>2, <1>3 DEF CuIInv

\* The file is as the reserve but for the take rate.
LEMMA DownloadReserveConfigInv ==
  ASSUME CuIInv, DownloadReserveConfig
  PROVE  CuIInv'
<1> USE DEF DownloadReserveConfig, sendVars, ledgerVars, cmdVars, otherVars, objectVars
<1>1. topic = "reserve" /\ reserve \in ReserveConfig
  BY ConfiguredIs DEF CuIInv, CuCore, Holds
<1>2. file' \in ReserveConfig
  BY <1>1, ConfigIs, SettingNames DEF parseReserveConfigToFile, ReserveConfig
<1>3. \A s \in ReserveSetting \ {"protocolTakeRatePct"} : file'[s] = reserve[s]
  BY <1>1, ConfigIs DEF parseReserveConfigToFile
<1>4. FilesOK'
  BY <1>2, <1>3 DEF CuIInv, CuCore, FilesOK
<1>5. IInv' /\ KnownTx'
  BY SendKept, KnownKept DEF CuIInv, CuCore, Sent
<1>6. LedgerOK' /\ ObjectsOK' /\ CommandsOK' /\ StepOK'
  BY LedgerKept, ObjectsKept, CommandsKept, StepKept DEF CuIInv, CuCore
<1>7. MarketProgress' /\ RoundsProgress'
  BY ProgressKept DEF CuIInv
<1> QED BY <1>4, <1>5, <1>6, <1>7 DEF CuIInv, CuCore

LEMMA LoadReserveInv ==
  ASSUME CuIInv, LoadReserve
  PROVE  CuIInv'
<1> USE DEF LoadReserve, sendVars, ledgerVars, cmdVars, otherVars, objectVars
<1>1. topic = "reserve" /\ reserve \in ReserveConfig
  BY ConfiguredIs DEF CuIInv, CuCore, Holds
<1>2. FilesOK'
  BY <1>1 DEF CuIInv, CuCore, FilesOK
<1>3. IInv' /\ KnownTx'
  BY SendKept, KnownKept DEF CuIInv, CuCore, Sent
<1>4. LedgerOK' /\ ObjectsOK' /\ CommandsOK'
  BY LedgerKept, ObjectsKept, CommandsKept DEF CuIInv, CuCore
<1>5. StepOK'
  BY DEF CuIInv, CuCore, StepOK, cmd, Running
<1>6. MarketProgress' /\ RoundsProgress'
  BY ProgressKept DEF CuIInv
<1> QED BY <1>2, <1>3, <1>4, <1>5, <1>6 DEF CuIInv, CuCore

\* A command ends.
LEMMA EndInv ==
  ASSUME CuIInv, UNCHANGED <<sendVars, topic, reserve, market, file, marketFile, copy, loaded,
                             cmds, objects, defaults, others>>,
         \/ step' = "threw"
         \/ step = "send" /\ step' = "printed" /\ UNCHANGED touched
  PROVE  CuIInv'
<1> USE DEF sendVars
<1>1. IInv' /\ KnownTx'
  BY SendKept, KnownKept DEF CuIInv, CuCore, Sent
<1>2. LedgerOK'
  BY LedgerKept DEF CuIInv, CuCore
<1>3. StepOK'
  BY DEF CuIInv, CuCore, StepOK, cmd, Running
<1>4. CuCore'
  BY <1>1, <1>2, <1>3, CoreKept DEF CuIInv
<1>5. MarketProgress' /\ RoundsProgress'
  <2>1. CASE step' = "threw"
    <3>1. MarketProgress'
      BY <2>1 DEF MarketProgress
    <3>2. RoundsProgress'
      BY DEF CuIInv, RoundsProgress, TwoUpdates, done, updated
    <3> QED BY <3>1, <3>2
  <2>2. CASE step = "send" /\ step' = "printed" /\ UNCHANGED touched
    BY <2>2, ProgressKept DEF CuIInv
  <2> QED BY <2>1, <2>2
<1> QED BY <1>4, <1>5 DEF CuIInv

LEMMA FetchFailsInv == ASSUME CuIInv, FetchFails PROVE CuIInv'
BY EndInv DEF FetchFails, CommandEnds, ledgerVars, fileVars, otherVars, objectVars

LEMMA PrintedInv == ASSUME CuIInv, Printed PROVE CuIInv'
BY EndInv DEF Printed, CommandEnds, ledgerVars, fileVars, otherVars, objectVars

LEMMA StopInv == ASSUME CuIInv, Stop PROVE CuIInv'
BY EndInv DEF Stop, CommandEnds, ledgerVars, fileVars, otherVars, objectVars

-----------------------------------------------------------------------------
(* Sending.                                                                *)

\* The transactions of the commands.
LEMMA BatchTx ==
  ASSUME CuCore, NEW c \in DOMAIN cmds, NEW k \in 1..Len(cmds[c].batches)
  PROVE  <<c, k>> \in Tx /\ c \in 1..MaxCalls /\ k \in 1..MaxBatches
<1>1. IsList(cmds) /\ Len(cmds) <= MaxCalls /\ Len(cmds[c].batches) \in 0..MaxBatches
  BY DEF CuCore, CommandsOK, CommandOK
<1>2. c \in 1..Len(cmds) /\ Len(cmds) \in Nat /\ MaxCalls \in Nat /\ MaxBatches \in Nat
  BY <1>1, BoundAssumption DEF IsList
<1>3. c \in 1..MaxCalls
  BY <1>1, <1>2
<1>4. k \in 1..MaxBatches
  <2> PICK n \in 0..MaxBatches : n = Len(cmds[c].batches)
    BY <1>1
  <2> QED BY <1>2
<1> QED BY <1>3, <1>4, AdminAssumption

LEMMA FirstTx ==
  ASSUME CuCore, NEW c \in DOMAIN cmds
  PROVE  <<c, 1>> \in Tx
<1>1. IsList(cmds) /\ Len(cmds) <= MaxCalls
  BY DEF CuCore, CommandsOK
<1>2. c \in 1..MaxCalls
  BY <1>1, BoundAssumption DEF IsList
<1>3. 1 \in 1..MaxBatches
  BY BoundAssumption
<1> QED BY <1>2, <1>3, AdminAssumption

\* The command under way is the last.
LEMMA LastCommand ==
  ASSUME CuCore, cmds # <<>>
  PROVE  Len(cmds) \in DOMAIN cmds /\ Len(cmds) \in Nat /\ DOMAIN cmds = 1..Len(cmds)
<1>1. IsList(cmds)
  BY DEF CuCore, CommandsOK
<1>2. Len(cmds) \in Nat /\ DOMAIN cmds = 1..Len(cmds) /\ cmds \in Seq(ToSet(cmds))
  BY <1>1 DEF IsList
<1>3. Len(cmds) # 0
  BY <1>2
<1> QED BY <1>2, <1>3

LEMMA SendBatchInv ==
  ASSUME CuIInv, SendBatch
  PROVE  CuIInv'
<1> USE DEF SendBatch, ledgerVars, fileVars, cmdVars, otherVars, objectVars
<1> PICK t : t = <<Len(cmds), sent + 1>>
  OBVIOUS
<1>1. CuCore /\ cmds # <<>> /\ Len(cmds) \in DOMAIN cmds
  BY LastCommand DEF CuIInv, CuCore, StepOK, Running
<1>2. sent \in Nat
  <2>1. sending \in Tx \cup {NoTx}
    BY <1>1 DEF CuCore, IInv, TypeOK
  <2>2. ASSUME sending \in Tx PROVE sending[2] \in 1..MaxBatches
    BY <2>2, AdminAssumption
  <2> QED BY <2>1, <2>2, BoundAssumption DEF sent
<1>3. sent + 1 \in 1..Len(cmds[Len(cmds)].batches)
  <2>1. Len(cmds[Len(cmds)].batches) \in 0..MaxBatches
    BY <1>1 DEF CuCore, CommandsOK, CommandOK
  <2> PICK n \in 0..MaxBatches : n = Len(cmds[Len(cmds)].batches)
    BY <2>1
  <2> QED BY <1>2, BoundAssumption DEF cmd
<1>4. t \in Tx
  BY <1>1, <1>3, BatchTx
<1>5. Call(t)
  OBVIOUS
<1>6. IInv'
  BY <1>1, <1>4, <1>5, CallInv DEF CuCore
<1>7. KnownTx'
  <2>1. \A x \in Tx : Sent(x)' => Sent(x) \/ x = t
    BY <1>5 DEF Call, Sent
  <2>2. t[1] \in DOMAIN cmds /\ t[2] \in 1..Len(cmds[t[1]].batches)
    BY <1>1, <1>3
  <2> QED BY <1>1, <2>1, <2>2 DEF CuCore, KnownTx
<1>8. LedgerOK' /\ StepOK'
  BY <1>1, LedgerKept, StepKept DEF CuCore
<1>9. CuCore'
  BY <1>1, <1>6, <1>7, <1>8, CoreKept
<1>10. UNCHANGED outcome
  BY <1>5 DEF Call
<1>11. MarketProgress' /\ RoundsProgress'
  BY <1>10, ProgressKept DEF CuIInv
<1> QED BY <1>9, <1>11 DEF CuIInv

LEMMA ContinuesInv ==
  ASSUME CuIInv, Continue, NoEffect
  PROVE  CuIInv'
<1> USE DEF NoEffect, ledgerVars, fileVars, cmdVars, otherVars, objectVars
<1>1. UNCHANGED <<sending, outcome>> /\ inFlight' \subseteq inFlight \cup {sending}
  BY DEF Continue, BlockhashFetched, SendAnswered, Confirmed, LandedWithError, GiveUp,
     DetailsFetched, LogsFetched, WaitFor, Throw, Return
<1>2. IInv'
  BY ContinueInv DEF CuIInv, CuCore
<1>3. KnownTx'
  BY <1>1, KnownKept DEF CuIInv, CuCore, Sent
<1>4. LedgerOK' /\ StepOK'
  BY LedgerKept, StepKept DEF CuIInv, CuCore
<1>5. CuCore'
  BY <1>2, <1>3, <1>4, CoreKept DEF CuIInv
<1>6. MarketProgress' /\ RoundsProgress'
  BY <1>1, ProgressKept DEF CuIInv
<1> QED BY <1>5, <1>6 DEF CuIInv

\* A transaction that fails or is dropped leaves the ledger as it is.
LEMMA LostInv ==
  ASSUME CuIInv, NEW t \in inFlight, Land(t, "err") \/ Drop(t), NoEffect
  PROVE  CuIInv'
<1> USE DEF NoEffect, ledgerVars, fileVars, cmdVars, otherVars, objectVars
<1>1. /\ t \in Tx /\ outcome \in [Tx -> {"none", "ok", "err"}] /\ outcome[t] = "none"
      /\ inFlight \subseteq Tx
  BY DEF CuIInv, CuCore, IInv, TypeOK
<1>2. /\ UNCHANGED sending /\ inFlight' \subseteq inFlight
      /\ \A x \in Tx : outcome'[x] = outcome[x] \/ (x = t /\ outcome'[x] = "err")
  BY <1>1 DEF Land, Drop
<1>3. \A x \in Tx : outcome'[x] = "ok" <=> outcome[x] = "ok"
  BY <1>1, <1>2
<1>4. IInv'
  BY <1>1, NetworkInv DEF CuIInv, CuCore, Network
<1>5. KnownTx'
  <2>1. \A x \in Tx : Sent(x)' => Sent(x)
    BY <1>1, <1>2 DEF Sent
  <2> QED BY <2>1, KnownKept DEF CuIInv, CuCore
<1>6. LedgerOK' /\ StepOK'
  BY LedgerKept, StepKept DEF CuIInv, CuCore
<1>7. CuCore'
  BY <1>4, <1>5, <1>6, CoreKept DEF CuIInv
<1>8. MarketProgress'
  <2> SUFFICES ASSUME step \in {"send", "printed"}, cmd.kind = "updateMarket", ~touched,
                      NEW s \in Plain, market[s] # cmd.wanted[s]
               PROVE  \E k \in 1..Len(cmd.batches) :
                        /\ outcome'[<<Len(cmds), k>>] # "ok"
                        /\ Covers(cmd.batches[k], s, cmd.wanted)
    BY DEF MarketProgress, cmd
  <2> PICK k \in 1..Len(cmd.batches) : /\ outcome[<<Len(cmds), k>>] # "ok"
                                       /\ Covers(cmd.batches[k], s, cmd.wanted)
    BY DEF CuIInv, MarketProgress
  <2>1. <<Len(cmds), k>> \in Tx
    BY LastCommand, BatchTx DEF CuIInv, CuCore, StepOK, Running, cmd
  <2> QED BY <1>3, <2>1
<1>9. RoundsProgress'
  <2> SUFFICES ASSUME TwoUpdates PROVE RoundsProgress'
    BY DEF RoundsProgress, TwoUpdates
  <2>1. DOMAIN cmds = 1..Len(cmds) /\ Len(cmds) \in {1, 2}
    BY DEF CuIInv, CuCore, CommandsOK, IsList, TwoUpdates
  <2>2. \A c \in DOMAIN cmds : done(c)' <=> done(c)
    BY <1>3, FirstTx DEF done, CuIInv
  <2>3. done(1)' <=> done(1)
    BY <2>1, <2>2
  <2>4. Len(cmds) = 2 => (done(2)' <=> done(2))
    BY <2>1, <2>2
  <2> HIDE DEF done
  <2> QED BY <2>1, <2>3, <2>4 DEF CuIInv, RoundsProgress, TwoUpdates, updated
<1> QED BY <1>7, <1>8, <1>9 DEF CuIInv

-----------------------------------------------------------------------------
(* The ledger changes.                                                     *)

\* What another administrator sets, an account can hold.
LEMMA OtherChangeInv ==
  ASSUME CuIInv, NEW edits \in OtherEdits, OtherChange(edits)
  PROVE  CuIInv'
<1> USE DEF OtherChange, sendVars, fileVars, cmdVars, objectVars
<1>1. topic = "reserve" /\ Holds(reserve)
  BY ConfiguredIs DEF CuIInv, CuCore
<1>2. \A s \in ReserveSetting : reserve'[s] \in Held(s) /\ reserve'[s] \in Value
  BY <1>1, EditsAssumption, HeldValues DEF Holds
<1>3. Holds(reserve')
  BY <1>2 DEF Holds, ReserveConfig
<1>4. LedgerOK'
  BY <1>1, <1>3 DEF CuIInv, CuCore, LedgerOK
<1>5. IInv' /\ KnownTx'
  BY SendKept, KnownKept DEF CuIInv, CuCore, Sent
<1>6. StepOK'
  BY StepKept DEF CuIInv, CuCore
<1>7. CuCore'
  BY <1>4, <1>5, <1>6, CoreKept DEF CuIInv
<1>8. MarketProgress'
  BY DEF CuIInv, MarketProgress, cmd
<1>9. others' \in Nat /\ others' # 0
  BY DEF CuIInv
<1>10. RoundsProgress'
  BY <1>9 DEF RoundsProgress, TwoUpdates
<1> QED BY <1>7, <1>8, <1>9, <1>10 DEF CuIInv

\* The transaction on its way that lands is a planned batch.
Lands(t) ==
  /\ t \in Tx /\ outcome[t] = "none" /\ outcome'[t] = "ok"
  /\ t[1] \in DOMAIN cmds /\ t[2] \in 1..Len(cmdOf(t).batches)
  /\ t = <<t[1], t[2]>>
  /\ cmdOf(t).read # <<>> /\ Planned(cmdOf(t), objects) /\ Asked(cmdOf(t), topic, objects)
  /\ \A x \in Tx : outcome'[x] = IF x = t THEN "ok" ELSE outcome[x]

LEMMA LandsAre ==
  ASSUME CuCore, NEW t \in inFlight, Land(t, "ok")
  PROVE  Lands(t)
<1>1. t \in Tx /\ outcome[t] = "none" /\ outcome \in [Tx -> {"none", "ok", "err"}]
  BY DEF CuCore, IInv, TypeOK
<1>2. \A x \in Tx : outcome'[x] = IF x = t THEN "ok" ELSE outcome[x]
  BY <1>1 DEF Land
<1>3. t[1] \in DOMAIN cmds /\ t[2] \in 1..Len(cmdOf(t).batches)
  BY <1>1 DEF CuCore, KnownTx, Sent, cmdOf
<1>4. CommandOK(cmdOf(t), topic, objects)
  BY <1>3 DEF CuCore, CommandsOK, cmdOf
<1>5. cmdOf(t).read # <<>> /\ Planned(cmdOf(t), objects) /\ Asked(cmdOf(t), topic, objects)
  <2>1. cmdOf(t).batches # <<>>
    BY <1>3
  <2> QED BY <1>4, <2>1 DEF CommandOK
<1>6. t = <<t[1], t[2]>>
  BY <1>1, AdminAssumption
<1> QED BY <1>1, <1>2, <1>3, <1>5, <1>6 DEF Lands

\* An update of the reserve has a single batch.
LEMMA ReserveLands ==
  ASSUME CuCore, NEW t, Lands(t), cmdOf(t).kind \in {"updateReserve", "updateOracle"}
  PROVE  /\ topic = "reserve" /\ Holds(reserve) /\ cmdOf(t).wanted \in ReserveConfig
         /\ t[2] = 1 /\ reserveEncodes(cmdOf(t).read, cmdOf(t).wanted)
         /\ reserveAfter(t) = updated(reserve, cmdOf(t)) /\ Holds(updated(reserve, cmdOf(t)))
<1> PICK c : c = cmdOf(t)
  OBVIOUS
<1>1. /\ topic = "reserve" /\ c.wanted \in ReserveConfig
      /\ t[2] \in 1..Len(c.batches) /\ PlannedReserve(c)
  BY DEF Lands, Asked, Planned
<1>2. Holds(reserve)
  BY <1>1 DEF CuCore, LedgerOK
<1>3. reserveEncodes(c.read, c.wanted) /\ c.batches = <<updateReserveIxs(c.read, c.wanted)>>
  BY <1>1 DEF PlannedReserve
<1>4. t[2] = 1 /\ c.batches[t[2]] = updateReserveIxs(c.read, c.wanted)
  BY <1>1, <1>3
<1>5. reserveAfter(t) = runReserveIxs(reserve, updateReserveIxs(c.read, c.wanted))
  BY <1>4 DEF reserveAfter, Creates, Configures, batchOf
<1>6. /\ runReserveIxs(reserve, updateReserveIxs(c.read, c.wanted))
           = Overwritten(reserve, Changed(c.read, c.wanted), c.wanted)
      /\ Holds(Overwritten(reserve, Changed(c.read, c.wanted), c.wanted))
  BY <1>1, <1>2, <1>3, UpdateHolds
<1> QED BY <1>1, <1>2, <1>3, <1>4, <1>5, <1>6 DEF updated

LEMMA EntireLands ==
  ASSUME CuCore, NEW t, Lands(t), cmdOf(t).kind = "entireReserve"
  PROVE  topic = "reserve" /\ Holds(reserveAfter(t))
<1> PICK c : c = cmdOf(t)
  OBVIOUS
<1> PICK ix : ix = updateEntireReserveConfigIx(c.wanted)
  OBVIOUS
<1>1. /\ topic = "reserve" /\ c.wanted \in ReserveConfig
      /\ t[2] \in 1..Len(c.batches) /\ encodesEntirely(c.wanted)
      /\ c.batches = << <<ix>> >>
  BY DEF Lands, Asked, Planned
<1>2. c.batches[t[2]] = <<ix>>
  BY <1>1
<1>3. reserveAfter(t) = runReserveIxs(reserve, <<ix>>)
  BY <1>2 DEF reserveAfter, Creates, Configures, batchOf
<1>4. Holds(c.wanted)
  BY <1>1 DEF Holds, encodesEntirely
<1>5. runReserveIxs(reserve, <<ix>>) = runReserveIx(reserve, ix)
  BY OneIx
<1>6. runReserveIx(reserve, ix) = c.wanted
  BY EntireIxWrites
<1> QED BY <1>1, <1>3, <1>4, <1>5, <1>6

LEMMA AddLands ==
  ASSUME CuCore, NEW t, Lands(t), cmdOf(t).kind = "addAsset"
  PROVE  /\ topic = "adding"
         /\ reserveAfter(t) = [created |-> TRUE] \/ AddedOK(reserveAfter(t), objects)
<1> PICK c : c = cmdOf(t)
  OBVIOUS
<1> PICK r : r = c.batches[2][1]
  OBVIOUS
<1>1. /\ topic = "adding" /\ t[2] \in 1..Len(c.batches)
      /\ c.batches = << <<"createReserve">>, <<r>> >> /\ AddedOK(r, objects)
  BY DEF Lands, Asked, Planned
<1>2. t[2] \in {1, 2} /\ c.batches[2][1] = r
  BY <1>1
<1>3. t[2] = 1 => reserveAfter(t) = [created |-> TRUE]
  BY DEF reserveAfter, Creates
<1>4. t[2] = 2 => reserveAfter(t) = r
  BY <1>2 DEF reserveAfter, Creates, Configures, batchOf
<1> QED BY <1>1, <1>2, <1>3, <1>4

\* The batches of a market's update are about the settings that differ, each in
\* one of them.
LEMMA MarketBatches ==
  ASSUME NEW old, NEW new \in [MarketSetting -> Value],
         marketEncodes(marketChanges(old, new), new)
  PROVE  /\ Len(chunks(updateLendingMarketIxs(old, new))) \in 0..MaxBatches
         /\ DOMAIN chunks(updateLendingMarketIxs(old, new))
              = 1..Len(chunks(updateLendingMarketIxs(old, new)))
         /\ \A k \in DOMAIN chunks(updateLendingMarketIxs(old, new)) :
              Updates(chunks(updateLendingMarketIxs(old, new))[k], new)
         /\ \A s \in MarketSetting :
              old[s] # new[s] => \E k \in DOMAIN chunks(updateLendingMarketIxs(old, new)) :
                Covers(chunks(updateLendingMarketIxs(old, new))[k], s, new)
<1> PICK changes : changes = marketChanges(old, new)
  OBVIOUS
<1> PICK ixs : ixs = updateLendingMarketIxs(old, new)
  OBVIOUS
<1>1. /\ IsList(changes) /\ Len(changes) <= 18
      /\ ToSet(changes) = {s \in MarketSetting : old[s] # new[s]}
  BY MarketChanges
<1> PICK n \in Nat : n = Len(changes)
  BY <1>1 DEF IsList
<1>2. DOMAIN changes = 1..n
  BY <1>1 DEF IsList
<1>3. ixs = [i \in 1..n |-> updateMarketConfigIx(changes[i], new)]
  BY <1>2, Zenon DEF updateLendingMarketIxs
<1>4. DOMAIN ixs = 1..n /\ \A i \in 1..n : ixs[i] = updateMarketConfigIx(changes[i], new)
  BY <1>3
<1>5. IsList(ixs) /\ Len(ixs) = n
  <2>1. ixs = [i \in 1..n |-> ixs[i]]
    BY <1>3
  <2> QED BY <2>1, FunctionIsList
<1>6. \A i \in 1..n : changes[i] \in MarketSetting /\ Fits(changes[i], new)
  <2> TAKE i \in 1..n
  <2>1. changes[i] \in ToSet(changes)
    BY <1>2 DEF ToSet
  <2>2. changes[i] \in MarketSetting
    BY <1>1, <2>1
  <2>3. new[changes[i]] = Wide => changes[i] = "minNetValueInObligationSf"
    BY <1>2 DEF marketEncodes
  <2> QED BY <2>2, <2>3 DEF Fits
<1> PICK bs : bs = chunks(ixs)
  OBVIOUS
<1>7. /\ IsList(bs) /\ Len(bs) <= MaxBatches
      /\ \A k \in DOMAIN bs : IsList(bs[k]) /\ ToSet(bs[k]) \subseteq ToSet(ixs)
      /\ \A i \in DOMAIN ixs : \E k \in DOMAIN bs : \E j \in DOMAIN bs[k] : bs[k][j] = ixs[i]
  BY <1>1, <1>5, Chunks
<1>8. Len(bs) \in 0..MaxBatches /\ DOMAIN bs = 1..Len(bs)
  BY <1>7, BoundAssumption DEF IsList
<1>9. ASSUME NEW k \in DOMAIN bs
      PROVE  Updates(bs[k], new)
  <2>1. IsList(bs[k]) /\ ToSet(bs[k]) \subseteq ToSet(ixs)
    BY <1>7
  <2>2. ASSUME NEW j \in DOMAIN bs[k]
        PROVE  \E s \in MarketSetting : Fits(s, new) /\ bs[k][j] = updateMarketConfigIx(s, new)
    <3>1. bs[k][j] \in ToSet(ixs)
      BY <2>1 DEF ToSet
    <3>2. PICK i \in 1..n : bs[k][j] = ixs[i]
      BY <1>4, <3>1 DEF ToSet
    <3> QED BY <1>4, <1>6, <3>2
  <2> QED BY <2>1, <2>2 DEF Updates
<1>10. ASSUME NEW s \in MarketSetting, old[s] # new[s]
       PROVE  \E k \in DOMAIN bs : Covers(bs[k], s, new)
  <2>1. s \in ToSet(changes)
    BY <1>1, <1>10
  <2>2. PICK i \in 1..n : changes[i] = s
    BY <1>2, <2>1 DEF ToSet
  <2>3. PICK k \in DOMAIN bs : \E j \in DOMAIN bs[k] : bs[k][j] = ixs[i]
    BY <1>4, <1>7
  <2> QED BY <1>4, <2>2, <2>3 DEF Covers
<1> QED BY <1>8, <1>9, <1>10

LEMMA MarketLands ==
  ASSUME CuCore, NEW t, Lands(t), cmdOf(t).kind = "updateMarket"
  PROVE  /\ topic = "market" /\ marketAfter(t) \in MarketConfig
         /\ \A s \in Plain :
              /\ marketAfter(t)[s] \in {market[s], cmdOf(t).wanted[s]}
              /\ Covers(batchOf(t), s, cmdOf(t).wanted) =>
                   marketAfter(t)[s] = cmdOf(t).wanted[s]
<1> PICK c : c = cmdOf(t)
  OBVIOUS
<1>1. /\ topic = "market" /\ c.wanted \in [MarketSetting -> Value]
      /\ t[2] \in 1..Len(c.batches)
      /\ marketEncodes(marketChanges(c.read, c.wanted), c.wanted)
      /\ c.batches = chunks(updateLendingMarketIxs(c.read, c.wanted))
  BY DEF Lands, Asked, Planned
<1> PICK b : b = batchOf(t)
  OBVIOUS
<1>2. Updates(b, c.wanted)
  <2>1. \A k \in DOMAIN c.batches : Updates(c.batches[k], c.wanted)
    BY <1>1, MarketBatches
  <2>2. DOMAIN c.batches = 1..Len(c.batches)
    BY <1>1, MarketBatches
  <2> QED BY <1>1, <2>1, <2>2 DEF batchOf
<1>3. market \in MarketConfig
  BY DEF CuCore, LedgerOK
<1>4. marketAfter(t) = runMarketIxs(market, b)
  BY DEF marketAfter
<1> QED BY <1>1, <1>2, <1>3, <1>4, MarketIxsWrite

LEMMA OwnerLands ==
  ASSUME CuCore, NEW t, Lands(t), cmdOf(t).kind = "updateOwner"
  PROVE  topic = "market" /\ marketAfter(t) \in MarketConfig
<1>1. topic = "market"
  BY DEF Lands, Asked
<1>2. market \in MarketConfig
  BY DEF CuCore, LedgerOK
<1>3. Owners \subseteq MarketSetting
  BY MarketKeys
<1>4. [market EXCEPT !.lendingMarketOwner = market.lendingMarketOwnerCached] \in MarketConfig
  BY <1>2, <1>3 DEF MarketConfig, Owners, HeldInMarket, MarketBigNumbers
<1> QED BY <1>1, <1>4 DEF marketAfter

\* What lands leaves what the accounts can hold.
LEMMA ExecuteLedger ==
  ASSUME CuCore, NEW t \in inFlight, ExecuteWell(t)
  PROVE  LedgerOK' /\ Lands(t)
<1>1. Lands(t)
  BY LandsAre DEF ExecuteWell
<1>2. UNCHANGED <<topic, objects>>
  BY DEF ExecuteWell, objectVars
<1>3. CASE cmdOf(t).kind \in OfMarket
  <2>1. topic = "market" /\ marketAfter(t) \in MarketConfig
    BY <1>1, <1>3, MarketLands, OwnerLands DEF OfMarket
  <2>2. market' = marketAfter(t) /\ UNCHANGED reserve
    BY <1>3 DEF ExecuteWell
  <2> QED BY <1>1, <1>2, <2>1, <2>2 DEF CuCore, LedgerOK
<1>4. CASE cmdOf(t).kind \notin OfMarket
  <2>1. reserve' = reserveAfter(t) /\ UNCHANGED market
    BY <1>4 DEF ExecuteWell
  <2>2. cmdOf(t).kind \in {"updateReserve", "updateOracle"} \/ cmdOf(t).kind = "entireReserve"
          \/ cmdOf(t).kind = "addAsset"
    BY <1>1, <1>4 DEF Lands, Asked, OfMarket
  <2>3. \/ topic = "reserve" /\ Holds(reserve')
        \/ topic = "adding" /\ (reserve' = [created |-> TRUE] \/ AddedOK(reserve', objects))
    BY <1>1, <2>1, <2>2, ReserveLands, EntireLands, AddLands
  <2> QED BY <1>1, <1>2, <2>1, <2>3 DEF CuCore, LedgerOK
<1> QED BY <1>1, <1>3, <1>4

LEMMA ExecuteWellInv ==
  ASSUME CuIInv, NEW t \in inFlight, ExecuteWell(t)
  PROVE  CuIInv'
<1>1. CuCore /\ LedgerOK' /\ Lands(t)
  BY ExecuteLedger DEF CuIInv
<1>2. /\ UNCHANGED <<sending, topic, file, marketFile, copy, loaded, cmds, step, others,
                     objects, defaults>>
      /\ Land(t, "ok") /\ inFlight' \subseteq inFlight
  BY DEF ExecuteWell, fileVars, cmdVars, objectVars, Land
<1>3. IInv'
  BY <1>1, <1>2, NetworkInv DEF CuCore, Network, Lands
<1>4. KnownTx'
  <2>1. \A x \in Tx : Sent(x)' => Sent(x)
    BY <1>1, <1>2 DEF Sent, Lands
  <2> QED BY <1>1, <1>2, <2>1, KnownKept DEF CuCore
<1>5. StepOK'
  BY <1>1, <1>2, StepKept DEF CuCore
<1>6. CuCore'
  BY <1>1, <1>2, <1>3, <1>4, <1>5, CoreKept
<1>7. MarketProgress'
  <2> SUFFICES ASSUME step \in {"send", "printed"}, cmd.kind = "updateMarket", ~touched',
                      NEW s \in Plain, market'[s] # cmd.wanted[s]
               PROVE  \E k \in 1..Len(cmd.batches) :
                        /\ outcome'[<<Len(cmds), k>>] # "ok"
                        /\ Covers(cmd.batches[k], s, cmd.wanted)
    BY <1>2 DEF MarketProgress, cmd
  <2>1. Len(cmds) \in DOMAIN cmds /\ DOMAIN cmds = 1..Len(cmds) /\ Len(cmds) \in Nat
    BY <1>1, LastCommand DEF CuCore, StepOK
  <2>2. topic = "market"
    BY <1>1, <2>1 DEF CuCore, CommandsOK, CommandOK, Asked, cmd
  <2>3. cmdOf(t).kind \in OfMarket
    BY <1>1, <2>2 DEF Lands, Asked, OfMarket
  <2>4. ~touched /\ t[1] = Len(cmds) /\ cmdOf(t) = cmd /\ market' = marketAfter(t)
    <3>1. touched' = (touched \/ t[1] < Len(cmds)) /\ market' = marketAfter(t)
      BY <2>3 DEF ExecuteWell
    <3>2. t[1] \in 1..Len(cmds)
      BY <1>1, <2>1 DEF Lands
    <3>3. ~touched /\ ~(t[1] < Len(cmds))
      BY <3>1, Zenon
    <3>4. t[1] = Len(cmds)
      BY <2>1, <3>2, <3>3
    <3> QED BY <3>1, <3>3, <3>4 DEF cmdOf, cmd
  <2>5. /\ marketAfter(t)[s] \in {market[s], cmd.wanted[s]}
        /\ Covers(batchOf(t), s, cmd.wanted) => marketAfter(t)[s] = cmd.wanted[s]
    BY <1>1, <2>4, MarketLands
  <2>6. PICK k \in 1..Len(cmd.batches) : /\ outcome[<<Len(cmds), k>>] # "ok"
                                         /\ Covers(cmd.batches[k], s, cmd.wanted)
    BY <2>4, <2>5 DEF CuIInv, MarketProgress
  <2>7. k # t[2]
    BY <2>4, <2>5, <2>6 DEF batchOf
  <2>8. <<Len(cmds), k>> \in Tx /\ <<Len(cmds), k>> # t
    BY <1>1, <2>1, <2>7, BatchTx DEF cmd
  <2> QED BY <1>1, <2>6, <2>8 DEF Lands
<1>8. RoundsProgress'
  <2> SUFFICES ASSUME TwoUpdates PROVE RoundsProgress'
    BY <1>2 DEF RoundsProgress, TwoUpdates
  <2>1. DOMAIN cmds = 1..Len(cmds) /\ Len(cmds) \in {1, 2} /\ cmds[1].read # <<>>
    BY <1>1 DEF CuCore, CommandsOK, IsList, TwoUpdates
  <2>2. /\ t[1] \in 1..Len(cmds) /\ cmds[t[1]].read # <<>>
        /\ cmds[t[1]].kind = "updateReserve" /\ cmdOf(t) = cmds[t[1]]
    BY <1>1, <2>1 DEF Lands, cmdOf, TwoUpdates
  <2>3. t[2] = 1 /\ t = <<t[1], 1>> /\ reserve' = updated(reserve, cmds[t[1]])
    <3>1. t[2] = 1 /\ reserveAfter(t) = updated(reserve, cmdOf(t))
      BY <1>1, <2>2, ReserveLands
    <3>2. reserve' = reserveAfter(t)
      BY <2>2 DEF ExecuteWell, OfMarket
    <3> QED BY <1>1, <2>2, <3>1, <3>2 DEF Lands
  <2>4. ~done(t[1]) /\ done(t[1])'
    BY <1>1, <1>2, <2>3 DEF Lands, done
  <2>5. \A c \in DOMAIN cmds : c # t[1] => (done(c)' <=> done(c))
    <3> TAKE c \in DOMAIN cmds
    <3> HAVE c # t[1]
    <3>1. <<c, 1>> \in Tx /\ <<c, 1>> # t
      BY <1>1, <2>3, FirstTx
    <3> QED BY <1>1, <1>2, <3>1 DEF Lands, done
  <2>6. CASE Len(cmds) = 1 \/ cmds[Len(cmds)].read = <<>>
    <3>1. t[1] = 1
      BY <2>1, <2>2, <2>6
    <3>2. reserve = cmds[1].read
      BY <2>4, <2>6, <3>1 DEF CuIInv, RoundsProgress
    <3>3. reserve' = updated(cmds[1].read, cmds[1]) /\ done(1)'
      BY <2>3, <2>4, <3>1, <3>2
    <3> HIDE DEF done
    <3> QED BY <1>2, <2>6, <3>3 DEF RoundsProgress, updated
  <2>7. CASE ~(Len(cmds) = 1 \/ cmds[Len(cmds)].read = <<>>)
    <3>1. Len(cmds) = 2
      BY <2>1, <2>7
    <3> SUFFICES ASSUME cmds[2].read # cmds[1].read
                 PROVE  /\ done(1)' /\ cmds[2].read = updated(cmds[1].read, cmds[1])
                        /\ reserve' = IF done(2)' THEN updated(cmds[2].read, cmds[2])
                                      ELSE cmds[2].read
      BY <1>2, <2>7, <3>1 DEF RoundsProgress, updated
    <3>2. /\ done(1) /\ cmds[2].read = updated(cmds[1].read, cmds[1])
          /\ reserve = IF done(2) THEN updated(cmds[2].read, cmds[2]) ELSE cmds[2].read
      BY <2>7, <3>1 DEF CuIInv, RoundsProgress
    <3>3. t[1] = 2
      BY <2>2, <2>4, <3>1, <3>2
    <3>4. done(1)'
      BY <2>1, <2>5, <3>1, <3>2, <3>3
    <3>5. reserve' = updated(cmds[2].read, cmds[2]) /\ done(2)'
      BY <2>3, <2>4, <3>2, <3>3
    <3> QED BY <3>2, <3>4, <3>5
  <2> QED BY <2>6, <2>7
<1> QED BY <1>2, <1>6, <1>7, <1>8 DEF CuIInv

-----------------------------------------------------------------------------
(* A command has fetched its accounts.                                     *)

LEMMA NothingSent ==
  ASSUME CuCore, step = "fetch", NEW k \in 1..MaxBatches
  PROVE  /\ ~Sent(<<Len(cmds), k>>) /\ outcome[<<Len(cmds), k>>] = "none"
         /\ <<Len(cmds), k>> \in Tx
<1> PICK n \in Nat : n = Len(cmds)
  BY DEF CuCore, CommandsOK, IsList
<1>1. n \in DOMAIN cmds /\ cmds[n].read = <<>>
  BY LastCommand DEF CuCore, StepOK, Running, cmd
<1>2. cmds[n].batches = <<>>
  BY <1>1 DEF CuCore, CommandsOK, CommandOK
<1>3. <<n, k>> \in Tx
  <2>1. n \in 1..MaxCalls
    BY <1>1, BoundAssumption DEF CuCore, CommandsOK, IsList
  <2> QED BY <2>1, AdminAssumption
<1>4. ~Sent(<<n, k>>)
  <2> SUFFICES ASSUME Sent(<<n, k>>) PROVE FALSE
    OBVIOUS
  <2>1. k \in 1..Len(cmds[n].batches)
    BY <1>3 DEF CuCore, KnownTx
  <2> QED BY <1>2, <2>1
<1> QED BY <1>3, <1>4 DEF Sent

\* What the command under way is to become.
Plans(read, batches) ==
  \A c : c.kind = cmd.kind /\ c.wanted = cmd.wanted /\ c.read = read /\ c.batches = batches
           => Planned(c, objects)

LEMMA PlanCommand ==
  ASSUME CuCore, step = "fetch", NEW read, read # <<>>, NEW batches,
         Len(batches) \in 0..MaxBatches, Plan(read, batches), Plans(read, batches),
         UNCHANGED <<sendVars, topic, file, marketFile, copy, loaded, objects, defaults,
                     reserve, market>>
  PROVE  /\ CuCore'
         /\ step' = "send" /\ Len(cmds') = Len(cmds) /\ DOMAIN cmds' = DOMAIN cmds
         /\ \A c \in DOMAIN cmds : c # Len(cmds) => cmds'[c] = cmds[c]
         /\ cmd'.kind = cmd.kind /\ cmd'.wanted = cmd.wanted
         /\ cmd'.read = read /\ cmd'.batches = batches
<1>1. cmds # <<>>
  BY DEF CuCore, StepOK, Running
<1> PICK n \in Nat : n = Len(cmds) /\ n \in DOMAIN cmds /\ DOMAIN cmds = 1..n
  BY <1>1, LastCommand
<1> PICK more : more = cmds'
  OBVIOUS
<1> PICK owner : owner = market.lendingMarketOwner
  OBVIOUS
<1>2. more = [cmds EXCEPT ![n].read = read, ![n].batches = batches, ![n].owner = owner]
  BY DEF Plan
<1>3. CommandOK(cmds[n], topic, objects) /\ IsList(cmds) /\ n <= MaxCalls
  BY DEF CuCore, CommandsOK
<1>4. DOMAIN cmds[n] = Fields /\ Asked(cmds[n], topic, objects)
  BY <1>3 DEF CommandOK
<1>5. /\ DOMAIN more = 1..n /\ \A c \in 1..n : c # n => more[c] = cmds[c]
      /\ more = [c \in 1..n |-> more[c]]
  <2>1. cmds = [c \in 1..n |-> cmds[c]]
    BY <1>3 DEF IsList
  <2> QED BY <1>2, <2>1
<1> PICK new : new = more[n]
  OBVIOUS
<1>6. /\ DOMAIN new = Fields
      /\ new.kind = cmds[n].kind /\ new.wanted = cmds[n].wanted /\ new.copy = cmds[n].copy
      /\ new.read = read /\ new.batches = batches
  BY <1>2, <1>4 DEF Fields
<1>7. Asked(new, topic, objects)
  BY <1>4, <1>6 DEF Asked
<1>8. Planned(new, objects)
  BY <1>6 DEF cmd, Plans
<1>9. CommandOK(new, topic, objects)
  BY <1>6, <1>7, <1>8 DEF CommandOK
<1>10. IsList(more) /\ Len(more) = n
  BY <1>5, FunctionIsList
<1>11. CommandsOK'
  <2>1. \A c \in 1..n : CommandOK(more[c], topic, objects)
    <3> TAKE c \in 1..n
    <3>1. c = n => more[c] = new
      OBVIOUS
    <3>2. c # n => more[c] = cmds[c] /\ CommandOK(cmds[c], topic, objects)
      BY <1>5 DEF CuCore, CommandsOK
    <3> QED BY <1>9, <3>1, <3>2
  <2> QED BY <1>3, <1>5, <1>10, <2>1 DEF CommandsOK
<1>12. IInv'
  BY SendKept DEF CuCore
<1>13. KnownTx'
  <2>1. \A t \in Tx : Sent(t)' <=> Sent(t)
    BY DEF Sent, sendVars
  <2>2. ASSUME NEW t \in Tx, Sent(t)
        PROVE  t[1] \in DOMAIN more /\ t[2] \in 1..Len(more[t[1]].batches)
    <3>1. t[1] \in 1..n /\ t[2] \in 1..Len(cmds[t[1]].batches)
      BY <2>2 DEF CuCore, KnownTx
    <3>2. t[1] # n
      <4>1. t = <<t[1], t[2]>> /\ t[2] \in 1..MaxBatches
        BY AdminAssumption
      <4> QED BY <2>2, <4>1, NothingSent
    <3> QED BY <1>5, <3>1, <3>2
  <2> QED BY <2>1, <2>2 DEF KnownTx
<1>14. step' = "send"
  BY DEF Plan
<1>15. cmd' = new
  BY <1>10 DEF cmd
<1>16. more # <<>>
  BY <1>5
<1>17. StepOK'
  BY <1>6, <1>14, <1>15, <1>16 DEF StepOK, Running
<1>18. LedgerOK' /\ FilesOK' /\ ObjectsOK'
  BY LedgerKept, FilesKept, ObjectsKept DEF CuCore
<1>19. CuCore'
  BY <1>11, <1>12, <1>13, <1>17, <1>18 DEF CuCore
<1>20. cmd = cmds[n]
  BY DEF cmd
<1> QED BY <1>5, <1>6, <1>10, <1>14, <1>15, <1>19, <1>20

\* The first update starts from the reserve; so does the second.
LEMMA PlanRounds ==
  ASSUME CuIInv, step = "fetch", cmd'.kind = cmd.kind,
         Len(cmds') = Len(cmds), DOMAIN cmds' = DOMAIN cmds,
         \A c \in DOMAIN cmds : c # Len(cmds) => cmds'[c] = cmds[c],
         cmd.kind = "updateReserve" => cmd'.read = reserve,
         UNCHANGED <<outcome, others, reserve>>
  PROVE  RoundsProgress'
<1> SUFFICES ASSUME TwoUpdates' PROVE RoundsProgress'
  BY DEF RoundsProgress
<1>0. CuCore /\ cmds # <<>>
  BY DEF CuIInv, CuCore, StepOK, Running
<1> PICK n \in Nat : n = Len(cmds) /\ n \in DOMAIN cmds /\ DOMAIN cmds = 1..n
  BY <1>0, LastCommand
<1>1. /\ n \in {1, 2} /\ others = 0 /\ cmds'[1].read # <<>>
      /\ \A c \in 1..n : cmds'[c].kind = "updateReserve"
  BY DEF TwoUpdates
<1>2. cmds'[n].read = reserve /\ cmds[n].kind = "updateReserve"
  <2>1. cmd' = cmds'[n] /\ cmd = cmds[n]
    BY DEF cmd
  <2> QED BY <1>1, <2>1
<1>3. ~done(n)
  <2>1. 1 \in 1..MaxBatches
    BY BoundAssumption
  <2> QED BY <1>0, <2>1, NothingSent DEF done
<1>4. \A c : done(c)' <=> done(c)
  BY DEF done
<1>5. cmds[n].read = <<>>
  BY <1>0 DEF CuCore, StepOK, cmd
<1>6. CASE n = 1
  <2>1. reserve' = cmds'[1].read /\ ~done(1)'
    BY <1>2, <1>3, <1>4, <1>6
  <2> HIDE DEF done
  <2> QED BY <1>6, <2>1 DEF RoundsProgress
<1>7. CASE n = 2
  <2>1. cmds'[1] = cmds[1] /\ 1 \in DOMAIN cmds /\ 2 \in DOMAIN cmds
    BY <1>7
  <2>2. TwoUpdates
    <3>1. cmds[1].kind = "updateReserve" /\ cmds[2].kind = "updateReserve"
      BY <1>1, <1>2, <1>7, <2>1
    <3>2. \A c \in DOMAIN cmds : cmds[c].kind = "updateReserve"
      BY <1>7, <3>1
    <3> QED BY <1>1, <2>1, <3>2 DEF TwoUpdates
  <2>3. reserve = IF done(1) THEN updated(cmds[1].read, cmds[1]) ELSE cmds[1].read
    BY <1>5, <2>2 DEF CuIInv, RoundsProgress
  <2>4. cmds'[2].read = reserve /\ ~done(2)' /\ (done(1)' <=> done(1)) /\ reserve' = reserve
    BY <1>2, <1>3, <1>4, <1>7
  <2>5. reserve # <<>>
    <3>1. topic = "reserve"
      BY <1>0, <1>2 DEF CuCore, CommandsOK, CommandOK, Asked
    <3> QED BY <1>0, <3>1, ConfigIs DEF CuCore, LedgerOK, Holds
  <2>6. Len(cmds') = 2 /\ cmds'[2].read # <<>>
    BY <1>7, <2>4, <2>5
  <2> HIDE DEF done
  <2>7. cmds'[2].read # cmds'[1].read
          => /\ done(1)' /\ cmds'[2].read = updated(cmds[1].read, cmds[1])
             /\ reserve' = cmds'[2].read
    <3> SUFFICES ASSUME reserve # cmds[1].read
                 PROVE  done(1)' /\ reserve = updated(cmds[1].read, cmds[1])
      BY <2>1, <2>4
    <3>1. done(1) /\ reserve = updated(cmds[1].read, cmds[1])
      BY <2>3
    <3> QED BY <2>4, <3>1
  <2> QED BY <2>1, <2>4, <2>6, <2>7 DEF RoundsProgress, updated
<1> QED BY <1>1, <1>6, <1>7

\* Everything but the settings of the market, which FetchedMarketInv is about.
LEMMA PlanInv ==
  ASSUME CuIInv, step = "fetch", NEW read, read # <<>>, NEW batches,
         Len(batches) \in 0..MaxBatches, Plan(read, batches), Plans(read, batches),
         UNCHANGED <<sendVars, topic, file, marketFile, copy, loaded, objects, defaults,
                     reserve, market, others>>,
         cmd.kind = "updateReserve" => read = reserve,
         cmd.kind = "updateMarket" =>
           \A s \in Plain : \/ market[s] = cmd.wanted[s]
                            \/ \E k \in 1..Len(batches) : Covers(batches[k], s, cmd.wanted)
  PROVE  CuIInv'
<1>1. /\ CuCore'
      /\ step' = "send" /\ Len(cmds') = Len(cmds) /\ DOMAIN cmds' = DOMAIN cmds
      /\ \A c \in DOMAIN cmds : c # Len(cmds) => cmds'[c] = cmds[c]
      /\ cmd'.kind = cmd.kind /\ cmd'.wanted = cmd.wanted
      /\ cmd'.read = read /\ cmd'.batches = batches
  BY PlanCommand DEF CuIInv
<1>2. UNCHANGED outcome
  BY DEF sendVars
<1>3. RoundsProgress'
  BY <1>1, <1>2, PlanRounds
<1>4. MarketProgress'
  <2> SUFFICES ASSUME cmd.kind = "updateMarket", NEW s \in Plain, market[s] # cmd.wanted[s]
               PROVE  \E k \in 1..Len(batches) : /\ outcome[<<Len(cmds), k>>] # "ok"
                                                 /\ Covers(batches[k], s, cmd.wanted)
    BY <1>1, <1>2 DEF MarketProgress
  <2>1. PICK k \in 1..Len(batches) : Covers(batches[k], s, cmd.wanted)
    OBVIOUS
  <2>2. k \in 1..MaxBatches
    <3> PICK n \in 0..MaxBatches : n = Len(batches)
      OBVIOUS
    <3> QED BY BoundAssumption
  <2>3. outcome[<<Len(cmds), k>>] = "none"
    BY <2>2, NothingSent DEF CuIInv
  <2> QED BY <2>1, <2>3
<1> QED BY <1>1, <1>3, <1>4 DEF CuIInv

\* The command under way asks for something, and its reserve exists.
LEMMA UnderWay ==
  ASSUME CuCore, step = "fetch"
  PROVE  /\ Asked(cmd, topic, objects)
         /\ topic = "reserve" => reserve \in ReserveConfig /\ reserve # <<>>
         /\ market \in MarketConfig /\ market # <<>>
<1>1. Len(cmds) \in DOMAIN cmds
  BY LastCommand DEF CuCore, StepOK, Running
<1>2. Asked(cmd, topic, objects)
  BY <1>1 DEF CuCore, CommandsOK, CommandOK, cmd
<1>3. topic = "reserve" => reserve \in ReserveConfig /\ reserve # <<>>
  BY ConfigIs DEF CuCore, LedgerOK, Holds
<1>4. market \in MarketConfig
  BY DEF CuCore, LedgerOK
<1>5. market # <<>>
  <2>1. DOMAIN market = MarketSetting /\ "riskCouncil" \in MarketSetting
    BY <1>4, MarketKeys DEF MarketConfig, MarketTableSettings
  <2> QED BY <2>1
<1> QED BY <1>2, <1>3, <1>4, <1>5

LEMMA ReserveFetchedInv ==
  ASSUME CuIInv, step = "fetch", ReserveFetched,
         UNCHANGED <<sendVars, topic, file, marketFile, copy, loaded, objects, defaults,
                     reserve, market, others>>
  PROVE  CuIInv'
<1> PICK old : old = comparedWith(cmd)
  OBVIOUS
<1>1. CuCore
  BY DEF CuIInv
<1>2. topic = "reserve" /\ reserve \in ReserveConfig /\ reserve # <<>>
  BY <1>1, UnderWay DEF ReserveFetched, Asked
<1>3. /\ old # <<>> /\ (cmd.kind = "updateReserve" => old = reserve)
      /\ cmd.kind = "updateOracle" =>
           \A s \in ReserveSetting \ OracleSettings : cmd.wanted[s] = old[s]
  <2>1. cmd.kind = "updateOracle" =>
          /\ loaded \in ReserveConfig
          /\ \A s \in ReserveSetting \ OracleSettings : cmd.wanted[s] = loaded[s]
    BY <1>1 DEF CuCore, StepOK
  <2>2. loaded \in ReserveConfig => loaded # <<>>
    BY ConfigIs
  <2> QED BY <1>2, <2>1, <2>2 DEF comparedWith
<1>4. CASE step' = "threw" /\ UNCHANGED cmds
  BY <1>4, EndInv
<1>5. CASE /\ cmd.kind = "entireReserve" /\ encodesEntirely(cmd.wanted)
           /\ Plan(old, << <<updateEntireReserveConfigIx(cmd.wanted)>> >>)
  <2> PICK batches : batches = << <<updateEntireReserveConfigIx(cmd.wanted)>> >>
    OBVIOUS
  <2>1. Len(batches) \in 0..MaxBatches
    BY BoundAssumption
  <2>2. Plans(old, batches)
    <3>1. ASSUME NEW c, c.kind = cmd.kind, c.wanted = cmd.wanted, c.read = old,
                 c.batches = batches
          PROVE  Planned(c, objects)
      BY <3>1, <1>5 DEF Planned
    <3> QED BY <3>1, Zenon DEF Plans
  <2> QED BY <1>3, <1>5, <2>1, <2>2, PlanInv
<1>6. CASE /\ cmd.kind \in {"updateReserve", "updateOracle"} /\ reserveEncodes(old, cmd.wanted)
           /\ Plan(old, <<updateReserveIxs(old, cmd.wanted)>>)
  <2> PICK batches : batches = <<updateReserveIxs(old, cmd.wanted)>>
    OBVIOUS
  <2>1. Len(batches) \in 0..MaxBatches
    BY BoundAssumption
  <2>2. Plans(old, batches)
    <3>1. ASSUME NEW c, c.kind = cmd.kind, c.wanted = cmd.wanted, c.read = old,
                 c.batches = batches
          PROVE  Planned(c, objects)
      BY <3>1, <1>3, <1>6 DEF Planned, PlannedReserve
    <3> QED BY <3>1, Zenon DEF Plans
  <2> QED BY <1>3, <1>6, <2>1, <2>2, PlanInv
<1> QED BY <1>4, <1>5, <1>6 DEF ReserveFetched, CommandEnds

LEMMA UpdateMarketFetchedInv ==
  ASSUME CuIInv, step = "fetch", cmd.kind = "updateMarket",
         marketEncodes(marketChanges(market, cmd.wanted), cmd.wanted),
         Plan(market, chunks(updateLendingMarketIxs(market, cmd.wanted))),
         UNCHANGED <<sendVars, topic, file, marketFile, copy, loaded, objects, defaults,
                     reserve, market, others>>
  PROVE  CuIInv'
<1> PICK batches : batches = chunks(updateLendingMarketIxs(market, cmd.wanted))
  OBVIOUS
<1>1. cmd.wanted \in [MarketSetting -> Value] /\ market # <<>>
  BY UnderWay DEF CuIInv, Asked
<1>2. /\ Len(batches) \in 0..MaxBatches /\ DOMAIN batches = 1..Len(batches)
      /\ \A s \in MarketSetting :
           market[s] # cmd.wanted[s] => \E k \in DOMAIN batches : Covers(batches[k], s, cmd.wanted)
  BY <1>1, MarketBatches
<1>3. Plans(market, batches)
  <2>1. ASSUME NEW c, c.kind = cmd.kind, c.wanted = cmd.wanted, c.read = market,
               c.batches = batches
        PROVE  Planned(c, objects)
    BY <2>1 DEF Planned
  <2> QED BY <2>1, Zenon DEF Plans
<1>4. \A s \in Plain : \/ market[s] = cmd.wanted[s]
                       \/ \E k \in 1..Len(batches) : Covers(batches[k], s, cmd.wanted)
  BY <1>2 DEF Plain
<1> QED BY <1>1, <1>2, <1>3, <1>4, PlanInv

LEMMA AddAssetFetchedInv ==
  ASSUME CuIInv, step = "fetch", cmd.kind = "addAsset",
         Plan(market, << <<"createReserve">>, <<addedReserve(cmd.wanted)>> >>),
         UNCHANGED <<sendVars, topic, file, marketFile, copy, loaded, objects, defaults,
                     reserve, market, others>>
  PROVE  CuIInv'
<1> PICK i : i = cmd.wanted
  OBVIOUS
<1> PICK r : r = addedReserve(i)
  OBVIOUS
<1> PICK batches : batches = << <<"createReserve">>, <<r>> >>
  OBVIOUS
<1>1. i \in DOMAIN objects /\ market # <<>>
  BY UnderWay DEF CuIInv, Asked
<1>2. /\ r.object = i /\ r.made = Len(objects) /\ r.params = getReserveConfig(objects[i])
      /\ DOMAIN r = {"object", "made", "params"}
  BY DEF addedReserve
<1>3. AddedOK(r, objects)
  <2> SUFFICES ASSUME i = Len(objects)
               PROVE  OwnInputs(objects[i], getReserveConfig(objects[i]))
    BY <1>1, <1>2 DEF AddedOK
  <2>1. objects # <<>>
    BY <1>1
  <2>2. objects[i].own # <<>> => OwnInputs(objects[i], objects[i].own[1])
    BY <1>1 DEF CuIInv, CuCore, ObjectsOK
  <2>3. OwnInputs(objects[i], defaults)
    BY <2>1 DEF CuIInv, CuCore, ObjectsOK
  <2> QED BY <2>2, <2>3 DEF getReserveConfig
<1>4. Len(batches) \in 0..MaxBatches /\ batches[2][1] = r
  BY BoundAssumption
<1>5. Plans(market, batches)
  <2>1. ASSUME NEW c, c.kind = cmd.kind, c.wanted = cmd.wanted, c.read = market,
               c.batches = batches
        PROVE  Planned(c, objects)
    BY <2>1, <1>3, <1>4 DEF Planned
  <2> QED BY <2>1, Zenon DEF Plans
<1> QED BY <1>1, <1>4, <1>5, PlanInv

LEMMA FetchedInv ==
  ASSUME CuIInv, Fetched
  PROVE  CuIInv'
<1> USE DEF Fetched, ledgerVars, fileVars, objectVars
<1>1. CASE ReserveFetched
  BY <1>1, ReserveFetchedInv
<1>2. CASE MarketFetched
  <2>1. CASE step' = "threw" /\ UNCHANGED cmds
    BY <2>1, EndInv
  <2>2. CASE /\ cmd.kind = "updateMarket"
             /\ marketEncodes(marketChanges(market, cmd.wanted), cmd.wanted)
             /\ Plan(market, chunks(updateLendingMarketIxs(market, cmd.wanted)))
    BY <2>2, UpdateMarketFetchedInv
  <2>3. CASE cmd.kind = "updateOwner" /\ Plan(market, << <<"updateLendingMarketOwner">> >>)
    <3> PICK batches : batches = << <<"updateLendingMarketOwner">> >>
      OBVIOUS
    <3>1. market # <<>>
      BY UnderWay DEF CuIInv
    <3>2. Len(batches) \in 0..MaxBatches
      BY BoundAssumption
    <3>3. Plans(market, batches)
      <4>1. ASSUME NEW c, c.kind = cmd.kind, c.wanted = cmd.wanted, c.read = market,
                   c.batches = batches
            PROVE  Planned(c, objects)
        BY <4>1, <2>3 DEF Planned
      <4> QED BY <4>1, Zenon DEF Plans
    <3> QED BY <2>3, <3>1, <3>2, <3>3, PlanInv
  <2>4. CASE /\ cmd.kind = "addAsset"
             /\ Plan(market, << <<"createReserve">>, <<addedReserve(cmd.wanted)>> >>)
    BY <2>4, AddAssetFetchedInv
  <2> QED BY <1>2, <2>1, <2>2, <2>3, <2>4 DEF MarketFetched, CommandEnds
<1> QED BY <1>1, <1>2

-----------------------------------------------------------------------------
(* The steps.                                                              *)

LEMMA CuNextInv == CuIInv /\ [CuNext]_cuVars => CuIInv'
<1> SUFFICES ASSUME CuIInv, [CuNext]_cuVars PROVE CuIInv'
  OBVIOUS
<1>1. ASSUME NEW class \in AssetClass, NEW input \in Input, NewAssetConfig(class, input)
      PROVE  CuIInv'
  BY <1>1, NewAssetConfigInv
<1>2. ASSUME NEW i \in DOMAIN objects,
             \/ SetAssetConfigParams(i, [p \in Parameter |-> objects[i].input])
             \/ AddAssetToMarket(i)
      PROVE  CuIInv'
  BY <1>2, SetAssetConfigParamsInv, AddAssetToMarketInv
<1>3. ASSUME NEW edits \in ReserveEdits \cup EntireEdits, NEW entire,
             UpdateReserveConfig(edits, entire)
      PROVE  CuIInv'
  BY <1>3, UpdateReserveConfigInv
<1>4. ASSUME NEW edits \in MarketEdits, UpdateLendingMarketFromConfig(edits)
      PROVE  CuIInv'
  BY <1>4, UpdateLendingMarketFromConfigInv
<1>5. ASSUME DownloadReserveConfig \/ UpdateLendingMarketOwner \/ LoadReserve
      PROVE  CuIInv'
  BY <1>5, DownloadReserveConfigInv, UpdateLendingMarketOwnerInv, LoadReserveInv
<1>6. ASSUME NEW withTwap \in BOOLEAN, UpdateReserveScopeOracle(withTwap)
      PROVE  CuIInv'
  BY <1>6, UpdateReserveScopeOracleInv
<1>7. ASSUME Fetched \/ FetchFails \/ SendBatch \/ (Continue /\ NoEffect) \/ Printed \/ Stop
      PROVE  CuIInv'
  BY <1>7, FetchedInv, FetchFailsInv, SendBatchInv, ContinuesInv, PrintedInv, StopInv
<1>8. ASSUME NEW t \in inFlight,
             \/ ExecuteWell(t)
             \/ Land(t, "err") /\ NoEffect
             \/ Drop(t) /\ NoEffect
      PROVE  CuIInv'
  BY <1>8, ExecuteWellInv, LostInv
<1>9. ASSUME NEW edits \in OtherEdits, OtherChange(edits)
      PROVE  CuIInv'
  BY <1>9, OtherChangeInv
<1>10. CASE UNCHANGED cuVars
  <2> USE <1>10 DEF cuVars, ledgerVars, fileVars, cmdVars, otherVars, objectVars
  <2>1. IInv' /\ KnownTx'
    BY SendKept, KnownKept DEF CuIInv, CuCore, Sent, sendVars
  <2>2. LedgerOK' /\ StepOK'
    BY LedgerKept, StepKept DEF CuIInv, CuCore
  <2>3. CuCore'
    BY <2>1, <2>2, CoreKept DEF CuIInv
  <2>4. MarketProgress' /\ RoundsProgress'
    BY ProgressKept DEF CuIInv, sendVars
  <2> QED BY <2>3, <2>4 DEF CuIInv
<1> QED BY <1>1, <1>2, <1>3, <1>4, <1>5, <1>6, <1>7, <1>8, <1>9, <1>10 DEF CuNext

\* However commands, losses and other administrators interleave.
THEOREM AdminInvariance == CuSpec => []CuIInv
<1>1. CuInit => CuIInv
  BY InitCore, InitProgress DEF CuIInv, CuInit
<1> QED BY <1>1, CuNextInv, PTL DEF CuSpec

LEMMA CuInvImplies == CuIInv => CuTypeOK
<1> SUFFICES ASSUME CuIInv PROVE CuTypeOK
  OBVIOUS
<1>1. TypeOK /\ (Configured => \A s \in ReserveSetting : reserve[s] \in Held(s))
  BY ConfiguredIs DEF CuIInv, CuCore, IInv, Holds
<1>2. \A s \in MarketSetting : market[s] \in HeldInMarket(s)
  BY DEF CuIInv, CuCore, LedgerOK, MarketConfig
<1>3. \A c \in DOMAIN cmds : Len(cmds[c].batches) <= MaxBatches
  <2>1. \A c \in DOMAIN cmds : Len(cmds[c].batches) \in 0..MaxBatches
    BY DEF CuIInv, CuCore, CommandsOK, CommandOK
  <2> QED BY <2>1, BoundAssumption
<1>4. /\ step \in Running \union {"none", "printed", "threw"}
      /\ step = "send" => cmd.read # <<>>
  BY DEF CuIInv, CuCore, StepOK
<1> QED BY <1>1, <1>2, <1>3, <1>4 DEF CuTypeOK

\* The accounts hold what their layout can, commands send no more batches than
\* they may, and a command that sends has read its accounts
\* (client_kamino_manager.ts:141-190, 380-459; classes/reserve.ts:1867-1965).
THEOREM AdminTypeCorrect == CuSpec => []CuTypeOK
BY AdminInvariance, CuInvImplies, PTL

LEMMA InvLatest == CuIInv => LatestKeepsInputs
<1> SUFFICES ASSUME CuIInv, "params" \in DOMAIN reserve, reserve.object = reserve.made
             PROVE  OwnInputs(objects[reserve.object], reserve.params)
  BY DEF LatestKeepsInputs
<1>1. topic # "reserve"
  BY ConfigIs DEF CuIInv, CuCore, LedgerOK, Holds
<1>2. DOMAIN NoReserve = {"none"} /\ DOMAIN [created |-> TRUE] = {"created"}
  BY DEF NoReserve
<1>3. AddedOK(reserve, objects)
  BY <1>1, <1>2 DEF CuIInv, CuCore, LedgerOK, Topic
<1> QED BY <1>3 DEF AddedOK

\* A reserve is added with the inputs of its configuration object, if that is
\* the one made last (utils/managerTypes.ts:62-217, 246-351).
THEOREM LatestAlwaysKeepsInputs == CuSpec => []LatestKeepsInputs
BY AdminInvariance, InvLatest, PTL

LEMMA InvMarketReached == CuIInv => MarketReached
<1> SUFFICES ASSUME CuIInv, step = "printed", cmd.kind = "updateMarket", ~touched,
                    \A k \in DOMAIN cmd.batches : outcome[<<Len(cmds), k>>] = "ok",
                    NEW s \in Plain
             PROVE  market[s] = cmd.wanted[s]
  BY DEF MarketReached, Plain
<1>1. cmd.read # <<>> /\ Len(cmds) \in DOMAIN cmds
  BY LastCommand DEF CuIInv, CuCore, StepOK
<1>2. CommandOK(cmd, topic, objects)
  BY <1>1 DEF CuIInv, CuCore, CommandsOK, cmd
<1>3. /\ cmd.batches = chunks(updateLendingMarketIxs(cmd.read, cmd.wanted))
      /\ marketEncodes(marketChanges(cmd.read, cmd.wanted), cmd.wanted)
      /\ cmd.wanted \in [MarketSetting -> Value]
  BY <1>1, <1>2 DEF CommandOK, Planned, Asked
<1>4. DOMAIN cmd.batches = 1..Len(cmd.batches)
  BY <1>3, MarketBatches
<1> QED BY <1>4 DEF CuIInv, MarketProgress

\* All of a market's file has landed when all of its transactions have
\* (classes/manager.ts:425-478, client_kamino_manager.ts:380-417).
THEOREM MarketIsReached == CuSpec => []MarketReached
BY AdminInvariance, InvMarketReached, PTL

LEMMA InvTwoRounds == CuIInv => TwoRoundsSuffice
<1> SUFFICES ASSUME CuIInv, step = "printed", Len(cmds) = 2, others = 0,
                    \A c \in 1..2 : cmds[c].kind = "updateReserve" /\ outcome[<<c, 1>>] = "ok",
                    cmds[1].wanted = cmds[2].wanted, cmds[1].read # cmds[2].read,
                    NEW s \in Updatable
             PROVE  reserve[s] = cmds[2].wanted[s]
  BY DEF TwoRoundsSuffice
<1> DEFINE first == cmds[1].read
           second == cmds[2].read
           new == cmds[2].wanted
<1>1. DOMAIN cmds = 1..2
  BY DEF CuIInv, CuCore, CommandsOK, IsList
<1>2. second # <<>>
  BY DEF CuIInv, CuCore, StepOK, cmd
<1>3. first # <<>>
  <2>1. <<1, 1>> \in Tx /\ 1 \in DOMAIN cmds /\ outcome[<<1, 1>>] = "ok"
    BY <1>1, FirstTx DEF CuIInv
  <2>2. 1 \in 1..Len(cmds[1].batches)
    BY <2>1 DEF CuIInv, CuCore, KnownTx, Sent
  <2>3. cmds[1].batches # <<>>
    BY <2>2
  <2> QED BY <2>1, <2>3 DEF CuIInv, CuCore, CommandsOK, CommandOK
<1>4. TwoUpdates /\ done(2)
  BY <1>1, <1>3 DEF TwoUpdates, done
<1>5. second = updated(first, cmds[1]) /\ reserve = updated(second, cmds[2])
  BY <1>2, <1>4 DEF CuIInv, RoundsProgress
<1>6. /\ second = Overwritten(first, Changed(first, new), new)
      /\ reserve = Overwritten(second, Changed(second, new), new)
  BY <1>5 DEF updated
<1>7. DOMAIN reserve = ReserveSetting
  <2>1. topic = "reserve"
    BY <1>1 DEF CuIInv, CuCore, CommandsOK, CommandOK, Asked
  <2> QED BY <2>1, ConfigIs DEF CuIInv, CuCore, LedgerOK, Holds
<1> HIDE DEF first, second, new
<1>8. DOMAIN first = ReserveSetting
  BY <1>6, <1>7 DEF Overwritten
<1>9. Overwritten(second, Changed(second, new), new)[s] = new[s]
  BY <1>6, <1>8, TwoRoundsReach
<1> QED BY <1>6, <1>9 DEF new

\* A second update reaches every setting that has a mode, though of the fees
\* and of a withdrawal cap each updates only the first that differs
\* (classes/reserve.ts:1151-1456).
THEOREM TwoRoundsAlwaysSuffice == CuSpec => []TwoRoundsSuffice
BY AdminInvariance, InvTwoRounds, PTL

-----------------------------------------------------------------------------
(* What a step may do.                                                     *)

\* An outcome comes about by an execution.
LEMMA OnlyLanding ==
  ASSUME CuIInv, CuNext, NEW t \in inFlight, LandsWell(t)
  PROVE  ExecuteWell(t)
<1>1. t \in Tx /\ outcome[t] = "none" /\ outcome'[t] = "ok"
      /\ outcome \in [Tx -> {"none", "ok", "err"}]
  BY DEF CuIInv, CuCore, IInv, TypeOK, LandsWell
<1>2. ASSUME UNCHANGED outcome PROVE FALSE
  BY <1>1, <1>2
<1>3. ASSUME Continue PROVE FALSE
  BY <1>2, <1>3 DEF Continue, BlockhashFetched, SendAnswered, Confirmed, LandedWithError, GiveUp,
     DetailsFetched, LogsFetched, WaitFor, Throw, Return
<1>4. ASSUME NEW u \in inFlight, Land(u, "err") \/ Drop(u) PROVE FALSE
  BY <1>1, <1>4 DEF Land, Drop
<1>5. ASSUME NEW u \in inFlight, ExecuteWell(u) PROVE u = t
  BY <1>1, <1>5 DEF ExecuteWell, Land
<1>6. ASSUME SendBatch PROVE FALSE
  BY <1>2, <1>6 DEF SendBatch, Call
<1>7. ASSUME UNCHANGED sendVars PROVE FALSE
  BY <1>2, <1>7 DEF sendVars
<1>8. \/ UNCHANGED sendVars \/ SendBatch \/ Continue
      \/ \E u \in inFlight : ExecuteWell(u) \/ Land(u, "err") \/ Drop(u)
  BY DEF CuNext, NewAssetConfig, SetAssetConfigParams, AddAssetToMarket, UpdateReserveConfig,
     DownloadReserveConfig, UpdateLendingMarketFromConfig, UpdateLendingMarketOwner, LoadReserve,
     UpdateReserveScopeOracle, Fetched, FetchFails, Printed, Stop, OtherChange
<1> QED BY <1>3, <1>4, <1>5, <1>6, <1>7, <1>8

\* An update changes settings that differ.
LEMMA ChangedDiffer ==
  ASSUME NEW old, NEW new, NEW s \in Changed(old, new)
  PROVE  old[s] # new[s]
<1>1. ToSet(reserveChanges(old, new)) \subseteq {x \in AllSettings : old[x] # new[x]}
  BY ReserveChanges
<1> QED BY <1>1 DEF Changed

LEMMA UpdateChanges ==
  ASSUME CuIInv, CuNext, NEW t \in inFlight, LandsWell(t),
         cmdOf(t).kind \in {"updateReserve", "updateOracle"}, NEW s \in changed
  PROVE  /\ s \in ReserveSetting \ Totals /\ cmdOf(t).read[s] # cmdOf(t).wanted[s]
         /\ Lands(t)
<1>1. CuCore /\ ExecuteWell(t)
  BY OnlyLanding DEF CuIInv
<1>2. Lands(t)
  BY <1>1, ExecuteLedger
<1> PICK c : c = cmdOf(t)
  OBVIOUS
<1>3. reserve' = Overwritten(reserve, Changed(c.read, c.wanted), c.wanted)
      /\ Holds(reserve) /\ reserveEncodes(c.read, c.wanted)
  <2>1. reserve' = reserveAfter(t)
    BY <1>1 DEF ExecuteWell, OfMarket
  <2> QED BY <1>1, <1>2, <2>1, ReserveLands DEF updated
<1>4. s \in ReserveSetting /\ reserve'[s] # reserve[s]
  BY DEF changed
<1>5. s \in Changed(c.read, c.wanted)
  <2>1. DOMAIN reserve = ReserveSetting
    BY <1>3, ConfigIs DEF Holds
  <2> QED BY <1>3, <1>4, <2>1 DEF Overwritten
<1>6. s \notin Totals
  BY <1>3, <1>5 DEF reserveEncodes, encodes, Changed, ToSet
<1> QED BY <1>2, <1>4, <1>5, <1>6, ChangedDiffer

OracleSpares ==
  \A t \in inFlight :
    LandsWell(t) /\ cmdOf(t).kind = "updateOracle" => changed \subseteq OracleSettings

LEMMA StepSpares == CuIInv /\ [CuNext]_cuVars => OracleSpares \/ UNCHANGED cuVars
<1> SUFFICES ASSUME CuIInv, CuNext, NEW t \in inFlight, LandsWell(t),
                    cmdOf(t).kind = "updateOracle", NEW s \in changed
             PROVE  s \in OracleSettings
  BY DEF OracleSpares
<1>1. s \in ReserveSetting /\ cmdOf(t).read[s] # cmdOf(t).wanted[s] /\ Lands(t)
  BY UpdateChanges
<1>2. \A x \in ReserveSetting \ OracleSettings : cmdOf(t).wanted[x] = cmdOf(t).read[x]
  BY <1>1 DEF Lands, Planned
<1> QED BY <1>1, <1>2

\* An update of the oracle leaves alone what others have set since the reserve
\* was loaded (classes/manager.ts:199-285).
THEOREM OracleAlwaysSpares == CuSpec => OracleSparesTheRest
<1>1. CuIInv /\ [CuNext]_cuVars => [OracleSpares]_cuVars
  BY StepSpares
<1> QED BY <1>1, AdminInvariance, PTL DEF CuSpec, OracleSparesTheRest, OracleSpares

EditsLand ==
  \A t \in inFlight :
    LET c == cmdOf(t)
    IN  LandsWell(t) /\ c.kind = "updateReserve" /\ c.copy.base = c.read /\ reserve = c.read =>
          changed \subseteq c.copy.edited \union {"protocolTakeRatePct"}

LEMMA StepEdits == CuIInv /\ [CuNext]_cuVars => EditsLand \/ UNCHANGED cuVars
<1> SUFFICES ASSUME CuIInv, CuNext, NEW t \in inFlight, LandsWell(t),
                    cmdOf(t).kind = "updateReserve", cmdOf(t).copy.base = cmdOf(t).read,
                    NEW s \in changed
             PROVE  s \in cmdOf(t).copy.edited \union {"protocolTakeRatePct"}
  BY DEF EditsLand
<1>1. s \in ReserveSetting \ Totals /\ cmdOf(t).read[s] # cmdOf(t).wanted[s] /\ Lands(t)
  BY UpdateChanges
<1>2. FromCopy(cmdOf(t).wanted, cmdOf(t).copy)
  BY <1>1 DEF Lands, Asked
<1> QED BY <1>1, <1>2 DEF FromCopy

\* A downloaded configuration that is edited and sent back changes what was
\* edited and the take rate (client_kamino_manager.ts:141-219, 613-791).
THEOREM OnlyEditsEverLand == CuSpec => OnlyEditsLand
<1>1. CuIInv /\ [CuNext]_cuVars => [EditsLand]_cuVars
  BY StepEdits
<1> QED BY <1>1, AdminInvariance, PTL DEF CuSpec, OnlyEditsLand, EditsLand

-----------------------------------------------------------------------------
(* The senders.                                                            *)

LEMMA StepSends == CuIInv /\ [CuNext]_cuVars => [Next]_sendVars
<1> SUFFICES ASSUME CuIInv, [CuNext]_cuVars PROVE [Next]_sendVars
  OBVIOUS
<1>1. CASE UNCHANGED cuVars
  BY <1>1 DEF cuVars
<1>2. CASE SendBatch
  <2>1. Call(<<Len(cmds), sent + 1>>) /\ sending' = <<Len(cmds), sent + 1>>
    BY <1>2 DEF SendBatch, Call
  <2>2. <<Len(cmds), sent + 1>> \in Tx
    <3>1. sending' \in Tx \cup {NoTx} /\ await' # "none"
      BY <1>2, SendBatchInv, <2>1 DEF CuIInv, CuCore, IInv, TypeOK, Call, firstAwait
    <3>2. sending' # NoTx
      BY <1>2, <3>1, SendBatchInv DEF CuIInv, CuCore, IInv, TypeOK
    <3> QED BY <2>1, <3>1, <3>2
  <2> QED BY <2>1, <2>2 DEF Next
<1>3. CASE Continue
  BY <1>3 DEF Next
<1>4. ASSUME NEW t \in inFlight, Land(t, "ok") \/ Land(t, "err") \/ Drop(t)
      PROVE  Next
  <2>1. t \in Tx
    BY DEF CuIInv, CuCore, IInv, TypeOK
  <2> QED BY <1>4, <2>1 DEF Next, Network
<1>5. ASSUME NEW t \in inFlight, ExecuteWell(t) PROVE Land(t, "ok")
  BY <1>5 DEF ExecuteWell
<1>6. CuNext => \/ UNCHANGED sendVars \/ SendBatch \/ Continue
                \/ \E t \in inFlight : ExecuteWell(t) \/ Land(t, "err") \/ Drop(t)
  BY DEF CuNext, NewAssetConfig, SetAssetConfigParams, AddAssetToMarket, UpdateReserveConfig,
     DownloadReserveConfig, UpdateLendingMarketFromConfig, UpdateLendingMarketOwner, LoadReserve,
     UpdateReserveScopeOracle, Fetched, FetchFails, Printed, Stop, OtherChange
<1> QED BY <1>1, <1>2, <1>3, <1>4, <1>5, <1>6

\* The commands send as the senders do: what holds of them holds here
\* (client_kamino_manager.ts:537-604).
THEOREM AdminUsesSenders == CuSpec => Spec
<1>1. CuInit => Init
  BY DEF CuInit
<1> QED BY <1>1, StepSends, AdminInvariance, PTL DEF CuSpec, Spec

=============================================================================
