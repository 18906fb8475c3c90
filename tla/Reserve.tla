------------------------------ MODULE Reserve ------------------------------
(***************************************************************************)
(* What the SDK computes from the account of a reserve: rates, interest    *)
(* estimated up to a slot, caps, and how much can be borrowed.             *)
(*                                                                         *)
(* A reserve is a record: its address, the liquidity available, the amount *)
(* borrowed, the fees it keeps (protocol) or owes (pending), the collateral*)
(* issued for it, its cumulative borrow rate, the slot of its last update, *)
(* its debt outside the elevation groups and, as collateral, against it in *)
(* each group, and what the two withdrawal caps counted since an interval  *)
(* began.  Amounts that carry interest are fractions.  A market is a       *)
(* function from the addresses it lists to reserves.                       *)
(***************************************************************************)
EXTENDS Decimals, FiniteSets, FiniteSetsExt, Sequences

CONSTANTS
  Config,         \* the configuration of every reserve
  Groups,         \* id -> [ltv, liquidation, debtReserve]; no id is missing
  ReferralFee,    \* the market's referral fee
  SlotsPerYear,
  SlotsPerDay,
  SlotAdjustment  \* length of a slot by the book over its recent length

cfg(reserve) == Config[reserve.address]

zero == whole(0)
Unlimited == whole(100000)   \* U64_MAX, more than any amount

minOf(amounts) == CHOOSE a \in amounts : \A b \in amounts : lte(a, b)
positiveOrZero(a) == IF a[1] < 0 THEN zero ELSE a
valueOrZero(n, d) == IF d = zero THEN zero ELSE div(n, d)

\* The sum of value(x) over a set.
total(value(_), S) == FoldSet(LAMBDA x, sum : add(sum, value(x)), zero, S)

slotsElapsed(reserve, slot) ==
  IF slot > reserve.lastUpdate THEN slot - reserve.lastUpdate ELSE 0

-----------------------------------------------------------------------------
(* Rates and interest.                                                     *)

getTotalSupply(reserve) ==
  sub(add(whole(reserve.available), reserve.borrowed),
      add(reserve.protocolFees, reserve.pendingFees))

utilization(borrowed, supply) == valueOrZero(borrowed, supply)
calculateUtilizationRatio(reserve) == utilization(reserve.borrowed, getTotalSupply(reserve))

interpolate(x, p, q) ==
  add(p[2], div(mul(sub(x, p[1]), sub(q[2], p[2])), sub(q[1], p[1])))

\* The curve is a sequence of points <<utilization, rate>> up to <<1, _>>, as the
\* program accepts it: it increases.  (The code throws on one that does not.)
getBorrowRate(used, curve) ==
  LET u == IF lt(one, used) THEN one ELSE used
      i == CHOOSE k \in 2..Len(curve) :
             lte(u, curve[k][1]) /\ \A l \in 2..(k - 1) : lt(curve[l][1], u)
  IN  interpolate(u, curve[i - 1], curve[i])

calculateBorrowRate(reserve) ==
  mul(getBorrowRate(calculateUtilizationRatio(reserve), cfg(reserve).curve), SlotAdjustment)

\* The program's own approximation: exact up to four slots.
approximateCompoundedInterest(rate, slots) ==
  LET base == div(rate, whole(SlotsPerYear))
      power[n \in 0..4] == IF n = 0 THEN one ELSE mul(power[n - 1], plusOne(base))
      square == mul(base, base)
      first == mul(base, whole(slots))
      second == mul(square, whole((slots * (slots - 1)) \div 2))
      third == mul(mul(square, base),
                   ratio(slots * (slots - 1) * (slots - 2), 6))
  IN  IF slots <= 4 THEN power[slots]
                    ELSE plusOne(add(first, add(second, third)))

\* The debt with its interest; of the interest beyond the host's fixed fee, the
\* protocol takes a share, and the referrers a share of that.
shared(reserve, newDebt, fixedHostFee, taken, referral) ==
  [debt |-> newDebt,
   protocolFees |-> add(sub(add(taken, fixedHostFee), referral), reserve.protocolFees),
   pendingFees |-> add(reserve.pendingFees, referral)]

withFees(reserve, newDebt, fixedHostFee, netNewDebt, referralFee) ==
  shared(reserve, newDebt, fixedHostFee, mul(netNewDebt, cfg(reserve).takeRate),
         mul(netNewDebt, mul(cfg(reserve).takeRate, referralFee)))

splitDebt(reserve, newDebt, fixedHostFee, referralFee) ==
  withFees(reserve, newDebt, fixedHostFee,
           sub(sub(newDebt, reserve.borrowed), fixedHostFee), referralFee)

compoundInterest(reserve, slots, referralFee) ==
  LET host == cfg(reserve).hostRate
      compounded(rate) == mul(reserve.borrowed, approximateCompoundedInterest(rate, slots))
  IN  splitDebt(reserve, compounded(add(calculateBorrowRate(reserve), host)),
                sub(compounded(host), reserve.borrowed), referralFee)

debtAndSupply(reserve, grown) ==
  [debt |-> grown.debt, supply |-> sub(add(whole(reserve.available), grown.debt),
                                       add(grown.protocolFees, grown.pendingFees))]

getEstimatedDebtAndSupply(reserve, slot) ==
  IF slotsElapsed(reserve, slot) = 0
  THEN [debt |-> reserve.borrowed, supply |-> getTotalSupply(reserve)]
  ELSE debtAndSupply(reserve,
                     compoundInterest(reserve, slotsElapsed(reserve, slot), ReferralFee))

utilizationOf(estimate) == utilization(estimate.debt, estimate.supply)
getEstimatedUtilizationRatio(reserve, slot) ==
  utilizationOf(getEstimatedDebtAndSupply(reserve, slot))

calculateEstimatedBorrowRate(reserve, slot) ==
  mul(getBorrowRate(getEstimatedUtilizationRatio(reserve, slot), cfg(reserve).curve),
      SlotAdjustment)

calculateBorrowAPR(reserve, slot) ==
  add(calculateEstimatedBorrowRate(reserve, slot), cfg(reserve).hostRate)

\* The rate it compounds is the one of the utilization it estimates.
getEstimatedCumulativeBorrowRate(reserve, slot) ==
  mul(reserve.rate, approximateCompoundedInterest(calculateBorrowAPR(reserve, slot),
                                                  slotsElapsed(reserve, slot)))

exchangeRate(minted, supply) ==
  IF minted = 0 \/ supply = zero THEN one ELSE div(whole(minted), supply)
getEstimatedCollateralExchangeRate(reserve, slot) ==
  exchangeRate(reserve.minted, getEstimatedDebtAndSupply(reserve, slot).supply)

\* Utilization if `amount` were moved now, by one of the four plain actions.  A
\* withdrawal leaves 0 of nothing.
movedBy(before, amount, action) ==
  CASE action = "deposit"  -> [before EXCEPT !.supply = add(@, amount)]
    [] action = "withdraw" -> [before EXCEPT !.supply = sub(@, amount)]
    [] action = "borrow"   -> [before EXCEPT !.debt = add(@, amount)]
    [] action = "repay"    -> [before EXCEPT !.debt = sub(@, amount)]

calcSimulatedUtilizationRatio(reserve, amount, action, slot) ==
  utilizationOf(movedBy(getEstimatedDebtAndSupply(reserve, slot), amount, action))

calcSimulatedBorrowAPR(reserve, amount, action, slot) ==
  add(mul(getBorrowRate(calcSimulatedUtilizationRatio(reserve, amount, action, slot),
                        cfg(reserve).curve), SlotAdjustment), cfg(reserve).hostRate)

calcSimulatedSupplyAPR(reserve, amount, action, slot) ==
  mul(mul(calcSimulatedUtilizationRatio(reserve, amount, action, slot),
          calcSimulatedBorrowAPR(reserve, amount, action, slot)),
      sub(one, cfg(reserve).takeRate))

-----------------------------------------------------------------------------
(* Caps.                                                                   *)

\* The counters start again a day after the reserve's last update, as read.
capCurrent(reserve, slot, counted) ==
  IF slotsElapsed(reserve, slot) > SlotsPerDay THEN zero ELSE counted

getDepositWithdrawalCapCurrent(reserve, slot) ==
  capCurrent(reserve, slot, reserve.depositDrawn)
getDebtWithdrawalCapCurrent(reserve, slot) == capCurrent(reserve, slot, reserve.debtDrawn)

inclusiveFeeRate(reserve) ==
  div(cfg(reserve).borrowFee, plusOne(cfg(reserve).borrowFee))
withoutFee(reserve, amount) == sub(amount, mul(amount, inclusiveFeeRate(reserve)))

\* The collaterals of a group, as the market describes it.
collateralReserves(market, group) ==
  {a \in DOMAIN market : group \in Config[a].groups /\ a # Groups[group].debtReserve}

\* What the caps of the debt reserve, and of the collaterals of the group,
\* leave to borrow: as of the reserve's last update.  The group is 0 or one
\* whose debt reserve this is.  (The code lists the collaterals of those only,
\* and the minimum of an empty list throws.)
getLiquidityAvailableForDebtReserveGivenCaps(market, reserve, group) ==
  LET limit == IF lt(zero, cfg(reserve).utilizationLimit)
               THEN cfg(reserve).utilizationLimit ELSE one
      used == mul(getTotalSupply(reserve), sub(limit, calculateUtilizationRatio(reserve)))
      daily == IF cfg(reserve).debtCap.interval = 0 THEN Unlimited
               ELSE sub(cfg(reserve).debtCap.capacity, reserve.debtDrawn)
      overall == sub(cfg(reserve).borrowLimit, reserve.borrowed)
      outside == sub(cfg(reserve).outsideLimit, reserve.outside)
      inside == minOf({sub(Config[a].groupLimit, market[a].inGroup[group]) :
                         a \in collateralReserves(market, group)})
  IN  minOf({whole(reserve.available), positiveOrZero(daily), positiveOrZero(overall),
             positiveOrZero(used),
             positiveOrZero(IF group = 0 THEN outside ELSE inside)})

\* Of the groups both reserves are in, the one with the highest loan to value
\* that lends the debt; 0 if there is none.
eModeGroup(reserve, collReserve) ==
  LET common == {g \in cfg(collReserve).groups \cap cfg(reserve).groups :
                   Groups[g].debtReserve = reserve.address}
  IN  IF common = {} THEN 0
      ELSE CHOOSE g \in common : \A h \in common : lte(Groups[h].ltv, Groups[g].ltv)

\* Liquidity, the borrow limit and the daily cap; a capacity of 0 is no cap.
cappedWithFee(reserve, slot) ==
  LET cap == cfg(reserve).debtCap.capacity
      daily == sub(cap, getDebtWithdrawalCapCurrent(reserve, slot))
  IN  minOf({whole(reserve.available), sub(cfg(reserve).borrowLimit, reserve.borrowed)}
            \cup (IF lt(zero, cap) THEN {daily} ELSE {}))

\* The most a new obligation may borrow against collReserve.  The limits of
\* the utilization and of the group are taken after the fee.
getMaxBorrowAmountWithCollReserve(reserve, collReserve, slot) ==
  LET group == eModeGroup(reserve, collReserve)
      limit == cfg(reserve).utilizationLimit
      used == calculateUtilizationRatio(reserve)
      received == withoutFee(reserve, cappedWithFee(reserve, slot))
      spared == IF lt(zero, limit) /\ lt(used, limit)
                THEN minOf({received, mul(sub(limit, used), getTotalSupply(reserve))})
                ELSE received
      inMode == IF group = 0 THEN sub(cfg(reserve).outsideLimit, reserve.outside)
                ELSE positiveOrZero(sub(cfg(collReserve).groupLimit,
                                        collReserve.inGroup[group]))
  IN  IF lt(zero, limit) /\ lt(limit, used) THEN zero
      ELSE positiveOrZero(minOf({spared, inMode}))

=============================================================================
