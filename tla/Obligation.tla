----------------------------- MODULE Obligation -----------------------------
(***************************************************************************)
(* What the SDK computes from the account of an obligation and the market  *)
(* it was loaded with: its positions and their statistics, those after an  *)
(* action, and what can still be borrowed, withdrawn or moved to another   *)
(* elevation group.                                                        *)
(*                                                                         *)
(* An obligation is a record: deposits, a function from reserves to        *)
(* collateral; borrows, a function from reserves to an amount and the      *)
(* cumulative rate it was last brought up to; and its elevation group.     *)
(***************************************************************************)
EXTENDS Reserve

CONSTANT Margin   \* 0.999: what getMaxWithdrawAmount keeps of the value

inGroup(reserve, group) == group # 0 /\ group \in cfg(reserve).groups

getBorrowFactorForReserve(reserve, group) ==
  IF inGroup(reserve, group) THEN one ELSE cfg(reserve).borrowFactor

getLtvForReserve(reserve, group) ==
  IF inGroup(reserve, group)
  THEN [max |-> Groups[group].ltv, liquidation |-> Groups[group].liquidation]
  ELSE [max |-> cfg(reserve).ltv, liquidation |-> cfg(reserve).liquidation]

valueOf(reserve, amount) == div(mul(amount, cfg(reserve).price), whole(cfg(reserve).mintFactor))
amountOf(reserve, value) == mul(div(value, cfg(reserve).price), whole(cfg(reserve).mintFactor))

getRatesForObligation(market, obligation, slot) ==
  [exchange |-> [a \in DOMAIN obligation.deposits |->
                   getEstimatedCollateralExchangeRate(market[a], slot)],
   borrow |-> [a \in DOMAIN obligation.borrows |->
                 getEstimatedCumulativeBorrowRate(market[a], slot)]]

calculateObligationDeposits(market, obligation, rates, group) ==
  LET held == DOMAIN obligation.deposits
      amount == [a \in held |-> div(whole(obligation.deposits[a]), rates.exchange[a])]
      worth(a) == valueOf(market[a], amount[a])
      limited(a) == mul(worth(a), getLtvForReserve(market[a], group).max)
      liquidated(a) == mul(worth(a), getLtvForReserve(market[a], group).liquidation)
  IN  [amount |-> amount, total |-> total(worth, held), limit |-> total(limited, held),
       liquidationLimit |-> total(liquidated, held)]

calculateObligationBorrows(market, obligation, rates, group) ==
  LET owed == DOMAIN obligation.borrows
      amount == [a \in owed |-> div(mul(obligation.borrows[a].amount, rates.borrow[a]),
                                    obligation.borrows[a].rate)]
      worth(a) == valueOf(market[a], amount[a])
      adjusted(a) == mul(worth(a), getBorrowFactorForReserve(market[a], group))
  IN  [amount |-> amount, total |-> total(worth, owed), adjusted |-> total(adjusted, owed)]

\* Positions and statistics; an undefined quotient (a Decimal that is not
\* finite) is 0 here.
statistics(d, b, net) ==
  [deposits |-> d.amount, borrows |-> b.amount, userTotalDeposit |-> d.total,
   userTotalBorrow |-> b.total, adjusted |-> b.adjusted, borrowLimit |-> d.limit,
   liquidationLtv |-> valueOrZero(d.liquidationLimit, d.total), netAccountValue |-> net,
   leverage |-> valueOrZero(d.total, net), loanToValue |-> valueOrZero(b.adjusted, d.total)]
statisticsOf(d, b) == statistics(d, b, sub(d.total, b.total))

calculatePositions(market, obligation, rates, group) ==
  statisticsOf(calculateObligationDeposits(market, obligation, rates, group),
               calculateObligationBorrows(market, obligation, rates, group))

refreshedStats(market, obligation, slot) ==
  calculatePositions(market, obligation, getRatesForObligation(market, obligation, slot),
                     obligation.group)

-----------------------------------------------------------------------------
(* What an action would make of it.                                        *)

changedDeposit(obligation, change, a, rates) ==
  positiveOrZero(add(whole(obligation.deposits[a]), mul(change, rates.exchange[a])))

\* A mutant: the change is taken for collateral.
unconvertedChange(obligation, change, a, rates) ==
  [obligation EXCEPT !.deposits = [d \in DOMAIN @ |-> IF d = a THEN @[d] + floor(change) ELSE @[d]]]

simulateDepositChange(obligation, change, a, rates) ==
  [obligation EXCEPT !.deposits =
     [d \in DOMAIN @ |-> IF d = a THEN floor(changedDeposit(obligation, change, a, rates))
                         ELSE @[d]]]

\* Collateral that is not whole does not go into a BN, and the call throws.
simulationThrows(market, obligation, action, a, amount, slot) ==
  LET rates == getRatesForObligation(market, obligation, slot)
      change == IF action = "deposit" THEN amount ELSE sub(zero, amount)
  IN  /\ action \in {"deposit", "withdraw"}
      /\ a \in DOMAIN obligation.deposits
      /\ changedDeposit(obligation, change, a, rates)[2] # 1

\* A mutant: a repayment of more than the debt.
uncappedChange(obligation, change, a) ==
  [obligation EXCEPT !.borrows =
     [b \in DOMAIN @ |-> IF b = a THEN [@[b] EXCEPT !.amount = add(@, change)] ELSE @[b]]]

\* The change is added to the debt as it was when its rate was last noted.
simulateBorrowChange(obligation, change, a) ==
  [obligation EXCEPT !.borrows =
     [b \in DOMAIN @ |->
        IF b = a THEN [@[b] EXCEPT !.amount = positiveOrZero(add(@, change))] ELSE @[b]]]

minus(a) == sub(zero, a)

changedAt(obligation, action, a, amount, rates) ==
  CASE action = "deposit"  -> simulateDepositChange(obligation, amount, a, rates)
    [] action = "withdraw" -> simulateDepositChange(obligation, minus(amount), a, rates)
    [] action = "borrow"   -> simulateBorrowChange(obligation, amount, a)
    [] action = "repay"    -> simulateBorrowChange(obligation, minus(amount), a)

statsAt(market, obligation, action, a, amount, rates) ==
  calculatePositions(market, changedAt(obligation, action, a, amount, rates), rates,
                     obligation.group)

\* One of the four plain actions, in the group the obligation is in.
getSimulatedObligationStats(market, obligation, action, a, amount, slot) ==
  statsAt(market, obligation, action, a, amount,
          getRatesForObligation(market, obligation, slot))

-----------------------------------------------------------------------------
(* What can still be done.                                                 *)

\* What the deposits allow beyond the debts, in units of the reserve.
unusedLimit(market, obligation, a, rates, group) ==
  LET limit == calculateObligationDeposits(market, obligation, rates, group).limit
      debt == calculateObligationBorrows(market, obligation, rates, group).adjusted
  IN  amountOf(market[a], div(sub(limit, debt), getBorrowFactorForReserve(market[a], group)))

\* A mutant: the fee is not part of what is borrowed.
feelessPower(market, obligation, a, slot, group) ==
  positiveOrZero(unusedLimit(market, obligation, a,
                             getRatesForObligation(market, obligation, slot), group))

\* Until the loan to value is reached, whatever the caps.
getBorrowPower(market, obligation, a, slot, group) ==
  LET power == unusedLimit(market, obligation, a,
                           getRatesForObligation(market, obligation, slot), group)
      disabled == \E d \in DOMAIN obligation.deposits :
                    Config[d].disableOutside /\ ~inGroup(market[a], group)
  IN  IF disabled THEN zero ELSE positiveOrZero(withoutFee(market[a], power))

\* stats are those of the obligation when it was loaded.
getMaxBorrowAmountV2(market, obligation, stats, a, slot, group) ==
  LET available == getLiquidityAvailableForDebtReserveGivenCaps(market, market[a], group)
      power == getBorrowPower(market, obligation, a, slot, group)
      owed == IF a \in DOMAIN stats.borrows THEN stats.borrows[a] ELSE zero
  IN  minOf({power, IF group = obligation.group THEN available
                    ELSE positiveOrZero(sub(available, owed))})

isLoanEligibleForElevationGroup(market, obligation, stats, slot, group) ==
  LET rates == getRatesForObligation(market, obligation, slot)
      limit == calculateObligationDeposits(market, obligation, rates, group).limit
  IN  /\ Cardinality(DOMAIN stats.borrows) <= 1
      /\ group > 0 => /\ DOMAIN stats.deposits \subseteq collateralReserves(market, group)
                      /\ DOMAIN stats.borrows \subseteq {Groups[group].debtReserve}
      /\ lte(stats.adjusted, limit)

\* The groups, but for the default one, that take these collaterals and debts.
getElevationGroupsForReservesCombination(market, collaterals, debts) ==
  {g \in DOMAIN Groups : /\ collaterals \subseteq collateralReserves(market, g)
                         /\ debts \subseteq {Groups[g].debtReserve}}

getElevationGroupsForObligation(market, stats) ==
  IF Cardinality(DOMAIN stats.borrows) > 1 THEN {}
  ELSE getElevationGroupsForReservesCombination(market, DOMAIN stats.deposits,
                                                DOMAIN stats.borrows)

\* With a loan to value of 0 the amount is taken for a value.
getMaxWithdrawAmount(market, obligation, stats, a, slot) ==
  LET held == stats.deposits[a]
      ltv == getLtvForReserve(market[a], obligation.group).max
      value == IF ltv = zero THEN held
               ELSE mul(div(sub(stats.borrowLimit, stats.adjusted), ltv), Margin)
      cap == sub(cfg(market[a]).depositCap.capacity, getDepositWithdrawalCapCurrent(market[a], slot))
  IN  IF stats.adjusted = zero THEN held
      ELSE IF lte(stats.borrowLimit, stats.adjusted) THEN zero
      ELSE positiveOrZero(minOf({held, amountOf(market[a], value),
                                 whole(market[a].available), cap}))

=============================================================================
