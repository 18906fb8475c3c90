----------------------------- MODULE Positions -----------------------------
(***************************************************************************)
(* A caller reads the market and an obligation, asks the SDK what it can   *)
(* still borrow or withdraw, whether it can change its elevation group, or *)
(* what an action would make of it, and sends the action.  Others use the  *)
(* same reserves, and interest accrues from slot to slot, whether or not   *)
(* anybody brings a reserve up to date.                                    *)
(***************************************************************************)
EXTENDS Obligation, LendingProgram

CONSTANTS
  Markets,      \* the markets to start from
  Owner,        \* the obligations to start from
  Amounts,      \* what is deposited, borrowed, withdrawn or repaid at a time
  OthersAmount, \* what others move at a time
  Slots,        \* bound: the slots at which something happens, from 0
  MaxOthers,    \* bound: what others do
  MaxRequests   \* bound: what the caller sends

VARIABLES
  slot,
  market,       \* the reserves, on the ledger
  obligation,   \* the caller's obligation, on the ledger
  view,         \* what the caller read: market, obligation and its statistics
  request,      \* what the caller asked for, and what it was shown
  outcome,      \* of the last request: "none", "accepted" or "rejected"
  others,       \* how often others acted
  sent          \* how many requests were sent

vars == <<slot, market, obligation, view, request, outcome, others, sent>>

-----------------------------------------------------------------------------
None == [op |-> "none", reserve |-> "", amount |-> 0, group |-> 0, slot |-> 0,
         exact |-> zero, shown |-> <<>>]

Maxima == {"borrowMax", "borrowFirst", "withdrawMax", "migrate"}
Actions == {"deposit", "withdraw", "borrow", "repay"}

read(m, o, now) == [market |-> m, obligation |-> o, stats |-> refreshedStats(m, o, now)]

Init ==
  /\ slot = 0
  /\ market \in Markets
  /\ obligation \in Owner
  /\ DOMAIN obligation.deposits \cup DOMAIN obligation.borrows \subseteq DOMAIN market
  /\ obligation.group # 0 => Groups[obligation.group].debtReserve \in DOMAIN market
  /\ view = read(market, obligation, 0)
  /\ request = None
  /\ outcome = "none"
  /\ others = 0
  /\ sent = 0

Tick ==
  /\ \E later \in Slots : later > slot /\ slot' = later
  /\ outcome' = "none"
  /\ UNCHANGED <<market, obligation, view, request, others, sent>>

\* Somebody else lends to a reserve, or borrows from it.
Others ==
  /\ others < MaxOthers
  /\ \E a \in DOMAIN market, deposit \in BOOLEAN :
       LET r == refresh(market[a], slot)
       IN  market' = [market EXCEPT ![a] =
             IF deposit THEN [r EXCEPT !.available = @ + OthersAmount,
                                       !.minted = @ + floor(mul(whole(OthersAmount), rateOf(r)))]
             ELSE [countDebt(r, slot, whole(OthersAmount)) EXCEPT
                     !.available = @ - OthersAmount, !.borrowed = add(@, whole(OthersAmount)),
                     !.outside = add(@, whole(OthersAmount))]]
  /\ \A a \in DOMAIN market : market'[a].available >= 0
  /\ others' = others + 1
  /\ outcome' = "none"
  /\ UNCHANGED <<slot, obligation, view, request, sent>>

\* loadReserves: the market is read; the obligation read before stays.
LoadReserves ==
  /\ request.op = "none" /\ view.market # market
  /\ view' = [view EXCEPT !.market = market]
  /\ outcome' = "none"
  /\ UNCHANGED <<slot, market, obligation, request, others, sent>>

\* KaminoObligation.load: its statistics are computed with the market read.
LoadObligation ==
  /\ request.op = "none"
  /\ view' = read(view.market, obligation, slot)
  /\ view' # view
  /\ outcome' = "none"
  /\ UNCHANGED <<slot, market, obligation, request, others, sent>>

\* The greatest amounts the SDK reports, rounded down to what can be sent.
maximum(o, op, a, g) ==
  CASE op = "borrowMax"   -> getMaxBorrowAmountV2(view.market, o, view.stats, a, slot, g)
    [] op = "borrowFirst" ->
         getMaxBorrowAmountWithCollReserve(
           view.market[a], view.market[CHOOSE d \in DOMAIN o.deposits : TRUE], slot)
    [] op = "withdrawMax" -> getMaxWithdrawAmount(view.market, o, view.stats, a, slot)
    [] op = "migrate"     -> zero

askFor(op, a, g, exact) ==
  /\ op # "migrate" => floor(exact) > 0
  /\ request' = [op |-> op, reserve |-> a, amount |-> floor(exact), group |-> g,
                 slot |-> slot, exact |-> exact, shown |-> <<>>]

AskMaximum ==
  \E a \in DOMAIN view.market, g \in {0} \cup DOMAIN Groups, op \in Maxima :
    LET o == view.obligation
        offered == {0} \cup getElevationGroupsForReservesCombination(
                              view.market, DOMAIN o.deposits, DOMAIN o.borrows \cup {a})
    IN  /\ CASE op = "borrowMax" -> a \notin DOMAIN o.deposits /\ g \in offered
              [] op = "borrowFirst" ->
                   /\ a \notin DOMAIN o.deposits
                   /\ DOMAIN o.borrows = {} /\ Cardinality(DOMAIN o.deposits) = 1
                   /\ g = eModeGroup(view.market[a],
                                     view.market[CHOOSE d \in DOMAIN o.deposits : TRUE])
              [] op = "withdrawMax" -> a \in DOMAIN o.deposits /\ g = o.group
              [] op = "migrate" ->
                   /\ a \in DOMAIN o.deposits /\ g # o.group
                   /\ isLoanEligibleForElevationGroup(view.market, o, view.stats, slot, g)
        /\ askFor(op, a, g, maximum(o, op, a, g))

\* An amount of the caller's choice, with what the SDK shows of it.
AskSimulation ==
  \E a \in DOMAIN view.market, op \in Actions, amount \in Amounts :
    LET o == view.obligation
        shown == [stats |-> getSimulatedObligationStats(view.market, o, op, a, whole(amount), slot),
                  apr |-> calcSimulatedBorrowAPR(view.market[a], whole(amount), op, slot)]
    IN  /\ CASE op \in {"deposit", "withdraw"} -> a \in DOMAIN o.deposits
              [] op = "borrow" -> a \notin DOMAIN o.deposits
              [] op = "repay" -> a \in DOMAIN o.borrows
        /\ ~simulationThrows(view.market, o, op, a, whole(amount), slot)
        /\ request' = [op |-> op, reserve |-> a, amount |-> amount, group |-> o.group,
                       slot |-> slot, exact |-> whole(amount), shown |-> shown]

Ask ==
  /\ request.op = "none"
  /\ sent < MaxRequests
  /\ AskMaximum \/ AskSimulation
  /\ outcome' = "none"
  /\ sent' = sent + 1
  /\ UNCHANGED <<slot, market, obligation, view, others>>

\* The collateral a withdrawal asks for, rounded up.
collateralAmount(r) ==
  ceil(mul(whole(r.amount), getEstimatedCollateralExchangeRate(view.market[r.reserve], r.slot)))

\* The transaction of a request, on the ledger as it is when it lands.
landedOn(r, start) ==
  LET moved == IF r.group = start.obligation.group THEN start ELSE regrouped(start, r.group)
      held == r.reserve \in DOMAIN start.obligation.deposits
  IN  CASE r.op = "migrate" -> moved
        [] r.op \in {"borrow", "borrowMax", "borrowFirst"} ->
             borrowed(moved, slot, r.reserve, r.amount)
        [] r.op = "deposit" -> deposited(start, slot, r.reserve, r.amount)
        [] r.op = "repay" -> repaid(start, slot, r.reserve, r.amount)
        [] r.op \in {"withdraw", "withdrawMax"} ->
             IF held THEN withdrawn(start, slot, r.reserve, collateralAmount(r))
                     ELSE [start EXCEPT !.ok = FALSE]

broughtTo(fresh) ==
  [ok |-> TRUE, market |-> fresh, obligation |-> broughtUp(fresh, obligation)]

landed(r) == landedOn(r, broughtTo([a \in DOMAIN market |-> refresh(market[a], slot)]))

settle(ledger) ==
  IF ledger.ok THEN /\ outcome' = "accepted"
                    /\ market' = ledger.market
                    /\ obligation' = ledger.obligation
               ELSE outcome' = "rejected" /\ UNCHANGED <<market, obligation>>

Land ==
  /\ request.op # "none"
  /\ settle(landed(request))
  /\ request' = None
  /\ UNCHANGED <<slot, view, others, sent>>

Next == Tick \/ Others \/ LoadReserves \/ LoadObligation \/ Ask \/ Land

Spec == Init /\ [][Next]_vars

-----------------------------------------------------------------------------
\* Type invariant: the ledger's amounts, what the caller reads and asks for,
\* and positions shown after an action, which are never negative.
PsTypeOK ==
  /\ slot \in Slots /\ others \in 0..MaxOthers /\ sent \in 0..MaxRequests
  /\ outcome \in {"none", "accepted", "rejected"}
  /\ \A a \in DOMAIN market : /\ market[a].available \in Nat /\ market[a].minted \in Nat
                             /\ market[a].lastUpdate <= slot /\ lte(zero, market[a].borrowed)
  /\ DOMAIN view.market = DOMAIN market
  /\ obligation.group \in {0} \cup DOMAIN Groups
  /\ request.op \in Maxima \cup Actions \cup {"none"} /\ request.amount \in Nat
  /\ request.op \in Actions =>
       LET stats == request.shown.stats
       IN  /\ \A a \in DOMAIN stats.deposits : lte(zero, stats.deposits[a])
           /\ \A a \in DOMAIN stats.borrows : lte(zero, stats.borrows[a])

\* Nothing happened since the caller read.
Current == /\ view.market = market
           /\ view.obligation = obligation
           /\ request.slot = slot

\* Interest the reserve does not show yet.
unshown(r) ==
  LET reserve == view.market[r.reserve]
  IN  sub(getEstimatedDebtAndSupply(reserve, r.slot).debt, reserve.borrowed)

capsBind(r) ==
  LET m == view.market
      moved == IF r.group = view.obligation.group \/ r.reserve \notin DOMAIN view.stats.borrows
               THEN zero ELSE view.stats.borrows[r.reserve]
      left == sub(getLiquidityAvailableForDebtReserveGivenCaps(m, m[r.reserve], r.group),
                  add(moved, unshown(r)))
  IN  lt(left, mul(getBorrowPower(m, view.obligation, r.reserve, r.slot, r.group),
                   plusOne(cfg(m[r.reserve]).borrowFee)))

behind(r) == view.market[r.reserve].lastUpdate < r.slot

aged(r) == lt(view.stats.adjusted,
              refreshedStats(view.market, view.obligation, r.slot).adjusted)

\* One unit of collateral, by which a withdrawal may be rounded up, is more
\* than the margin left, or there is no margin.
roundedOver(r) ==
  LET reserve == view.market[r.reserve]
      exchange == getEstimatedCollateralExchangeRate(reserve, r.slot)
      cap == sub(cfg(reserve).depositCap.capacity, getDepositWithdrawalCapCurrent(reserve, r.slot))
  IN  /\ mul(whole(r.amount), exchange)[2] # 1
      /\ \/ lt(mul(mul(r.exact, sub(one, Margin)), exchange), one)
         \/ r.exact \in {whole(reserve.available), cap}

\* More went in than out during an interval that is over for the program, not
\* for the SDK, which measures it from the reserve's last update.
surplusOver(r) ==
  LET reserve == view.market[r.reserve]
      over(cap, since) == cap.interval # 0 /\ r.slot - since >= cap.interval
  IN  IF r.op = "withdrawMax"
      THEN /\ lt(getDepositWithdrawalCapCurrent(reserve, r.slot), zero)
           /\ over(cfg(reserve).depositCap, reserve.depositSince)
      ELSE /\ lt(reserve.debtDrawn, zero)
           /\ over(cfg(reserve).debtCap, reserve.debtSince)

\* Without debt the whole deposit is the answer, whatever can leave the reserve.
unlimited(r) ==
  LET reserve == view.market[r.reserve]
  IN  /\ view.stats.adjusted = zero
      /\ \/ lt(whole(reserve.available), r.exact)
         \/ lt(sub(cfg(reserve).depositCap.capacity, getDepositWithdrawalCapCurrent(reserve, r.slot)),
               r.exact)

\* The group has no room for the debt that would move into it.
groupFull(r) ==
  \E a \in DOMAIN view.stats.borrows :
    LET reserve == view.market[a]
        left == IF r.group = 0 THEN sub(cfg(reserve).outsideLimit, reserve.outside)
                ELSE minOf({sub(Config[d].groupLimit, view.market[d].inGroup[r.group]) :
                              d \in DOMAIN view.stats.deposits})
    IN  lt(left, view.stats.borrows[a])

\* The statistics weigh the debt as the group it leaves does.
heavierThere(r) ==
  \E a \in DOMAIN view.stats.borrows :
    lt(getBorrowFactorForReserve(view.market[a], view.obligation.group),
       getBorrowFactorForReserve(view.market[a], r.group))

\* Where the code promises more than the program grants (see hazards).
Overstated(r) ==
  LET reserve == view.market[r.reserve]
      fee == cfg(reserve).borrowFee # zero
  IN  \/ r.op # "migrate" /\ surplusOver(r)
      \/ r.op = "withdrawMax" /\ (roundedOver(r) \/ unlimited(r))
      \/ r.op \in {"withdrawMax", "migrate"} /\ aged(r)
      \/ r.op = "migrate" /\ (groupFull(r) \/ heavierThere(r))
      \/ r.op = "borrowMax" /\ capsBind(r) /\ (behind(r) \/ fee)
      \/ /\ r.op = "borrowFirst"
         /\ \/ behind(r)
            \/ fee /\ r.exact # withoutFee(reserve, cappedWithFee(reserve, r.slot))
            \/ lt(getBorrowPower(view.market, view.obligation, r.reserve, r.slot, r.group), r.exact)

\* What the SDK reports as the most that can be borrowed or withdrawn, and a
\* change of elevation group it calls eligible, is accepted by the program if it
\* lands in the slot it was computed for and nobody acted since the caller read:
\* reserve.ts:497-568, 944-1060, obligation.ts:788-965 and 1094-1144.
MaximumServed ==
  [][Current /\ request.op \in Maxima /\ request' = None /\ ~Overstated(request)
       => outcome' = "accepted"]_vars

\* The obligation shown is safer, or the rate lower, than what comes of it.
Rosier(shown, after, apr) ==
  \/ lt(shown.stats.adjusted, after.adjusted)
  \/ lt(after.borrowLimit, shown.stats.borrowLimit)
  \/ lt(shown.apr, apr)

\* What the simulation of a borrow or a repayment leaves out.
Overlooked(r) ==
  LET reserve == view.market[r.reserve]
      debts == view.obligation.borrows
  IN  \/ /\ r.op = "borrow"
         /\ r.reserve \notin DOMAIN debts \/ cfg(reserve).borrowFee # zero
      \/ /\ r.op = "repay"
         /\ \/ debts[r.reserve].rate # getEstimatedCumulativeBorrowRate(reserve, r.slot)
            \/ lt(debts[r.reserve].amount, whole(r.amount))

\* getSimulatedObligationStats and calcSimulatedBorrowAPR do not embellish: an
\* action that lands as it was shown leaves no more debt, no lower borrow limit
\* and no higher rate than what the caller saw.
SimulationNoRosier ==
  [][Current /\ request.op \in Actions /\ outcome' = "accepted" /\ ~Overlooked(request)
       => ~Rosier(request.shown, refreshedStats(market', obligation', slot),
                  calculateBorrowAPR(market'[request.reserve], slot))]_vars

=============================================================================
