--------------------------- MODULE LendingProgram ---------------------------
(***************************************************************************)
(* The lending program, which is not under src/, as the SDK uses it.  It   *)
(* brings the reserves a transaction touches up to its slot, and refuses   *)
(* what breaks a cap or the loan to value.  A step takes a ledger          *)
(* [ok, market, obligation] to the next; a transaction that is not ok at   *)
(* its end changes nothing.                                                *)
(***************************************************************************)
EXTENDS Reserve

\* Interest, at the rate of the utilization before it.
accrued(reserve, grown, factor, now) ==
  [reserve EXCEPT !.borrowed = grown.debt, !.protocolFees = grown.protocolFees,
                  !.pendingFees = grown.pendingFees, !.rate = mul(@, factor),
                  !.lastUpdate = now]

refresh(reserve, now) ==
  LET slots == slotsElapsed(reserve, now)
      rate == add(calculateBorrowRate(reserve), cfg(reserve).hostRate)
  IN  IF slots = 0 THEN reserve
      ELSE accrued(reserve, compoundInterest(reserve, slots, ReferralFee),
                   approximateCompoundedInterest(rate, slots), now)

\* Collateral per token.
rateOf(reserve) == div(whole(reserve.minted), getTotalSupply(reserve))

owedNow(reserve, borrow) == div(mul(borrow.amount, reserve.rate), borrow.rate)

\* The obligation with its debts brought up to the rates of the reserves.
broughtUp(m, o) ==
  [o EXCEPT !.borrows = [a \in DOMAIN @ |-> [amount |-> owedNow(m[a], @[a]), rate |-> m[a].rate]]]

priced(reserve, amount) ==
  mul(amount, ratio(cfg(reserve).price[1], cfg(reserve).price[2] * cfg(reserve).mintFactor))

member(reserve, group) == group # 0 /\ group \in cfg(reserve).groups

\* Debt, weighted, is within what the deposits allow.
healthy(m, o) ==
  LET allowed(a) == mul(priced(m[a], div(whole(o.deposits[a]), rateOf(m[a]))),
                        IF member(m[a], o.group) THEN Groups[o.group].ltv ELSE cfg(m[a]).ltv)
      weighted(a) == mul(priced(m[a], o.borrows[a].amount),
                         IF member(m[a], o.group) THEN one ELSE cfg(m[a]).borrowFactor)
  IN  lte(total(weighted, DOMAIN o.borrows), total(allowed, DOMAIN o.deposits))

\* A withdrawal cap counts over intervals of its own; 0 is no cap.
counted(cap, drawn, since, now, amount) ==
  IF cap.interval = 0 THEN <<drawn, since>>
  ELSE IF now - since >= cap.interval THEN <<amount, now>> ELSE <<add(drawn, amount), since>>

withinCap(cap, drawn) == cap.interval = 0 \/ lte(drawn, cap.capacity)

countDebt(reserve, now, amount) ==
  LET c == counted(cfg(reserve).debtCap, reserve.debtDrawn, reserve.debtSince, now, amount)
  IN  [reserve EXCEPT !.debtDrawn = c[1], !.debtSince = c[2]]
countDeposit(reserve, now, amount) ==
  LET c == counted(cfg(reserve).depositCap, reserve.depositDrawn, reserve.depositSince, now, amount)
  IN  [reserve EXCEPT !.depositDrawn = c[1], !.depositSince = c[2]]

\* The debt counted outside the groups, or against the collaterals in one.
moveDebt(m, o, a, group, amount) ==
  [b \in DOMAIN m |->
     IF group = 0
     THEN IF b = a THEN [m[b] EXCEPT !.outside = positiveOrZero(add(@, amount))] ELSE m[b]
     ELSE IF b \in DOMAIN o.deposits
          THEN [m[b] EXCEPT !.inGroup[group] = positiveOrZero(add(@, amount))] ELSE m[b]]

withinGroupCaps(m, o, a, group) ==
  IF group = 0 THEN lte(m[a].outside, cfg(m[a]).outsideLimit)
  ELSE \A b \in DOMAIN o.deposits : lte(m[b].inGroup[group], cfg(m[b]).groupLimit)

\* What a step of the program makes of ledger s = [ok, market, obligation].
deposited(s, now, a, amount) ==
  LET supply == add(getTotalSupply(s.market[a]), whole(amount))
      shares == floor(mul(whole(amount), rateOf(s.market[a])))
      m == [s.market EXCEPT ![a] = countDeposit([@ EXCEPT !.available = @ + amount,
                                                          !.minted = @ + shares],
                                                now, whole(-amount))]
      had == IF a \in DOMAIN s.obligation.deposits THEN s.obligation.deposits[a] ELSE 0
  IN  [ok |-> s.ok /\ lte(supply, cfg(s.market[a]).depositLimit), market |-> m,
       obligation |-> [s.obligation EXCEPT !.deposits =
         [b \in DOMAIN @ \cup {a} |-> IF b = a THEN had + shares ELSE @[b]]]]

\* The fee is added to the debt, and leaves the reserve with it.
borrowed(s, now, a, amount) ==
  LET debt == mul(whole(amount), plusOne(cfg(s.market[a]).borrowFee))
      taken == countDebt([s.market[a] EXCEPT !.available = @ - ceil(debt),
                                             !.borrowed = add(@, debt)], now, debt)
      had == IF a \in DOMAIN s.obligation.borrows THEN s.obligation.borrows[a].amount ELSE zero
      o == [s.obligation EXCEPT !.borrows =
              [b \in DOMAIN @ \cup {a} |->
                 IF b = a THEN [amount |-> add(had, debt), rate |-> taken.rate] ELSE @[b]]]
      m == moveDebt([s.market EXCEPT ![a] = taken], o, a, o.group, debt)
      limit == cfg(taken).utilizationLimit
  IN  [ok |-> /\ s.ok
              /\ taken.available >= 0
              /\ lte(taken.borrowed, cfg(taken).borrowLimit)
              /\ withinCap(cfg(taken).debtCap, taken.debtDrawn)
              /\ limit = zero \/ lte(calculateUtilizationRatio(taken), limit)
              /\ withinGroupCaps(m, o, a, o.group)
              /\ o.group # 0 => Groups[o.group].debtReserve = a
              /\ \A d \in DOMAIN o.deposits :
                   Config[d].disableOutside => member(taken, o.group)
              /\ healthy(m, o),
       market |-> m, obligation |-> o]

repaid(s, now, a, amount) ==
  LET owed == IF a \in DOMAIN s.obligation.borrows THEN s.obligation.borrows[a].amount ELSE zero
      paid == minOf({whole(amount), owed})
      left == [s.obligation EXCEPT !.borrows =
                 [b \in DOMAIN @ \ (IF paid = owed THEN {a} ELSE {}) |->
                    IF b = a THEN [@[b] EXCEPT !.amount = sub(owed, paid)] ELSE @[b]]]
      m == [s.market EXCEPT ![a] =
              countDebt([@ EXCEPT !.available = @ + ceil(paid), !.borrowed = sub(@, paid)],
                        now, sub(zero, paid))]
  IN  [ok |-> s.ok /\ owed # zero,
       market |-> moveDebt(m, left, a, s.obligation.group, sub(zero, paid)),
       obligation |-> left]

\* `shares` of collateral are redeemed.
withdrawn(s, now, a, shares) ==
  LET held == s.obligation.deposits[a]
      burnt == IF shares > held THEN held ELSE shares
      out == floor(div(whole(burnt), rateOf(s.market[a])))
      m == [s.market EXCEPT ![a] = countDeposit([@ EXCEPT !.available = @ - out,
                                                          !.minted = @ - burnt],
                                                now, whole(out))]
      o == [s.obligation EXCEPT !.deposits =
              [b \in DOMAIN @ \ (IF burnt = held THEN {a} ELSE {}) |->
                 IF b = a THEN held - burnt ELSE @[b]]]
  IN  [ok |-> /\ s.ok
              /\ m[a].available >= 0
              /\ withinCap(cfg(m[a]).depositCap, m[a].depositDrawn)
              /\ DOMAIN o.borrows = {} \/ healthy(m, o),
       market |-> m, obligation |-> o]

\* The debts move with the obligation, if it fits the group.
regrouped(s, group) ==
  LET o == [s.obligation EXCEPT !.group = group]
      amount(a) == s.obligation.borrows[a].amount
      move(m, a) == moveDebt(moveDebt(m, o, a, s.obligation.group, sub(zero, amount(a))),
                             o, a, group, amount(a))
      m == FoldSet(LAMBDA a, acc : move(acc, a), s.market, DOMAIN o.borrows)
  IN  [ok |-> /\ s.ok
              /\ Cardinality(DOMAIN o.borrows) <= 1 \/ group = 0
              /\ group # 0 => /\ \A a \in DOMAIN o.deposits : group \in Config[a].groups
                              /\ DOMAIN o.borrows \subseteq {Groups[group].debtReserve}
              /\ \A a \in DOMAIN o.borrows : withinGroupCaps(m, o, a, group)
              /\ healthy(m, o),
       market |-> m, obligation |-> o]

=============================================================================
