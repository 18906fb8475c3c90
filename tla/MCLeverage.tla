----------------------------- MODULE MCLeverage -----------------------------
(* Small instances of Leverage: a position of 300 collateral and 100 or so  *)
(* of debt, prices of one or two, fees and slippage of none or a tenth.     *)
EXTENDS Leverage

none == [a |-> 1, b |-> 1, shares |-> 0, fee |-> whole(0), debtIs |-> "a"]
Pools == {[a |-> 1200, b |-> 600, shares |-> 1200, fee |-> whole(0), debtIs |-> d] :
            d \in {"a", "b"}}

Tenth == ratio(1, 10)

base == [op |-> "deposit", amount |-> 100, target |-> whole(2), selected |-> "coll",
         sol |-> "none", fee |-> [coll |-> whole(0), debt |-> whole(0)],
         slip |-> whole(0), price |-> one, oracle |-> one, closing |-> FALSE,
         pool |-> none, rates |-> one, countOnly |-> FALSE,
         loaded |-> [coll |-> 0, debt |-> 0]]

Fees == {[coll |-> c, debt |-> d] : c \in {whole(0), Tenth}, d \in {whole(0), Tenth}}

Deposits ==
  {[base EXCEPT !.target = t, !.selected = s, !.sol = sol, !.fee = f, !.slip = slip,
                !.price = p, !.oracle = p] :
     t \in {whole(2), ratio(5, 2)}, s \in {"coll", "debt"}, sol \in {"none", "coll", "debt"},
     f \in Fees, slip \in {whole(0), Tenth}, p \in {one, ratio(1, 2)}}


\* ktoken deposits, at the price of the pool.
KtokenDeposits ==
  {[base EXCEPT !.target = t, !.selected = s, !.sol = sol, !.fee = f, !.slip = Tenth,
                !.pool = pool, !.price = sharesPerDebt(pool), !.oracle = sharesPerDebt(pool)] :
     t \in {whole(2)}, s \in {"coll", "debt"}, sol \in {"none", "debt"},
     f \in Fees, pool \in Pools}

Position(p, k) == [coll |-> 300, debt |-> (100 * k * p[2]) \div p[1]]

\* What is left of a position once its debt is repaid.
Net(p, k, selected) ==
  LET coll == 300 - 100 * k
  IN  IF selected = "coll" THEN coll ELSE (coll * p[2]) \div p[1]

Withdrawals ==
  {[base EXCEPT !.op = "withdraw", !.loaded = Position(p, k), !.closing = c,
                !.amount = IF c THEN Net(p, k, s) ELSE 40,
                !.selected = s, !.sol = sol, !.fee = f, !.slip = slip, !.price = p, !.oracle = p] :
     k \in {1, 2}, c \in BOOLEAN, s \in {"coll", "debt"}, sol \in {"none", "coll", "debt"},
     f \in Fees, slip \in {whole(0), Tenth}, p \in {one, ratio(1, 2)}}

KtokenWithdrawals ==
  {[base EXCEPT !.op = "withdraw", !.loaded = Position(sharesPerDebt(pool), 1),
                !.closing = c, !.amount = IF c THEN Net(sharesPerDebt(pool), 1, s) ELSE 40,
                !.selected = s, !.fee = f, !.slip = Tenth, !.pool = pool,
                !.price = sharesPerDebt(pool), !.oracle = sharesPerDebt(pool)] :
     c \in BOOLEAN, s \in {"coll", "debt"}, f \in Fees, pool \in Pools}

Adjustments ==
  {[base EXCEPT !.op = "adjust", !.loaded = Position(p, k), !.target = t,
                !.sol = sol, !.fee = f, !.slip = slip, !.price = p, !.oracle = o] :
     k \in {1, 2}, t \in {ratio(13, 10), ratio(7, 5), whole(2), ratio(59, 20), ratio(14, 5), whole(4)}, sol \in {"none", "debt"},
     f \in Fees, slip \in {whole(0), Tenth}, p \in {one, ratio(1, 2)}, o \in {one, ratio(1, 2)}}

KtokenAdjustments ==
  {[base EXCEPT !.op = "adjust", !.loaded = Position(sharesPerDebt(pool), 1), !.target = t,
                !.fee = f, !.slip = Tenth, !.pool = pool, !.price = sharesPerDebt(pool),
                !.oracle = sharesPerDebt(pool)] :
     t \in {ratio(7, 5), whole(2)}, f \in Fees, pool \in Pools}

Repays ==
  {[base EXCEPT !.op = "repay_with_coll", !.loaded = Position(p, 1), !.closing = c,
                !.amount = IF c THEN Position(p, 1).debt ELSE 60, !.sol = sol, !.fee = f, !.slip = slip, !.price = p,
                !.oracle = p, !.rates = rt] :
     c \in BOOLEAN, sol \in {"none", "debt"}, f \in Fees, slip \in {whole(0), Tenth},
     p \in {one, ratio(1, 2)}, rt \in {one, ratio(101, 100)}}

MCRequests == Deposits \cup KtokenDeposits \cup Withdrawals \cup KtokenWithdrawals
              \cup Adjustments \cup KtokenAdjustments \cup Repays
              \cup {[r EXCEPT !.countOnly = TRUE] : r \in KtokenWithdrawals}
MCMissing == {{}, {"coll", "ctoken"}, {"debt"}, {"coll", "debt", "ctoken", "second"}}
MCMaxLtv == ratio(9, 10)
=============================================================================
