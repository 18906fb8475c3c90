------------------------------ MODULE Leverage ------------------------------
(***************************************************************************)
(* Leveraged positions: deposit, withdraw and adjust with a flash loan,    *)
(* and repaying a debt with its collateral.  A builder computes amounts    *)
(* from what the caller read, probes the token accounts of the user, reads *)
(* balances, asks a swapper for instructions and returns ONE list: token   *)
(* accounts, wrapped SOL, flash borrow, lending, swap, flash repay.  The   *)
(* list lands later, all or nothing.  Between the reads and the landing    *)
(* the user's accounts and the debt go on changing.                        *)
(*                                                                         *)
(* Amounts are in the smallest unit of their token; a calculation is exact *)
(* (Decimals) until the code rounds it.  Prices given by the caller are    *)
(* consistent: the price of collateral in debt is the inverse of the price *)
(* of debt in collateral.                                                  *)
(***************************************************************************)
EXTENDS Ktokens, Sequences, FiniteSets, SequencesExt

CONSTANTS
  Requests,        \* what callers ask for, see LvTypeOK
  Missing,         \* the sets of token accounts a user may lack
  WrapCap,         \* 0.1 SOL, the most that is wrapped beside a repay
  Dust,            \* what the user has of each token beside the deposit
  Sol,             \* the user's SOL beside the deposit
  MaxLtv,          \* the loan to value the program accepts, a fraction
  MaxDisturbances  \* what happens to the user between build and landing

VARIABLES
  request,    \* the call's properties
  stage,      \* where the call is
  unread,     \* the mints whose token account is not probed yet
  absent,     \* the mints whose token account was found missing
  solRead,    \* the SOL balance read
  announced,  \* the balance of the debt account announced to the ktoken swap
  ixns,       \* the instructions returned
  quote,      \* how the swap went: "quoted", "worst", or "none" before it
  ledger,     \* the user's SOL, tokens, token accounts and position
  disturbed   \* how the ledger changed on its own since the call

vars == <<request, stage, unread, absent, solRead, announced, ixns, quote,
          ledger, disturbed>>

U64_MAX == 1000000   \* more than any amount

Ops == {"deposit", "withdraw", "adjust", "repay_with_coll"}

isKtoken(r) == r.pool.shares # 0
selectedIsColl(r) == r.selected = "coll"
depositTokenIsSol(r) == r.sol = r.selected
priceCollToDebt(r) == div(one, r.price)
plusFee(r, reserve) == plusOne(r.fee[reserve])
plusSlip(r) == plusOne(r.slip)

-----------------------------------------------------------------------------
(* The amounts of a deposit.                                               *)

depositLeverageCalcs(r, fee) ==
  LET x == div(mul(plusOne(fee), plusSlip(r)), r.price)
      y == mul(r.target, r.price)
      part == sub(x, div(sub(r.target, one), y))
      finalColl == IF selectedIsColl(r) THEN div(mul(whole(r.amount), x), part)
                                        ELSE div(whole(r.amount), part)
      bought == IF selectedIsColl(r) THEN sub(finalColl, whole(r.amount))
                                     ELSE finalColl
      debt == IF selectedIsColl(r)
              THEN mul(bought, x)
              ELSE div(mul(sub(r.target, one), finalColl), y)
  IN  [flash |-> mul(bought, plusOne(fee)), borrow |-> debt, deposit |-> finalColl,
       swapIn |-> IF selectedIsColl(r) THEN debt ELSE add(debt, whole(r.amount))]

\* Collateral selected: the flash loan is in the debt token and buys shares.
ktokenCollCalcs(r, fee) ==
  LET x == div(plusSlip(r), r.price)
      y == mul(plusOne(fee), r.price)
      z == div(mul(r.target, y), sub(r.target, one))
      flash == div(whole(r.amount), sub(z, div(one, x)))
  IN  [flash |-> flash, deposit |-> add(whole(r.amount), div(flash, x)),
       borrow |-> mul(flash, plusOne(fee)), swapIn |-> flash]

\* Debt selected: the shares are minted from both tokens of the pool.
ktokenDebtCalcs(r, fee) ==
  LET x == div(mul(plusOne(fee), plusSlip(r)), r.price)
      y == mul(r.target, r.price)
      finalColl == div(whole(r.amount), sub(x, div(sub(r.target, one), y)))
      mint == simulateMintKToken(r.pool, finalColl)
      px == priceAinB(r.pool)
      singleSided == IF r.pool.debtIs = "a" THEN add(mint.a, div(mint.b, px))
                                            ELSE add(mint.b, mul(mint.a, px))
      needed == div(singleSided, sub(one, r.slip))
      flash == div(sub(needed, whole(r.amount)), sub(one, fee))
  IN  [flash |-> flash, deposit |-> whole(mint.shares),
       borrow |-> div(flash, sub(one, fee)), swapIn |-> needed]

depositLeverageKtokenCalcs(r, fee) ==
  IF selectedIsColl(r) THEN ktokenCollCalcs(r, fee) ELSE ktokenDebtCalcs(r, fee)

\* The amounts a deposit is built from: the fee is the collateral reserve's,
\* and the amounts of a ktoken are rounded up before anything uses them.
roundedUp(calcs) == [calcs EXCEPT !.flash = whole(ceil(@)), !.borrow = whole(ceil(@)),
                                  !.swapIn = whole(ceil(@))]
depositAmounts(r) ==
  IF isKtoken(r) THEN roundedUp(depositLeverageKtokenCalcs(r, r.fee.coll))
                 ELSE depositLeverageCalcs(r, r.fee.coll)

\* The swap a form shows before the deposit is built.
getDepositWithLeverageSwapInputs(r) ==
  [in |-> ceil(depositLeverageCalcs(r, r.fee.debt).swapIn), from |-> "debt", to |-> "coll"]

-----------------------------------------------------------------------------
(* The amounts of a withdrawal, an adjustment and a repay with collateral. *)

netPosition(r) == sub(whole(r.loaded.coll), div(whole(r.loaded.debt), priceCollToDebt(r)))

borrowOfFinal(r, coll, leverage, fee) ==
  mul(mul(mul(coll, leverage), priceCollToDebt(r)), plusOne(fee))

calcBorrowAmount(r, coll, leverage, fee) ==
  mul(mul(sub(mul(coll, leverage), coll), priceCollToDebt(r)), plusOne(fee))

\* What leaves the position so that its leverage stays.
calcWithdrawAmounts(r) ==
  LET leverage == div(whole(r.loaded.coll), netPosition(r))
      out == IF selectedIsColl(r) THEN whole(r.amount)
                                  ELSE div(whole(r.amount), priceCollToDebt(r))
      rest == sub(netPosition(r), out)
      zeroFee == whole(0)
  IN  [coll |-> sub(whole(r.loaded.coll), mul(rest, leverage)),
       debt |-> sub(whole(r.loaded.debt), calcBorrowAmount(r, rest, leverage, zeroFee))]

calcAdjustAmounts(r, fee) ==
  [coll |-> sub(mul(netPosition(r), r.target), whole(r.loaded.coll)),
   debt |-> sub(calcBorrowAmount(r, netPosition(r), r.target, fee), whole(r.loaded.debt))]

\* The interest since the obligation's last refresh, as a ratio of rates; 0
\* when there was none.
estimateObligationInterestRate(r) == IF lt(one, r.rates) THEN r.rates ELSE whole(0)

\* The debt to repay: the ratio of rates, taken as basis points, on top.
withInterestBps(r, amount) ==
  LET bps == div(add(estimateObligationInterestRate(r), ratio(1, 10)), whole(10000))
  IN  ceil(mul(amount, plusOne(bps)))

withdrawAmounts(r) ==
  LET calc == IF r.closing THEN [coll |-> whole(r.loaded.coll), debt |-> whole(r.loaded.debt)]
                           ELSE calcWithdrawAmounts(r)
      repay == withInterestBps(r, calc.debt)
      forFlash == div(mul(mul(whole(repay), plusFee(r, "debt")), plusSlip(r)),
                      priceCollToDebt(r))
  IN  [repay |-> repay,
       withdraw |-> IF r.closing THEN calc.coll ELSE mul(calc.coll, plusFee(r, "debt")),
       swapIn |-> ceil(IF selectedIsColl(r) THEN forFlash ELSE calc.coll)]

shownWithoutFee(r) ==
  [in |-> ceil(IF selectedIsColl(r)
               THEN div(mul(whole(withdrawAmounts(r).repay), plusSlip(r)), priceCollToDebt(r))
               ELSE whole(withdrawAmounts(r).swapIn)),
   from |-> "coll", to |-> "debt"]

getWithdrawWithLeverageSwapInputs(r) ==
  LET repay == withInterestBps(r, IF r.closing THEN whole(r.loaded.debt)
                                               ELSE calcWithdrawAmounts(r).debt)
      forFlash == div(mul(mul(whole(repay), plusFee(r, "debt")), plusSlip(r)),
                      priceCollToDebt(r))
      forWallet == IF r.closing THEN whole(r.loaded.coll) ELSE calcWithdrawAmounts(r).coll
  IN  [in |-> ceil(IF selectedIsColl(r) THEN forFlash ELSE forWallet),
       from |-> "coll", to |-> "debt"]

\* The leverage of the obligation, at the prices of the oracle.
currentLeverage(r) ==
  div(whole(r.loaded.coll), sub(whole(r.loaded.coll), mul(whole(r.loaded.debt), r.oracle)))

isDepositViaLeverage(r) == lte(currentLeverage(r), r.target)

adjustAmounts(r) ==
  calcAdjustAmounts(r, IF isDepositViaLeverage(r) THEN r.fee.coll ELSE r.fee.debt)

positive(a) == a[1] >= 0
increases(calc) == positive(calc.coll) /\ positive(calc.debt)

\* Where the oracle and the caller's price disagree on the direction.
invalidTargetLeverage(r) == isDepositViaLeverage(r) # increases(adjustAmounts(r))

borrowToRepayFlash(r, coll, fee) ==
  div(mul(mul(coll, plusOne(fee)), plusSlip(r)), r.price)

getAdjustLeverageSwapInputs(r) ==
  LET calc == calcAdjustAmounts(r, r.fee.debt)
      out == mul(mul(abs(calc.coll), plusFee(r, "debt")), plusSlip(r))
  IN  IF increases(calc)
      THEN [in |-> ceil(borrowToRepayFlash(r, calc.coll, r.fee.debt)),
            from |-> "debt", to |-> "coll"]
      ELSE [in |-> ceil(out), from |-> "coll", to |-> "debt"]

\* A repay with collateral: the ratio of rates is a factor here, and the fee,
\* a fraction, is taken as a percentage.
repayAdjusted(r) ==
  ceil(mul(whole(r.amount), mul(estimateObligationInterestRate(r), ratio(1001, 1000))))

repayWithCollCalcs(r, repay, feePct) ==
  LET debtOut == mul(whole(repay), plusOne(div(feePct, whole(100))))
  IN  [repay |-> repay, swapIn |-> ceil(mul(mul(debtOut, plusSlip(r)), r.price))]

getRepayWithCollSwapInputs(r) ==
  [in |-> repayWithCollCalcs(r, repayAdjusted(r), whole(ceil(r.fee.debt))).swapIn,
   from |-> "coll", to |-> "debt"]

-----------------------------------------------------------------------------
(* Token accounts, wrapped SOL and the flash loan.                         *)

mintsToCreateAtas(r) ==
  <<"coll", "debt", "ctoken">> \o IF isKtoken(r) /\ r.op # "repay_with_coll"
                                  THEN <<"second">> ELSE <<>>

createAta(mint) == [do |-> "create_ata", mint |-> mint]

createAtaIfMissing(mint, missing) ==
  IF mint \in missing THEN <<createAta(mint)>> ELSE <<>>

getAtasWithCreateIxnsIfMissing(r, missing) ==
  FlattenSeq([i \in DOMAIN mintsToCreateAtas(r) |->
                createAtaIfMissing(mintsToCreateAtas(r)[i], missing)])

getDepositWsolIxns(mint, amount) ==
  <<[do |-> "transfer", mint |-> mint, amount |-> amount],
    [do |-> "sync_native", mint |-> mint]>>

\* Half of the SOL, 0.1 SOL at most.
balanceToWrap(lamports) ==
  ceil(LET half == ratio(lamports, 2) IN IF lt(half, whole(WrapCap)) THEN half ELSE whole(WrapCap))

closeWsolAta(r) == <<[do |-> "close_wsol", mint |-> r.sol]>>

\* The swapper's instructions without its budget; the account creations stay.
removeBudgetAndAtaIxns(list) == SelectSeq(list, LAMBDA i : i.do # "budget")

budgetIxns == <<[do |-> "budget"], [do |-> "budget"]>>

flashBorrow(token, amount) ==
  [do |-> "flash_borrow", token |-> token, amount |-> floor(amount)]
flashRepay(token, amount, index) ==
  [do |-> "flash_repay", token |-> token, amount |-> floor(amount), index |-> index]

lend(what, amount) == [do |-> what, amount |-> amount]
refresh == <<[do |-> "refresh"]>>

\* One lending action: its refreshes before, its lending instruction(s) and
\* its refreshes behind.
lendingAction(list) == refresh \o list \o refresh

indexWithoutFill(create, fill) == Len(budgetIxns) + Len(create)

\* What comes before the flash borrow, whose place the flash repay names.
borrowIxnIndex(create, fill) == Len(budgetIxns) + Len(create) + Len(fill)

-----------------------------------------------------------------------------
(* The swaps.  A caller's swapper answers with a budget, the creation of   *)
(* the account it pays to and the swap; its price is the caller's.         *)

tokenPerToken(r, from, to) ==
  CASE from = "debt"   -> r.price
    [] from = "coll"   -> priceCollToDebt(r)
    [] from = "second" -> debtPerSecond(r.pool)

swapper(r, in, from, to) ==
  <<[do |-> "budget"], createAta(to),
    [do |-> "swap", in |-> in, from |-> from, to |-> to,
     price |-> tokenPerToken(r, from, to)]>>

getTokenToKtokenSwapper(r, in, balance) ==
  <<[do |-> "mint_ktoken", in |-> in, balance |-> balance, price |-> r.price]>>

\* The shares are given back and what came in the other token is swapped, as
\* much of it as was estimated.
getKtokenToTokenSwapper(r, in) ==
  LET estimate == getKtokenWithdrawEstimatesAndPrice(r.pool, in)
      second == IF r.pool.debtIs = "a" THEN estimate.b ELSE estimate.a
  IN  <<[do |-> "burn_ktoken", in |-> in]>> \o swapper(r, second, "second", "debt")

swapIxns(r, from, to, in, balance) ==
  removeBudgetAndAtaIxns(
    IF ~isKtoken(r) \/ r.op = "repay_with_coll" THEN swapper(r, in, from, to)
    ELSE IF from = "debt" THEN getTokenToKtokenSwapper(r, in, balance)
    ELSE getKtokenToTokenSwapper(r, in))

-----------------------------------------------------------------------------
(* The lists.  A builder's plan is [ixns, swapIn]: what lands and what the *)
(* caller is told goes into the swap.                                      *)

\* Shares are minted before they are deposited; other collateral is lent by
\* the flash loan and bought back at the end.
ordered(r, lending, swap) == IF isKtoken(r) THEN swap \o lending ELSE lending \o swap

flashToken(r) == IF isKtoken(r) THEN "debt" ELSE "coll"

depositFill(r) == IF depositTokenIsSol(r) THEN getDepositWsolIxns(r.selected, r.amount)
                                          ELSE <<>>

\* The debt account's balance before the swap of a ktoken deposit.
expectedDebtTokenAtaBalance(r, flash, balance) ==
  balance + ceil(flash)
          + IF r.sol = "debt" /\ depositTokenIsSol(r) THEN r.amount ELSE 0

depositList(r, calcs, create, balance) ==
  LET in == ceil(calcs.swapIn)
      lending == lendingAction(<<lend("deposit", floor(calcs.deposit)),
                                 lend("borrow", ceil(calcs.borrow))>>)
      swap == swapIxns(r, "debt", "coll", in,
                       expectedDebtTokenAtaBalance(r, calcs.flash, balance))
  IN  [ixns |-> budgetIxns \o create \o depositFill(r)
                 \o <<flashBorrow(flashToken(r), calcs.flash)>>
                 \o ordered(r, lending, swap)
                 \o <<flashRepay(flashToken(r), calcs.flash,
                                 borrowIxnIndex(create, depositFill(r)))>>,
       swapIn |-> in]

getDepositWithLeverageIxns(r, missing, balance) ==
  depositList(r, depositAmounts(r), getAtasWithCreateIxnsIfMissing(r, missing), balance)

\* SOL that is wrapped beside a repay in SOL, and given back at the end.
debtFill(r, lamports) ==
  IF r.sol = "debt" THEN getDepositWsolIxns("debt", balanceToWrap(lamports)) ELSE <<>>

withdrawList(r, amounts, create, fill) ==
  LET repay == IF r.closing THEN U64_MAX ELSE amounts.repay
      out == IF r.closing THEN U64_MAX ELSE ceil(amounts.withdraw)
      close == IF depositTokenIsSol(r) \/ r.sol = "debt" THEN closeWsolAta(r) ELSE <<>>
  IN  [ixns |-> budgetIxns \o create \o fill
                 \o <<flashBorrow("debt", whole(amounts.repay))>>
                 \o lendingAction(<<lend("repay", repay), lend("withdraw", out)>>)
                 \o swapIxns(r, "coll", "debt", amounts.swapIn, 0)
                 \o <<flashRepay("debt", whole(amounts.repay), borrowIxnIndex(create, fill))>>
                 \o close,
       swapIn |-> amounts.swapIn]

getWithdrawWithLeverageIxns(r, missing, lamports) ==
  withdrawList(r, withdrawAmounts(r), getAtasWithCreateIxnsIfMissing(r, missing),
               debtFill(r, lamports))

amountToFashBorrowDebt(r, coll) == ceil(mul(div(coll, r.price), plusSlip(r)))

getIncreaseLeverageIxns(r, coll, missing, balance) ==
  LET create == getAtasWithCreateIxnsIfMissing(r, missing)
      borrow == borrowToRepayFlash(r, coll, r.fee.coll)
      flash == IF isKtoken(r) THEN whole(amountToFashBorrowDebt(r, coll)) ELSE coll
      in == IF isKtoken(r) THEN floor(flash) ELSE ceil(borrow)
      lending == lendingAction(<<lend("deposit", floor(coll))>>)
                 \o lendingAction(<<lend("borrow", ceil(borrow))>>)
  IN  [ixns |-> budgetIxns \o create \o <<flashBorrow(flashToken(r), flash)>>
                 \o ordered(r, lending, swapIxns(r, "debt", "coll", in, balance + floor(flash)))
                 \o <<flashRepay(flashToken(r), flash, borrowIxnIndex(create, <<>>))>>,
       swapIn |-> in]

getDecreaseLeverageIxns(r, coll, debt, missing, lamports) ==
  LET create == getAtasWithCreateIxnsIfMissing(r, missing)
      fill == debtFill(r, lamports)
      out == ceil(mul(mul(coll, plusFee(r, "debt")), plusSlip(r)))
      close == IF r.sol = "debt" THEN closeWsolAta(r) ELSE <<>>
  IN  [ixns |-> budgetIxns \o create \o fill \o <<flashBorrow("debt", debt)>>
                 \o lendingAction(<<lend("repay", floor(debt))>>)
                 \o lendingAction(<<lend("withdraw", out)>>)
                 \o swapIxns(r, "coll", "debt", out, 0)
                 \o <<flashRepay("debt", debt, borrowIxnIndex(create, fill))>> \o close,
       swapIn |-> out]

withoutAbs(r, missing, lamports, balance) ==
  LET calc == adjustAmounts(r)
  IN  IF increases(calc)
      THEN getIncreaseLeverageIxns(r, calc.coll, missing, balance)
      ELSE getDecreaseLeverageIxns(r, calc.coll, calc.debt, missing, lamports)

getAdjustLeverageIxns(r, missing, lamports, balance) ==
  LET calc == adjustAmounts(r)
  IN  IF increases(calc)
      THEN getIncreaseLeverageIxns(r, calc.coll, missing, balance)
      ELSE getDecreaseLeverageIxns(r, abs(calc.coll), abs(calc.debt), missing, lamports)

getRepayWithCollIxns(r, missing) ==
  LET calcs == repayWithCollCalcs(r, repayAdjusted(r), r.fee.debt)
      create == getAtasWithCreateIxnsIfMissing(r, missing)
      repay == IF r.closing THEN U64_MAX ELSE calcs.repay
      out == IF r.closing THEN U64_MAX ELSE calcs.swapIn
  IN  [ixns |-> budgetIxns \o create \o <<flashBorrow("debt", whole(calcs.repay))>>
                 \o lendingAction(<<lend("repay", repay), lend("withdraw", out)>>)
                 \o swapIxns(r, "coll", "debt", calcs.swapIn, 0)
                 \o <<flashRepay("debt", whole(calcs.repay), borrowIxnIndex(create, <<>>))>>,
       swapIn |-> calcs.swapIn]

plan(r, missing, lamports, balance) ==
  CASE r.op = "deposit"         -> getDepositWithLeverageIxns(r, missing, balance)
    [] r.op = "withdraw"        -> getWithdrawWithLeverageIxns(r, missing, lamports)
    [] r.op = "adjust"          -> getAdjustLeverageIxns(r, missing, lamports, balance)
    [] r.op = "repay_with_coll" -> getRepayWithCollIxns(r, missing)

-----------------------------------------------------------------------------
(* The programs the list runs in.                                          *)

healthy(r, position) ==
  lte(mul(whole(position.debt), r.price), mul(whole(position.coll), MaxLtv))

flashFee(r, token, amount) == floor(add(mul(whole(amount), r.fee[token]), ratio(1, 2)))

bought(r, i, q) ==
  LET out == mul(whole(i.in), i.price)
  IN  floor(IF q = "worst" THEN div(out, plusSlip(r)) ELSE out)

\* Whether instruction i can run on ledger l; `l.at` instructions ran before.
accepted(r, l, i) ==
  CASE i.do \in {"budget", "refresh", "create_ata"} -> TRUE
    [] i.do = "transfer"     -> i.mint \in l.atas /\ l.sol >= i.amount
    [] i.do \in {"sync_native", "close_wsol"} -> i.mint \in l.atas
    [] i.do = "flash_borrow" -> i.token \in l.atas /\ i.amount > 0 /\ l.flash.amount = 0
    [] i.do = "flash_repay"  ->
         /\ l.flash = [at |-> i.index, token |-> i.token, amount |-> i.amount]
         /\ l.wallet[i.token] >= i.amount + flashFee(r, i.token, i.amount)
    [] i.do = "deposit"      -> i.amount > 0 /\ l.wallet.coll >= i.amount
    [] i.do = "borrow"       ->
         /\ i.amount > 0 /\ "debt" \in l.atas
         /\ healthy(r, [l.position EXCEPT !.debt = @ + i.amount])
    [] i.do = "repay"        ->
         i.amount > 0 /\ l.wallet.debt >= smaller(i.amount, l.position.debt)
    [] i.do = "withdraw"     ->
         /\ i.amount > 0 /\ "coll" \in l.atas
         /\ healthy(r, [l.position EXCEPT !.coll = @ - smaller(i.amount, @)])
    [] i.do = "swap"         -> {i.from, i.to} \subseteq l.atas /\ l.wallet[i.from] >= i.in
    [] i.do = "mint_ktoken"  ->
         {"second", "coll"} \subseteq l.atas /\ l.wallet.debt >= i.in /\ l.wallet.debt >= i.balance
    [] i.do = "burn_ktoken"  -> {"second", "debt"} \subseteq l.atas /\ l.wallet.coll >= i.in

effect(r, l, i, q) ==
  CASE i.do \in {"budget", "refresh", "sync_native"} -> l
    [] i.do = "create_ata"   -> [l EXCEPT !.atas = @ \cup {i.mint}]
    [] i.do = "transfer"     -> [l EXCEPT !.sol = @ - i.amount, !.wallet[i.mint] = @ + i.amount]
    [] i.do = "close_wsol"   -> [l EXCEPT !.sol = @ + l.wallet[i.mint], !.wallet[i.mint] = 0,
                                          !.atas = @ \ {i.mint}]
    [] i.do = "flash_borrow" ->
         [l EXCEPT !.flash = [at |-> l.at, token |-> i.token, amount |-> i.amount],
                   !.wallet[i.token] = @ + i.amount]
    [] i.do = "flash_repay"  ->
         [l EXCEPT !.flash.amount = 0,
                   !.wallet[i.token] = @ - i.amount - flashFee(r, i.token, i.amount)]
    [] i.do = "deposit"      -> [l EXCEPT !.wallet.coll = @ - i.amount,
                                          !.position.coll = @ + i.amount]
    [] i.do = "borrow"       -> [l EXCEPT !.wallet.debt = @ + i.amount,
                                          !.position.debt = @ + i.amount]
    [] i.do = "repay"        ->
         LET paid == smaller(i.amount, l.position.debt)
         IN  [l EXCEPT !.wallet.debt = @ - paid, !.position.debt = @ - paid]
    [] i.do = "withdraw"     ->
         LET out == smaller(i.amount, l.position.coll)
         IN  [l EXCEPT !.wallet.coll = @ + out, !.position.coll = @ - out]
    [] i.do = "swap"         ->
         [l EXCEPT !.wallet[i.from] = @ - i.in, !.wallet[i.to] = @ + bought(r, i, q)]
    [] i.do = "mint_ktoken"  ->
         [l EXCEPT !.wallet.debt = @ - i.in, !.wallet.coll = @ + bought(r, i, q)]
    [] i.do = "burn_ktoken"  ->
         [l EXCEPT !.wallet.coll = @ - i.in,
                   !.wallet.debt = @ + poolOut(r.pool, debtHolding(r.pool), i.in),
                   !.wallet.second = @ + poolOut(r.pool, secondHolding(r.pool), i.in)]

run(r, l, list, q) ==
  LET step(s, i) == IF s.ok /\ accepted(r, s, i)
                    THEN [effect(r, s, i, q) EXCEPT !.at = @ + 1]
                    ELSE [s EXCEPT !.ok = FALSE]
      end == FoldLeft(step, l, list)
  IN  [end EXCEPT !.ok = @ /\ end.flash.amount = 0, !.at = 0]

-----------------------------------------------------------------------------
Mints == {"coll", "debt", "ctoken", "second"}
Tokens == {"coll", "debt", "second"}

\* The account a deposit is paid from is there.
hasDeposit(r, atas) == r.op = "deposit" /\ ~depositTokenIsSol(r) => r.selected \in atas

ledgerOf(r, atas) ==
  [sol |-> Sol + (IF r.op = "deposit" /\ depositTokenIsSol(r) THEN r.amount ELSE 0),
   wallet |-> [t \in Tokens |->
                 IF t \notin atas THEN 0
                 ELSE IF r.op = "deposit" /\ t = r.selected /\ ~depositTokenIsSol(r)
                      THEN Dust + r.amount ELSE Dust],
   atas |-> atas, position |-> r.loaded,
   flash |-> [at |-> 0, token |-> "debt", amount |-> 0], at |-> 0, ok |-> TRUE]

Init ==
  /\ request \in Requests
  /\ stage = "asked"
  /\ unread = {} /\ absent = {} /\ solRead = 0 /\ announced = 0
  /\ ixns = [ixns |-> <<>>, swapIn |-> 0] /\ quote = "none"
  /\ \E m \in Missing : /\ hasDeposit(request, Mints \ m)
                        /\ ledger = ledgerOf(request, Mints \ m)
  /\ disturbed = {}

\* Only an adjustment looks at the obligation before it probes the accounts.
Begin ==
  /\ stage = "asked"
  /\ stage' = IF request.op = "adjust" /\ invalidTargetLeverage(request)
              THEN "threw" ELSE "probing"
  /\ unread' = ToSet(mintsToCreateAtas(request))
  /\ UNCHANGED <<request, absent, solRead, announced, ixns, quote, ledger, disturbed>>

needsSol(r) ==
  /\ r.sol = "debt"
  /\ \/ r.op = "withdraw"
     \/ r.op = "adjust" /\ ~increases(adjustAmounts(r))

\* The probes go out together and answer in any order.  (They look under the
\* classic token program, ata.ts:94: every mint here is one of its mints.  Of
\* another program's mint the account would count as missing, and the
\* instruction that creates it does nothing if it is there.)
ProbeAta(mint) ==
  /\ stage = "probing" /\ mint \in unread
  /\ unread' = unread \ {mint}
  /\ absent' = IF mint \in ledger.atas THEN absent ELSE absent \cup {mint}
  /\ stage' = IF unread # {mint} THEN stage
              ELSE IF needsSol(request) THEN "wrapping" ELSE "building"
  /\ UNCHANGED <<request, solRead, announced, ixns, quote, ledger, disturbed>>

ReadSol ==
  /\ stage = "wrapping"
  /\ solRead' = ledger.sol
  /\ stage' = "building"
  /\ UNCHANGED <<request, unread, absent, announced, ixns, quote, ledger, disturbed>>

needsBalance(r) ==
  /\ isKtoken(r)
  /\ \/ r.op = "deposit"
     \/ r.op = "adjust" /\ increases(adjustAmounts(r))

\* A caller that wants the number of accounts gets no instructions and the
\* swapper is not asked.
CountAccounts ==
  /\ stage = "building" /\ request.countOnly
  /\ stage' = "counted"
  /\ UNCHANGED <<request, unread, absent, solRead, announced, ixns, quote, ledger, disturbed>>

ReadBalance ==
  /\ stage = "building" /\ ~request.countOnly /\ needsBalance(request)
  /\ announced' = ledger.wallet.debt
  /\ stage' = "swapping"
  /\ UNCHANGED <<request, unread, absent, solRead, ixns, quote, ledger, disturbed>>

Build ==
  /\ ~request.countOnly
  /\ stage = (IF needsBalance(request) THEN "swapping" ELSE "building")
  /\ ixns' = plan(request, absent, solRead, announced)
  /\ stage' = "built"
  /\ UNCHANGED <<request, unread, absent, solRead, announced, quote, ledger, disturbed>>

\* The list lands, at the quoted price or at the worst the slippage allows.
Land(swapped) ==
  /\ stage = "built"
  /\ quote' = swapped
  /\ LET end == run(request, ledger, ixns.ixns, swapped)
     IN  /\ stage' = IF end.ok THEN "done" ELSE "failed"
         /\ ledger' = IF end.ok THEN end ELSE ledger
  /\ UNCHANGED <<request, unread, absent, solRead, announced, ixns, disturbed>>

\* What happens to the user meanwhile, each kind at most once in a call.
Disturb(kind, after) ==
  /\ stage \in {"probing", "wrapping", "building", "swapping", "built"}
  /\ kind \notin disturbed /\ Cardinality(disturbed) < MaxDisturbances
  /\ disturbed' = disturbed \cup {kind}
  /\ ledger' = after
  /\ UNCHANGED <<request, stage, unread, absent, solRead, announced, ixns, quote>>

CloseAccount(t) == /\ t \in ledger.atas
                   /\ Disturb("closed", [ledger EXCEPT !.atas = @ \ {t}, !.wallet[t] = 0])
OpenAccount(t) == /\ t \notin ledger.atas
                  /\ Disturb("opened", [ledger EXCEPT !.atas = @ \cup {t}])
SpendSol == Disturb("spent", [ledger EXCEPT !.sol = 0])
Accrue == /\ ledger.position.debt > 0
          /\ Disturb("accrued", [ledger EXCEPT !.position.debt = @ + 1 + @ \div 50])

Next ==
  \/ Begin
  \/ \E mint \in Mints : ProbeAta(mint)
  \/ ReadSol
  \/ CountAccounts
  \/ ReadBalance
  \/ Build
  \/ \E swapped \in {"quoted", "worst"} : Land(swapped)
  \/ \E t \in Tokens : CloseAccount(t) \/ OpenAccount(t)
  \/ SpendSol
  \/ Accrue

Spec == Init /\ [][Next]_vars

-----------------------------------------------------------------------------
(* What a form announces before the call.                                  *)

estimateDepositMode(r) ==
  LET coll == IF selectedIsColl(r) THEN whole(r.amount) ELSE mul(whole(r.amount), r.price)
  IN  [coll |-> mul(coll, r.target),
       debt |-> calcBorrowAmount(r, coll, r.target, r.fee.coll)]

fuzzyEq(a, b) == lte(abs(sub(a, b)), ratio(1, 10000))

\* Whether a form takes a withdrawal for the closing of the position.
isClosingPosition(r) ==
  LET out == calcWithdrawAmounts(r)
  IN  /\ \/ lte(whole(r.loaded.coll), out.coll) \/ lte(whole(r.loaded.debt), out.debt)
         \/ fuzzyEq(out.coll, whole(r.loaded.coll)) \/ fuzzyEq(out.debt, whole(r.loaded.debt))
      /\ ~fuzzyEq(out.coll, whole(0))

calculateMultiplyEffects(r) ==
  LET coll == whole(r.loaded.coll)
      debt == whole(r.loaded.debt)
  IN  CASE r.op = "deposit"  -> [coll |-> add(coll, estimateDepositMode(r).coll),
                                 debt |-> add(debt, estimateDepositMode(r).debt)]
        [] r.op = "withdraw" ->
             IF isClosingPosition(r) THEN [coll |-> whole(0), debt |-> whole(0)]
             ELSE [coll |-> sub(coll, calcWithdrawAmounts(r).coll),
                   debt |-> sub(debt, calcWithdrawAmounts(r).debt)]
        [] r.op = "adjust"   -> [coll |-> add(coll, calcAdjustAmounts(r, r.fee.coll).coll),
                                 debt |-> add(debt, calcAdjustAmounts(r, r.fee.coll).debt)]

-----------------------------------------------------------------------------
\* Types: amounts are not negative, an account that is not there is empty and
\* no flash loan is open between transactions (Leverage's data).
LvTypeOK ==
  /\ request.op \in Ops /\ request.amount \in Nat
  /\ stage \in {"asked", "threw", "probing", "wrapping", "building", "counted",
                "swapping", "built", "done", "failed"}
  /\ unread \subseteq Mints /\ absent \subseteq Mints
  /\ solRead \in Nat /\ announced \in Nat /\ ixns.swapIn \in Nat
  /\ quote \in {"none", "quoted", "worst"}
  /\ ledger.sol \in Nat /\ ledger.atas \subseteq Mints
  /\ \A t \in Tokens : /\ ledger.wallet[t] \in Nat
                       /\ t \notin ledger.atas => ledger.wallet[t] = 0
  /\ ledger.position.coll \in Nat /\ ledger.position.debt \in Nat
  /\ ledger.flash.amount = 0

\* Changes that a list already built does not mind: an account that was
\* opened meanwhile, SOL spent that the list does not wrap, interest on a debt
\* that is not repaid in full.
harmless(r) ==
  {"opened"} \cup (IF r.closing THEN {} ELSE {"accrued"})
    \cup (IF \E i \in ToSet(ixns.ixns) : i.do = "transfer" THEN {} ELSE {"spent"})

Undisturbed == disturbed \subseteq {"opened"}

\* No margin: the swap takes all the slippage there is.
tight(r) == quote = "worst" \/ r.slip = whole(0)

\* A decrease whose target debt, with the fee on all of it, is above the
\* present debt: the sign of the change is dropped and it is repaid.
signDropped(r) == r.op = "adjust" /\ ~isDepositViaLeverage(r) /\ positive(adjustAmounts(r).debt)

\* What the builders do not provide for: the fee on the part of a deposit's
\* flash loan that pays the fee; a repay with collateral of an obligation
\* refreshed in this slot, whose estimate is 0, or whose fee was taken as a
\* percentage; the two units an estimate of a ktoken withdrawal leaves out; a
\* flash loan in the debt token at the fee of the collateral; a dropped sign.
Unprovided(r) ==
  \/ r.op = "deposit" /\ ~isKtoken(r) /\ tight(r) /\ lt(whole(0), r.fee.coll)
  \/ r.op = "repay_with_coll" /\ r.rates = one
  \/ r.op = "repay_with_coll" /\ tight(r) /\ lt(whole(0), r.fee.debt)
  \/ isKtoken(r) /\ r.op # "deposit" /\ tight(r)
  \/ isKtoken(r) /\ lt(r.fee.coll, r.fee.debt)
  \/ signDropped(r)

\* A list that was built and lands on what it was built from is accepted, at
\* every price within the slippage: the amounts cover the flash loan and its
\* fee, every account is there when it is used, the repay names the place of
\* its borrow and the loan is healthy at each step (getFlashLoanInstructions
\* and the five builders).
ServedWithinSlippage ==
  stage = "failed" => ~(disturbed \subseteq harmless(request)) \/ Unprovided(request)

taken(r) == [coll |-> ledger.position.coll - r.loaded.coll,
             debt |-> ledger.position.debt - r.loaded.debt]

near(a, b, units) == lte(abs(sub(a, b)), whole(units))

\* Whether the position's leverage is the target, but for the rounding of
\* its two amounts.
hasLeverage(r, coll, debt) ==
  near(mul(whole(coll), sub(r.target, one)), mul(mul(r.target, r.price), whole(debt)), 6)

leverageAbove(r, position, leverage) ==
  LET net == sub(whole(position.coll), mul(whole(position.debt), r.price))
  IN  lte(mul(net, leverage), whole(position.coll + 6))

DepositAsAsked(r) ==
  /\ ~isKtoken(r) \/ selectedIsColl(r) => hasLeverage(r, taken(r).coll, taken(r).debt)
  /\ r.slip = whole(0) /\ r.fee.coll = whole(0) =>
       /\ near(whole(ledger.position.coll), calculateMultiplyEffects(r).coll, 1)
       /\ near(whole(ledger.position.debt), calculateMultiplyEffects(r).debt, 1)

WithdrawnAsAsked(r) ==
  IF r.closing
  THEN isClosingPosition(r) /\ ledger.position.coll = 0 /\ ledger.position.debt = 0
  ELSE LET effects == calculateMultiplyEffects(r)
           kept == sub(effects.coll, mul(calcWithdrawAmounts(r).coll, r.fee.debt))
       IN  /\ near(whole(ledger.position.debt), effects.debt, 2)
           /\ near(whole(ledger.position.coll), kept, 2)

AdjustedAsAsked(r) ==
  IF isDepositViaLeverage(r) THEN leverageAbove(r, ledger.position, r.target)
  ELSE r.fee.debt = whole(0) => /\ leverageAbove(r, ledger.position, r.target)
                                /\ leverageAbove(r, r.loaded, div(whole(ledger.position.coll),
                                     sub(whole(ledger.position.coll),
                                         mul(whole(ledger.position.debt), r.price))))

RepaidAsAsked(r) ==
  IF r.closing THEN ledger.position.coll = 0 /\ ledger.position.debt = 0
               ELSE ledger.position.debt <= r.loaded.debt - r.amount

\* The position that a landed list leaves is the one that was asked for: a
\* deposit adds at the target leverage, and just what the form announces where
\* there is no fee and no slippage; a withdrawal keeps the leverage, or closes
\* the position where the form says so; an adjustment goes towards the target
\* and not below it; a repay takes at least the amount off (depositLeverageCalcs,
\* calcWithdrawAmounts, calcAdjustAmounts, repayWithCollCalcs).
PositionAsAsked ==
  stage = "done" /\ Undisturbed /\ ~signDropped(request) =>
    CASE request.op = "deposit"         -> DepositAsAsked(request)
      [] request.op = "withdraw"        -> WithdrawnAsAsked(request)
      [] request.op = "adjust"          -> AdjustedAsAsked(request)
      [] request.op = "repay_with_coll" -> RepaidAsAsked(request)

preview(r) ==
  CASE r.op = "deposit"         -> getDepositWithLeverageSwapInputs(r)
    [] r.op = "withdraw"        -> getWithdrawWithLeverageSwapInputs(r)
    [] r.op = "adjust"          -> getAdjustLeverageSwapInputs(r)
    [] r.op = "repay_with_coll" -> getRepayWithCollSwapInputs(r)

\* Where the two disagree: a deposit of collateral or an increase is shown
\* with the fee of the debt and built with the collateral's, shares are shown
\* as if no pool were involved, and a repay's fee is rounded up only when it
\* is shown.
shownOtherwise(r) ==
  \/ r.op \in {"deposit", "adjust"} /\ r.fee.coll # r.fee.debt
  \/ isKtoken(r) /\ preview(r).from = "debt"
  \/ r.op = "repay_with_coll" /\ r.fee.debt # whole(0)

\* The swap that was shown before the call is the swap that is built, with the
\* exceptions above (the get...SwapInputs functions and the builders).
SwapAsShown ==
  stage = "built" /\ ~shownOtherwise(request) =>
    /\ ixns.swapIn = preview(request).in
    /\ \E i \in ToSet(ixns.ixns) :
         /\ i.do \in {"swap", "burn_ktoken"} /\ i.in = preview(request).in
         /\ i.do = "swap" => i.from = preview(request).from /\ i.to = preview(request).to
=============================================================================
