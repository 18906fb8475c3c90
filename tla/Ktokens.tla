------------------------------ MODULE Ktokens ------------------------------
(***************************************************************************)
(* Collateral that is a share of a liquidity pool (a ktoken): what minting *)
(* a number of shares takes, and what giving shares back returns.  A pool  *)
(* is a record [a, b, shares, fee, debtIs]: its holdings and issued shares *)
(* in the smallest units, its withdrawal fee as a fraction, and which of   *)
(* its two tokens the debt is in.  Amounts that are not yet rounded are    *)
(* fractions of Decimals.                                                  *)
(***************************************************************************)
EXTENDS Decimals

smaller(m, n) == IF m <= n THEN m ELSE n

\* The tokens a mint of `mint` shares takes, [a, b], and the shares it then
\* really makes: the pool takes the tokens in its own ratio, rounded down.
simulateMintKToken(pool, mint) ==
  LET requiredA == mul(ratio(pool.a, pool.shares), mint)
      requiredB == mul(ratio(pool.b, pool.shares), mint)
      uA == ceil(requiredA)
      uB == ceil(requiredB)
      rate == ratio(pool.a, pool.b)
      depositableB == floor(div(whole(uA), rate))
      actualA == IF depositableB <= uB
                 THEN floor(mul(whole(depositableB), rate))
                 ELSE floor(mul(whole(uB), rate))
      actualB == IF depositableB <= uB
                 THEN uB
                 ELSE floor(div(whole(actualA), rate))
  IN  [a |-> requiredA, b |-> requiredB,
       shares |-> smaller((actualA * pool.shares) \div pool.a,
                          (actualB * pool.shares) \div pool.b)]

\* The tokens one holding of the pool gives for `burnt` shares, as estimated:
\* rounded down, 0.000002 less because the program rounds otherwise, and the
\* rest, without the withdrawal fee, rounded half up.  Both tokens of a pool
\* have six decimals here, so that 0.000002 is two units and the rounding to
\* the decimals of token A is one to units of either.
estimatedOut(pool, holding, burnt) ==
  LET pct == ratio(burnt, pool.shares)
      out == floor(mul(whole(holding), pct)) - 2
  IN  floor(add(mul(whole(out), sub(one, pool.fee)), ratio(1, 2)))

getKtokenWithdrawEstimatesAndPrice(pool, burnt) ==
  [a |-> estimatedOut(pool, pool.a, burnt),
   b |-> estimatedOut(pool, pool.b, burnt)]

\* The pool itself: what it gives for the shares, and the price of one debt
\* token in shares, the two sides of a pool being of equal worth.
poolOut(pool, holding, burnt) ==
  floor(mul(ratio(holding * burnt, pool.shares), sub(one, pool.fee)))

debtHolding(pool) == IF pool.debtIs = "a" THEN pool.a ELSE pool.b
secondHolding(pool) == IF pool.debtIs = "a" THEN pool.b ELSE pool.a

sharesPerDebt(pool) == ratio(pool.shares, 2 * debtHolding(pool))

\* What one second token buys of the debt token.
debtPerSecond(pool) == ratio(debtHolding(pool), secondHolding(pool))

\* What one token A costs in token B.
priceAinB(pool) == ratio(pool.b, pool.a)

=============================================================================
