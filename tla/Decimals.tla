------------------------------ MODULE Decimals ------------------------------
(***************************************************************************)
(* The numbers of decimal.js, which the code computes amounts with, as     *)
(* exact fractions <<numerator, denominator>>: an amount has fewer digits  *)
(* than decimal.js keeps.                                                  *)
(***************************************************************************)
EXTENDS Integers

gcd[m \in Nat, n \in Nat] == IF n = 0 THEN m ELSE gcd[n, m % n]

magnitude(n) == IF n < 0 THEN -n ELSE n

reduced(n, d, g) == IF d < 0 THEN <<-(n \div g), -(d \div g)>> ELSE <<n \div g, d \div g>>

\* The fraction n / d in lowest terms, d # 0.
ratio(n, d) == reduced(n, d, gcd[magnitude(n), magnitude(d)])

whole(n) == <<n, 1>>
one == whole(1)

added(a, b, g) == ratio(a[1] * (b[2] \div g) + b[1] * (a[2] \div g), a[2] * (b[2] \div g))
multiplied(x, y) == <<x[1] * y[1], x[2] * y[2]>>

add(a, b) == added(a, b, gcd[a[2], b[2]])
sub(a, b) == add(a, <<-b[1], b[2]>>)
mul(a, b) == multiplied(ratio(a[1], b[2]), ratio(b[1], a[2]))
div(a, b) == mul(a, <<b[2], b[1]>>)
abs(a) == <<magnitude(a[1]), a[2]>>

\* n / d < m / e, by their whole parts and then by what is left of them.
below[n \in Nat, d \in Nat, m \in Nat, e \in Nat] ==
  IF n \div d # m \div e THEN n \div d < m \div e
  ELSE IF m % e = 0 THEN FALSE
  ELSE IF n % d = 0 THEN TRUE
  ELSE below[e, m % e, d, n % d]

lt(a, b) == IF a[1] < 0 /\ b[1] < 0 THEN below[-b[1], b[2], -a[1], a[2]]
            ELSE IF a[1] < 0 \/ b[1] < 0 THEN a[1] < 0
            ELSE below[a[1], a[2], b[1], b[2]]
lte(a, b) == ~lt(b, a)

floor(a) == a[1] \div a[2]
ceil(a) == -((-a[1]) \div a[2])

\* 1 + a, the factor of a fee or of a slippage.
plusOne(a) == add(one, a)

=============================================================================
