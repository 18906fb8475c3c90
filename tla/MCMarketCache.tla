--------------------------- MODULE MCMarketCache ---------------------------
(***************************************************************************)
(* Two reserves, the second possibly added later, and two callers.         *)
(***************************************************************************)
EXTENDS MarketCache, TLC

CONSTANTS R1, R2, C1, C2

TwoReserves == {R1, R2}
TwoCallers == {C1, C2}

\* The spec treats all reserves alike, and all callers.
Symmetry == Permutations(TwoReserves) \union Permutations(TwoCallers)

============================================================================
