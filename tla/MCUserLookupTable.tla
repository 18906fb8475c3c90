-------------------------- MODULE MCUserLookupTable --------------------------
(***************************************************************************)
(* Two listed mints and SOL, and one without a reserve; reserves that      *)
(* share a farm; a first request for two pairs and others that add a pair  *)
(* or an obligation.                                                       *)
(***************************************************************************)
EXTENDS UserLookupTable

CONSTANTS MintA, MintB, MintSol, MintX, F1, F2

Mints == {MintA, MintB, MintSol}
AllMints == Mints \union {MintX}
Txs == (1..MaxCalls) \X (1..MaxBatches)
\* The debt farms of B and SOL are one.
CollFarms == (MintA :> F1) @@ (MintB :> NoFarm) @@ (MintSol :> NoFarm)
DebtFarms == (MintA :> NoFarm) @@ (MintB :> F2) @@ (MintSol :> F2)

Base == [referrer |-> FALSE, multiply |-> <<>>, leverage |-> <<>>, obligation |-> <<>>,
         extend |-> TRUE]

ASol == [coll |-> MintA, debt |-> MintSol]
AB == [coll |-> MintA, debt |-> MintB]
AX == [coll |-> MintA, debt |-> MintX]

LutRequests ==
  {[Base EXCEPT !.extend = FALSE],
   [Base EXCEPT !.multiply = <<ASol, AX>>, !.referrer = TRUE],
   [Base EXCEPT !.multiply = <<ASol>>, !.leverage = <<ASol, AB>>],
   [Base EXCEPT !.obligation = <<[address |-> <<"vanilla">>, deposits |-> <<MintA>>,
                                  borrows |-> <<MintSol, MintB>>]>>]}

==============================================================================
