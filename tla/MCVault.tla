------------------------------ MODULE MCVault ------------------------------
(***************************************************************************)
(* Instances of Vault: two reserves and two slots; vaults without shares,  *)
(* uninvested, partly invested and wholly invested, and one with a price   *)
(* that has no end and a first reserve that has nothing to give.           *)
(***************************************************************************)
EXTENDS Vault, TLC

CONSTANTS C1, C2, ResA, ResB

TwoCallers == {C1, C2}
TwoReserves == {ResA, ResB}
Swap == Permutations(TwoCallers)   \* callers differ in nothing
Grown == ratio(4, 5)

Slot(a, ctokens, weight) == [reserve |-> a, ctokens |-> ctokens, weight |-> weight]
Unused == Slot(NoReserve, 0, 0)

Ledger(available, issued, shares, alloc) ==
  [available |-> available, issued |-> issued, shares |-> shares, tokens |-> 6, alloc |-> alloc,
   reserves |-> [a \in TwoReserves |-> [liquid |-> 4, rate |-> one]], ok |-> TRUE]

\* No shares and no reserve; nothing invested; a part; everything; a part in the
\* second reserve, with as many liquid tokens as half the shares.
Starts ==
  {Ledger(0, 0, 0, <<Unused, Unused>>),
   Ledger(6, 6, 3, <<Slot(ResA, 0, 1), Unused>>),
   Ledger(3, 4, 3, <<Slot(ResB, 4, 1), Slot(ResA, 0, 2)>>),
   Ledger(0, 8, 8, <<Slot(ResA, 4, 1), Slot(ResB, 4, 1)>>),
   Ledger(8, 16, 16, <<Slot(ResA, 0, 1), Slot(ResB, 8, 1)>>)}

Call(op, amount, a) == [op |-> op, amount |-> amount, reserve |-> a]
Calls == {Call("deposit", 4, NoReserve), Call("withdraw", 2, NoReserve),
          Call("withdraw", 4, NoReserve), Call("withdraw", 20, NoReserve),
          Call("investAll", 0, NoReserve), Call("invest", 0, ResB), Call("update", 2, ResB),
          Call("reload", 0, NoReserve)}

=============================================================================
