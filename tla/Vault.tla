------------------------------- MODULE Vault -------------------------------
(***************************************************************************)
(* The vault client.  A KaminoVault is a handle: it fetches its state once *)
(* and keeps it until it is reloaded.  The calls of KaminoVaultClient read *)
(* the handle, some of them several times with requests in between, and    *)
(* return instructions that land later; callers share a handle, and others *)
(* use the vault meanwhile.                                                *)
(*                                                                         *)
(* A state of the vault is its liquid tokens, the shares issued and the    *)
(* allocation strategy: a fixed number of slots, each a reserve with its   *)
(* weight and the collateral the vault holds of it, or NoReserve.  Amounts *)
(* are in the smallest unit of their token.                                *)
(***************************************************************************)
EXTENDS Decimals, Lists, FiniteSets

CONSTANTS
  Callers,     \* run calls on one handle
  Requests,    \* what is called: [op, amount, reserve]
  Vaults,      \* the ledgers to start from
  Reserve,     \* the reserves there are
  NoReserve,   \* PublicKey.default
  NoState,     \* a handle that has fetched nothing
  Accrued,     \* collateral per token once interest has accrued
  OthersAmount,\* what others deposit, and what leaves a reserve
  MaxCalls,    \* bound: calls in all
  MaxOthers    \* bound: what others do

Slots == [reserve : Reserve \cup {NoReserve}, ctokens : Nat, weight : Nat]
Ledgers == [available : Nat, issued : Nat, shares : Nat, tokens : Nat, alloc : Seq(Slots),
            reserves : [Reserve -> [liquid : Nat, rate : Int \X Int]], ok : {TRUE}]
Ops == {"deposit", "withdraw", "investAll", "invest", "update", "reload"}

ASSUME VaultAssumption == Vaults \subseteq Ledgers /\ NoReserve \notin Reserve
ASSUME RequestAssumption ==
  /\ Requests \subseteq [op : Ops, amount : Nat, reserve : Reserve \cup {NoReserve}]
  /\ \A r \in Requests : r.op \in {"invest", "update"} => r.reserve \in Reserve
ASSUME BoundAssumption == MaxCalls \in Nat /\ MaxOthers \in Nat

VARIABLES
  ledger,      \* the vault and its reserves; the user's tokens and shares
  handle,      \* KaminoVault.state
  calls,       \* the call each caller runs
  started,     \* how many calls were begun
  others       \* how often others acted

vars == <<ledger, handle, calls, started, others>>

-----------------------------------------------------------------------------
Idle == [op |-> "none", amount |-> 0, reserve |-> NoReserve, pc |-> "idle",
         reply |-> NoState, held |-> NoState, priced |-> NoState, ranked |-> NoState,
         seen |-> {}, list |-> <<>>]
over(pc) == [Idle EXCEPT !.pc = pc]   \* nothing of the call is used again

\* What is fetched of the vault, without the user's balances.
stateOf(l) == [available |-> l.available, issued |-> l.issued, alloc |-> l.alloc]

Init ==
  /\ ledger \in Vaults
  /\ handle \in {NoState, stateOf(ledger)}   \* getAllVaults gives handles a state
  /\ calls = [c \in Callers |-> Idle]
  /\ started = 0
  /\ others = 0

slotReserves(state) == [i \in DOMAIN state.alloc |-> state.alloc[i].reserve]
\* Mutant: unused slots are kept.
unfiltered(state) == slotReserves(state)
getVaultReserves(state) ==
  pick(slotReserves(state), {i \in DOMAIN state.alloc : state.alloc[i].reserve # NoReserve})

\* Mutant: every reader fetches for itself.
fetchedAnew == stateOf(ledger)

\* getState, once there is one: what the handle holds, however old.
getState == handle

-----------------------------------------------------------------------------
(* What a withdrawal asks for.                                             *)

\* The liquidity in reserves is computed and dropped: add returns a new number.
totalVaultLiquidityAmount(state) == state.available

\* Shares per token, and divided by: the pro rata part of that total.  Nothing
\* of nothing is NaN, which neither comparison admits.
tokensToWithdraw(amount, state) ==
  IF totalVaultLiquidityAmount(state) = 0 THEN whole(0)
  ELSE div(whole(amount),
           div(whole(state.issued), whole(totalVaultLiquidityAmount(state))))
undefined(state) == state.issued = 0

tokenLeftToWithdraw(call) ==
  sub(tokensToWithdraw(call.amount, call.priced), whole(call.held.available))

\* The price has twenty digits.  Where no number of digits is enough (four are
\* for the vaults of an instance), the tokens for all shares may come out the
\* least bit more than they are.
inexact(state) ==
  /\ state.issued # 0 /\ state.available # 0
  /\ \A k \in 0..4 : (state.issued * 10^k) % state.available # 0
almostNothing == ratio(1, 10000)

\* Whether the liquid tokens are taken to be enough.
enough(call) ==
  LET left == tokenLeftToWithdraw(call)
  IN  {lte(left, whole(0))} \cup {b \in {FALSE} : left = whole(0) /\ inexact(call.priced)}
leftOver(call) ==
  IF tokenLeftToWithdraw(call) = whole(0) THEN almostNothing ELSE tokenLeftToWithdraw(call)

\* What could be taken from the reserve of a slot.
withdrawable(l, allocation) ==
  LET r == l.reserves[allocation.reserve]
      held == div(whole(allocation.ctokens), r.rate)
  IN  IF lt(held, whole(r.liquid)) THEN held ELSE whole(r.liquid)

\* An unused slot has no reserve, and the call throws.
slotMissing(state) == \E i \in DOMAIN state.alloc : state.alloc[i].reserve = NoReserve

taken(plan, reserve, can) ==
  LET left == sub(plan.left, can)
  IN  IF lte(plan.left, whole(0)) THEN plan
      ELSE [left |-> left, from |-> Append(plan.from, reserve),
            amount |-> Append(plan.amount, IF lt(left, can) THEN left ELSE can)]

\* The reserves in descending order of what can be taken, until nothing is
\* left over; the amount behind each is that of the one before it, because the
\* first amount is the liquid tokens of the vault.
overReserves(call, state, l) ==
  LET can(i) == withdrawable(l, state.alloc[i])
      before(j, i) == lt(can(i), can(j)) \/ (can(i) = can(j) /\ j < i)
      nth(k) == CHOOSE i \in DOMAIN state.alloc :
                  Cardinality({j \in DOMAIN state.alloc : before(j, i)}) = k - 1
      after[k \in 0..Len(state.alloc)] ==
        IF k = 0 THEN [left |-> leftOver(call), from |-> <<>>,
                       amount |-> <<whole(call.held.available)>>]
        ELSE taken(after[k - 1], state.alloc[nth(k)].reserve, can(nth(k)))
  IN  after[Len(state.alloc)]

\* Mutant: the remaining accounts are left off.
withoutMetas(call, reserve, amount) ==
  [do |-> "withdraw", reserve |-> reserve, amount |-> amount, metas |-> <<>>]
withdrawIxn(call, reserve, amount) ==
  [do |-> "withdraw", reserve |-> reserve, amount |-> amount,
   metas |-> getVaultReserves(call.held)]

\* Enough is liquid: any reserve will do, and all that is liquid is asked for.
fromFirst(call) == <<withdrawIxn(call, call.held.alloc[1].reserve,
                                 whole(call.held.available))>>

\* No price, and nothing is compared with nothing: no instruction at all.
fromReserves(call, l) ==
  LET plan == IF undefined(call.priced) THEN [from |-> <<>>] ELSE overReserves(call, call.ranked, l)
  IN  [i \in DOMAIN plan.from |-> withdrawIxn(call, plan.from[i], plan.amount[i])]

\* A number that is not whole, or no reserve's address, and the call throws.
badIxn(ixn) == ixn.reserve = NoReserve \/ ixn.amount[2] # 1

-----------------------------------------------------------------------------
(* The calls.                                                              *)

goto(c, call) == calls' = [calls EXCEPT ![c] = call]

\* Whatever replaces the state of the handle is seen by the calls that run.
replaced(state) ==
  [c \in Callers |-> IF calls[c].pc = "idle" THEN calls[c]
                     ELSE [calls[c] EXCEPT !.seen = @ \cup {state}]]

\* getState: at once if the handle has a state.  reloadState always fetches.
Start(c, r) ==
  /\ calls[c].pc = "idle" /\ started < MaxCalls
  /\ started' = started + 1
  /\ goto(c, [Idle EXCEPT !.op = r.op, !.amount = r.amount, !.reserve = r.reserve,
                          !.pc = IF handle = NoState \/ r.op = "reload"
                                 THEN "fetching" ELSE "probing",
                          !.held = IF r.op = "reload" THEN NoState ELSE handle,
                          !.seen = {handle} \ {NoState}])
  /\ UNCHANGED <<ledger, handle, others>>

\* The node answers, and the answer arrives later.
Answer(c) ==
  /\ calls[c].pc = "fetching"
  /\ goto(c, [calls[c] EXCEPT !.pc = "answered", !.reply = stateOf(ledger)])
  /\ UNCHANGED <<ledger, handle, started, others>>

StateFetched(c) ==
  /\ calls[c].pc = "answered"
  /\ handle' = calls[c].reply
  /\ calls' = [replaced(calls[c].reply) EXCEPT
                 ![c] = IF calls[c].op = "reload" THEN over("returned")
                        ELSE [@ EXCEPT !.pc = "probing", !.held = calls[c].reply,
                                       !.reply = NoState]]
  /\ UNCHANGED <<ledger, started, others>>

\* depositIxs: the accounts are probed, and one instruction comes of it.  The
\* token is not SOL, and the amount has no more decimals than the token.
Deposit(c) ==
  /\ calls[c].pc = "probing" /\ calls[c].op = "deposit"
  /\ goto(c, [calls[c] EXCEPT !.pc = "built",
                !.list = <<[do |-> "deposit", reserve |-> NoReserve,
                            amount |-> whole(calls[c].amount),
                            metas |-> getVaultReserves(calls[c].held)]>>])
  /\ UNCHANGED <<ledger, handle, started, others>>

\* updateReserveAllocationIxs: no remaining accounts.
Update(c) ==
  /\ calls[c].pc = "probing" /\ calls[c].op = "update"
  /\ goto(c, [calls[c] EXCEPT !.pc = "built",
                !.list = <<[do |-> "update", reserve |-> calls[c].reserve,
                            amount |-> whole(calls[c].amount), metas |-> <<>>]>>])
  /\ UNCHANGED <<ledger, handle, started, others>>

investIx(reserve, state) == [do |-> "invest", reserve |-> reserve, amount |-> whole(0),
                             metas |-> getVaultReserves(state)]

\* investSingleReserveIxs, with the reserve the caller gives.
Invest(c) ==
  /\ calls[c].pc = "probing" /\ calls[c].op = "invest"
  /\ goto(c, [calls[c] EXCEPT !.pc = "built",
                              !.list = <<investIx(calls[c].reserve, calls[c].held)>>])
  /\ UNCHANGED <<ledger, handle, started, others>>

\* investAllReservesIxs: a request for each reserve, in the order of the slots,
\* and the handle is read again behind it.
InvestNext(c) ==
  LET call == calls[c]
      all == getVaultReserves(call.held)
      next == Len(call.list) + 1
  IN  /\ call.pc = "probing" /\ call.op = "investAll"
      /\ goto(c, IF all = <<>> THEN [call EXCEPT !.pc = "built"]
                 ELSE [call EXCEPT !.list = Append(@, investIx(all[next], getState)),
                                   !.pc = IF next = Len(all) THEN "built" ELSE @])
      /\ UNCHANGED <<ledger, handle, started, others>>

\* withdrawIxs: the token account is probed, then the handle is read again for
\* the price of a share, which takes requests for the reserves.
Price(c) ==
  /\ calls[c].pc = "probing" /\ calls[c].op = "withdraw"
  /\ goto(c, [calls[c] EXCEPT !.pc = "pricing", !.priced = getState])
  /\ UNCHANGED <<ledger, handle, started, others>>

\* With the price known: from the vault, or else the handle is read a third
\* time, for the reserves to take the rest from, which takes requests again.
Withdraw(c) ==
  LET call == calls[c]
      list == fromFirst(call)
  IN  /\ call.pc = "pricing"
      /\ \E liquid \in IF undefined(call.priced) THEN {FALSE} ELSE enough(call) :
           goto(c, IF ~liquid THEN [call EXCEPT !.pc = "ranking", !.ranked = getState]
                   ELSE IF badIxn(list[1]) THEN over("threw")
                   ELSE [call EXCEPT !.pc = "built", !.list = list])
      /\ UNCHANGED <<ledger, handle, started, others>>

WithdrawOverReserves(c) ==
  LET call == calls[c]
      list == fromReserves(call, ledger)
  IN  /\ call.pc = "ranking"
      /\ goto(c, IF slotMissing(call.ranked) \/ \E i \in DOMAIN list : badIxn(list[i])
                 THEN over("threw")
                 ELSE [call EXCEPT !.pc = "built", !.list = list])
      /\ UNCHANGED <<ledger, handle, started, others>>

\* A request is not answered, and the call throws: for the state, the token
\* accounts, the price or the reserves.  The handle keeps what it has: the
\* account of a vault is never closed, where a reload would leave it null.
RequestFails(c) ==
  /\ \/ calls[c].pc \in {"fetching", "pricing", "ranking"}
     \/ calls[c].pc = "probing" /\ calls[c].op \in {"deposit", "withdraw", "investAll"}
  /\ goto(c, over("threw"))
  /\ UNCHANGED <<ledger, handle, started, others>>

Finish(c) ==
  /\ calls[c].pc \in {"returned", "threw", "accepted", "rejected"}
  /\ goto(c, Idle)
  /\ UNCHANGED <<ledger, handle, started, others>>

-----------------------------------------------------------------------------
(* The programs: an instruction runs on the ledger, a list all or nothing. *)

least(a, b) == IF a < b THEN a ELSE b
tokensIn(l, i) ==
  IF l.alloc[i].reserve = NoReserve THEN 0
  ELSE floor(div(whole(l.alloc[i].ctokens), l.reserves[l.alloc[i].reserve].rate))
sumOf(value(_), S) == FoldSet(LAMBDA i, sum : value(i) + sum, 0, S)
underManagement(l) == l.available + sumOf(LAMBDA i : tokensIn(l, i), DOMAIN l.alloc)
slotOf(l, a) == CHOOSE i \in DOMAIN l.alloc : l.alloc[i].reserve = a

failed(l) == [l EXCEPT !.ok = FALSE]

deposited(l, amount) ==
  LET minted == IF l.issued = 0 THEN amount ELSE (amount * l.issued) \div underManagement(l)
  IN  IF l.tokens < amount \/ minted = 0 THEN failed(l)
      ELSE [l EXCEPT !.tokens = @ - amount, !.available = @ + amount,
                     !.issued = @ + minted, !.shares = @ + minted]

\* x tokens out of the reserve of slot i, into the vault's.
divested(l, i, x) ==
  LET a == l.alloc[i].reserve
      burnt == least(l.alloc[i].ctokens, ceil(mul(whole(x), l.reserves[a].rate)))
  IN  [l EXCEPT !.available = @ + x, !.alloc[i].ctokens = @ - burnt,
                !.reserves[a].liquid = @ - x]

withdrawn(l, shares, a) ==
  LET burnt == least(shares, l.shares)
      payout == (burnt * underManagement(l)) \div l.issued
      rest == payout - least(payout, l.available)
      i == slotOf(l, a)
      after == IF rest = 0 THEN l ELSE divested(l, i, rest)
  IN  IF burnt = 0 \/ rest > least(tokensIn(l, i), l.reserves[a].liquid) THEN failed(l)
      ELSE [after EXCEPT !.available = @ - payout, !.issued = @ - burnt,
                         !.shares = @ - burnt, !.tokens = @ + payout]

\* Towards the part of all tokens that the weight of the reserve stands for.
invested(l, a) ==
  LET i == slotOf(l, a)
      weights == sumOf(LAMBDA j : l.alloc[j].weight, DOMAIN l.alloc)
      target == (underManagement(l) * l.alloc[i].weight) \div weights
      in == least(l.available, target - tokensIn(l, i))
      out == least(tokensIn(l, i) - target, l.reserves[a].liquid)
  IN  IF weights = 0 THEN failed(l)
      ELSE IF target < tokensIn(l, i) THEN divested(l, i, out)
      ELSE [l EXCEPT !.available = @ - in, !.reserves[a].liquid = @ + in,
                     !.alloc[i].ctokens = @ + floor(mul(whole(in), l.reserves[a].rate))]

allocated(l, a, weight) ==
  LET known == {i \in DOMAIN l.alloc : l.alloc[i].reserve = a}
      free == {i \in DOMAIN l.alloc : l.alloc[i].reserve = NoReserve}
      first(S) == CHOOSE i \in S : \A j \in S : i <= j
  IN  IF known # {} THEN [l EXCEPT !.alloc[first(known)].weight = weight]
      ELSE IF free = {} THEN failed(l)
      ELSE [l EXCEPT !.alloc[first(free)].reserve = a, !.alloc[first(free)].weight = weight]

\* All reserves of the vault are listed, in the order of its slots, and the
\* reserve that is used is one of them.
listed(l, ixn) ==
  /\ ixn.metas = getVaultReserves(l)
  /\ ixn.do \in {"withdraw", "invest"} => ixn.reserve \in ToSet(ixn.metas)

run(l, ixn) ==
  IF ~l.ok THEN l
  ELSE IF ixn.do = "update" THEN allocated(l, ixn.reserve, floor(ixn.amount))
  ELSE IF ~listed(l, ixn) THEN failed(l)
  ELSE CASE ixn.do = "deposit"  -> deposited(l, floor(ixn.amount))
         [] ixn.do = "withdraw" -> withdrawn(l, floor(ixn.amount), ixn.reserve)
         [] ixn.do = "invest"   -> invested(l, ixn.reserve)

runAll(l, list) ==
  LET after[k \in 0..Len(list)] == IF k = 0 THEN l ELSE run(after[k - 1], list[k])
  IN  after[Len(list)]

Land(c) ==
  /\ calls[c].pc = "built"
  /\ LET end == runAll(ledger, calls[c].list)
     IN  /\ goto(c, over(IF end.ok THEN "accepted" ELSE "rejected"))
         /\ ledger' = IF end.ok THEN end ELSE ledger
  /\ UNCHANGED <<handle, started, others>>

-----------------------------------------------------------------------------
(* The others: a deposit, a crank, the admin, interest, and borrowers.     *)

Others(l) ==
  /\ others < MaxOthers /\ others' = others + 1
  /\ ledger' = l /\ ledger # l
  /\ UNCHANGED <<handle, calls, started>>

OthersDeposit ==
  LET l == deposited([ledger EXCEPT !.tokens = OthersAmount], OthersAmount)
  IN  l.ok /\ Others([l EXCEPT !.tokens = ledger.tokens, !.shares = ledger.shares])
OthersInvest(a) ==
  /\ a \in ToSet(getVaultReserves(ledger))
  /\ invested(ledger, a).ok /\ Others(invested(ledger, a))
AddReserve(a) ==
  /\ a \notin ToSet(getVaultReserves(ledger))
  /\ allocated(ledger, a, 1).ok /\ Others(allocated(ledger, a, 1))
Accrue(a) == Others([ledger EXCEPT !.reserves[a].rate = Accrued])
BorrowOut(a) == /\ ledger.reserves[a].liquid >= OthersAmount
                /\ Others([ledger EXCEPT !.reserves[a].liquid = @ - OthersAmount])

Next ==
  \/ \E c \in Callers :
       \/ \E r \in Requests : Start(c, r)
       \/ Answer(c) \/ StateFetched(c)
       \/ Deposit(c) \/ Update(c) \/ Invest(c) \/ InvestNext(c)
       \/ Price(c) \/ Withdraw(c) \/ WithdrawOverReserves(c) \/ RequestFails(c)
       \/ Land(c) \/ Finish(c)
  \/ OthersDeposit
  \/ \E a \in Reserve : OthersInvest(a) \/ AddReserve(a) \/ Accrue(a) \/ BorrowOut(a)

Spec == Init /\ [][Next]_vars

-----------------------------------------------------------------------------
CallsOK ==
  \A c \in Callers :
    LET call == calls[c]
    IN  /\ call.op \in Ops \cup {"none"}
        /\ call.pc \in {"idle", "fetching", "answered", "probing", "pricing", "ranking",
                       "built", "returned", "threw", "accepted", "rejected"}
        /\ {call.held, call.priced, call.ranked} \subseteq call.seen \cup {NoState}
        /\ \A ixn \in ToSet(call.list) : ToSet(ixn.metas) \subseteq Reserve

\* Types: a vault without shares has no liquid tokens, a running call has seen
\* what it holds, and no list names an unused slot (vault.ts:629-633, 719-738).
VtTypeOK ==
  /\ ledger.available \in Nat /\ ledger.issued \in Nat /\ ledger.ok
  /\ ledger.shares \in 0..ledger.issued /\ ledger.tokens \in Nat
  /\ ledger.issued = 0 => ledger.available = 0
  /\ \A a \in Reserve : ledger.reserves[a].liquid \in Nat
  /\ started \in 0..MaxCalls /\ others \in 0..MaxOthers
  /\ CallsOK

\* However many callers share and reload a handle, an instruction lists the
\* reserves of one state the handle had while its call ran, not of a mixture
\* or of another; and an invest list has one instruction for each reserve of
\* the state it began with, in the order of its slots (vault.ts:340-395).
OneStatePerInstruction ==
  \A c \in Callers :
    LET call == calls[c]
    IN  /\ \A ixn \in ToSet(call.list) :
             ixn.do # "update" => \E s \in call.seen : ixn.metas = getVaultReserves(s)
        /\ call.op = "investAll" /\ call.pc = "built" =>
             [i \in DOMAIN call.list |-> call.list[i].reserve] = getVaultReserves(call.held)

\* What the call was built from is still so.
current(call) == call.seen = {stateOf(ledger)}

(* What a current list does not survive, by the operation.                 *)

\* What shares are worth, and what a reserve can give towards them.
worth(l, shares) == (least(shares, l.shares) * underManagement(l)) \div l.issued
gives(l, a) == least(tokensIn(l, slotOf(l, a)), l.reserves[a].liquid)

\* The first instruction asks for as many shares as there are liquid tokens: for
\* none, if nothing is liquid, and for more than the liquid tokens pay for, if a
\* share is worth more than a token.  The reserve it names has to give the rest,
\* and "using first reserve as it does not matter" (vault.ts:277) may name one
\* that cannot.
nothingAsked(l) == l.available = 0 \/ l.shares = 0
firstReserveShort(l, list) == worth(l, l.available) > l.available + gives(l, list[1].reserve)

\* An instruction behind the first asks once more, for tokens as shares, and for
\* what the reserve before it could give: for none, for shares that are gone, or
\* for more than is liquid then and the reserve it names can give.
askedBefore(list, k) == FoldLeft(LAMBDA sum, ixn : sum + floor(ixn.amount), 0, SubSeq(list, 1, k - 1))
nextFails(l, list, k) ==
  LET before == worth(l, askedBefore(list, k))
      upTo == worth(l, askedBefore(list, k + 1))
      liquid == IF before < l.available THEN l.available - before ELSE 0
  IN  \/ list[k].amount = whole(0)
      \/ askedBefore(list, k) >= l.shares
      \/ upTo - before > liquid + gives(l, list[k].reserve)

\* A deposit too small for a share, or of more than the user has.
noShareFor(l, amount) == l.issued # 0 /\ amount * l.issued < underManagement(l)

Unserved(call) ==
  CASE call.op = "withdraw" -> \/ nothingAsked(ledger)
                               \/ firstReserveShort(ledger, call.list)
                               \/ \E k \in 2..Len(call.list) : nextFails(ledger, call.list, k)
    [] call.op = "update" -> ToSet(slotReserves(ledger)) \subseteq Reserve \ {call.reserve}
    [] call.op = "deposit" -> ledger.tokens < call.amount \/ noShareFor(ledger, call.amount)
    [] call.op = "invest" -> call.reserve \notin ToSet(slotReserves(ledger))
    [] OTHER -> \A i \in DOMAIN ledger.alloc : ledger.alloc[i].weight = 0

\* A list that lands on the state it was built from is rejected in the named
\* cases, if it asks for anything at all, and in no other; and a withdrawal of
\* all the user's shares from a vault with nothing invested leaves him none
\* (kamino_manager.test.ts:284-334, vault.ts:203-437).
ServedWhenCurrent ==
  [][\A c \in Callers :
       LET call == calls[c]
       IN  call.pc = "built" /\ current(call) /\ calls'[c].pc # "built" =>
             /\ (calls'[c].pc = "rejected") = (call.list # <<>> /\ Unserved(call))
             /\ /\ calls'[c].pc = "accepted" /\ call.op = "withdraw"
                /\ ledger.shares <= call.amount /\ call.amount <= ledger.issued
                /\ \A i \in DOMAIN ledger.alloc : ledger.alloc[i].ctokens = 0
                => ledger'.shares = 0]_vars

\* What the parameter of withdrawIxs promises (vault.ts:246): the shares asked
\* for are withdrawn, all of them if the user has fewer.
WithdrawsSharesAsked ==
  [][\A c \in Callers :
       calls[c].pc = "built" /\ calls[c].op = "withdraw" /\ calls'[c].pc = "accepted"
         => ledger'.shares = ledger.shares - least(calls[c].amount, ledger.shares)]_vars

=============================================================================
