---------------------------- MODULE VaultProofs ----------------------------
(***************************************************************************)
(* What is proved of Vault: however its callers share a handle, reload it  *)
(* and are overtaken by others, an instruction lists the reserves of one   *)
(* state the handle had while its call ran, and none but reserves.         *)
(***************************************************************************)
EXTENDS Vault, ListFacts

\* What the lists of accounts rest on of an allocation: slots in a row, each
\* with a reserve or none.
SlotsOK(alloc) ==
  \E n \in Nat : /\ alloc = [i \in 1..n |-> alloc[i]]
                 /\ \A i \in 1..n : /\ "reserve" \in DOMAIN alloc[i]
                                    /\ alloc[i].reserve \in Reserve \cup {NoReserve}
StateOK(state) == SlotsOK(state.alloc)
LedgerOK(l) == "alloc" \in DOMAIN l /\ SlotsOK(l.alloc)

\* An instruction lists the reserves of a state that was seen.
ListsSeen(ixn, seen) == \E s \in seen : ixn.metas = getVaultReserves(s)
IxnOK(ixn, seen) ==
  /\ ixn.do \in {"deposit", "withdraw", "invest", "update"}
  /\ ixn.do = "update" => ixn.reserve \in Reserve /\ ixn.metas = <<>>
  /\ ixn.do # "update" => ListsSeen(ixn, seen)
ListOK(list, seen) == IsList(list) /\ \A ixn \in ToSet(list) : IxnOK(ixn, seen)

\* An invest list follows the reserves of the state it began with, up to here.
Investing(call) ==
  LET all == getVaultReserves(call.held)
  IN  /\ Len(call.list) <= Len(all)
      /\ \A i \in 1..Len(call.list) : call.list[i].reserve = all[i]
      /\ call.pc = "probing" /\ all # <<>> => Len(call.list) < Len(all)
      /\ call.pc = "built" => Len(call.list) = Len(all)

Fields == {"op", "amount", "reserve", "pc", "reply", "held", "priced", "ranked",
           "seen", "list"}
Over == {"idle", "returned", "threw", "accepted", "rejected"}
Pcs == Over \cup {"fetching", "answered", "probing", "pricing", "ranking", "built"}

CallOK(call) ==
  /\ DOMAIN call = Fields
  /\ call.op \in Ops \cup {"none"} /\ call.pc \in Pcs
  /\ call.pc \in Over \cup {"fetching", "answered"} => call.list = <<>>
  /\ \A s \in call.seen : StateOK(s)
  /\ {call.held, call.priced, call.ranked} \subseteq call.seen \cup {NoState}
  /\ call.pc = "answered" => StateOK(call.reply)
  /\ call.pc \in {"probing", "pricing", "ranking", "built"} => call.held \in call.seen
  /\ call.pc \in {"pricing", "ranking"} => call.op = "withdraw"
  /\ call.pc = "ranking" => call.ranked \in call.seen
  /\ ListOK(call.list, call.seen)
  /\ call.op = "update" => call.reserve \in Reserve
  /\ call.op = "investAll" /\ call.pc \in {"probing", "built"} => Investing(call)

\* A call that is about to read the handle again has seen what it holds.
HandleSeen(call) == call.pc \in {"probing", "pricing"} => handle \in call.seen

VtIInv ==
  /\ LedgerOK(ledger)
  /\ handle = NoState \/ StateOK(handle)
  /\ calls = [c \in Callers |-> calls[c]]
  /\ \A c \in Callers : CallOK(calls[c]) /\ HandleSeen(calls[c])

-----------------------------------------------------------------------------
\* The reserves of an allocation are a list of reserves.
LEMMA ReservesList ==
  ASSUME NEW s, StateOK(s)
  PROVE  IsList(getVaultReserves(s)) /\ ToSet(getVaultReserves(s)) \subseteq Reserve
<1> PICK alloc : alloc = s.alloc
  OBVIOUS
<1> PICK n \in Nat : /\ alloc = [i \in 1..n |-> alloc[i]]
                     /\ \A i \in 1..n : alloc[i].reserve \in Reserve \cup {NoReserve}
  BY DEF StateOK, SlotsOK
<1> DEFINE r == [i \in 1..n |-> alloc[i].reserve]
           I == {i \in 1..n : alloc[i].reserve # NoReserve}
           V == Reserve \cup {NoReserve}
<1>1. DOMAIN alloc = 1..n
  OBVIOUS
<1>2. getVaultReserves(s) = pick(r, I)
  BY <1>1 DEF getVaultReserves, slotReserves
<1>3. \A i \in 1..n : r[i] = alloc[i].reserve /\ r[i] \in V
  OBVIOUS
<1>4. r = [i \in 1..n |-> r[i]] /\ DOMAIN r = 1..n
  OBVIOUS
<1> HIDE DEF r, V
<1>5. IsList(r) /\ Len(r) = n
  BY <1>4, FunctionIsList
<1>6. r \in Seq(V) /\ I \in SUBSET (1..Len(r))
  <2>1. ToSet(r) \subseteq V
    BY <1>3, <1>4 DEF ToSet
  <2> QED BY <1>5, <2>1, ListInSeq
<1>7. IsList(pick(r, I))
  BY <1>5, <1>4, PickIsList
<1>8. ToSet(pick(r, I)) = {r[i] : i \in I}
  <2> HIDE DEF I
  <2> QED BY <1>6, PickElements
<1>9. \A i \in I : r[i] \in Reserve
  BY <1>3 DEF V
<1> QED BY <1>2, <1>7, <1>8, <1>9

-----------------------------------------------------------------------------
(* The programs keep the slots in their places.                            *)

\* A slot that is given other collateral or another weight keeps its reserve.
LEMMA SlotsKept ==
  ASSUME NEW alloc, SlotsOK(alloc), NEW i, NEW x
  PROVE  /\ SlotsOK([alloc EXCEPT ![i] = [@ EXCEPT !.ctokens = x]])
         /\ SlotsOK([alloc EXCEPT ![i] = [@ EXCEPT !.weight = x]])
<1> PICK n \in Nat : /\ alloc = [j \in 1..n |-> alloc[j]]
                     /\ \A j \in 1..n : /\ "reserve" \in DOMAIN alloc[j]
                                        /\ alloc[j].reserve \in Reserve \cup {NoReserve}
  BY DEF SlotsOK
<1>0. DOMAIN alloc = 1..n
  OBVIOUS
<1>1. ASSUME NEW y, DOMAIN y = DOMAIN alloc[i], y.reserve = alloc[i].reserve
      PROVE  SlotsOK([alloc EXCEPT ![i] = y])
  <2> PICK b : b = [alloc EXCEPT ![i] = y]
    OBVIOUS
  <2>1. b = [j \in 1..n |-> IF j = i THEN y ELSE alloc[j]]
    BY <1>0, Zenon
  <2>2. \A j \in 1..n : b[j] = IF j = i THEN y ELSE alloc[j]
    BY <2>1
  <2>3. b = [j \in 1..n |-> b[j]]
    BY <2>1
  <2>4. \A j \in 1..n : "reserve" \in DOMAIN b[j] /\ b[j].reserve \in Reserve \cup {NoReserve}
    BY <1>1, <2>2
  <2> QED BY <2>3, <2>4 DEF SlotsOK
<1>2. CASE i \in 1..n
  <2> PICK e : e = alloc[i]
    OBVIOUS
  <2>1. "reserve" \in DOMAIN e
    BY <1>2
  <2>2. /\ DOMAIN [e EXCEPT !.ctokens = x] = DOMAIN e
        /\ [e EXCEPT !.ctokens = x].reserve = e.reserve
        /\ DOMAIN [e EXCEPT !.weight = x] = DOMAIN e
        /\ [e EXCEPT !.weight = x].reserve = e.reserve
    BY <2>1
  <2> QED BY <1>1, <2>2
<1>3. CASE i \notin 1..n
  <2>1. \A y : [alloc EXCEPT ![i] = y] = alloc
    BY <1>0, <1>3
  <2> QED BY <2>1
<1> QED BY <1>2, <1>3

\* A slot may be given a reserve.
LEMMA SlotGiven ==
  ASSUME NEW alloc, SlotsOK(alloc), NEW i, NEW a \in Reserve
  PROVE  SlotsOK([alloc EXCEPT ![i] = [@ EXCEPT !.reserve = a]])
<1> PICK n \in Nat : /\ alloc = [j \in 1..n |-> alloc[j]]
                     /\ \A j \in 1..n : /\ "reserve" \in DOMAIN alloc[j]
                                        /\ alloc[j].reserve \in Reserve \cup {NoReserve}
  BY DEF SlotsOK
<1>0. DOMAIN alloc = 1..n
  OBVIOUS
<1> PICK y : y = [alloc[i] EXCEPT !.reserve = a]
  OBVIOUS
<1> PICK b : b = [alloc EXCEPT ![i] = y]
  OBVIOUS
<1>1. b = [j \in 1..n |-> IF j = i THEN y ELSE alloc[j]]
  BY <1>0, Zenon
<1>2. \A j \in 1..n : b[j] = IF j = i THEN y ELSE alloc[j]
  BY <1>1
<1>3. b = [j \in 1..n |-> b[j]]
  BY <1>1
<1>4. i \in 1..n => "reserve" \in DOMAIN y /\ y.reserve = a
  OBVIOUS
<1>5. \A j \in 1..n : "reserve" \in DOMAIN b[j] /\ b[j].reserve \in Reserve \cup {NoReserve}
  BY <1>2, <1>4
<1>6. SlotsOK(b)
  BY <1>3, <1>5 DEF SlotsOK
<1> QED BY <1>6

LEMMA DivestedKeeps ==
  ASSUME NEW l, LedgerOK(l), NEW i, NEW x
  PROVE  LedgerOK(divested(l, i, x))
<1> PICK burnt : burnt = least(l.alloc[i].ctokens,
                               ceil(mul(whole(x), l.reserves[l.alloc[i].reserve].rate)))
  OBVIOUS
<1> PICK m : m = divested(l, i, x)
  OBVIOUS
<1>1. m = [l EXCEPT !.available = @ + x, !.alloc[i].ctokens = @ - burnt,
                    !.reserves[l.alloc[i].reserve].liquid = @ - x]
  BY Zenon DEF divested
<1>2. DOMAIN m = DOMAIN l
  BY <1>1
<1> PICK left : left = l.alloc[i].ctokens - burnt
  OBVIOUS
<1>3. m.alloc = [l.alloc EXCEPT ![i] = [@ EXCEPT !.ctokens = left]]
  BY <1>1 DEF LedgerOK
<1>4. SlotsOK([l.alloc EXCEPT ![i] = [@ EXCEPT !.ctokens = left]])
  BY SlotsKept DEF LedgerOK
<1>5. SlotsOK(m.alloc)
  BY <1>3, <1>4, Zenon
<1> QED BY <1>2, <1>5 DEF LedgerOK

LEMMA DepositedKeeps ==
  ASSUME NEW l, LedgerOK(l), NEW amount
  PROVE  LedgerOK(deposited(l, amount))
<1> PICK m : m = deposited(l, amount)
  OBVIOUS
<1> PICK minted : minted = IF l.issued = 0 THEN amount
                           ELSE (amount * l.issued) \div underManagement(l)
  OBVIOUS
<1>1. \/ m = [l EXCEPT !.ok = FALSE]
      \/ m = [l EXCEPT !.tokens = @ - amount, !.available = @ + amount,
                       !.issued = @ + minted, !.shares = @ + minted]
  BY Zenon DEF deposited, failed
<1>2. DOMAIN m = DOMAIN l /\ ("alloc" \in DOMAIN l => m.alloc = l.alloc)
  BY <1>1
<1> QED BY <1>2 DEF LedgerOK

LEMMA WithdrawnKeeps ==
  ASSUME NEW l, LedgerOK(l), NEW shares, NEW a
  PROVE  LedgerOK(withdrawn(l, shares, a))
<1> DEFINE burnt == least(shares, l.shares)
           payout == (burnt * underManagement(l)) \div l.issued
           rest == payout - least(payout, l.available)
           i == slotOf(l, a)
           after == IF rest = 0 THEN l ELSE divested(l, i, rest)
           bad == burnt = 0 \/ rest > least(tokensIn(l, i), l.reserves[a].liquid)
<1>1. LedgerOK(after)
  BY DivestedKeeps
<1>2. withdrawn(l, shares, a) = IF bad THEN failed(l)
        ELSE [after EXCEPT !.available = @ - payout, !.issued = @ - burnt,
                           !.shares = @ - burnt, !.tokens = @ + payout]
  BY Zenon DEF withdrawn
<1> HIDE DEF burnt, payout, rest, i, after, bad
<1> PICK m : m = withdrawn(l, shares, a)
  OBVIOUS
<1>3. \/ m = [l EXCEPT !.ok = FALSE]
      \/ m = [after EXCEPT !.available = @ - payout, !.issued = @ - burnt,
                           !.shares = @ - burnt, !.tokens = @ + payout]
  BY <1>2, Zenon DEF failed
<1>4. \/ DOMAIN m = DOMAIN l /\ ("alloc" \in DOMAIN l => m.alloc = l.alloc)
      \/ DOMAIN m = DOMAIN after /\ ("alloc" \in DOMAIN after => m.alloc = after.alloc)
  BY <1>3
<1> QED BY <1>1, <1>4 DEF LedgerOK

LEMMA InvestedKeeps ==
  ASSUME NEW l, LedgerOK(l), NEW a
  PROVE  LedgerOK(invested(l, a))
<1> DEFINE i == slotOf(l, a)
           weights == sumOf(LAMBDA j : l.alloc[j].weight, DOMAIN l.alloc)
           target == (underManagement(l) * l.alloc[i].weight) \div weights
           in == least(l.available, target - tokensIn(l, i))
           out == least(tokensIn(l, i) - target, l.reserves[a].liquid)
           more == floor(mul(whole(in), l.reserves[a].rate))
           put == [l EXCEPT !.available = @ - in, !.reserves[a].liquid = @ + in,
                            !.alloc[i].ctokens = @ + more]
<1>1. invested(l, a) \in {failed(l), divested(l, i, out), put}
  BY Zenon DEF invested
<1>2. LedgerOK(divested(l, i, out))
  BY DivestedKeeps
<1>3. LedgerOK(failed(l))
  <2>1. DOMAIN failed(l) = DOMAIN l /\ ("alloc" \in DOMAIN l => failed(l).alloc = l.alloc)
    BY DEF failed
  <2> QED BY <2>1 DEF LedgerOK
<1> HIDE DEF i, weights, target, in, out, more
<1>4. LedgerOK(put)
  <2>1. DOMAIN put = DOMAIN l
    OBVIOUS
  <2>2. put.alloc = [l.alloc EXCEPT ![i] = [@ EXCEPT !.ctokens = l.alloc[i].ctokens + more]]
    BY DEF LedgerOK
  <2>3. SlotsOK(put.alloc)
    BY <2>2, SlotsKept DEF LedgerOK
  <2> QED BY <2>1, <2>3 DEF LedgerOK
<1> QED BY <1>1, <1>2, <1>3, <1>4

LEMMA AllocatedKeeps ==
  ASSUME NEW l, LedgerOK(l), NEW a \in Reserve, NEW weight
  PROVE  LedgerOK(allocated(l, a, weight))
<1> DEFINE known == {i \in DOMAIN l.alloc : l.alloc[i].reserve = a}
           free == {i \in DOMAIN l.alloc : l.alloc[i].reserve = NoReserve}
           first(S) == CHOOSE i \in S : \A j \in S : i <= j
           k == first(known)
           f == first(free)
           heavier == [l EXCEPT !.alloc[k].weight = weight]
           taken2 == [l EXCEPT !.alloc[f].reserve = a, !.alloc[f].weight = weight]
<1>1. allocated(l, a, weight) \in {failed(l), heavier, taken2}
  BY Zenon DEF allocated
<1> HIDE DEF k, f
<1>2. LedgerOK(failed(l))
  <2>1. DOMAIN failed(l) = DOMAIN l /\ ("alloc" \in DOMAIN l => failed(l).alloc = l.alloc)
    BY DEF failed
  <2> QED BY <2>1 DEF LedgerOK
<1>3. LedgerOK(heavier)
  <2>1. DOMAIN heavier = DOMAIN l
    OBVIOUS
  <2>2. heavier.alloc = [l.alloc EXCEPT ![k] = [@ EXCEPT !.weight = weight]]
    BY DEF LedgerOK
  <2>3. SlotsOK(heavier.alloc)
    BY <2>2, SlotsKept DEF LedgerOK
  <2> QED BY <2>1, <2>3 DEF LedgerOK
<1>4. LedgerOK(taken2)
  <2> PICK b : b = [l.alloc EXCEPT ![f] = [@ EXCEPT !.reserve = a]]
    OBVIOUS
  <2>1. DOMAIN taken2 = DOMAIN l
    OBVIOUS
  <2>2. taken2.alloc = [b EXCEPT ![f] = [@ EXCEPT !.weight = weight]]
    BY DEF LedgerOK
  <2>3. SlotsOK(b)
    BY SlotGiven DEF LedgerOK
  <2>4. SlotsOK(taken2.alloc)
    BY <2>2, <2>3, SlotsKept
  <2> QED BY <2>1, <2>4 DEF LedgerOK
<1> QED BY <1>1, <1>2, <1>3, <1>4

LEMMA RunKeeps ==
  ASSUME NEW l, LedgerOK(l), NEW ixn, NEW seen, IxnOK(ixn, seen)
  PROVE  LedgerOK(run(l, ixn))
<1>1. LedgerOK(failed(l))
  <2>1. DOMAIN failed(l) = DOMAIN l /\ ("alloc" \in DOMAIN l => failed(l).alloc = l.alloc)
    BY DEF failed
  <2> QED BY <2>1 DEF LedgerOK
<1>2. CASE ixn.do = "update"
  <2>1. LedgerOK(allocated(l, ixn.reserve, floor(ixn.amount)))
    BY <1>2, AllocatedKeeps DEF IxnOK
  <2> QED BY <1>2, <2>1, Zenon DEF run
<1>3. CASE ixn.do = "deposit"
  <2>1. run(l, ixn) \in {l, failed(l), deposited(l, floor(ixn.amount))}
    BY <1>3 DEF run
  <2> QED BY <1>1, <2>1, DepositedKeeps
<1>4. CASE ixn.do = "withdraw"
  <2>1. run(l, ixn) \in {l, failed(l), withdrawn(l, floor(ixn.amount), ixn.reserve)}
    BY <1>4 DEF run
  <2> QED BY <1>1, <2>1, WithdrawnKeeps
<1>5. CASE ixn.do = "invest"
  <2>1. run(l, ixn) \in {l, failed(l), invested(l, ixn.reserve)}
    BY <1>5 DEF run
  <2> QED BY <1>1, <2>1, InvestedKeeps
<1> QED BY <1>2, <1>3, <1>4, <1>5 DEF IxnOK

\* The ledger after the first k instructions of a list.
RunTo(f, l, list) ==
  f = [k \in 0..Len(list) |-> IF k = 0 THEN l ELSE run(f[k - 1], list[k])]

LEMMA RunToExists ==
  ASSUME NEW l, NEW list, NEW n \in Nat, n = Len(list)
  PROVE  \E f : RunTo(f, l, list)
<1> DEFINE Good(f, k) == /\ f = [i \in 0..k |-> f[i]]
                         /\ f[0] = l /\ \A i \in 1..k : f[i] = run(f[i - 1], list[i])
           S == {k \in 0..n : \E f : Good(f, k)}
<1>1. 0 \in S
  <2>1. Good([i \in 0..0 |-> l], 0)
    OBVIOUS
  <2>2. 0 \in 0..n
    OBVIOUS
  <2> HIDE DEF Good
  <2> QED BY <2>1, <2>2
<1>2. ASSUME NEW k \in 0..(n - 1), k \in S
      PROVE  k + 1 \in S
  <2> PICK f : Good(f, k)
    BY <1>2
  <2> PICK last : last = run(f[k], list[k + 1])
    OBVIOUS
  <2> DEFINE g == [i \in 0..(k + 1) |-> IF i = k + 1 THEN last ELSE f[i]]
  <2>1. \A i \in 1..(k + 1) : g[i] = run(g[i - 1], list[i])
    <3> SUFFICES ASSUME NEW i \in 1..(k + 1) PROVE g[i] = run(g[i - 1], list[i])
      OBVIOUS
    <3>1. g[i - 1] = f[i - 1]
      OBVIOUS
    <3>2. CASE i = k + 1
      <4>1. g[i] = last /\ i - 1 = k
        BY <3>2
      <4> HIDE DEF g
      <4> QED BY <3>1, <3>2, <4>1
    <3>3. CASE i # k + 1
      <4>1. i \in 1..k
        BY <3>3
      <4>2. g[i] = f[i]
        BY <3>3
      <4> QED BY <3>1, <4>1, <4>2
    <3> QED BY <3>2, <3>3
  <2>2. g[0] = l
    OBVIOUS
  <2>3. g = [i \in 0..(k + 1) |-> g[i]]
    OBVIOUS
  <2>4. Good(g, k + 1)
    <3> HIDE DEF g
    <3> QED BY <2>1, <2>2, <2>3
  <2>5. k + 1 \in 0..n
    OBVIOUS
  <2> HIDE DEF g, Good
  <2> QED BY <2>4, <2>5
<1>3. 0..n \subseteq S
  <2> HIDE DEF S
  <2> QED BY <1>1, <1>2, InductionUpTo
<1>4. n \in 0..n
  OBVIOUS
<1> PICK f : Good(f, n)
  BY <1>3, <1>4
<1>5. \A k \in 0..n : f[k] = IF k = 0 THEN l ELSE run(f[k - 1], list[k])
  OBVIOUS
<1>6. f = [k \in 0..n |-> IF k = 0 THEN l ELSE run(f[k - 1], list[k])]
  BY <1>5, Zenon
<1> QED BY <1>6 DEF RunTo

\* A list of instructions keeps the slots in their places.
LEMMA RunAllKeeps ==
  ASSUME NEW l, LedgerOK(l), NEW list, NEW seen, ListOK(list, seen)
  PROVE  LedgerOK(runAll(l, list))
<1> PICK n \in Nat : n = Len(list)
  BY DEF ListOK, IsList
<1>0. DOMAIN list = 1..n
  BY DEF ListOK, IsList
<1> DEFINE after == CHOOSE f : RunTo(f, l, list)
<1>1. RunTo(after, l, list)
  BY RunToExists, Zenon
<1>2. runAll(l, list) = after[n]
  BY Zenon DEF runAll, RunTo
<1> HIDE DEF after
<1>3. \A k \in 0..n : after[k] = IF k = 0 THEN l ELSE run(after[k - 1], list[k])
  BY <1>1, Zenon DEF RunTo
<1> DEFINE S == {k \in 0..n : LedgerOK(after[k])}
<1>4. 0 \in S
  BY <1>3
<1>5. ASSUME NEW k \in 0..(n - 1), k \in S PROVE k + 1 \in S
  <2>1. k + 1 \in 1..n /\ k + 1 \in 0..n /\ (k + 1) - 1 = k /\ k + 1 # 0
    OBVIOUS
  <2>2. after[k + 1] = run(after[k], list[k + 1])
    BY <1>3, <2>1
  <2>3. IxnOK(list[k + 1], seen)
    BY <1>0, <2>1 DEF ListOK, ToSet
  <2>4. LedgerOK(after[k])
    BY <1>5
  <2>5. LedgerOK(after[k + 1])
    BY <2>2, <2>3, <2>4, RunKeeps
  <2> QED BY <2>1, <2>5
<1>6. 0..n \subseteq S
  <2> HIDE DEF S
  <2> QED BY <1>4, <1>5, InductionUpTo
<1>7. n \in S
  <2>1. n \in 0..n
    OBVIOUS
  <2> HIDE DEF S
  <2> QED BY <1>6, <2>1
<1> QED BY <1>2, <1>7

-----------------------------------------------------------------------------
(* A withdrawal over the reserves is a list.                               *)

\* The plan after the first k slots.
PlanTo(f, n, first, reserves, can) ==
  f = [k \in 0..n |-> IF k = 0 THEN first ELSE taken(f[k - 1], reserves[k], can[k])]

LEMMA PlanToExists ==
  ASSUME NEW n \in Nat, NEW first, NEW reserves, NEW can
  PROVE  \E f : PlanTo(f, n, first, reserves, can)
<1> DEFINE Good(f, k) ==
             /\ f = [i \in 0..k |-> f[i]]
             /\ f[0] = first /\ \A i \in 1..k : f[i] = taken(f[i - 1], reserves[i], can[i])
           S == {k \in 0..n : \E f : Good(f, k)}
<1>1. 0 \in S
  <2>1. Good([i \in 0..0 |-> first], 0)
    OBVIOUS
  <2>2. 0 \in 0..n
    OBVIOUS
  <2> HIDE DEF Good
  <2> QED BY <2>1, <2>2
<1>2. ASSUME NEW k \in 0..(n - 1), k \in S
      PROVE  k + 1 \in S
  <2> PICK f : Good(f, k)
    BY <1>2
  <2> PICK last : last = taken(f[k], reserves[k + 1], can[k + 1])
    OBVIOUS
  <2> DEFINE g == [i \in 0..(k + 1) |-> IF i = k + 1 THEN last ELSE f[i]]
  <2>1. \A i \in 1..(k + 1) : g[i] = taken(g[i - 1], reserves[i], can[i])
    <3> SUFFICES ASSUME NEW i \in 1..(k + 1)
                 PROVE  g[i] = taken(g[i - 1], reserves[i], can[i])
      OBVIOUS
    <3>1. g[i - 1] = f[i - 1]
      OBVIOUS
    <3>2. CASE i = k + 1
      <4>1. g[i] = last /\ i - 1 = k
        BY <3>2
      <4> HIDE DEF g
      <4> QED BY <3>1, <3>2, <4>1
    <3>3. CASE i # k + 1
      <4>1. i \in 1..k
        BY <3>3
      <4>2. g[i] = f[i]
        BY <3>3
      <4> QED BY <3>1, <4>1, <4>2
    <3> QED BY <3>2, <3>3
  <2>2. g[0] = first
    OBVIOUS
  <2>3. g = [i \in 0..(k + 1) |-> g[i]]
    OBVIOUS
  <2>4. Good(g, k + 1)
    <3> HIDE DEF g
    <3> QED BY <2>1, <2>2, <2>3
  <2>5. k + 1 \in 0..n
    OBVIOUS
  <2> HIDE DEF g, Good
  <2> QED BY <2>4, <2>5
<1>3. 0..n \subseteq S
  <2> HIDE DEF S
  <2> QED BY <1>1, <1>2, InductionUpTo
<1>4. n \in 0..n
  OBVIOUS
<1> PICK f : Good(f, n)
  BY <1>3, <1>4
<1>5. \A k \in 0..n : f[k] = IF k = 0 THEN first ELSE taken(f[k - 1], reserves[k], can[k])
  <2>1. \A k \in 0..n : k = 0 \/ k \in 1..n
    OBVIOUS
  <2>2. \A k \in 1..n : k # 0
    OBVIOUS
  <2> QED BY <2>1, <2>2, Zenon
<1>6. f = [k \in 0..n |-> IF k = 0 THEN first ELSE taken(f[k - 1], reserves[k], can[k])]
  BY <1>5, Zenon
<1> QED BY <1>6 DEF PlanTo

\* The reserves of the plan are a list.
LEMMA PlanIsList ==
  ASSUME NEW call, NEW state, StateOK(state), NEW l
  PROVE  IsList(overReserves(call, state, l).from)
<1> PICK n \in Nat : state.alloc = [i \in 1..n |-> state.alloc[i]]
  BY DEF StateOK, SlotsOK
<1>0. DOMAIN state.alloc = 1..n /\ Len(state.alloc) = n
  <2>1. DOMAIN state.alloc = 1..n
    OBVIOUS
  <2> QED BY <2>1, FunctionIsList
<1> DEFINE takable(i) == withdrawable(l, state.alloc[i])
           before(j, i) == \/ lt(takable(i), takable(j))
                           \/ takable(i) = takable(j) /\ j < i
           nth(k) == CHOOSE i \in DOMAIN state.alloc :
                       Cardinality({j \in DOMAIN state.alloc : before(j, i)}) = k - 1
           first == [left |-> leftOver(call), from |-> <<>>,
                     amount |-> <<whole(call.held.available)>>]
           Is(f) == f = [k \in 0..Len(state.alloc) |->
                           IF k = 0 THEN first
                           ELSE taken(f[k - 1], state.alloc[nth(k)].reserve, takable(nth(k)))]
           after == CHOOSE f : Is(f)
           reserves == [k \in 1..n |-> state.alloc[nth(k)].reserve]
           can == [k \in 1..n |-> takable(nth(k))]
<1>1. overReserves(call, state, l) = after[Len(state.alloc)]
  BY Zenon DEF overReserves
<1> HIDE DEF takable, before, nth
<1>2. first.from = <<>>
  OBVIOUS
<1> HIDE DEF first
<1>3. \A k \in 0..n : k # 0 => /\ reserves[k] = state.alloc[nth(k)].reserve
                               /\ can[k] = takable(nth(k))
  OBVIOUS
<1> HIDE DEF reserves, can
<1>4. Is(after)
  <2> PICK f : PlanTo(f, n, first, reserves, can)
    BY PlanToExists
  <2>1. Is(f)
    BY <1>0, <1>3, Zenon DEF PlanTo
  <2> QED BY <2>1, Zenon
<1>5. /\ after[0] = first
      /\ \A k \in 1..n : after[k] = taken(after[k - 1], state.alloc[nth(k)].reserve,
                                          takable(nth(k)))
  <2> HIDE DEF after
  <2>1. \A k \in 0..n : after[k] = IF k = 0 THEN first
          ELSE taken(after[k - 1], state.alloc[nth(k)].reserve, takable(nth(k)))
    BY <1>0, <1>4, Zenon
  <2>2. 0 \in 0..n /\ \A k \in 1..n : k \in 0..n /\ k # 0
    OBVIOUS
  <2> QED BY <2>1, <2>2, Zenon
<1> HIDE DEF after
<1>6. \A plan, a, c : IsList(plan.from) => IsList(taken(plan, a, c).from)
  <2> SUFFICES ASSUME NEW plan, NEW a, NEW c, IsList(plan.from)
               PROVE  IsList(taken(plan, a, c).from)
    OBVIOUS
  <2>1. taken(plan, a, c).from \in {plan.from, Append(plan.from, a)}
    <3>1. taken(plan, a, c) = plan \/ taken(plan, a, c).from = Append(plan.from, a)
      BY DEF taken
    <3> QED BY <3>1
  <2>2. IsList(Append(plan.from, a))
    <3> DEFINE V == ToSet(plan.from) \cup {a}
    <3>1. plan.from \in Seq(V)
      BY ListInSeq
    <3>2. Append(plan.from, a) \in Seq(V)
      BY <3>1
    <3> QED BY <3>2, SeqIsList
  <2> QED BY <2>1, <2>2
<1> DEFINE S == {k \in 0..n : IsList(after[k].from)}
<1>7. 0 \in S
  <2>1. IsList(<<>>)
    BY DEF IsList
  <2> QED BY <1>2, <1>5, <2>1
<1>8. ASSUME NEW k \in 0..(n - 1), k \in S PROVE k + 1 \in S
  <2>1. k + 1 \in 1..n /\ k + 1 \in 0..n /\ (k + 1) - 1 = k
    OBVIOUS
  <2>2. IsList(after[k].from)
    BY <1>8
  <2> PICK a : a = state.alloc[nth(k + 1)].reserve
    OBVIOUS
  <2> PICK c : c = takable(nth(k + 1))
    OBVIOUS
  <2>3. after[k + 1] = taken(after[k], a, c)
    BY <1>5, <2>1
  <2>4. IsList(taken(after[k], a, c).from)
    BY <1>6, <2>2, Zenon
  <2>5. IsList(after[k + 1].from)
    BY <2>3, <2>4
  <2> QED BY <2>1, <2>5
<1>9. 0..n \subseteq S
  <2> HIDE DEF S
  <2> QED BY <1>7, <1>8, InductionUpTo
<1>10. n \in S
  <2>1. n \in 0..n
    OBVIOUS
  <2> HIDE DEF S
  <2> QED BY <1>9, <2>1
<1> QED BY <1>0, <1>1, <1>10

-----------------------------------------------------------------------------
(* The calls.                                                              *)

LEMMA OneIsList ==
  ASSUME NEW e
  PROVE  IsList(<<>>) /\ ToSet(<<>>) = {} /\ IsList(<<e>>) /\ ToSet(<<e>>) = {e}
<1>1. <<e>> \in Seq({e}) /\ ToSet(<<>>) = {} /\ ToSet(<<e>>) = {e}
  BY DEF ToSet
<1> QED BY <1>1 DEF IsList

\* What a call becomes when it is over.
LEMMA OverOK ==
  ASSUME NEW pc \in Over
  PROVE  CallOK(over(pc)) /\ over(pc).pc = pc /\ over(pc).list = <<>>
<1> PICK call : call = over(pc)
  OBVIOUS
<1>1. /\ DOMAIN call = Fields
      /\ call.op = "none" /\ call.pc = pc /\ call.list = <<>> /\ call.seen = {}
      /\ call.held = NoState /\ call.priced = NoState /\ call.ranked = NoState
  BY DEF over, Idle, Fields
<1>2. ListOK(call.list, call.seen)
  BY <1>1, OneIsList DEF ListOK
<1>3. CallOK(call)
  BY <1>1, <1>2 DEF CallOK, Pcs, Over
<1> QED BY <1>1, <1>3

LEMMA IdleIsOver == Idle = over("idle")
<1> PICK idle : idle = Idle
  OBVIOUS
<1>1. idle.pc = "idle" /\ idle = [k \in DOMAIN idle |-> idle[k]]
  BY DEF Idle
<1>2. [idle EXCEPT !.pc = "idle"] = idle
  BY <1>1
<1> QED BY <1>2 DEF over

\* A list stays sound when more is seen.
LEMMA SeenMore ==
  ASSUME NEW call, CallOK(call), NEW state, StateOK(state)
  PROVE  CallOK([call EXCEPT !.seen = @ \cup {state}])
<1> PICK new : new = [call EXCEPT !.seen = @ \cup {state}]
  OBVIOUS
<1>0. DOMAIN call = Fields
  BY DEF CallOK
<1>1. /\ DOMAIN new = Fields /\ new.seen = call.seen \cup {state}
      /\ new.op = call.op /\ new.pc = call.pc /\ new.list = call.list /\ new.held = call.held
      /\ new.priced = call.priced /\ new.ranked = call.ranked /\ new.reply = call.reply /\ new.reserve = call.reserve
  BY <1>0 DEF Fields
<1>2. \A s \in new.seen : StateOK(s)
  BY <1>1 DEF CallOK
<1>3. {new.held, new.priced, new.ranked} \subseteq new.seen \cup {NoState}
  BY <1>1 DEF CallOK
<1>4. \A ixn : IxnOK(ixn, call.seen) => IxnOK(ixn, new.seen)
  BY <1>1 DEF IxnOK, ListsSeen
<1>5. ListOK(new.list, new.seen)
  BY <1>1, <1>4 DEF CallOK, ListOK
<1>6. Investing(call) => Investing(new)
  BY <1>1, Zenon DEF Investing
<1> QED BY <1>1, <1>2, <1>3, <1>5, <1>6 DEF CallOK

\* A call is given a list of one instruction, or of none.
LEMMA Built ==
  ASSUME NEW call, CallOK(call), call.pc \in {"probing", "pricing", "ranking"},
         call.op # "investAll",
         NEW list, ListOK(list, call.seen)
  PROVE  CallOK([call EXCEPT !.pc = "built", !.list = list])
<1> PICK new : new = [call EXCEPT !.pc = "built", !.list = list]
  OBVIOUS
<1>0. DOMAIN call = Fields
  BY DEF CallOK
<1>1. /\ DOMAIN new = Fields /\ new.seen = call.seen
      /\ new.op = call.op /\ new.pc = "built" /\ new.list = list /\ new.held = call.held
      /\ new.priced = call.priced /\ new.ranked = call.ranked /\ new.reply = call.reply /\ new.reserve = call.reserve
  BY <1>0 DEF Fields
<1>2. ListOK(new.list, new.seen)
  BY <1>1
<1>3. new.held \in new.seen
  BY <1>1 DEF CallOK
<1> QED BY <1>1, <1>2, <1>3 DEF CallOK, Pcs, Over

LEMMA OneInstruction ==
  ASSUME NEW ixn, NEW seen, IxnOK(ixn, seen)
  PROVE  ListOK(<<ixn>>, seen)
BY OneIsList DEF ListOK

\* The instructions of a withdrawal list the reserves of what the call holds.
LEMMA WithdrawList ==
  ASSUME NEW call, CallOK(call), call.pc \in {"pricing", "ranking"}, NEW l
  PROVE  /\ ListOK(fromFirst(call), call.seen)
         /\ call.pc = "ranking" => ListOK(fromReserves(call, l), call.seen)
<1>1. \A reserve, amount : IxnOK(withdrawIxn(call, reserve, amount), call.seen)
  <2> SUFFICES ASSUME NEW reserve, NEW amount
               PROVE  IxnOK(withdrawIxn(call, reserve, amount), call.seen)
    OBVIOUS
  <2> PICK ixn : ixn = withdrawIxn(call, reserve, amount)
    OBVIOUS
  <2>1. ixn.do = "withdraw" /\ ixn.metas = getVaultReserves(call.held)
    BY DEF withdrawIxn
  <2>2. call.held \in call.seen
    BY DEF CallOK
  <2>3. IxnOK(ixn, call.seen)
    BY <2>1, <2>2 DEF IxnOK, ListsSeen
  <2> QED BY <2>3
<1>2. ListOK(fromFirst(call), call.seen)
  BY <1>1, OneInstruction DEF fromFirst
<1>3. ASSUME call.pc = "ranking" PROVE ListOK(fromReserves(call, l), call.seen)
  <2> PICK plan : plan = IF undefined(call.priced) THEN [from |-> <<>>]
                         ELSE overReserves(call, call.ranked, l)
    OBVIOUS
  <2>1. IsList(plan.from)
    <3>1. StateOK(call.ranked)
      BY <1>3 DEF CallOK
    <3>2. CASE undefined(call.priced)
      BY <3>2, OneIsList
    <3>3. CASE ~undefined(call.priced)
      BY <3>1, <3>3, PlanIsList
    <3> QED BY <3>2, <3>3
  <2> PICK n \in Nat : DOMAIN plan.from = 1..n
    BY <2>1 DEF IsList
  <2> DEFINE list == [i \in 1..n |-> withdrawIxn(call, plan.from[i], plan.amount[i])]
  <2>2. fromReserves(call, l) = list
    BY DEF fromReserves
  <2>3. \A i \in 1..n : IxnOK(list[i], call.seen)
    BY <1>1
  <2>4. list = [i \in 1..n |-> list[i]] /\ DOMAIN list = 1..n
    OBVIOUS
  <2> HIDE DEF list
  <2>5. IsList(list)
    BY <2>4, FunctionIsList
  <2>6. ListOK(list, call.seen)
    BY <2>3, <2>4, <2>5 DEF ListOK, ToSet
  <2> QED BY <2>2, <2>6
<1> QED BY <1>2, <1>3

\* One call goes on, and the ledger and the handle are as they were.
LEMMA GoesOn ==
  ASSUME VtIInv, NEW c \in Callers, NEW new, CallOK(new), goto(c, new),
         new.pc \in {"probing", "pricing"} => handle \in new.seen,
         LedgerOK(ledger'), handle' = handle
  PROVE  VtIInv'
<1>1. calls' = [calls EXCEPT ![c] = new] /\ DOMAIN calls = Callers
  BY DEF goto, VtIInv
<1>2. \A d \in Callers : calls'[d] = IF d = c THEN new ELSE calls[d]
  BY <1>1
<1>3. calls' = [d \in Callers |-> calls'[d]]
  BY <1>1, <1>2, Zenon
<1>4. \A d \in Callers : CallOK(calls'[d])
  BY <1>2 DEF VtIInv
<1>5. \A d \in Callers :
        calls'[d].pc \in {"probing", "pricing"} => handle' \in calls'[d].seen
  BY <1>2 DEF VtIInv, HandleSeen
<1> QED BY <1>3, <1>4, <1>5 DEF VtIInv, HandleSeen

-----------------------------------------------------------------------------
(* Each step keeps the invariant.                                          *)

LEMMA VtInit == Init => VtIInv
<1> SUFFICES ASSUME Init PROVE VtIInv
  OBVIOUS
<1>1. ledger \in Ledgers
  BY VaultAssumption DEF Init
<1> PICK alloc \in Seq(Slots) : alloc = ledger.alloc
  BY <1>1 DEF Ledgers
<1>2. SlotsOK(alloc)
  <2> PICK n \in Nat : n = Len(alloc)
    OBVIOUS
  <2>1. alloc = [i \in 1..n |-> alloc[i]]
    OBVIOUS
  <2>2. \A i \in 1..n : alloc[i] \in Slots
    OBVIOUS
  <2>3. \A s \in Slots : "reserve" \in DOMAIN s /\ s.reserve \in Reserve \cup {NoReserve}
    BY DEF Slots
  <2> QED BY <2>1, <2>2, <2>3 DEF SlotsOK
<1>3. LedgerOK(ledger)
  BY <1>1, <1>2 DEF LedgerOK, Ledgers
<1>4. handle = NoState \/ StateOK(handle)
  <2>1. StateOK(stateOf(ledger))
    BY <1>2 DEF StateOK, stateOf
  <2> QED BY <2>1 DEF Init
<1>5. Idle = over("idle")
  BY IdleIsOver
<1>6. CallOK(Idle) /\ Idle.pc = "idle"
  BY <1>5, OverOK DEF Over
<1>7. calls = [c \in Callers |-> Idle]
  BY DEF Init
<1>8. \A c \in Callers : calls[c] = Idle
  BY <1>7
<1>9. calls = [c \in Callers |-> calls[c]]
  BY <1>7
<1> QED BY <1>3, <1>4, <1>6, <1>8, <1>9 DEF VtIInv, HandleSeen

LEMMA StartKeeps ==
  ASSUME VtIInv, NEW c \in Callers, NEW r \in Requests, Start(c, r)
  PROVE  VtIInv'
<1> DEFINE fetch == handle = NoState \/ r.op = "reload"
           new == [Idle EXCEPT !.op = r.op, !.amount = r.amount, !.reserve = r.reserve,
                     !.pc = IF fetch THEN "fetching" ELSE "probing",
                     !.held = IF r.op = "reload" THEN NoState ELSE handle,
                     !.seen = {handle} \ {NoState}]
<1>1. goto(c, new) /\ ledger' = ledger /\ handle' = handle
  BY DEF Start
<1>2. r.op \in Ops /\ (r.op = "update" => r.reserve \in Reserve)
  BY RequestAssumption
<1>3. /\ DOMAIN new = Fields /\ new.op = r.op /\ new.reserve = r.reserve
      /\ new.pc = (IF fetch THEN "fetching" ELSE "probing") /\ new.list = <<>>
      /\ new.held = (IF r.op = "reload" THEN NoState ELSE handle)
      /\ new.priced = NoState /\ new.ranked = NoState /\ new.seen = {handle} \ {NoState}
  BY DEF Idle, Fields
<1> HIDE DEF new
<1>4. \A s \in new.seen : StateOK(s)
  BY <1>3 DEF VtIInv
<1>5. {new.held, new.priced, new.ranked} \subseteq new.seen \cup {NoState}
  BY <1>3
<1>6. new.pc = "probing" => new.held \in new.seen /\ handle \in new.seen
  BY <1>3
<1>7. ListOK(new.list, new.seen)
  BY <1>3, OneIsList DEF ListOK
<1>8. new.pc \in {"fetching", "probing"}
  BY <1>3
<1>9. new.pc = "probing" => Investing(new)
  <2> SUFFICES ASSUME new.pc = "probing" PROVE Investing(new)
    OBVIOUS
  <2> PICK all : all = getVaultReserves(new.held)
    OBVIOUS
  <2>1. IsList(all)
    BY <1>4, <1>6, ReservesList
  <2> PICK n \in Nat : n = Len(all) /\ (all # <<>> => n > 0)
    BY <2>1 DEF IsList
  <2> QED BY <1>3 DEF Investing
<1>10. CallOK(new)
  BY <1>2, <1>3, <1>4, <1>5, <1>6, <1>7, <1>8, <1>9 DEF CallOK, Pcs, Over
<1>11. LedgerOK(ledger')
  BY <1>1 DEF VtIInv
<1> QED BY <1>1, <1>6, <1>8, <1>10, <1>11, GoesOn

LEMMA AnswerKeeps ==
  ASSUME VtIInv, NEW c \in Callers, Answer(c)
  PROVE  VtIInv'
<1> PICK call : call = calls[c]
  OBVIOUS
<1> DEFINE new == [call EXCEPT !.pc = "answered", !.reply = stateOf(ledger)]
<1>1. goto(c, new) /\ ledger' = ledger /\ handle' = handle /\ call.pc = "fetching"
  BY DEF Answer
<1>2. CallOK(call)
  BY DEF VtIInv
<1>3. /\ DOMAIN new = Fields /\ new.seen = call.seen
      /\ new.op = call.op /\ new.pc = "answered" /\ new.list = call.list
      /\ new.held = call.held /\ new.reserve = call.reserve
      /\ new.priced = call.priced /\ new.ranked = call.ranked /\ new.reply = stateOf(ledger)
  BY <1>2 DEF CallOK, Fields
<1>4. StateOK(new.reply)
  BY <1>3 DEF VtIInv, LedgerOK, StateOK, stateOf
<1> HIDE DEF new
<1>5. CallOK(new)
  BY <1>1, <1>2, <1>3, <1>4 DEF CallOK, Pcs, Over
<1>6. LedgerOK(ledger')
  BY <1>1 DEF VtIInv
<1> QED BY <1>1, <1>3, <1>5, <1>6, GoesOn

LEMMA StateFetchedKeeps ==
  ASSUME VtIInv, NEW c \in Callers, StateFetched(c)
  PROVE  VtIInv'
<1> PICK call : call = calls[c]
  OBVIOUS
<1> PICK state : state = call.reply
  OBVIOUS
<1> DEFINE see(d) == [calls[d] EXCEPT !.seen = @ \cup {state}]
           new == IF call.op = "reload" THEN over("returned")
                  ELSE [see(c) EXCEPT !.pc = "probing", !.held = state, !.reply = NoState]
<1>0. CallOK(call) /\ call.pc = "answered" /\ StateOK(state) /\ call.list = <<>>
  <2>1. CallOK(call) /\ call.pc = "answered"
    BY DEF VtIInv, StateFetched
  <2> QED BY <2>1 DEF CallOK
<1>1. handle' = state /\ ledger' = ledger
  BY DEF StateFetched
<1>2. \A d \in Callers : calls'[d] = IF d = c THEN new
                                     ELSE IF calls[d].pc = "idle" THEN calls[d] ELSE see(d)
  BY <1>0 DEF StateFetched, replaced
<1>3. calls' = [d \in Callers |-> calls'[d]]
  BY DEF StateFetched, replaced
<1>4. \A d \in Callers : /\ CallOK(see(d)) /\ see(d).pc = calls[d].pc
                         /\ state \in see(d).seen
  <2> TAKE d \in Callers
  <2>1. CallOK(calls[d])
    BY DEF VtIInv
  <2>2. CallOK(see(d))
    BY <1>0, <2>1, SeenMore
  <2> QED BY <2>1, <2>2 DEF CallOK, Fields
<1>5. CallOK(new) /\ (new.pc \in {"probing", "pricing"} => state \in new.seen)
  <2>1. CASE call.op = "reload"
    <3>1. new = over("returned")
      BY <2>1
    <3> HIDE DEF new
    <3> QED BY <3>1, OverOK DEF Over
  <2>2. CASE call.op # "reload"
    <3> PICK saw : saw = see(c)
      OBVIOUS
    <3>1. CallOK(saw) /\ state \in saw.seen /\ saw.list = <<>> /\ DOMAIN saw = Fields
      BY <1>0, <1>4 DEF CallOK, Fields
    <3>2. /\ DOMAIN new = Fields /\ new.seen = saw.seen
          /\ new.op = saw.op /\ new.pc = "probing" /\ new.list = <<>>
          /\ new.held = state /\ new.reserve = saw.reserve
          /\ new.priced = saw.priced /\ new.ranked = saw.ranked /\ new.reply = NoState
      BY <2>2, <3>1 DEF Fields
    <3> HIDE DEF new, see
    <3>3. ListOK(new.list, new.seen)
      BY <3>2, OneIsList DEF ListOK
    <3>4. Investing(new)
      <4> PICK all : all = getVaultReserves(new.held)
        OBVIOUS
      <4>1. IsList(all)
        BY <1>0, <3>2, ReservesList
      <4> PICK n \in Nat : n = Len(all) /\ (all # <<>> => n > 0)
        BY <4>1 DEF IsList
      <4> QED BY <3>2 DEF Investing
    <3>5. {new.held, new.priced, new.ranked} \subseteq new.seen \cup {NoState}
      BY <3>1, <3>2 DEF CallOK
    <3>6. CallOK(new)
      BY <3>1, <3>2, <3>3, <3>4, <3>5 DEF CallOK, Pcs, Over
    <3> QED BY <3>1, <3>2, <3>6
  <2> QED BY <2>1, <2>2
<1> HIDE DEF new, see
<1>6. \A d \in Callers : CallOK(calls'[d])
  BY <1>2, <1>4, <1>5 DEF VtIInv
<1>7. \A d \in Callers :
        calls'[d].pc \in {"probing", "pricing"} => state \in calls'[d].seen
  BY <1>2, <1>4, <1>5
<1>8. LedgerOK(ledger') /\ StateOK(handle')
  BY <1>0, <1>1 DEF VtIInv
<1> QED BY <1>1, <1>3, <1>6, <1>7, <1>8 DEF VtIInv, HandleSeen

LEMMA BuildKeeps ==
  ASSUME VtIInv, NEW c \in Callers, Deposit(c) \/ Update(c) \/ Invest(c)
  PROVE  VtIInv'
<1> PICK call : call = calls[c]
  OBVIOUS
<1>1. CallOK(call) /\ call.pc = "probing" /\ call.op \in {"deposit", "update", "invest"}
  BY DEF VtIInv, Deposit, Update, Invest
<1>2. call.held \in call.seen
  BY <1>1 DEF CallOK
<1> DEFINE deposit == [do |-> "deposit", reserve |-> NoReserve, amount |-> whole(call.amount),
                       metas |-> getVaultReserves(call.held)]
           update == [do |-> "update", reserve |-> call.reserve,
                      amount |-> whole(call.amount), metas |-> <<>>]
           invest == investIx(call.reserve, call.held)
           ixn == IF call.op = "deposit" THEN deposit
                  ELSE IF call.op = "update" THEN update ELSE invest
           new == [call EXCEPT !.pc = "built", !.list = <<ixn>>]
<1>3. goto(c, new) /\ ledger' = ledger /\ handle' = handle
  BY DEF Deposit, Update, Invest
<1>4. IxnOK(ixn, call.seen)
  <2>1. CASE call.op = "deposit"
    <3>1. ixn.do = "deposit" /\ ixn.metas = getVaultReserves(call.held)
      BY <2>1
    <3> HIDE DEF ixn
    <3> QED BY <1>2, <3>1 DEF IxnOK, ListsSeen
  <2>2. CASE call.op = "update"
    <3>1. ixn.do = "update" /\ ixn.metas = <<>> /\ ixn.reserve = call.reserve
      BY <2>2
    <3> HIDE DEF ixn
    <3> QED BY <1>1, <2>2, <3>1 DEF IxnOK, CallOK
  <2>3. CASE call.op = "invest"
    <3>1. ixn.do = "invest" /\ ixn.metas = getVaultReserves(call.held)
      BY <2>3 DEF investIx
    <3> HIDE DEF ixn
    <3> QED BY <1>2, <3>1 DEF IxnOK, ListsSeen
  <2> QED BY <1>1, <2>1, <2>2, <2>3
<1> HIDE DEF ixn
<1>5. CallOK(new)
  BY <1>1, <1>4, OneInstruction, Built
<1>6. new.pc = "built"
  BY <1>1 DEF CallOK, Fields
<1>7. LedgerOK(ledger')
  BY <1>3 DEF VtIInv
<1> HIDE DEF new
<1> QED BY <1>3, <1>5, <1>6, <1>7, GoesOn

LEMMA AppendList ==
  ASSUME NEW list, IsList(list), NEW e, NEW m \in Nat, m = Len(list)
  PROVE  /\ IsList(Append(list, e)) /\ ToSet(Append(list, e)) \subseteq ToSet(list) \cup {e}
         /\ Len(Append(list, e)) = m + 1 /\ Append(list, e)[m + 1] = e
         /\ \A i \in 1..m : Append(list, e)[i] = list[i]
<1> DEFINE V == ToSet(list) \cup {e}
<1>1. list \in Seq(V) /\ e \in V
  BY ListInSeq
<1>2. Append(list, e) \in Seq(V)
  BY <1>1
<1>3. IsList(Append(list, e)) /\ ToSet(Append(list, e)) \subseteq V
  BY <1>2, SeqIsList
<1> HIDE DEF V
<1>4. Len(Append(list, e)) = m + 1 /\ Append(list, e)[m + 1] = e
  BY <1>1
<1>5. \A i \in 1..m : Append(list, e)[i] = list[i]
  BY <1>1
<1> QED BY <1>3, <1>4, <1>5 DEF V

LEMMA InvestNextKeeps ==
  ASSUME VtIInv, NEW c \in Callers, InvestNext(c)
  PROVE  VtIInv'
<1> PICK call : call = calls[c]
  OBVIOUS
<1> PICK all : all = getVaultReserves(call.held)
  OBVIOUS
<1> PICK list : list = call.list
  OBVIOUS
<1>1. /\ CallOK(call) /\ call.pc = "probing" /\ call.op = "investAll"
      /\ handle \in call.seen /\ ledger' = ledger /\ handle' = handle
  BY DEF VtIInv, HandleSeen, InvestNext
<1>2. call.held \in call.seen /\ StateOK(call.held) /\ DOMAIN call = Fields
  BY <1>1 DEF CallOK
<1>3. IsList(all) /\ IsList(list) /\ \A ixn \in ToSet(list) : IxnOK(ixn, call.seen)
  BY <1>1, <1>2, ReservesList DEF CallOK, ListOK
<1> PICK n \in Nat : n = Len(all) /\ (all = <<>> => n = 0)
  BY <1>3 DEF IsList
<1> PICK m \in Nat : m = Len(list) /\ DOMAIN list = 1..m
  BY <1>3 DEF IsList
<1>4. m <= n /\ (all # <<>> => m < n) /\ \A i \in 1..m : list[i].reserve = all[i]
  BY <1>1 DEF CallOK, Investing
<1>5. LedgerOK(ledger')
  BY <1>1 DEF VtIInv
<1>6. CASE all = <<>>
  <2> DEFINE new == [call EXCEPT !.pc = "built"]
  <2>1. goto(c, new)
    BY <1>6, Zenon DEF InvestNext
  <2>2. /\ DOMAIN new = Fields /\ new.seen = call.seen
        /\ new.op = call.op /\ new.pc = "built" /\ new.list = list /\ new.held = call.held
        /\ new.priced = call.priced /\ new.ranked = call.ranked /\ new.reply = call.reply
        /\ new.reserve = call.reserve
    BY <1>2 DEF Fields
  <2> HIDE DEF new
  <2>3. n = 0 /\ m = n
    BY <1>4, <1>6
  <2>4. Investing(new)
    BY <1>4, <2>2, <2>3 DEF Investing
  <2>5. CallOK(new)
    BY <1>1, <1>2, <2>2, <2>4 DEF CallOK, Pcs, Over
  <2> QED BY <1>1, <1>5, <2>1, <2>2, <2>5, GoesOn
<1>7. CASE all # <<>>
  <2> PICK ixn : ixn = investIx(all[m + 1], handle)
    OBVIOUS
  <2> PICK longer : longer = Append(list, ixn)
    OBVIOUS
  <2> DEFINE pc == IF m + 1 = n THEN "built" ELSE "probing"
             new == [call EXCEPT !.list = longer, !.pc = pc]
  <2>1. goto(c, new)
    BY <1>1, <1>7 DEF InvestNext, getState
  <2>2. /\ DOMAIN new = Fields /\ new.seen = call.seen
        /\ new.op = call.op /\ new.pc = pc /\ new.list = longer /\ new.held = call.held
        /\ new.priced = call.priced /\ new.ranked = call.ranked /\ new.reply = call.reply
        /\ new.reserve = call.reserve
    BY <1>2 DEF Fields
  <2> HIDE DEF new
  <2>3. IxnOK(ixn, call.seen) /\ ixn.reserve = all[m + 1]
    <3>1. ixn.do = "invest" /\ ixn.metas = getVaultReserves(handle)
            /\ ixn.reserve = all[m + 1]
      BY DEF investIx
    <3> QED BY <1>1, <3>1 DEF IxnOK, ListsSeen
  <2>4. /\ IsList(longer) /\ Len(longer) = m + 1 /\ ToSet(longer) \subseteq ToSet(list) \cup {ixn}
        /\ \A i \in 1..m : longer[i] = list[i]
        /\ longer[m + 1] = ixn
    BY <1>3, AppendList
  <2>5. ListOK(new.list, new.seen)
    BY <1>3, <2>2, <2>3, <2>4 DEF ListOK
  <2>6. m + 1 <= n /\ \A i \in 1..(m + 1) : longer[i].reserve = all[i]
    <3>1. \A i \in 1..(m + 1) : i = m + 1 \/ i \in 1..m
      OBVIOUS
    <3>2. m + 1 <= n
      BY <1>4, <1>7
    <3>3. \A i \in 1..m : longer[i].reserve = all[i]
      BY <1>4, <2>4
    <3>4. longer[m + 1].reserve = all[m + 1]
      BY <2>3, <2>4
    <3> QED BY <3>1, <3>2, <3>3, <3>4
  <2>7. Investing(new)
    <3>1. Len(new.list) = m + 1 /\ Len(all) = n /\ all = getVaultReserves(new.held)
      BY <2>2, <2>4
    <3>2. pc = "probing" => m + 1 < n
      BY <2>6
    <3>3. pc = "built" => m + 1 = n
      OBVIOUS
    <3> HIDE DEF pc
    <3> QED BY <2>2, <2>6, <3>1, <3>2, <3>3 DEF Investing
  <2>8. CallOK(new)
    BY <1>1, <1>2, <2>2, <2>5, <2>7 DEF CallOK, Pcs, Over
  <2> QED BY <1>1, <1>5, <2>1, <2>2, <2>8, GoesOn
<1> QED BY <1>6, <1>7

LEMMA PriceKeeps ==
  ASSUME VtIInv, NEW c \in Callers, Price(c)
  PROVE  VtIInv'
<1> PICK call : call = calls[c]
  OBVIOUS
<1> DEFINE new == [call EXCEPT !.pc = "pricing", !.priced = handle]
<1>1. /\ CallOK(call) /\ call.pc = "probing" /\ call.op = "withdraw" /\ handle \in call.seen
      /\ goto(c, new) /\ ledger' = ledger /\ handle' = handle
  BY DEF VtIInv, HandleSeen, Price, getState
<1>2. /\ DOMAIN new = Fields /\ new.seen = call.seen
      /\ new.op = call.op /\ new.pc = "pricing" /\ new.list = call.list
      /\ new.held = call.held /\ new.reserve = call.reserve
      /\ new.priced = handle /\ new.ranked = call.ranked /\ new.reply = call.reply
  BY <1>1 DEF CallOK, Fields
<1> HIDE DEF new
<1>3. {new.held, new.priced, new.ranked} \subseteq new.seen \cup {NoState} /\ new.held \in new.seen
  BY <1>1, <1>2 DEF CallOK
<1>4. CallOK(new)
  BY <1>1, <1>2, <1>3 DEF CallOK, Pcs, Over
<1>5. LedgerOK(ledger')
  BY <1>1 DEF VtIInv
<1> QED BY <1>1, <1>2, <1>4, <1>5, GoesOn

LEMMA WithdrawKeeps ==
  ASSUME VtIInv, NEW c \in Callers, Withdraw(c)
  PROVE  VtIInv'
<1> PICK call : call = calls[c]
  OBVIOUS
<1>1. /\ CallOK(call) /\ call.pc = "pricing" /\ handle \in call.seen
      /\ ledger' = ledger /\ handle' = handle
  BY DEF VtIInv, HandleSeen, Withdraw
<1>2. call.op = "withdraw" /\ ListOK(call.list, call.seen) /\ DOMAIN call = Fields
  BY <1>1 DEF CallOK
<1> DEFINE built == [call EXCEPT !.pc = "built", !.list = fromFirst(call)]
           third == [call EXCEPT !.pc = "ranking", !.ranked = handle]
<1>3. PICK new : goto(c, new) /\ new \in {over("threw"), built, third}
  BY Zenon DEF Withdraw, getState
<1>4. CallOK(over("threw")) /\ over("threw").pc = "threw"
  BY OverOK DEF Over
<1>5. CallOK(built) /\ built.pc = "built"
  <2>1. ListOK(fromFirst(call), call.seen)
    BY <1>1, WithdrawList
  <2>2. CallOK(built)
    BY <1>1, <1>2, <2>1, Built
  <2> QED BY <1>2, <2>2 DEF Fields
<1>6. CallOK(third) /\ third.pc = "ranking"
  <2>1. /\ DOMAIN third = Fields /\ third.seen = call.seen
        /\ third.op = call.op /\ third.pc = "ranking" /\ third.list = call.list
        /\ third.held = call.held /\ third.reserve = call.reserve
        /\ third.priced = call.priced /\ third.ranked = handle /\ third.reply = call.reply
    BY <1>2 DEF Fields
  <2> HIDE DEF third
  <2>2. /\ {third.held, third.priced, third.ranked} \subseteq third.seen \cup {NoState}
        /\ third.held \in third.seen
    BY <1>1, <2>1 DEF CallOK
  <2> QED BY <1>1, <1>2, <2>1, <2>2 DEF CallOK, Pcs, Over
<1> HIDE DEF built, third
<1>7. CallOK(new) /\ new.pc \in {"built", "threw", "ranking"}
  BY <1>3, <1>4, <1>5, <1>6
<1>8. LedgerOK(ledger')
  BY <1>1 DEF VtIInv
<1> QED BY <1>1, <1>3, <1>7, <1>8, GoesOn

LEMMA WithdrawOverReservesKeeps ==
  ASSUME VtIInv, NEW c \in Callers, WithdrawOverReserves(c)
  PROVE  VtIInv'
<1> PICK call : call = calls[c]
  OBVIOUS
<1>1. CallOK(call) /\ call.pc = "ranking" /\ ledger' = ledger /\ handle' = handle
  BY DEF VtIInv, WithdrawOverReserves
<1>2. call.op = "withdraw" /\ DOMAIN call = Fields
  BY <1>1 DEF CallOK
<1> DEFINE built == [call EXCEPT !.pc = "built", !.list = fromReserves(call, ledger)]
<1>3. PICK new : goto(c, new) /\ new \in {over("threw"), built}
  BY Zenon DEF WithdrawOverReserves
<1>4. CallOK(over("threw")) /\ over("threw").pc = "threw"
  BY OverOK DEF Over
<1>5. CallOK(built) /\ built.pc = "built"
  <2>1. ListOK(fromReserves(call, ledger), call.seen)
    BY <1>1, WithdrawList
  <2>2. CallOK(built)
    BY <1>1, <1>2, <2>1, Built
  <2> QED BY <1>2, <2>2 DEF Fields
<1> HIDE DEF built
<1>6. CallOK(new) /\ new.pc \in {"built", "threw"}
  BY <1>3, <1>4, <1>5
<1>7. LedgerOK(ledger')
  BY <1>1 DEF VtIInv
<1> QED BY <1>1, <1>3, <1>6, <1>7, GoesOn

LEMMA RequestFailsKeeps ==
  ASSUME VtIInv, NEW c \in Callers, RequestFails(c)
  PROVE  VtIInv'
<1>1. goto(c, over("threw")) /\ ledger' = ledger /\ handle' = handle
  BY DEF RequestFails
<1>2. CallOK(over("threw")) /\ over("threw").pc = "threw"
  BY OverOK DEF Over
<1>3. LedgerOK(ledger')
  BY <1>1 DEF VtIInv
<1> QED BY <1>1, <1>2, <1>3, GoesOn

LEMMA FinishKeeps ==
  ASSUME VtIInv, NEW c \in Callers, Finish(c)
  PROVE  VtIInv'
<1>1. goto(c, Idle) /\ ledger' = ledger /\ handle' = handle
  BY DEF Finish
<1>2. Idle = over("idle")
  BY IdleIsOver
<1>3. CallOK(Idle) /\ Idle.pc = "idle"
  BY <1>2, OverOK DEF Over
<1> QED BY <1>1, <1>3, GoesOn DEF VtIInv

LEMMA LandKeeps ==
  ASSUME VtIInv, NEW c \in Callers, Land(c)
  PROVE  VtIInv'
<1> PICK end : end = runAll(ledger, calls[c].list)
  OBVIOUS
<1> PICK pc \in Over : pc = IF end.ok THEN "accepted" ELSE "rejected"
  BY DEF Over
<1>1. goto(c, over(pc)) /\ ledger' \in {end, ledger} /\ handle' = handle
  BY DEF Land
<1>2. LedgerOK(end)
  BY RunAllKeeps DEF VtIInv, CallOK
<1>3. LedgerOK(ledger')
  BY <1>1, <1>2 DEF VtIInv
<1>4. CallOK(over(pc)) /\ over(pc).pc = pc
  BY OverOK
<1> QED BY <1>1, <1>3, <1>4, GoesOn DEF Over

LEMMA OthersKeep ==
  ASSUME VtIInv, OthersDeposit \/ \E a \in Reserve :
                   OthersInvest(a) \/ AddReserve(a) \/ Accrue(a) \/ BorrowOut(a)
  PROVE  VtIInv'
<1>1. LedgerOK(ledger)
  BY DEF VtIInv
<1>2. ASSUME NEW l, LedgerOK(l), Others(l) PROVE VtIInv'
  BY <1>2 DEF Others, VtIInv, HandleSeen
<1>3. \A l, x, y : LedgerOK(l) => LedgerOK([l EXCEPT !.tokens = x, !.shares = y])
  <2> TAKE l, x, y
  <2> PICK m : m = [l EXCEPT !.tokens = x, !.shares = y]
    OBVIOUS
  <2>1. DOMAIN m = DOMAIN l /\ ("alloc" \in DOMAIN l => m.alloc = l.alloc)
    OBVIOUS
  <2> QED BY <2>1 DEF LedgerOK
<1>4. \A l, x : LedgerOK(l) => LedgerOK([l EXCEPT !.reserves = x])
  <2> TAKE l, x
  <2> PICK m : m = [l EXCEPT !.reserves = x]
    OBVIOUS
  <2>1. DOMAIN m = DOMAIN l /\ ("alloc" \in DOMAIN l => m.alloc = l.alloc)
    OBVIOUS
  <2> QED BY <2>1 DEF LedgerOK
<1>5. CASE OthersDeposit
  <2> PICK x : x = ledger.tokens
    OBVIOUS
  <2> PICK y : y = ledger.shares
    OBVIOUS
  <2> PICK before : before = [ledger EXCEPT !.tokens = OthersAmount]
    OBVIOUS
  <2>1. DOMAIN before = DOMAIN ledger /\ ("alloc" \in DOMAIN ledger => before.alloc = ledger.alloc)
    OBVIOUS
  <2>2. LedgerOK(before)
    BY <1>1, <2>1 DEF LedgerOK
  <2> PICK l : l = deposited(before, OthersAmount)
    OBVIOUS
  <2>3. LedgerOK(l)
    BY <2>2, DepositedKeeps
  <2>4. Others([l EXCEPT !.tokens = x, !.shares = y])
    BY <1>5 DEF OthersDeposit
  <2> QED BY <1>2, <1>3, <2>3, <2>4
<1>6. ASSUME NEW a \in Reserve, OthersInvest(a) PROVE VtIInv'
  <2>1. Others(invested(ledger, a))
    BY <1>6 DEF OthersInvest
  <2> QED BY <1>1, <1>2, <2>1, InvestedKeeps
<1>7. ASSUME NEW a \in Reserve, AddReserve(a) PROVE VtIInv'
  <2>1. Others(allocated(ledger, a, 1))
    BY <1>7 DEF AddReserve
  <2> QED BY <1>1, <1>2, <2>1, AllocatedKeeps
<1>8. ASSUME NEW a \in Reserve, Accrue(a) PROVE VtIInv'
  <2> PICK x : x = [ledger.reserves EXCEPT ![a].rate = Accrued]
    OBVIOUS
  <2>1. Others([ledger EXCEPT !.reserves = x])
    BY <1>8 DEF Accrue
  <2> QED BY <1>1, <1>2, <1>4, <2>1
<1>9. ASSUME NEW a \in Reserve, BorrowOut(a) PROVE VtIInv'
  <2> PICK x : x = [ledger.reserves EXCEPT ![a].liquid = @ - OthersAmount]
    OBVIOUS
  <2>1. Others([ledger EXCEPT !.reserves = x])
    BY <1>9 DEF BorrowOut
  <2> QED BY <1>1, <1>2, <1>4, <2>1
<1> QED BY <1>5, <1>6, <1>7, <1>8, <1>9

LEMMA VtStep == VtIInv /\ [Next]_vars => VtIInv'
<1> SUFFICES ASSUME VtIInv, [Next]_vars PROVE VtIInv'
  OBVIOUS
<1>1. ASSUME NEW c \in Callers, NEW r \in Requests, Start(c, r) PROVE VtIInv'
  BY <1>1, StartKeeps
<1>2. ASSUME NEW c \in Callers, Answer(c) PROVE VtIInv'
  BY <1>2, AnswerKeeps
<1>3. ASSUME NEW c \in Callers, StateFetched(c) PROVE VtIInv'
  BY <1>3, StateFetchedKeeps
<1>4. ASSUME NEW c \in Callers, Deposit(c) \/ Update(c) \/ Invest(c) PROVE VtIInv'
  BY <1>4, BuildKeeps
<1>5. ASSUME NEW c \in Callers, InvestNext(c) PROVE VtIInv'
  BY <1>5, InvestNextKeeps
<1>6. ASSUME NEW c \in Callers, Price(c) PROVE VtIInv'
  BY <1>6, PriceKeeps
<1>7. ASSUME NEW c \in Callers, Withdraw(c) PROVE VtIInv'
  BY <1>7, WithdrawKeeps
<1>8. ASSUME NEW c \in Callers, Land(c) PROVE VtIInv'
  BY <1>8, LandKeeps
<1>9. ASSUME NEW c \in Callers, Finish(c) PROVE VtIInv'
  BY <1>9, FinishKeeps
<1>10. CASE OthersDeposit \/ \E a \in Reserve :
               OthersInvest(a) \/ AddReserve(a) \/ Accrue(a) \/ BorrowOut(a)
  BY <1>10, OthersKeep
<1>11. CASE UNCHANGED vars
  BY <1>11 DEF vars, VtIInv, HandleSeen
<1>12. ASSUME NEW c \in Callers, WithdrawOverReserves(c) PROVE VtIInv'
  BY <1>12, WithdrawOverReservesKeeps
<1>13. ASSUME NEW c \in Callers, RequestFails(c) PROVE VtIInv'
  BY <1>13, RequestFailsKeeps
<1> QED BY <1>1, <1>2, <1>3, <1>4, <1>5, <1>6, <1>7, <1>8, <1>9, <1>10, <1>11, <1>12, <1>13 DEF Next

-----------------------------------------------------------------------------
\* Every step of the callers, the programs and the others keeps the invariant:
\* what a call holds it has seen, whoever reloads the handle (vault.ts:719-738).
THEOREM VaultInvariance == Spec => []VtIInv
<1> QED BY VtInit, VtStep, PTL DEF Spec

\* A running call has seen what it holds, and no instruction names an unused
\* slot of the allocation (vault.ts:629-633).
THEOREM CallsTypeCorrect == Spec => []CallsOK
<1>1. VtIInv => CallsOK
  <2> SUFFICES ASSUME VtIInv, NEW c \in Callers
               PROVE  /\ calls[c].op \in Ops \cup {"none"}
                      /\ calls[c].pc \in Pcs
                      /\ {calls[c].held, calls[c].priced, calls[c].ranked} \subseteq calls[c].seen \cup {NoState}
                      /\ \A ixn \in ToSet(calls[c].list) : ToSet(ixn.metas) \subseteq Reserve
    BY DEF CallsOK, Pcs, Over
  <2> PICK call : call = calls[c]
    OBVIOUS
  <2>1. CallOK(call)
    BY DEF VtIInv
  <2>2. ASSUME NEW ixn \in ToSet(call.list) PROVE ToSet(ixn.metas) \subseteq Reserve
    <3>1. IxnOK(ixn, call.seen)
      BY <2>1 DEF CallOK, ListOK
    <3>2. CASE ixn.do = "update"
      BY <3>1, <3>2, OneIsList DEF IxnOK
    <3>3. CASE ixn.do # "update"
      <4> PICK s \in call.seen : ixn.metas = getVaultReserves(s)
        BY <3>1, <3>3 DEF IxnOK, ListsSeen
      <4>1. StateOK(s)
        BY <2>1 DEF CallOK
      <4> QED BY <4>1, ReservesList
    <3> QED BY <3>2, <3>3
  <2> QED BY <2>1, <2>2 DEF CallOK
<1> QED BY <1>1, VaultInvariance, PTL

\* However many callers share and reload a handle, an instruction lists the
\* reserves of one state the handle had while its call ran, and an invest list
\* has one instruction for each reserve of the state it began with, in the
\* order of its slots (vault.ts:340-395).
THEOREM OneStateEach == Spec => []OneStatePerInstruction
<1>1. VtIInv => OneStatePerInstruction
  <2> SUFFICES ASSUME VtIInv, NEW c \in Callers
               PROVE  /\ \A ixn \in ToSet(calls[c].list) :
                           ixn.do # "update" => ListsSeen(ixn, calls[c].seen)
                      /\ calls[c].op = "investAll" /\ calls[c].pc = "built" =>
                           [i \in DOMAIN calls[c].list |-> calls[c].list[i].reserve]
                             = getVaultReserves(calls[c].held)
    BY DEF OneStatePerInstruction, ListsSeen
  <2> PICK call : call = calls[c]
    OBVIOUS
  <2>1. CallOK(call)
    BY DEF VtIInv
  <2>2. \A ixn \in ToSet(call.list) : ixn.do # "update" => ListsSeen(ixn, call.seen)
    BY <2>1 DEF CallOK, ListOK, IxnOK
  <2>3. ASSUME call.op = "investAll", call.pc = "built"
        PROVE  [i \in DOMAIN call.list |-> call.list[i].reserve] = getVaultReserves(call.held)
    <3> PICK all : all = getVaultReserves(call.held)
      OBVIOUS
    <3> PICK list : list = call.list
      OBVIOUS
    <3>1. StateOK(call.held) /\ IsList(list) /\ Investing(call)
      BY <2>1, <2>3 DEF CallOK, ListOK
    <3>2. IsList(all)
      BY <3>1, ReservesList
    <3> PICK n \in Nat : n = Len(list) /\ DOMAIN list = 1..n
      BY <3>1 DEF IsList
    <3>3. Len(all) = n /\ \A i \in 1..n : list[i].reserve = all[i]
      BY <2>3, <3>1 DEF Investing
    <3>4. all = [i \in 1..n |-> all[i]]
      BY <3>2, <3>3 DEF IsList
    <3>5. [i \in 1..n |-> list[i].reserve] = [i \in 1..n |-> all[i]]
      BY <3>3
    <3> QED BY <3>4, <3>5
  <2> QED BY <2>2, <2>3
<1> QED BY <1>1, VaultInvariance, PTL

=============================================================================
