------------------------ MODULE UserLookupTableProofs ------------------------
(***************************************************************************)
(* The set-up of a user's metadata and lookup table, for any requests, any *)
(* number of calls and any size of a chunk, whatever becomes of the        *)
(* transactions: there is one table, no call asks for an address twice,    *)
(* and a program that gets through has every address in the table.         *)
(***************************************************************************)
EXTENDS UserLookupTable, ListFacts

-----------------------------------------------------------------------------
(***************************************************************************)
(* The senders, below the batches: what a call waits for tells what became *)
(* of its transaction (proved for itself in ConfigUpdateProofs).           *)
(***************************************************************************)
\* Before its send, a transaction is nowhere.
Unsent(t) == t \notin inFlight /\ outcome[t] = "none"

\* The inductive invariant: no transaction on its way has landed yet, and what
\* a call waits for tells what became of its transaction so far.
IInv ==
  /\ TypeOK
  /\ \A t \in inFlight : outcome[t] = "none"
  /\ await = "send" => sender = "withLogs" /\ Unsent(sending)
  /\ await = "blockhash" /\ sender = "withRetry" => Unsent(sending)
  /\ await = "details" => outcome[sending] = "err"
  /\ await = "logs" => sender = "withLogs"
  /\ sender = "withLogs" /\ await \in {"logs", "returned"} => outcome[sending] = "ok"
  /\ ThrewMeansNoEffect

LEMMA InitInv == Init => IInv
BY TxAssumption DEF Init, IInv, TypeOK, Sender, Await, Ended, Unsent, ThrewMeansNoEffect

\* A call begins with a transaction that is nowhere.
LEMMA CallInv ==
  ASSUME IInv, NEW t \in Tx, Call(t)
  PROVE  IInv'
BY TxAssumption DEF IInv, TypeOK, Call, New, Idle, firstAwait, Sender, Await, Ended, Unsent,
   ThrewMeansNoEffect, sendVars

\* A running call is about a transaction.
LEMMA RunningHasTx ==
  ASSUME IInv, await \in Await
  PROVE  sending \in Tx
BY DEF IInv, TypeOK, Await

\* Each answer leaves the invariant, whether the call goes on or ends.
LEMMA ContinueInv ==
  ASSUME IInv, Continue
  PROVE  IInv'
<1> USE DEF IInv, TypeOK, Sender, Await, Ended, Unsent, ThrewMeansNoEffect,
            WaitFor, Throw, Return
<1>0. sending \in Tx
  BY RunningHasTx DEF Continue, BlockhashFetched, SendAnswered, Confirmed,
     LandedWithError, GiveUp, DetailsFetched, LogsFetched
<1>1. CASE BlockhashFetched
  BY <1>0, <1>1 DEF BlockhashFetched
<1>2. CASE SendAnswered
  BY <1>0, <1>2 DEF SendAnswered
<1>3. CASE Confirmed
  BY <1>0, <1>3 DEF Confirmed, landedWell
<1>4. CASE LandedWithError
  BY <1>0, <1>4 DEF LandedWithError
<1>5. CASE GiveUp
  BY <1>0, <1>5 DEF GiveUp
<1>6. CASE DetailsFetched
  BY <1>0, <1>6 DEF DetailsFetched
<1>7. CASE LogsFetched
  BY <1>0, <1>7 DEF LogsFetched
<1> QED BY <1>1, <1>2, <1>3, <1>4, <1>5, <1>6, <1>7 DEF Continue

\* The network decides only about transactions on their way.
LEMMA NetworkInv ==
  ASSUME IInv, Network
  PROVE  IInv'
<1> USE DEF IInv, TypeOK, Sender, Await, Ended, Unsent, ThrewMeansNoEffect
<1>1. PICK t \in Tx : Land(t, "ok") \/ Land(t, "err") \/ Drop(t)
  BY DEF Network
<1>2. CASE Land(t, "ok")
  BY <1>2 DEF Land
<1>3. CASE Land(t, "err")
  BY <1>3 DEF Land
<1>4. CASE Drop(t)
  BY <1>4 DEF Drop
<1> QED BY <1>1, <1>2, <1>3, <1>4

LEMMA NextInv == IInv /\ [Next]_sendVars => IInv'
<1> SUFFICES ASSUME IInv, [Next]_sendVars
             PROVE  IInv'
  OBVIOUS
<1>1. ASSUME NEW t \in Tx, Call(t)
      PROVE  IInv'
  BY <1>1, CallInv
<1>2. CASE UNCHANGED sendVars
  BY <1>2 DEF IInv, TypeOK, Unsent, ThrewMeansNoEffect, sendVars
<1> QED BY <1>1, <1>2, ContinueInv, NetworkInv DEF Next

-----------------------------------------------------------------------------
(***************************************************************************)
(* The addresses of a request are a list.                                  *)
(***************************************************************************)
LEMMA ReservesOfList ==
  ASSUME NEW mints, IsList(mints)
  PROVE  IsList(reservesOf(mints))
<1> DEFINE I == {i \in DOMAIN mints : mints[i] \in Listed}
<1>1. I \subseteq DOMAIN mints
  OBVIOUS
<1>2. IsList(pick(mints, I))
  <2> HIDE DEF I
  <2> QED BY <1>1, PickIsList
<1> QED BY <1>2 DEF reservesOf

LEMMA BothList ==
  ASSUME NEW pairs, IsList(pairs)
  PROVE  IsList(both(pairs))
<1> DEFINE I == {i \in DOMAIN pairs : pairs[i].coll \in Listed /\ pairs[i].debt \in Listed}
<1>1. I \subseteq DOMAIN pairs
  OBVIOUS
<1>2. IsList(pick(pairs, I))
  <2> HIDE DEF I
  <2> QED BY <1>1, PickIsList
<1> QED BY <1>2 DEF both

\* A list of n lists, flattened.
LEMMA FlattenFunction ==
  ASSUME NEW n \in Nat, NEW ss, ss = [i \in 1..n |-> ss[i]], \A i \in 1..n : IsList(ss[i])
  PROVE  IsList(FlattenSeq(ss))
<1>1. IsList(ss) /\ DOMAIN ss = 1..n
  BY FunctionIsList
<1> QED BY <1>1, FlattenIsList

LEMMA PairLists ==
  ASSUME NEW a, NEW b
  PROVE  IsList(<<>>) /\ IsList(<<a>>) /\ IsList(<<a, b>>)
<1>1. <<>> \in Seq({a}) /\ <<a>> \in Seq({a}) /\ <<a, b>> \in Seq({a, b})
  OBVIOUS
<1> QED BY <1>1, SeqIsList

LEMMA MintsOfList ==
  ASSUME NEW pairs, IsList(pairs)
  PROVE  IsList(mintsOf(pairs))
<1> PICK n \in Nat : n = Len(pairs) /\ DOMAIN pairs = 1..n
  BY DEF IsList
<1> PICK ss : ss = [i \in 1..n |-> <<pairs[i].coll, pairs[i].debt>>]
  OBVIOUS
<1>1. ss = [i \in 1..n |-> ss[i]] /\ \A i \in 1..n : ss[i] = <<pairs[i].coll, pairs[i].debt>>
  OBVIOUS
<1>2. \A i \in 1..n : IsList(ss[i])
  BY <1>1, PairLists
<1>3. IsList(FlattenSeq(ss))
  BY <1>1, <1>2, FlattenFunction
<1> QED BY <1>3 DEF mintsOf

LEMMA UserStateList ==
  ASSUME NEW farm, NEW o
  PROVE  IsList(userState(farm, o))
BY PairLists DEF userState

LEMMA PairStatesList ==
  ASSUME NEW p, NEW o
  PROVE  IsList(pairStates(p, o))
BY UserStateList, ConcatIsList DEF pairStates

LEMMA MultiplyList ==
  ASSUME NEW pairs, IsList(pairs)
  PROVE  IsList(getMultiplyObligationAndObligationFarmStateAddresses(pairs))
<1> PICK known : known = both(pairs)
  OBVIOUS
<1>0. IsList(known)
  BY BothList
<1> PICK n \in Nat : n = Len(known) /\ DOMAIN known = 1..n
  BY <1>0 DEF IsList
<1> PICK os : os = [i \in 1..n |-> multiplyObligation(known[i])]
  OBVIOUS
<1> PICK ss : ss = [i \in 1..n |-> pairStates(known[i], multiplyObligation(known[i]))]
  OBVIOUS
<1>1. os = [i \in 1..n |-> os[i]]
  OBVIOUS
<1>2. /\ ss = [i \in 1..n |-> ss[i]]
      /\ \A i \in 1..n : ss[i] = pairStates(known[i], multiplyObligation(known[i]))
  OBVIOUS
<1>3. \A i \in 1..n : IsList(ss[i])
  BY <1>2, PairStatesList, Zenon
<1>4. IsList(os \o FlattenSeq(ss))
  BY <1>1, <1>2, <1>3, FunctionIsList, FlattenFunction, ConcatIsList
<1> QED BY <1>4 DEF getMultiplyObligationAndObligationFarmStateAddresses

LEMMA LeverageList ==
  ASSUME NEW pairs, IsList(pairs)
  PROVE  IsList(getLeverageObligationAndObligationFarmStateAddresses(pairs))
<1> PICK known : known = both(pairs)
  OBVIOUS
<1>0. IsList(known)
  BY BothList
<1> PICK n \in Nat : n = Len(known) /\ DOMAIN known = 1..n
  BY <1>0 DEF IsList
<1> PICK os : os = [i \in 1..n |-> leverageObligation(known[i])]
  OBVIOUS
<1> PICK ss : ss = [i \in 1..n |-> pairStates(known[i], leverageObligation(known[i]))]
  OBVIOUS
<1>1. os = [i \in 1..n |-> os[i]]
  OBVIOUS
<1>2. /\ ss = [i \in 1..n |-> ss[i]]
      /\ \A i \in 1..n : ss[i] = pairStates(known[i], leverageObligation(known[i]))
  OBVIOUS
<1>3. \A i \in 1..n : IsList(ss[i])
  BY <1>2, PairStatesList, Zenon
<1>4. IsList(os \o FlattenSeq(ss))
  BY <1>1, <1>2, <1>3, FunctionIsList, FlattenFunction, ConcatIsList
<1> QED BY <1>4 DEF getLeverageObligationAndObligationFarmStateAddresses

LEMMA RepayList ==
  ASSUME NEW o, IsList(o.borrows), IsList(o.deposits)
  PROVE  IsList(getRepayWithCollObligationFarmStateAddresses(o))
<1> PICK m \in Nat : m = Len(o.borrows) /\ DOMAIN o.borrows = 1..m
  BY DEF IsList
<1> PICK n \in Nat : n = Len(o.deposits) /\ DOMAIN o.deposits = 1..n
  BY DEF IsList
<1> PICK bs : bs = [i \in 1..m |-> userState(DebtFarm[o.borrows[i]], o.address)]
  OBVIOUS
<1> PICK ds : ds = [i \in 1..n |-> userState(CollFarm[o.deposits[i]], o.address)]
  OBVIOUS
<1>1. /\ bs = [i \in 1..m |-> bs[i]]
      /\ \A i \in 1..m : bs[i] = userState(DebtFarm[o.borrows[i]], o.address)
  OBVIOUS
<1>2. /\ ds = [i \in 1..n |-> ds[i]]
      /\ \A i \in 1..n : ds[i] = userState(CollFarm[o.deposits[i]], o.address)
  OBVIOUS
<1>3. \A i \in 1..m : IsList(bs[i])
  BY <1>1, UserStateList, Zenon
<1>4. \A i \in 1..n : IsList(ds[i])
  BY <1>2, UserStateList, Zenon
<1>5. IsList(FlattenSeq(bs)) /\ IsList(FlattenSeq(ds))
  BY <1>1, <1>2, <1>3, <1>4, FlattenFunction
<1>6. IsList(FlattenSeq(bs) \o FlattenSeq(ds))
  BY <1>5, ConcatIsList
<1> QED BY <1>6 DEF getRepayWithCollObligationFarmStateAddresses

\* A list that is made of n elements.
LEMMA MappedList ==
  ASSUME NEW l, IsList(l), NEW s, s = [i \in DOMAIN l |-> s[i]]
  PROVE  IsList(s)
<1> PICK n \in Nat : n = Len(l) /\ DOMAIN l = 1..n
  BY DEF IsList
<1>1. s = [i \in 1..n |-> s[i]]
  OBVIOUS
<1> QED BY <1>1, FunctionIsList

LEMMA RequestLists ==
  ASSUME NEW r \in Requests
  PROVE  /\ IsList(r.multiply) /\ IsList(r.leverage) /\ IsList(r.obligation)
         /\ \A i \in DOMAIN r.obligation :
              IsList(r.obligation[i].deposits) /\ IsList(r.obligation[i].borrows)
<1>1. IsList(r.multiply) /\ IsList(r.leverage)
  BY RequestAssumption, SeqIsList
<1>2. IsList(r.obligation)
  <2>1. r.obligation \in Seq({r.obligation[i] : i \in DOMAIN r.obligation})
    BY RequestAssumption, Zenon
  <2> QED BY <2>1, SeqIsList, Zenon
<1>3. ASSUME NEW i \in DOMAIN r.obligation
      PROVE  IsList(r.obligation[i].deposits) /\ IsList(r.obligation[i].borrows)
  <2>1. r.obligation[i].deposits \in Seq(Listed) /\ r.obligation[i].borrows \in Seq(Listed)
    BY RequestAssumption, Zenon
  <2> QED BY <2>1, SeqIsList
<1> QED BY <1>1, <1>2, <1>3

\* The two lists that a request's obligation contributes.
LEMMA ObligationLists ==
  ASSUME NEW r \in Requests
  PROVE  /\ IsList(FlattenSeq([i \in DOMAIN r.obligation |->
                                 r.obligation[i].borrows \o r.obligation[i].deposits]))
         /\ IsList(FlattenSeq([i \in DOMAIN r.obligation |->
                       getRepayWithCollObligationFarmStateAddresses(r.obligation[i])
                       \o <<r.obligation[i].address>>]))
<1>0. IsList(r.obligation)
  BY RequestLists
<1> PICK n \in Nat : n = Len(r.obligation) /\ DOMAIN r.obligation = 1..n
  BY <1>0 DEF IsList
<1> PICK ms : ms = [i \in 1..n |-> r.obligation[i].borrows \o r.obligation[i].deposits]
  OBVIOUS
<1> PICK ss : ss = [i \in 1..n |-> getRepayWithCollObligationFarmStateAddresses(r.obligation[i])
                                   \o <<r.obligation[i].address>>]
  OBVIOUS
<1>1. /\ ms = [i \in 1..n |-> ms[i]]
      /\ \A i \in 1..n : ms[i] = r.obligation[i].borrows \o r.obligation[i].deposits
  OBVIOUS
<1>2. /\ ss = [i \in 1..n |-> ss[i]]
      /\ \A i \in 1..n : ss[i] = getRepayWithCollObligationFarmStateAddresses(r.obligation[i])
                                 \o <<r.obligation[i].address>>
  OBVIOUS
<1>3. ASSUME NEW i \in 1..n PROVE IsList(ms[i]) /\ IsList(ss[i])
  <2>1. IsList(r.obligation[i].borrows) /\ IsList(r.obligation[i].deposits)
    BY RequestLists
  <2>2. IsList(r.obligation[i].borrows \o r.obligation[i].deposits)
    BY <2>1, ConcatIsList
  <2>3. IsList(getRepayWithCollObligationFarmStateAddresses(r.obligation[i]))
    BY <2>1, RepayList
  <2>4. IsList(getRepayWithCollObligationFarmStateAddresses(r.obligation[i])
               \o <<r.obligation[i].address>>)
    BY <2>3, PairLists, ConcatIsList
  <2> QED BY <1>1, <1>2, <2>2, <2>4, Zenon
<1>4. IsList(FlattenSeq(ms))
  BY <1>1, <1>3, FlattenFunction
<1>5. IsList(FlattenSeq(ss))
  BY <1>2, <1>3, FlattenFunction
<1> QED BY <1>4, <1>5

LEMMA RequiredList ==
  ASSUME NEW r \in Requests
  PROVE  IsList(getUserLookupTableAddresses(r))
<1> DEFINE
      mints == distinct(mintsOf(r.multiply) \o mintsOf(r.leverage)
                        \o FlattenSeq([i \in DOMAIN r.obligation |->
                                         r.obligation[i].borrows \o r.obligation[i].deposits]))
      reserves == reservesOf(mints)
      collFarms == [i \in DOMAIN reserves |-> CollFarm[reserves[i]]]
      debtFarms == [i \in DOMAIN reserves |-> DebtFarm[reserves[i]]]
      farms == collFarms \o debtFarms
      known == {i \in DOMAIN farms : farms[i] # NoFarm}
      farmStates == distinct(pick(farms, known))
      own == << <<"user">>, <<"userMetadata">> >>
      atas == [i \in DOMAIN mints |-> <<"ata", mints[i]>>]
      ctokens == [i \in DOMAIN reserves |-> <<"ctokenAta", reserves[i]>>]
      states == [i \in DOMAIN farmStates |-> <<"farm", farmStates[i]>>]
      tokenStates == [i \in DOMAIN reserves |-> <<"referrerTokenState", reserves[i]>>]
      referrals == IF r.referrer THEN tokenStates ELSE <<>>
      multiply == getMultiplyObligationAndObligationFarmStateAddresses(r.multiply)
      leverage == getLeverageObligationAndObligationFarmStateAddresses(r.leverage)
      repay == FlattenSeq([i \in DOMAIN r.obligation |->
                       getRepayWithCollObligationFarmStateAddresses(r.obligation[i])
                       \o <<r.obligation[i].address>>])
<1>1. IsList(mints)
  BY RequestLists, ObligationLists, MintsOfList, ConcatIsList, DistinctIsList
<1>2. IsList(reserves)
  <2> HIDE DEF mints
  <2> QED BY <1>1, ReservesOfList
<1>3. IsList(atas)
  <2> HIDE DEF mints
  <2> PICK s : s = atas
    OBVIOUS
  <2>1. s = [i \in DOMAIN mints |-> s[i]]
    OBVIOUS
  <2> QED BY <1>1, <2>1, MappedList
<1> HIDE DEF mints, reserves
<1>4. IsList(collFarms) /\ IsList(debtFarms) /\ IsList(ctokens) /\ IsList(tokenStates)
  <2> PICK a, b, c, d : a = collFarms /\ b = debtFarms /\ c = ctokens /\ d = tokenStates
    OBVIOUS
  <2>1. /\ a = [i \in DOMAIN reserves |-> a[i]] /\ b = [i \in DOMAIN reserves |-> b[i]]
        /\ c = [i \in DOMAIN reserves |-> c[i]] /\ d = [i \in DOMAIN reserves |-> d[i]]
    OBVIOUS
  <2>2. IsList(a) /\ IsList(b) /\ IsList(c) /\ IsList(d)
    BY <1>2, <2>1, MappedList
  <2> QED BY <2>2
<1>5. IsList(farms)
  <2> HIDE DEF collFarms, debtFarms
  <2> QED BY <1>4, ConcatIsList
<1>6. IsList(farmStates)
  <2>1. known \subseteq DOMAIN farms
    OBVIOUS
  <2> HIDE DEF farms, known
  <2> QED BY <1>5, <2>1, PickIsList, DistinctIsList
<1>7. IsList(states)
  <2> HIDE DEF farmStates
  <2> PICK s : s = states
    OBVIOUS
  <2>1. s = [i \in DOMAIN farmStates |-> s[i]]
    OBVIOUS
  <2> QED BY <1>6, <2>1, MappedList
<1>8. IsList(own)
  BY PairLists
<1> HIDE DEF tokenStates
<1>9. IsList(referrals)
  BY <1>4, PairLists
<1>10. IsList(multiply) /\ IsList(leverage) /\ IsList(repay)
  BY RequestLists, MultiplyList, LeverageList, ObligationLists
<1> HIDE DEF own, atas, ctokens, states, referrals, multiply, leverage, repay,
             farmStates, farms, collFarms, debtFarms, known
<1>11. IsList(own \o atas \o ctokens \o states)
  BY <1>3, <1>4, <1>7, <1>8, ConcatIsList
<1>12. IsList((own \o atas \o ctokens \o states) \o referrals \o multiply \o leverage \o repay)
  BY <1>9, <1>10, <1>11, ConcatIsList
<1>13. getUserLookupTableAddresses(r)
         = own \o atas \o ctokens \o states \o referrals \o multiply \o leverage \o repay
  BY Zenon DEF getUserLookupTableAddresses, own, atas, ctokens, states, referrals, multiply,
     leverage, repay, farmStates, farms, collFarms, debtFarms, known, mints, reserves, tokenStates
<1> QED BY <1>12, <1>13

\* The addresses that requests need.
Address == UNION {ToSet(getUserLookupTableAddresses(r)) : r \in Requests}

\* What a call adds: the addresses of its request that it did not find, each
\* once, and no more than the bound leaves room for.
LEMMA DedupAddresses ==
  ASSUME NEW r \in Requests, NEW H,
         NEW keys, keys = getDedupUserLookupTableAddresses(getUserLookupTableAddresses(r), H)
  PROVE  /\ keys \in Seq(Address)
         /\ ToSet(keys) = ToSet(getUserLookupTableAddresses(r)) \ H
         /\ NoRepeat(keys)
         /\ Len(keys) <= (MaxBatches - 1) * chunkSize
<1> PICK s : s = getUserLookupTableAddresses(r)
  OBVIOUS
<1>1. IsList(s) /\ ToSet(s) \subseteq Address /\ Len(s) <= (MaxBatches - 1) * chunkSize
  BY RequiredList, BatchAssumption DEF Address
<1>2. s \in Seq(Address)
  BY <1>1, ListInSeq
<1> PICK I : I = missing(s, H)
  OBVIOUS
<1>3. DOMAIN s = 1..Len(s) /\ Len(s) \in Nat
  BY <1>2
<1>4. I \in SUBSET (1..Len(s))
  BY <1>3 DEF missing
<1> PICK p : p = pick(s, I)
  OBVIOUS
<1>5. p \in Seq(Address) /\ ToSet(p) = {s[i] : i \in I} /\ Len(p) <= Len(s)
  BY <1>2, <1>4, PickElements
<1>6. {s[i] : i \in I} = ToSet(s) \ H
  BY DEF missing, ToSet
<1>7. keys = distinct(p)
  BY DEF getDedupUserLookupTableAddresses
<1>8. /\ keys \in Seq(Address) /\ ToSet(keys) = ToSet(p)
      /\ Len(keys) <= Len(p) /\ NoRepeat(keys)
  BY <1>5, <1>7, DistinctElements
<1>9. Len(keys) <= (MaxBatches - 1) * chunkSize
  <2> PICK a, b, c : a = Len(keys) /\ b = Len(p) /\ c = Len(s)
    OBVIOUS
  <2>1. a \in Nat /\ b \in Nat /\ c \in Nat /\ a <= b /\ b <= c
    BY <1>3, <1>5, <1>8
  <2> PICK m : m = (MaxBatches - 1) * chunkSize
    OBVIOUS
  <2>2. m \in Int
    BY CallAssumption
  <2> QED BY <1>1, <2>1, <2>2
<1> QED BY <1>5, <1>6, <1>8, <1>9

-----------------------------------------------------------------------------
(***************************************************************************)
(* Chunks: they are the list, cut at the multiples of the size.            *)
(***************************************************************************)
LEMMA DivFacts ==
  ASSUME NEW a \in Nat, NEW c \in Nat \ {0}, NEW q, q = a \div c
  PROVE  q \in Nat /\ q * c <= a /\ a < q * c + c
OBVIOUS

LEMMA TimesMonotonic ==
  ASSUME NEW i \in Int, NEW j \in Int, NEW c \in Nat, i <= j
  PROVE  i * c \in Int /\ j * c \in Int /\ i * c <= j * c
OBVIOUS

LEMMA TimesOne ==
  ASSUME NEW i \in Int, NEW c \in Nat
  PROVE  (i - 1) * c = i * c - c /\ i * c \in Int
OBVIOUS

\* The number of chunks that n keys need.
chunks(n) == (n + chunkSize - 1) \div chunkSize

LEMMA ChunkCount ==
  ASSUME NEW n \in Nat, NEW k, k = chunks(n)
  PROVE  /\ k \in Nat
         /\ (k - 1) * chunkSize < n /\ n <= k * chunkSize
         /\ \A i \in 1..k : (i - 1) * chunkSize \in Nat /\ (i - 1) * chunkSize < n
         /\ \A m \in Int : n <= m * chunkSize => k <= m
<1> PICK c \in Nat \ {0} : c = chunkSize
  BY CallAssumption
<1>1. k \in Nat /\ k * c <= n + c - 1 /\ n + c - 1 < k * c + c
  <2> PICK a \in Nat : a = n + c - 1
    OBVIOUS
  <2>1. k = a \div c
    BY DEF chunks
  <2>2. k \in Nat /\ k * c <= a /\ a < k * c + c
    BY <2>1, DivFacts
  <2> QED BY <2>2
<1>2. (k - 1) * c = k * c - c /\ k * c \in Int
  BY <1>1, TimesOne
<1>3. (k - 1) * c < n /\ n <= k * c
  BY <1>1, <1>2
<1>4. ASSUME NEW i \in 1..k PROVE (i - 1) * c \in Nat /\ (i - 1) * c < n
  <2>1. i - 1 \in Int /\ i - 1 <= k - 1 /\ k - 1 \in Int /\ 0 <= i - 1
    BY <1>1
  <2>2. (i - 1) * c <= (k - 1) * c /\ (i - 1) * c \in Int /\ (k - 1) * c \in Int
    BY <2>1, TimesMonotonic
  <2>3. 0 * c <= (i - 1) * c /\ 0 * c = 0
    BY <2>1, TimesMonotonic
  <2> QED BY <1>3, <2>2, <2>3
<1>5. ASSUME NEW m \in Int, n <= m * c, ~(k <= m) PROVE FALSE
  <2>1. m <= k - 1 /\ k - 1 \in Int
    BY <1>1, <1>5
  <2>2. m * c <= (k - 1) * c /\ m * c \in Int /\ (k - 1) * c \in Int
    BY <2>1, TimesMonotonic
  <2> QED BY <1>3, <1>5, <2>2
<1> QED BY <1>1, <1>3, <1>4, <1>5

\* s is the i-th chunk of the keys.
PieceOf(s, i, keys) ==
  /\ Len(s) \in 1..chunkSize
  /\ \A a \in 1..Len(s) : /\ (i - 1) * chunkSize + a \in 1..Len(keys)
                          /\ s[a] = keys[(i - 1) * chunkSize + a]
  /\ \A p \in 1..Len(keys) :
       (i - 1) * chunkSize < p /\ p <= i * chunkSize => p - (i - 1) * chunkSize \in 1..Len(s)

LEMMA OneChunk ==
  ASSUME NEW V, NEW keys \in Seq(V), NEW i \in 1..chunks(Len(keys)),
         NEW s, s = chunk(keys, i)
  PROVE  s \in Seq(V) /\ PieceOf(s, i, keys)
<1> PICK n \in Nat : n = Len(keys)
  OBVIOUS
<1> PICK c \in Nat \ {0} : c = chunkSize
  BY CallAssumption
<1>1. chunks(n) \in Nat /\ i \in Int
  BY ChunkCount
<1> PICK b \in Nat : b = (i - 1) * c
  BY ChunkCount
<1>2. b < n
  BY ChunkCount
<1>3. i * c = b + c
  BY <1>1, TimesOne
<1> PICK e : e = chunkEnd(i, n)
  OBVIOUS
<1>4. e \in Nat /\ e <= n /\ b < e /\ e <= b + c /\ (e = n \/ e = b + c)
  BY <1>2, <1>3 DEF chunkEnd
<1>5. s = SubSeq(keys, b + 1, e)
  BY DEF chunk
<1>6. s \in Seq(V) /\ Len(s) = e - b /\ \A a \in 1..(e - b) : s[a] = keys[b + a]
  BY <1>4, <1>5
<1>7. Len(s) \in 1..c
  BY <1>4, <1>6
<1>8. \A a \in 1..Len(s) : b + a \in 1..n
  BY <1>4, <1>6
<1>9. \A p \in 1..n : b < p /\ p <= b + c => p - b \in 1..Len(s)
  BY <1>4, <1>6
<1> QED BY <1>3, <1>6, <1>7, <1>8, <1>9 DEF PieceOf

\* A place in the list is in one chunk only.
SamePlace(i, a, j, b) == (i - 1) * chunkSize + a = (j - 1) * chunkSize + b

LEMMA ChunkPlaces ==
  ASSUME NEW i \in Int, NEW j \in Int, NEW a \in 1..chunkSize, NEW b \in 1..chunkSize,
         SamePlace(i, a, j, b)
  PROVE  i = j /\ a = b
<1> PICK c \in Nat \ {0} : c = chunkSize
  BY CallAssumption
<1> USE DEF SamePlace
<1>1. ASSUME NEW x \in Int, NEW y \in Int, NEW u \in 1..c, NEW v \in 1..c,
             (x - 1) * c + u = (y - 1) * c + v, x < y
      PROVE  FALSE
  <2>1. x * c <= (y - 1) * c /\ x * c \in Int /\ (y - 1) * c \in Int
    BY <1>1, TimesMonotonic
  <2>2. (x - 1) * c = x * c - c
    BY TimesOne
  <2> QED BY <1>1, <2>1, <2>2
<1>2. i = j
  BY <1>1
<1>3. (i - 1) * c \in Int
  OBVIOUS
<1> QED BY <1>2, <1>3

\* Every place is in some chunk.
LEMMA PlaceInChunk ==
  ASSUME NEW n \in Nat, NEW p \in 1..n
  PROVE  \E i \in 1..chunks(n) : (i - 1) * chunkSize < p /\ p <= i * chunkSize
<1> PICK c \in Nat \ {0} : c = chunkSize
  BY CallAssumption
<1> PICK q : q = (p - 1) \div c
  OBVIOUS
<1>1. q \in Nat /\ q * c <= p - 1 /\ p - 1 < q * c + c
  <2> PICK a \in Nat : a = p - 1
    OBVIOUS
  <2>1. q = a \div c
    OBVIOUS
  <2>2. q \in Nat /\ q * c <= a /\ a < q * c + c
    BY <2>1, DivFacts
  <2> QED BY <2>2
<1>2. ((q + 1) - 1) * c = q * c /\ (q + 1) * c = q * c + c /\ q * c \in Int
  BY <1>1
<1> PICK k \in Nat : k = chunks(n)
  BY ChunkCount
<1>3. n <= k * c /\ k * c \in Int
  BY ChunkCount
<1>4. q < k
  <2> SUFFICES ASSUME k <= q PROVE FALSE
    BY <1>1
  <2>1. k * c <= q * c
    BY <1>1, TimesMonotonic
  <2> QED BY <1>1, <1>2, <1>3, <2>1
<1>5. q + 1 \in 1..chunks(n)
  BY <1>1, <1>4
<1>6. ((q + 1) - 1) * chunkSize < p /\ p <= (q + 1) * chunkSize
  BY <1>1, <1>2
<1> QED BY <1>5, <1>6

-----------------------------------------------------------------------------
(***************************************************************************)
(* Plans: the batches of one call.                                         *)
(***************************************************************************)
Batch == {b \in [ops : {{}, {"createTable", "initMetadata"}},
                 table : Table \union {NoTable}, keys : Seq(Address)] :
            b.ops # {} => b.table # NoTable}

\* An address has one place in the batches p.
OnePlace(p) ==
  \A i, j \in 1..Len(p) : \A a \in 1..Len(p[i].keys), b \in 1..Len(p[j].keys) :
    p[i].keys[a] = p[j].keys[b] => i = j /\ a = b

SameAddress(p, i, a, j, b) ==
  /\ i \in 1..Len(p) /\ j \in 1..Len(p)
  /\ a \in 1..Len(p[i].keys) /\ b \in 1..Len(p[j].keys) /\ p[i].keys[a] = p[j].keys[b]

LEMMA OnePlaceMeans ==
  ASSUME NEW p, OnePlace(p), NEW i, NEW j, NEW a, NEW b, SameAddress(p, i, a, j, b)
  PROVE  i = j /\ a = b
BY DEF OnePlace, SameAddress

\* Batches that extend the table t by the addresses in A.
Extends(e, t, A) ==
  /\ e \in Seq(Batch) /\ Len(e) <= MaxBatches - 1
  /\ \A i \in 1..Len(e) : e[i].ops = {} /\ e[i].table = t /\ Len(e[i].keys) \in 1..chunkSize
  /\ OnePlace(e)
  /\ \A x \in A : \E i \in 1..Len(e) : x \in ToSet(e[i].keys)

\* A plan begins with the batch that creates, or with an empty one, and goes
\* on with the extensions of one table.
PlanSound(p) ==
  /\ p \in Seq(Batch) /\ Len(p) <= MaxBatches
  /\ \A i \in 1..Len(p) : i = 1 => p[i].keys = <<>>
  /\ \A i \in 1..Len(p) : i # 1 => p[i].ops = {} /\ Len(p[i].keys) \in 1..chunkSize
  /\ OnePlace(p)

\* Its extensions are of the table t and hold the addresses in A.
PlanCovers(p, t, A) ==
  /\ \A i \in 1..Len(p) : i # 1 => p[i].table = t
  /\ \A x \in A : \E i \in 1..Len(p) : i # 1 /\ x \in ToSet(p[i].keys)

LEMMA ExtensionsSound ==
  ASSUME NEW t \in Table, NEW keys \in Seq(Address), NoRepeat(keys),
         Len(keys) <= (MaxBatches - 1) * chunkSize
  PROVE  Extends(extendLookupTableIxs(t, keys), t, ToSet(keys))
<1> PICK n \in Nat : n = Len(keys)
  OBVIOUS
<1> PICK c \in Nat \ {0} : c = chunkSize
  BY CallAssumption
<1> PICK k \in Nat : k = chunks(n)
  BY ChunkCount
<1>1. k <= MaxBatches - 1
  BY ChunkCount, CallAssumption
<1> PICK e : e = [i \in 1..k |-> [ops |-> {}, table |-> t, keys |-> chunk(keys, i)]]
  OBVIOUS
<1>2. e = extendLookupTableIxs(t, keys)
  BY DEF extendLookupTableIxs, chunks
<1>3. ASSUME NEW i \in 1..k
      PROVE  \E s \in Seq(Address) :
               PieceOf(s, i, keys) /\ e[i] = [ops |-> {}, table |-> t, keys |-> s]
  <2> PICK s : s = chunk(keys, i)
    OBVIOUS
  <2>1. e[i] = [ops |-> {}, table |-> t, keys |-> s]
    OBVIOUS
  <2>2. s \in Seq(Address) /\ PieceOf(s, i, keys)
    BY OneChunk
  <2> QED BY <2>1, <2>2
<1>4. ASSUME NEW i \in 1..k
      PROVE  /\ e[i] \in Batch /\ e[i].ops = {} /\ e[i].table = t
             /\ Len(e[i].keys) \in 1..c /\ PieceOf(e[i].keys, i, keys)
  <2> PICK s \in Seq(Address) :
        PieceOf(s, i, keys) /\ e[i] = [ops |-> {}, table |-> t, keys |-> s]
    BY <1>3
  <2>1. Len(s) \in 1..c
    BY DEF PieceOf
  <2> QED BY <2>1 DEF Batch
<1>5. e \in Seq(Batch) /\ Len(e) = k
  <2>1. \A i \in 1..k : e[i] \in Batch
    BY <1>4, Zenon
  <2>2. DOMAIN e = 1..k /\ e = [i \in 1..k |-> e[i]]
    OBVIOUS
  <2>3. e \in [1..k -> Batch]
    BY <2>1, <2>2, Zenon
  <2>4. e \in Seq(Batch)
    BY <2>3, SeqDef
  <2> QED BY <2>2, <2>4
<1>6. OnePlace(e)
  <2> SUFFICES ASSUME NEW i \in 1..Len(e), NEW j \in 1..Len(e),
                      NEW a \in 1..Len(e[i].keys), NEW b \in 1..Len(e[j].keys),
                      e[i].keys[a] = e[j].keys[b]
               PROVE  i = j /\ a = b
    BY Zenon DEF OnePlace
  <2> i \in 1..k /\ j \in 1..k
    BY <1>5
  <2> PICK s : s = e[i].keys /\ PieceOf(s, i, keys)
    BY <1>4
  <2> PICK z : z = e[j].keys /\ PieceOf(z, j, keys)
    BY <1>4
  <2>1. a \in 1..Len(s) /\ b \in 1..Len(z) /\ s[a] = z[b] /\ Len(s) \in 1..c /\ Len(z) \in 1..c
    BY DEF PieceOf
  <2> PICK x \in 1..n : x = (i - 1) * c + a /\ s[a] = keys[x]
    BY <2>1 DEF PieceOf
  <2> PICK y \in 1..n : y = (j - 1) * c + b /\ z[b] = keys[y]
    BY <2>1 DEF PieceOf
  <2>2. x = y
    BY <2>1 DEF NoRepeat
  <2>3. i \in Int /\ j \in Int /\ a \in 1..c /\ b \in 1..c
    BY <2>1
  <2>4. (i - 1) * chunkSize + a = (j - 1) * chunkSize + b
    BY <2>2
  <2>5. a \in 1..chunkSize /\ b \in 1..chunkSize
    BY <2>3
  <2>6. SamePlace(i, a, j, b)
    BY <2>4 DEF SamePlace
  <2> QED BY <2>3, <2>5, <2>6, ChunkPlaces, Zenon
<1>8. ASSUME NEW x \in ToSet(keys) PROVE \E i \in 1..k : x \in ToSet(e[i].keys)
  <2> PICK p \in 1..n : x = keys[p]
    BY DEF ToSet
  <2> PICK i \in 1..k : (i - 1) * c < p /\ p <= i * c
    BY PlaceInChunk
  <2> PICK s \in Seq(Address) : s = e[i].keys /\ PieceOf(s, i, keys)
    BY <1>3, <1>4
  <2> PICK a : a = p - (i - 1) * c
    OBVIOUS
  <2>1. a \in 1..Len(s)
    BY DEF PieceOf
  <2>2. (i - 1) * c \in Int
    OBVIOUS
  <2>3. (i - 1) * c + a = p
    BY <2>2
  <2>4. s[a] = x
    BY <2>1, <2>3 DEF PieceOf
  <2>5. x \in ToSet(s)
    BY <2>1, <2>4 DEF ToSet
  <2> QED BY <2>5
<1>7. Extends(e, t, ToSet(keys))
  BY <1>1, <1>4, <1>5, <1>6, <1>8 DEF Extends
<1> QED BY <1>2, <1>7

\* A plan for the table t with the first batch b.
PlanOf(p, b, t, A) ==
  PlanSound(p) /\ PlanCovers(p, t, A) /\ Len(p) \in Nat \ {0} /\ p[1] = b

\* A first batch without addresses, and extensions.
LEMMA PlanOfExtensions ==
  ASSUME NEW b \in Batch, b.keys = <<>>, NEW t \in Table, NEW A, NEW e, Extends(e, t, A)
  PROVE  PlanOf(<<b>> \o e, b, t, A)
<1> PICK p : p = <<b>> \o e
  OBVIOUS
<1> PICK k \in Nat : k = Len(e)
  BY DEF Extends
<1>1. e \in Seq(Batch) /\ k <= MaxBatches - 1 /\ MaxBatches \in Nat
  BY CallAssumption DEF Extends
<1>2. p \in Seq(Batch) /\ Len(p) = k + 1 /\ p[1] = b
  BY <1>1
<1>3. \A i \in 1..(k + 1) : i # 1 => i - 1 \in 1..k /\ p[i] = e[i - 1]
  BY <1>1
<1>4. Len(p) <= MaxBatches
  BY <1>1, <1>2
<1>5. \A i \in 1..(k + 1) : i # 1 => /\ p[i].ops = {} /\ p[i].table = t
                                     /\ Len(p[i].keys) \in 1..chunkSize
  BY <1>3 DEF Extends
<1>6. OnePlace(p)
  <2> SUFFICES ASSUME NEW i \in 1..(k + 1), NEW j \in 1..(k + 1),
                      NEW x \in 1..Len(p[i].keys), NEW y \in 1..Len(p[j].keys),
                      p[i].keys[x] = p[j].keys[y]
               PROVE  i = j /\ x = y
    BY <1>2 DEF OnePlace
  <2>1. i # 1 /\ j # 1
    BY <1>2
  <2> PICK u \in 1..k : u = i - 1
    BY <1>3, <2>1
  <2> PICK v \in 1..k : v = j - 1
    BY <1>3, <2>1
  <2>2. p[i] = e[u] /\ p[j] = e[v]
    BY <1>3, <2>1
  <2>3. /\ u \in 1..Len(e) /\ v \in 1..Len(e)
        /\ x \in 1..Len(e[u].keys) /\ y \in 1..Len(e[v].keys) /\ e[u].keys[x] = e[v].keys[y]
    BY <2>2
  <2>4. OnePlace(e)
    BY DEF Extends
  <2>5. SameAddress(e, u, x, v, y)
    BY <2>3 DEF SameAddress
  <2>6. u = v /\ x = y
    BY <2>4, <2>5, OnePlaceMeans, Zenon
  <2> QED BY <2>6
<1>7. ASSUME NEW x \in A PROVE \E i \in 1..(k + 1) : i # 1 /\ x \in ToSet(p[i].keys)
  <2> PICK u \in 1..k : x \in ToSet(e[u].keys)
    BY DEF Extends
  <2>1. u + 1 \in 1..(k + 1) /\ u + 1 # 1 /\ (u + 1) - 1 = u
    OBVIOUS
  <2>2. p[u + 1] = e[u]
    BY <1>3, <2>1
  <2> QED BY <2>1, <2>2
<1>8. PlanSound(p)
  BY <1>2, <1>4, <1>5, <1>6 DEF PlanSound
<1>9. PlanCovers(p, t, A)
  BY <1>2, <1>5, <1>7 DEF PlanCovers
<1> QED BY <1>2, <1>8, <1>9 DEF PlanOf

\* The empty list extends any table by nothing.
LEMMA NoExtensions ==
  ASSUME NEW t \in Table, Requests # {}
  PROVE  Extends(<<>>, t, {})
<1> PICK r \in Requests : TRUE
  OBVIOUS
<1>1. Len(getUserLookupTableAddresses(r)) \in Nat
  BY RequiredList DEF IsList
<1>2. 0 <= (MaxBatches - 1) * chunkSize
  <2> PICK m \in Int : m = (MaxBatches - 1) * chunkSize
    BY CallAssumption
  <2>1. Len(getUserLookupTableAddresses(r)) <= m
    BY BatchAssumption
  <2> QED BY <1>1, <2>1
<1>3. MaxBatches - 1 \in Int /\ chunkSize \in Nat
  BY CallAssumption
<1>4. MaxBatches - 1 >= 0
  <2>1. chunks(0) \in Nat /\ (0 <= (MaxBatches - 1) * chunkSize => chunks(0) <= MaxBatches - 1)
    BY <1>3, ChunkCount
  <2> QED BY <1>2, <1>3, <2>1
<1> QED BY <1>4 DEF Extends, OnePlace

-----------------------------------------------------------------------------
(***************************************************************************)
(* The inductive invariant.                                                *)
(***************************************************************************)
CallTypes ==
  /\ req \in Requests
  /\ step \in {"none", "metadata", "table", "send", "done", "threw"}
  /\ slot \in Table
  /\ table \in Table \union {NoTable}

PlansSound ==
  /\ plans \in Seq(Seq(Batch)) /\ Len(plans) <= MaxCalls
  /\ \A c \in 1..Len(plans) : PlanSound(plans[c])

LedgerSound ==
  /\ metadata \in Table \union {NoTable}
  /\ DOMAIN tables \subseteq Table
  /\ tables \in [DOMAIN tables -> Seq(Seq(Address))]
  /\ OneTable

\* A transaction that was signed is a batch of a plan.
SignedPlanned ==
  \A t \in Tx : t = sending \/ t \in inFlight \/ outcome[t] # "none" =>
    t[1] \in 1..Len(plans) /\ t[2] \in 1..Len(plans[t[1]])

\* A call that still reads has no plan yet.
Reading ==
  /\ step # "none" => Len(plans) # 0
  /\ step \in {"metadata", "table"} => plans[Len(plans)] = <<>>
  /\ step = "table" => table # NoTable /\ table = metadata

\* What a batch has done stays done.
BatchDone(b) ==
  /\ b.ops # {} => b.table \in DOMAIN tables
  /\ b.keys # <<>> => b.table \in DOMAIN tables /\ ToSet(b.keys) \subseteq held(tables[b.table])

LandedDone == \A t \in Tx : outcome[t] = "ok" => BatchDone(plans[t[1]][t[2]])

\* The addresses of the request that the table does not hold.
lacking == {x \in ToSet(getUserLookupTableAddresses(req)) :
              ~(table \in DOMAIN tables /\ x \in held(tables[table]))}

\* Once there is a plan, the table is the one the metadata names or the one
\* the plan creates, and the plan has what the table lacks.
Planned ==
  step \in {"send", "done"} =>
    /\ Len(plans[Len(plans)]) # 0
    /\ table # NoTable
    /\ table = metadata
       \/ (plans[Len(plans)][1].ops # {} /\ plans[Len(plans)][1].table = table)
    /\ req.extend => PlanCovers(plans[Len(plans)], table, lacking)

\* withLogs goes on only after a batch has landed.
Progress ==
  sender = "withLogs" =>
    /\ step = "send" => \A i \in 1..(sent - 1) : outcome[<<Len(plans), i>>] = "ok"
    /\ step = "done" => \A i \in 1..Len(plans[Len(plans)]) : outcome[<<Len(plans), i>>] = "ok"

LutIInv ==
  /\ IInv
  /\ CallTypes
  /\ PlansSound
  /\ LedgerSound
  /\ SignedPlanned
  /\ Reading
  /\ LandedDone
  /\ Planned
  /\ Progress

LEMMA LutInitInv == LutInit => LutIInv
<1> SUFFICES ASSUME LutInit PROVE LutIInv
  OBVIOUS
<1> USE DEF LutInit
<1>1. IInv
  BY InitInv
<1>2. CallTypes
  BY CallAssumption DEF CallTypes, Table
<1>3. PlansSound
  BY CallAssumption DEF PlansSound
<1>4. LedgerSound
  BY DEF LedgerSound, OneTable
<1>5. SignedPlanned /\ LandedDone
  BY TxAssumption DEF SignedPlanned, LandedDone, Init
<1>6. Reading /\ Planned /\ Progress
  BY DEF Reading, Planned, Progress
<1> QED BY <1>1, <1>2, <1>3, <1>4, <1>5, <1>6 DEF LutIInv

\* A step of the network, or of the sender that waits.
NetStep ==
  /\ sender' = sender /\ sending' = sending
  /\ \A t \in Tx : /\ t \in inFlight' => t \in inFlight \/ t = sending
                   /\ outcome'[t] = "ok" <=> outcome[t] = "ok"
                   /\ outcome'[t] # "none" => outcome[t] # "none" \/ t \in inFlight

LEMMA ContinueIsNetStep ==
  ASSUME Continue
  PROVE  NetStep
BY DEF Continue, NetStep, BlockhashFetched, SendAnswered, Confirmed, LandedWithError, GiveUp,
   DetailsFetched, LogsFetched, WaitFor, Throw, Return

LEMMA LossIsNetStep ==
  ASSUME IInv, NEW t \in inFlight, Land(t, "err") \/ Drop(t)
  PROVE  NetStep
BY DEF IInv, TypeOK, NetStep, Land, Drop

\* A landed transaction has landed for good.
LEMMA ProgressKept ==
  ASSUME LutIInv, sender' = sender, sending' = sending, UNCHANGED callVars,
         \A t \in Tx : outcome[t] = "ok" => outcome'[t] = "ok"
  PROVE  Progress'
<1> PICK n : n = Len(plans)
  OBVIOUS
<1> PICK p : p = plans[n]
  OBVIOUS
<1>1. sent' = sent
  BY DEF sent, calls, callVars
<1>2. SUFFICES ASSUME sender = "withLogs"
               PROVE  /\ step = "send" => \A i \in 1..(sent - 1) : outcome'[<<n, i>>] = "ok"
                      /\ step = "done" => \A i \in 1..Len(p) : outcome'[<<n, i>>] = "ok"
  BY <1>1 DEF Progress, callVars
<1>3. ASSUME step = "send", NEW i \in 1..(sent - 1) PROVE outcome'[<<n, i>>] = "ok"
  <2>1. outcome[<<n, i>>] = "ok"
    BY <1>2, <1>3 DEF LutIInv, Progress
  <2>2. sending # NoTx /\ sending \in Tx /\ sent = sending[2] /\ sending[1] = n
    BY <1>3 DEF sent, calls, LutIInv, IInv, TypeOK
  <2>3. n \in 1..MaxCalls /\ sent \in 1..MaxBatches
    BY <2>2, CallAssumption
  <2>4. <<n, i>> \in Tx
    BY <2>3, CallAssumption
  <2> QED BY <2>1, <2>4
<1>4. ASSUME step = "done", NEW i \in 1..Len(p) PROVE outcome'[<<n, i>>] = "ok"
  <2>1. outcome[<<n, i>>] = "ok"
    BY <1>2, <1>4 DEF LutIInv, Progress
  <2>2. n \in 1..MaxCalls
    BY <1>4 DEF LutIInv, Reading, PlansSound
  <2>3. PlanSound(p)
    BY <2>2 DEF LutIInv, PlansSound
  <2>4. i \in 1..MaxBatches
    BY <2>3, CallAssumption DEF PlanSound
  <2>5. <<n, i>> \in Tx
    BY <2>2, <2>4, CallAssumption
  <2> QED BY <2>1, <2>5
<1> QED BY <1>3, <1>4

LEMMA NetStepInv ==
  ASSUME LutIInv, IInv', NetStep, NoEffect
  PROVE  LutIInv'
<1> USE DEF NoEffect, callVars, ledgerVars
<1>1. CallTypes' /\ PlansSound'
  BY DEF LutIInv, CallTypes, PlansSound
<1>2. LedgerSound'
  BY DEF LutIInv, LedgerSound, OneTable
<1>3. SignedPlanned'
  BY DEF LutIInv, SignedPlanned, NetStep
<1>4. Reading'
  BY DEF LutIInv, Reading
<1>5. LandedDone'
  BY DEF LutIInv, LandedDone, BatchDone, NetStep, held
<1>6. Planned'
  BY DEF LutIInv, Planned, lacking, held
<1>7. Progress'
  BY ProgressKept DEF NetStep
<1> QED BY <1>1, <1>2, <1>3, <1>4, <1>5, <1>6, <1>7 DEF LutIInv

\* What a landed transaction did, and which are signed, is told from the plans
\* that were there.
LEMMA PlansKept ==
  ASSUME LutIInv, UNCHANGED <<sendVars, ledgerVars>>,
         \A c \in 1..Len(plans) : plans[c] # <<>> =>
           c \in 1..Len(plans') /\ plans'[c] = plans[c]
  PROVE  IInv' /\ LedgerSound' /\ SignedPlanned' /\ LandedDone'
<1>1. IInv'
  BY NextInv DEF LutIInv
<1>2. LedgerSound'
  BY DEF LutIInv, LedgerSound, OneTable, ledgerVars
<1>3. ASSUME NEW t \in Tx, t = sending \/ t \in inFlight \/ outcome[t] # "none"
      PROVE  /\ t[1] \in 1..Len(plans') /\ plans'[t[1]] = plans[t[1]]
             /\ t[2] \in 1..Len(plans[t[1]])
  <2>1. t[1] \in 1..Len(plans) /\ t[2] \in 1..Len(plans[t[1]])
    BY <1>3 DEF LutIInv, SignedPlanned
  <2>2. plans[t[1]] # <<>>
    BY <2>1
  <2> QED BY <2>1, <2>2
<1>4. SignedPlanned'
  BY <1>3 DEF SignedPlanned, sendVars
<1>5. LandedDone'
  <2> SUFFICES ASSUME NEW t \in Tx, outcome'[t] = "ok"
               PROVE  BatchDone(plans[t[1]][t[2]])'
    BY DEF LandedDone
  <2> PICK b : b = plans[t[1]][t[2]]
    OBVIOUS
  <2>1. outcome[t] = "ok" /\ outcome[t] # "none"
    BY DEF sendVars
  <2>2. plans'[t[1]][t[2]] = b
    BY <1>3, <2>1, Zenon
  <2>3. BatchDone(b)
    BY <2>1 DEF LutIInv, LandedDone
  <2>4. BatchDone(b)'
    BY <2>3 DEF BatchDone, held, ledgerVars
  <2> QED BY <2>2, <2>4 DEF BatchDone
<1> QED BY <1>1, <1>2, <1>4, <1>5

LEMMA BeginInv ==
  ASSUME LutIInv, NEW r \in Requests, Begin(r)
  PROVE  LutIInv'
<1> PICK n \in Nat : n = Len(plans)
  BY DEF LutIInv, PlansSound
<1>1. /\ plans \in Seq(Seq(Batch)) /\ plans' = Append(plans, <<>>) /\ <<>> \in Seq(Batch)
      /\ n < MaxCalls /\ MaxCalls \in Nat /\ step' = "metadata" /\ req' = r /\ table' = table
  BY CallAssumption DEF LutIInv, PlansSound, Begin, calls
<1>2. /\ plans' \in Seq(Seq(Batch)) /\ Len(plans') = n + 1 /\ plans'[n + 1] = <<>>
      /\ \A c \in 1..n : c \in 1..(n + 1) /\ plans'[c] = plans[c]
  BY <1>1
<1>3. IInv' /\ LedgerSound' /\ SignedPlanned' /\ LandedDone'
  BY <1>2, PlansKept DEF Begin
<1>4. CallTypes'
  BY DEF LutIInv, CallTypes, Begin, Table
<1>5. PlanSound(<<>>)
  BY CallAssumption DEF PlanSound, OnePlace
<1>6. PlansSound'
  <2>1. \A c \in 1..(n + 1) : PlanSound(plans'[c])
    <3> SUFFICES ASSUME NEW c \in 1..(n + 1) PROVE PlanSound(plans'[c])
      OBVIOUS
    <3>1. CASE c \in 1..n
      BY <1>2, <3>1 DEF LutIInv, PlansSound
    <3>2. CASE c = n + 1
      BY <1>2, <1>5, <3>2
    <3> QED BY <3>1, <3>2
  <2> QED BY <1>1, <1>2, <2>1 DEF PlansSound
<1>7. Reading' /\ Planned' /\ Progress'
  BY <1>1, <1>2 DEF Reading, Planned, Progress
<1> QED BY <1>3, <1>4, <1>6, <1>7 DEF LutIInv

\* A call that ends without a plan, or after a batch has failed.
LEMMA EndInv ==
  ASSUME LutIInv, RequestFails \/ Stop
  PROVE  LutIInv'
<1>1. /\ UNCHANGED <<sendVars, req, table, plans, slot, ledgerVars>> /\ step' = "threw"
      /\ step # "none"
  BY DEF RequestFails, Stop
<1>2. IInv' /\ LedgerSound' /\ SignedPlanned' /\ LandedDone'
  BY <1>1, PlansKept
<1>3. CallTypes' /\ PlansSound' /\ Reading' /\ Planned' /\ Progress'
  BY <1>1 DEF LutIInv, CallTypes, PlansSound, Reading, Planned, Progress
<1> QED BY <1>2, <1>3 DEF LutIInv

\* The plan of a call, once what it needs is read.
LEMMA PlanMade ==
  ASSUME LutIInv, step \in {"metadata", "table"}, NEW p, PlanSound(p), Len(p) # 0,
         plans' = [plans EXCEPT ![calls] = p], step' = "send", table' \in Table,
         table' = metadata \/ (p[1].ops # {} /\ p[1].table = table'),
         req.extend => PlanCovers(p, table', lacking'),
         UNCHANGED <<sendVars, req, slot, ledgerVars>>
  PROVE  LutIInv'
<1> PICK n \in Nat : n = Len(plans)
  BY DEF LutIInv, PlansSound
<1>1. plans \in Seq(Seq(Batch)) /\ n \in 1..n /\ plans[n] = <<>> /\ p \in Seq(Batch)
  BY DEF LutIInv, PlansSound, Reading, PlanSound
<1>2. /\ plans' \in Seq(Seq(Batch)) /\ Len(plans') = n /\ plans'[n] = p
      /\ \A c \in 1..n : c # n => plans'[c] = plans[c]
  BY <1>1 DEF calls
<1>3. IInv' /\ LedgerSound' /\ SignedPlanned' /\ LandedDone'
  BY <1>1, <1>2, PlansKept
<1>4. CallTypes'
  BY DEF LutIInv, CallTypes
<1>5. PlansSound'
  BY <1>2 DEF LutIInv, PlansSound
<1>6. Reading'
  BY <1>1, <1>2 DEF Reading
<1>7. Planned'
  BY <1>2 DEF Planned, Table, NoTable, ledgerVars
<1>8. Progress'
  <2>1. sending = NoTx \/ sending[1] # n
    <3>1. ASSUME sending \in Tx, sending[1] = n PROVE FALSE
      <4>1. sending[2] \in 1..Len(plans[n])
        BY <3>1, Zenon DEF LutIInv, SignedPlanned
      <4> QED BY <1>1, <4>1
    <3> QED BY <3>1 DEF LutIInv, IInv, TypeOK
  <2>2. sent' = 0
    BY <1>2, <2>1 DEF sent, calls, sendVars
  <2> QED BY <2>2 DEF Progress
<1> QED BY <1>3, <1>4, <1>5, <1>6, <1>7, <1>8 DEF LutIInv

LEMMA Covers ==
  ASSUME NEW p, NEW t, NEW A, NEW B, PlanCovers(p, t, A), B \subseteq A
  PROVE  PlanCovers(p, t, B)
BY DEF PlanCovers

\* The extensions by what the request needs and H does not have.
LEMMA ExtensionsOfRequest ==
  ASSUME NEW r \in Requests, NEW t \in Table, NEW H
  PROVE  Extends(extendLookupTableIxs(t, getDedupUserLookupTableAddresses(
                                           getUserLookupTableAddresses(r), H)),
                 t, ToSet(getUserLookupTableAddresses(r)) \ H)
<1> PICK keys : keys = getDedupUserLookupTableAddresses(getUserLookupTableAddresses(r), H)
  OBVIOUS
<1>1. /\ keys \in Seq(Address) /\ ToSet(keys) = ToSet(getUserLookupTableAddresses(r)) \ H
      /\ NoRepeat(keys) /\ Len(keys) <= (MaxBatches - 1) * chunkSize
  BY DedupAddresses
<1> QED BY <1>1, ExtensionsSound

LEMMA CreatingBatch ==
  ASSUME NEW t \in Table, NEW b,
         b = [ops |-> {"createTable", "initMetadata"}, table |-> t, keys |-> <<>>]
  PROVE  b \in Batch /\ b.keys = <<>> /\ b.ops # {} /\ b.table = t
<1> PICK o : o = {"createTable", "initMetadata"}
  OBVIOUS
<1>1. o # {} /\ o \in {{}, {"createTable", "initMetadata"}} /\ t # NoTable
  BY CallAssumption DEF Table, NoTable
<1>2. b = [ops |-> o, table |-> t, keys |-> <<>>]
  OBVIOUS
<1>3. <<>> \in Seq(Address) /\ t \in Table \union {NoTable}
  OBVIOUS
<1> QED BY <1>1, <1>2, <1>3 DEF Batch

LEMMA MetadataMissingInv ==
  ASSUME LutIInv, MetadataMissing
  PROVE  LutIInv'
<1> PICK b : b = [EmptyBatch EXCEPT !.ops = {"createTable", "initMetadata"}, !.table = slot]
  OBVIOUS
<1>0. req \in Requests /\ slot \in Table
  BY DEF LutIInv, CallTypes
<1>1. /\ b \in Batch /\ b.keys = <<>> /\ b.ops # {} /\ b.table = slot
  <2>1. b = [ops |-> {"createTable", "initMetadata"}, table |-> slot, keys |-> <<>>]
    BY DEF EmptyBatch
  <2> QED BY <1>0, <2>1, CreatingBatch
<1> DEFINE keys == getDedupUserLookupTableAddresses(getUserLookupTableAddresses(req), {})
           A == IF req.extend THEN ToSet(getUserLookupTableAddresses(req)) \ {} ELSE {}
           e == IF req.extend THEN extendLookupTableIxs(slot, keys) ELSE <<>>
           p == <<b>> \o e
<1>2. Extends(e, slot, A)
  <2>1. CASE req.extend
    BY <1>0, <2>1, ExtensionsOfRequest
  <2>2. CASE ~req.extend
    BY <1>0, <2>2, NoExtensions
  <2> QED BY <2>1, <2>2
<1>3. /\ plans' = [plans EXCEPT ![calls] = p] /\ step' = "send" /\ table' = slot
      /\ UNCHANGED <<sendVars, req, slot, ledgerVars>> /\ step = "metadata"
  BY DEF MetadataMissing, Plan, initUserMetadataIxs
<1>4. /\ PlanSound(p) /\ PlanCovers(p, slot, A) /\ Len(p) # 0 /\ p[1] = b
  <2> HIDE DEF e, A
  <2>1. PlanOf(p, b, slot, A)
    BY <1>0, <1>1, <1>2, PlanOfExtensions
  <2> QED BY <2>1 DEF PlanOf
<1>5. req.extend => PlanCovers(p, table', lacking')
  <2>1. req.extend => lacking' \subseteq A
    BY <1>3 DEF lacking
  <2> HIDE DEF p, A
  <2> QED BY <1>3, <1>4, <2>1, Covers
<1> HIDE DEF p
<1> QED BY <1>0, <1>1, <1>3, <1>4, <1>5, PlanMade

LEMMA EmptyFirst == EmptyBatch \in Batch /\ EmptyBatch.keys = <<>>
BY DEF EmptyBatch, Batch

LEMMA MetadataFetchedInv ==
  ASSUME LutIInv, MetadataFetched
  PROVE  LutIInv'
<1>0. /\ req \in Requests /\ metadata \in Table /\ table' = metadata /\ step = "metadata"
      /\ UNCHANGED <<sendVars, req, slot, ledgerVars>>
  BY DEF LutIInv, CallTypes, LedgerSound, MetadataFetched
<1>1. CASE req.extend
  <2>1. step' = "table" /\ UNCHANGED plans
    BY <1>1 DEF MetadataFetched
  <2>2. IInv' /\ LedgerSound' /\ SignedPlanned' /\ LandedDone'
    BY <1>0, <2>1, PlansKept
  <2>3. CallTypes' /\ PlansSound' /\ Reading' /\ Planned' /\ Progress'
    BY <1>0, <2>1 DEF LutIInv, CallTypes, PlansSound, Reading, Planned, Progress,
       MetadataFetched, ledgerVars
  <2> QED BY <2>2, <2>3 DEF LutIInv
<1>2. CASE ~req.extend
  <2> PICK p : p = <<EmptyBatch>> \o <<>>
    OBVIOUS
  <2>1. plans' = [plans EXCEPT ![calls] = p] /\ step' = "send"
    BY <1>2 DEF MetadataFetched, Plan
  <2>2. Extends(<<>>, metadata, {})
    BY <1>0, NoExtensions
  <2>3. PlanOf(p, EmptyBatch, metadata, {})
    BY <1>0, <2>2, EmptyFirst, PlanOfExtensions
  <2>4. PlanSound(p) /\ Len(p) # 0
    BY <2>3 DEF PlanOf
  <2> QED BY <1>0, <1>2, <2>1, <2>4, PlanMade
<1> QED BY <1>1, <1>2

LEMMA TableFetchedInv ==
  ASSUME LutIInv, TableFetched
  PROVE  LutIInv'
<1>0. /\ req \in Requests /\ table \in Table /\ table = metadata /\ step = "table"
      /\ UNCHANGED <<sendVars, req, table, slot, ledgerVars>>
      /\ table \in DOMAIN tables /\ tables[table] \in Seq(Seq(Address))
  BY DEF LutIInv, CallTypes, LedgerSound, TableFetched, Reading, OneTable
<1> PICK n \in 0..Len(tables[table]) :
      Plan(<<EmptyBatch>>,
           extendLookupTableIxs(table,
             getDedupUserLookupTableAddresses(getUserLookupTableAddresses(req),
                                              held(SubSeq(tables[table], 1, n)))))
  BY DEF TableFetched
<1> DEFINE H == held(SubSeq(tables[table], 1, n))
           A == ToSet(getUserLookupTableAddresses(req)) \ H
           e == extendLookupTableIxs(table, getDedupUserLookupTableAddresses(
                                              getUserLookupTableAddresses(req), H))
           p == <<EmptyBatch>> \o e
<1>1. Extends(e, table, A)
  BY <1>0, ExtensionsOfRequest
<1>2. plans' = [plans EXCEPT ![calls] = p] /\ step' = "send"
  BY DEF Plan
<1>3. H \subseteq held(tables[table])
  <2> PICK s \in Seq(Seq(Address)) : s = tables[table]
    BY <1>0
  <2>1. \A i \in DOMAIN SubSeq(s, 1, n) : i \in DOMAIN s /\ SubSeq(s, 1, n)[i] = s[i]
    OBVIOUS
  <2>2. held(SubSeq(s, 1, n)) \subseteq held(s)
    BY <2>1, Zenon DEF held
  <2> QED BY <2>2
<1>4. lacking' \subseteq A
  <2>1. lacking' = lacking
    BY <1>0 DEF lacking, ledgerVars, held
  <2> HIDE DEF H
  <2> QED BY <1>0, <1>3, <2>1 DEF lacking
<1>5. PlanSound(p) /\ PlanCovers(p, table, A) /\ Len(p) # 0
  <2> HIDE DEF e, A
  <2>1. PlanOf(p, EmptyBatch, table, A)
    BY <1>0, <1>1, EmptyFirst, PlanOfExtensions
  <2> QED BY <2>1 DEF PlanOf
<1>6. PlanCovers(p, table', lacking')
  <2> HIDE DEF p, A
  <2> QED BY <1>0, <1>4, <1>5, Covers
<1> HIDE DEF p
<1> QED BY <1>0, <1>2, <1>5, <1>6, PlanMade

\* A batch of a plan, as the place in the plan tells.
LEMMA PlanBatch ==
  ASSUME LutIInv, NEW t \in Tx, t[1] \in 1..Len(plans), t[2] \in 1..Len(plans[t[1]])
  PROVE  /\ plans[t[1]][t[2]] \in Batch
         /\ t[2] = 1 => plans[t[1]][t[2]].keys = <<>>
         /\ t[2] # 1 => plans[t[1]][t[2]].ops = {}
<1> PICK p : p = plans[t[1]]
  OBVIOUS
<1>1. PlanSound(p)
  BY DEF LutIInv, PlansSound
<1> QED BY <1>1 DEF PlanSound

\* What the batches sent so far say about the next.
LEMMA SentSoFar ==
  ASSUME LutIInv, step = "send", await = "returned", sender = "withLogs", sent > 0
  PROVE  \A i \in 1..sent : outcome[<<Len(plans), i>>] = "ok"
<1>1. sending \in Tx /\ sending[1] = Len(plans) /\ sent = sending[2]
  BY DEF sent, calls, LutIInv, IInv, TypeOK
<1>2. outcome[sending] = "ok"
  BY DEF LutIInv, IInv
<1>3. sending = <<Len(plans), sent>> /\ sent \in Nat
  BY <1>1, CallAssumption
<1>4. \A i \in 1..sent : i \in 1..(sent - 1) \/ i = sent
  BY <1>3
<1> QED BY <1>2, <1>3, <1>4 DEF LutIInv, Progress

LEMMA AllSentInv ==
  ASSUME LutIInv, AllSent
  PROVE  LutIInv'
<1>0. /\ step = "send" /\ step' = "done" /\ sent = Len(plans[Len(plans)]) /\ await = "returned"
      /\ UNCHANGED <<sendVars, req, table, plans, slot, ledgerVars>>
  BY DEF AllSent, batches, calls
<1>1. IInv' /\ LedgerSound' /\ SignedPlanned' /\ LandedDone'
  BY <1>0, PlansKept
<1>2. CallTypes' /\ PlansSound' /\ Reading'
  BY <1>0 DEF LutIInv, CallTypes, PlansSound, Reading
<1>3. Planned'
  BY <1>0 DEF LutIInv, Planned, lacking, held, ledgerVars
<1>4. Progress'
  <2>1. sent > 0
    <3>1. PlanSound(plans[Len(plans)]) /\ Len(plans[Len(plans)]) # 0
      BY <1>0 DEF LutIInv, Planned, Reading, PlansSound
    <3> QED BY <1>0, <3>1 DEF PlanSound
  <2>2. sender = "withLogs" =>
          \A i \in 1..Len(plans[Len(plans)]) : outcome[<<Len(plans), i>>] = "ok"
    BY <1>0, <2>1, SentSoFar
  <2> QED BY <1>0, <2>2 DEF Progress, sendVars
<1> QED BY <1>1, <1>2, <1>3, <1>4 DEF LutIInv

\* The next batch of the plan is a transaction.
LEMMA SendBatchCalls ==
  ASSUME LutIInv, SendBatch
  PROVE  /\ Len(plans) \in 1..MaxCalls /\ sent \in Nat
         /\ sent + 1 \in 1..Len(plans[Len(plans)])
         /\ <<Len(plans), sent + 1>> \in Tx /\ <<Len(plans), sent + 1>> # NoTx
         /\ Call(<<Len(plans), sent + 1>>)
<1> PICK n \in Nat : n = Len(plans)
  BY DEF LutIInv, PlansSound
<1>0. step = "send" /\ sent < Len(plans[n]) /\ Call(<<n, sent + 1>>)
  BY DEF SendBatch, batches, calls, currentTx
<1>1. n \in 1..MaxCalls /\ n \in 1..n /\ PlanSound(plans[n])
  BY <1>0 DEF LutIInv, Reading, PlansSound
<1>2. sent \in Nat
  <2>1. CASE sending \in Tx
    BY <2>1, CallAssumption DEF sent
  <2>2. CASE sending = NoTx
    BY <2>2 DEF sent
  <2> QED BY <2>1, <2>2 DEF LutIInv, IInv, TypeOK
<1>3. Len(plans[n]) \in Nat /\ Len(plans[n]) <= MaxBatches /\ MaxBatches \in Nat
  BY <1>1, CallAssumption DEF PlanSound
<1>4. sent + 1 \in 1..Len(plans[n]) /\ sent + 1 \in 1..MaxBatches
  BY <1>0, <1>2, <1>3
<1>5. <<n, sent + 1>> \in Tx /\ <<n, sent + 1>> # NoTx
  BY <1>1, <1>4, CallAssumption, TxAssumption
<1> QED BY <1>0, <1>1, <1>2, <1>4, <1>5

LEMMA SendBatchInv ==
  ASSUME LutIInv, SendBatch
  PROVE  LutIInv'
<1> PICK n \in Nat : n = Len(plans)
  BY DEF LutIInv, PlansSound
<1>0. /\ step = "send" /\ (sent = 0 \/ await = "returned")
      /\ Call(<<n, sent + 1>>) /\ UNCHANGED <<callVars, ledgerVars>>
  BY DEF SendBatch, batches, calls, currentTx
<1>1. n \in 1..MaxCalls /\ n \in 1..n
  BY SendBatchCalls
<1>2. sent \in Nat /\ sent + 1 \in 1..Len(plans[n])
  BY SendBatchCalls
<1>5. <<n, sent + 1>> \in Tx /\ <<n, sent + 1>> # NoTx
  BY SendBatchCalls
<1>6. IInv'
  BY <1>0, <1>5, CallInv DEF LutIInv
<1>7. sending' = <<n, sent + 1>> /\ UNCHANGED <<sender, inFlight, outcome>>
  BY <1>0 DEF Call
<1>8. CallTypes' /\ PlansSound' /\ LedgerSound' /\ Reading'
  BY <1>0 DEF callVars, ledgerVars, LutIInv, CallTypes, PlansSound, LedgerSound, OneTable, Reading
<1>9. SignedPlanned'
  BY <1>0, <1>1, <1>2, <1>7 DEF LutIInv, SignedPlanned, callVars
<1>8a. LandedDone'
  BY <1>0, <1>7 DEF LutIInv, LandedDone, BatchDone, held, callVars, ledgerVars
<1>10. Planned'
  <2>1. lacking' = lacking
    BY <1>0 DEF lacking, held, callVars, ledgerVars
  <2> HIDE DEF lacking
  <2> QED BY <1>0, <2>1 DEF LutIInv, Planned, callVars, ledgerVars
<1>11. Progress'
  <2>1. sent' = sent + 1
    BY <1>0, <1>5, <1>7 DEF sent, calls, callVars
  <2>2. sender = "withLogs" => \A i \in 1..sent : outcome[<<n, i>>] = "ok"
    BY <1>0, <1>2, SentSoFar
  <2>3. (sent + 1) - 1 = sent
    BY <1>2
  <2> QED BY <1>0, <1>7, <2>1, <2>2, <2>3 DEF Progress, callVars
<1> QED BY <1>6, <1>8, <1>8a, <1>9, <1>10, <1>11 DEF LutIInv

\* Tables only grow.
LEMMA GrownTable ==
  ASSUME NEW V, NEW s \in Seq(V), NEW k \in V
  PROVE  /\ Append(s, k) \in Seq(V)
         /\ held(s) \subseteq held(Append(s, k)) /\ ToSet(k) \subseteq held(Append(s, k))
<1> PICK n \in Nat : n = Len(s)
  OBVIOUS
<1> PICK r : r = Append(s, k)
  OBVIOUS
<1>1. /\ r \in Seq(V) /\ DOMAIN s = 1..n /\ DOMAIN r = 1..(n + 1)
      /\ r[n + 1] = k /\ \A i \in 1..n : r[i] = s[i] /\ i \in 1..(n + 1)
      /\ n + 1 \in 1..(n + 1)
  OBVIOUS
<1>2. held(s) \subseteq held(r)
  BY <1>1, Zenon DEF held
<1>3. ToSet(k) \subseteq held(r)
  BY <1>1, Zenon DEF held
<1> QED BY <1>1, <1>2, <1>3

\* What a transaction does that is executed.
Executed(b) ==
  \/ /\ b.ops # {} /\ b.keys = <<>> /\ metadata = NoTable
     /\ metadata' = b.table /\ tables' = [x \in {b.table} |-> <<>>]
  \/ /\ b.ops = {} /\ b.keys = <<>> /\ UNCHANGED ledgerVars
  \/ /\ b.ops = {} /\ b.keys # <<>> /\ b.table \in DOMAIN tables
     /\ metadata' = metadata /\ tables' = [tables EXCEPT ![b.table] = Append(@, b.keys)]

TablesGrow ==
  /\ metadata # NoTable => metadata' = metadata
  /\ \A x \in DOMAIN tables : x \in DOMAIN tables' /\ held(tables[x]) \subseteq held(tables'[x])

LEMMA ExecutedEffect ==
  ASSUME LutIInv, NEW t \in inFlight, ExecuteWell(t)
  PROVE  plans[t[1]][t[2]] \in Batch /\ Executed(plans[t[1]][t[2]])
<1>1. t \in Tx
  BY DEF LutIInv, IInv, TypeOK
<1>2. t[1] \in 1..Len(plans) /\ t[2] \in 1..Len(plans[t[1]])
  BY <1>1 DEF LutIInv, SignedPlanned
<1> PICK b : b = plans[t[1]][t[2]]
  OBVIOUS
<1>3. /\ b \in Batch /\ b.ops \in {{}, {"createTable", "initMetadata"}}
      /\ b.ops = {} \/ b.keys = <<>>
  BY <1>1, <1>2, PlanBatch DEF Batch
<1>4. /\ Executable(b)
      /\ metadata' = IF "initMetadata" \in b.ops THEN b.table ELSE metadata
      /\ tables' = IF "createTable" \in b.ops
                   THEN [x \in DOMAIN tables \union {b.table} |->
                           IF x = b.table THEN <<>> ELSE tables[x]]
                   ELSE IF b.keys = <<>> THEN tables
                   ELSE [tables EXCEPT ![b.table] = Append(@, b.keys)]
  BY DEF ExecuteWell, batchOf
<1>5. ASSUME b.ops = {} PROVE Executed(b)
  BY <1>3, <1>4, <1>5 DEF Executed, Executable, ledgerVars
<1>6. ASSUME b.ops = {"createTable", "initMetadata"} PROVE Executed(b)
  <2>1. /\ "createTable" \in b.ops /\ "initMetadata" \in b.ops /\ b.ops # {}
        /\ b.keys = <<>> /\ metadata = NoTable
    BY <1>3, <1>4, <1>6 DEF Executable
  <2>2. DOMAIN tables = {}
    BY <2>1 DEF LutIInv, LedgerSound, OneTable
  <2>3. [x \in DOMAIN tables \union {b.table} |-> IF x = b.table THEN <<>> ELSE tables[x]]
          = [x \in {b.table} |-> <<>>]
    BY <2>2
  <2>4. tables' = [x \in {b.table} |-> <<>>] /\ metadata' = b.table
    BY <1>4, <2>1, <2>3
  <2> QED BY <2>1, <2>4 DEF Executed
<1>7. Executed(b)
  BY <1>3, <1>5, <1>6
<1> QED BY <1>3, <1>7

LEMMA ExecutedLedger ==
  ASSUME LutIInv, NEW b \in Batch, Executed(b)
  PROVE  LedgerSound' /\ TablesGrow /\ BatchDone(b)'
<1>0. /\ b.table \in Table \union {NoTable} /\ b.keys \in Seq(Address)
      /\ b.ops # {} => b.table # NoTable
  BY DEF Batch
<1>1. CASE b.ops # {}
  <2>1. /\ b.keys = <<>> /\ metadata = NoTable /\ metadata' = b.table
        /\ tables' = [x \in {b.table} |-> <<>>] /\ b.table \in Table /\ b.table # NoTable
    BY <1>0, <1>1 DEF Executed
  <2>2. DOMAIN tables' = {b.table} /\ DOMAIN tables = {}
    BY <2>1 DEF LutIInv, LedgerSound, OneTable
  <2>3. LedgerSound'
    BY <2>1, <2>2 DEF LedgerSound, OneTable
  <2> QED BY <2>1, <2>2, <2>3 DEF TablesGrow, BatchDone
<1>2. CASE b.ops = {} /\ b.keys = <<>>
  <2>1. UNCHANGED ledgerVars
    BY <1>2 DEF Executed
  <2> QED BY <1>2, <2>1 DEF LutIInv, LedgerSound, OneTable, ledgerVars, TablesGrow, BatchDone
<1>3. CASE b.ops = {} /\ b.keys # <<>>
  <2>1. /\ b.table \in DOMAIN tables /\ metadata' = metadata
        /\ tables' = [tables EXCEPT ![b.table] = Append(@, b.keys)]
    BY <1>3 DEF Executed
  <2> PICK s : s = tables[b.table]
    OBVIOUS
  <2>2. /\ s \in Seq(Seq(Address)) /\ DOMAIN tables' = DOMAIN tables
        /\ tables'[b.table] = Append(s, b.keys)
        /\ \A x \in DOMAIN tables : x # b.table => tables'[x] = tables[x]
    BY <2>1 DEF LutIInv, LedgerSound
  <2>3. /\ Append(s, b.keys) \in Seq(Seq(Address))
        /\ held(s) \subseteq held(Append(s, b.keys))
        /\ ToSet(b.keys) \subseteq held(Append(s, b.keys))
    BY <1>0, <2>2, GrownTable
  <2>4. LedgerSound'
    <3>1. tables' \in [DOMAIN tables -> Seq(Seq(Address))]
      BY <2>1, <2>3 DEF LutIInv, LedgerSound
    <3> QED BY <2>1, <2>2, <3>1 DEF LutIInv, LedgerSound, OneTable
  <2>5. TablesGrow
    BY <2>1, <2>2, <2>3 DEF TablesGrow
  <2>6. BatchDone(b)'
    BY <1>3, <2>1, <2>2, <2>3 DEF BatchDone
  <2> QED BY <2>4, <2>5, <2>6
<1> QED BY <1>1, <1>2, <1>3

LEMMA ExecuteWellInv ==
  ASSUME LutIInv, NEW t \in inFlight, ExecuteWell(t)
  PROVE  LutIInv'
<1> PICK b : b = plans[t[1]][t[2]]
  OBVIOUS
<1>0. t \in Tx
  BY DEF LutIInv, IInv, TypeOK
<1>1. b \in Batch /\ Executed(b)
  BY ExecutedEffect
<1>2. LedgerSound' /\ TablesGrow /\ BatchDone(b)'
  BY <1>1, ExecutedLedger
<1>3. /\ inFlight' = inFlight \ {t} /\ outcome' = [outcome EXCEPT ![t] = "ok"]
      /\ UNCHANGED <<sender, sending, await>> /\ UNCHANGED callVars /\ Land(t, "ok")
  BY DEF ExecuteWell, Land
<1>4. outcome \in [Tx -> {"none", "ok", "err"}]
  BY DEF LutIInv, IInv, TypeOK
<1>5. IInv'
  BY <1>0, <1>3, NetworkInv DEF Network, LutIInv
<1>6. CallTypes' /\ PlansSound'
  BY <1>3 DEF LutIInv, CallTypes, PlansSound, callVars
<1>7. SignedPlanned'
  BY <1>3, <1>4 DEF LutIInv, SignedPlanned, callVars
<1>8. Reading'
  BY <1>2, <1>3 DEF LutIInv, Reading, callVars, TablesGrow
<1>9. LandedDone'
  <2> SUFFICES ASSUME NEW u \in Tx, outcome'[u] = "ok"
               PROVE  BatchDone(plans[u[1]][u[2]])'
    BY DEF LandedDone
  <2> PICK d : d = plans[u[1]][u[2]]
    OBVIOUS
  <2>1. plans'[u[1]][u[2]] = d
    BY <1>3 DEF callVars
  <2>2. BatchDone(d)'
    <3>1. CASE u = t
      BY <1>2, <3>1
    <3>2. CASE u # t
      <4>1. outcome[u] = "ok"
        BY <1>3, <1>4, <3>2
      <4>2. BatchDone(d)
        BY <4>1 DEF LutIInv, LandedDone
      <4> QED BY <1>2, <4>2 DEF BatchDone, TablesGrow
    <3> QED BY <3>1, <3>2
  <2> QED BY <2>1, <2>2 DEF BatchDone
<1>10. Planned'
  <2>1. lacking' \subseteq lacking
    BY <1>2, <1>3 DEF lacking, TablesGrow, callVars
  <2>2. PlanCovers(plans[Len(plans)], table, lacking)
          => PlanCovers(plans[Len(plans)], table, lacking')
    BY <2>1, Covers
  <2>3. table # NoTable /\ table = metadata => table = metadata'
    BY <1>2 DEF TablesGrow
  <2> QED BY <1>3, <2>2, <2>3 DEF LutIInv, Planned, callVars
<1>11. Progress'
  BY <1>3, <1>4, ProgressKept
<1> QED BY <1>2, <1>5, <1>6, <1>7, <1>8, <1>9, <1>10, <1>11 DEF LutIInv

LEMMA LutNextInv == LutIInv /\ [LutNext]_lutVars => LutIInv'
<1> SUFFICES ASSUME LutIInv, [LutNext]_lutVars
             PROVE  LutIInv'
  OBVIOUS
<1>1. ASSUME NEW r \in Requests, Begin(r)
      PROVE  LutIInv'
  BY <1>1, BeginInv
<1>2. CASE RequestFails \/ Stop
  BY <1>2, EndInv
<1>3. CASE Continue /\ NoEffect
  <2>1. IInv'
    BY <1>3, NextInv DEF Next, LutIInv
  <2> QED BY <1>3, <2>1, ContinueIsNetStep, NetStepInv
<1>4. ASSUME NEW t \in inFlight, Land(t, "err") \/ Drop(t), NoEffect
      PROVE  LutIInv'
  <2>1. t \in Tx /\ IInv
    BY DEF LutIInv, IInv, TypeOK
  <2>2. IInv'
    BY <1>4, <2>1, NetworkInv DEF Network
  <2>3. NetStep
    BY <1>4, <2>1, LossIsNetStep
  <2> QED BY <1>4, <2>2, <2>3, NetStepInv
<1>5. ASSUME NEW t \in inFlight, ExecuteWell(t)
      PROVE  LutIInv'
  BY <1>5, ExecuteWellInv
<1>6. CASE UNCHANGED lutVars
  <2>1. IInv'
    BY <1>6, NextInv DEF lutVars, LutIInv
  <2>2. NetStep /\ NoEffect
    BY <1>6 DEF lutVars, sendVars, NetStep, NoEffect
  <2> QED BY <2>1, <2>2, NetStepInv
<1> QED BY <1>1, <1>2, <1>3, <1>4, <1>5, <1>6, MetadataMissingInv, MetadataFetchedInv,
           TableFetchedInv, SendBatchInv, AllSentInv DEF LutNext

LEMMA LutInvImplies ==
  LutIInv => LutTypeOK /\ OneTable /\ NoRepeatInCall /\ CompleteWhenDone
<1> SUFFICES ASSUME LutIInv PROVE LutTypeOK /\ OneTable /\ NoRepeatInCall /\ CompleteWhenDone
  OBVIOUS
<1> PICK n \in Nat : n = Len(plans)
  BY DEF LutIInv, PlansSound
<1>1. LutTypeOK
  <2>1. \A c \in 1..n : Len(plans[c]) <= MaxBatches
    BY DEF LutIInv, PlansSound, PlanSound
  <2>2. ASSUME NEW c \in 1..n, NEW i \in 2..Len(plans[c])
        PROVE  Len(plans[c][i].keys) \in 1..chunkSize
    <3>1. PlanSound(plans[c])
      BY DEF LutIInv, PlansSound
    <3>2. i \in 1..Len(plans[c]) /\ i # 1
      OBVIOUS
    <3> QED BY <3>1, <3>2, Zenon DEF PlanSound
  <2>3. n \in 0..MaxCalls
    BY CallAssumption DEF LutIInv, PlansSound
  <2> QED BY <2>1, <2>2, <2>3 DEF LutTypeOK, LutIInv, IInv, CallTypes, LedgerSound, calls
<1>2. OneTable
  BY DEF LutIInv, LedgerSound
<1>3. NoRepeatInCall
  BY DEF LutIInv, PlansSound, PlanSound, OnePlace, NoRepeatInCall, calls
<1>4. CompleteWhenDone
  <2> SUFFICES ASSUME step = "done", req.extend, sender = "withLogs"
               PROVE  /\ table \in DOMAIN tables
                      /\ ToSet(getUserLookupTableAddresses(req)) \subseteq held(tables[table])
    BY DEF CompleteWhenDone
  <2> PICK p : p = plans[n]
    OBVIOUS
  <2>1. /\ Len(p) # 0 /\ table # NoTable
        /\ table = metadata \/ (p[1].ops # {} /\ p[1].table = table)
        /\ PlanCovers(p, table, lacking)
    BY DEF LutIInv, Planned
  <2>2. n \in 1..MaxCalls /\ n \in 1..Len(plans) /\ PlanSound(p)
    BY DEF LutIInv, PlansSound, Reading
  <2>3. p \in Seq(Batch) /\ Len(p) <= MaxBatches /\ MaxBatches \in Nat
    BY <2>2, CallAssumption DEF PlanSound
  <2>4. ASSUME NEW i \in 1..Len(p) PROVE BatchDone(p[i])
    <3>1. outcome[<<n, i>>] = "ok"
      BY DEF LutIInv, Progress
    <3>2. <<n, i>> \in Tx
      BY <2>2, <2>3, CallAssumption
    <3>3. \A t \in Tx : outcome[t] = "ok" => BatchDone(plans[t[1]][t[2]])
      BY DEF LutIInv, LandedDone
    <3> PICK t \in Tx : t = <<n, i>>
      BY <3>2
    <3>4. BatchDone(plans[t[1]][t[2]]) /\ t[1] = n /\ t[2] = i
      BY <3>1, <3>3
    <3> QED BY <3>4
  <2>5. table \in DOMAIN tables
    <3>1. CASE table = metadata
      BY <2>1, <3>1 DEF LutIInv, LedgerSound, OneTable
    <3>2. CASE p[1].ops # {} /\ p[1].table = table
      <4>1. 1 \in 1..Len(p)
        BY <2>1, <2>3
      <4> QED BY <2>4, <3>2, <4>1 DEF BatchDone
    <3> QED BY <2>1, <3>1, <3>2
  <2>6. ASSUME NEW x \in lacking PROVE FALSE
    <3> PICK i \in 1..Len(p) : i # 1 /\ x \in ToSet(p[i].keys)
      BY <2>1 DEF PlanCovers
    <3>1. p[i].keys # <<>> /\ p[i].table = table
      BY <2>1 DEF PlanCovers, ToSet
    <3>2. x \in held(tables[table])
      BY <2>4, <3>1 DEF BatchDone
    <3> QED BY <2>5, <3>2 DEF lacking
  <2> QED BY <2>5, <2>6 DEF lacking
<1> QED BY <1>1, <1>2, <1>3, <1>4

-----------------------------------------------------------------------------
\* The calls, the senders and the ledger keep the invariant
\* (userMetadata.ts:32-135, lookupTable.ts:27-55).
THEOREM SetupInvariance == LutSpec => []LutIInv
BY LutInitInv, LutNextInv, PTL DEF LutSpec

\* What a set-up keeps has its type, and an extension fits into a transaction
\* and is not empty (lookupTable.ts:49-52).
THEOREM SetupTypeCorrect == LutSpec => []LutTypeOK
BY SetupInvariance, LutInvImplies, PTL

\* However often the set-up is repeated, and whatever is lost, there is one
\* table and the metadata names it (userMetadata.ts:50-74).
THEOREM AlwaysOneTable == LutSpec => []OneTable
BY SetupInvariance, LutInvImplies, PTL

\* No call asks for an address twice (userMetadata.ts:114-134).
THEOREM NoCallRepeats == LutSpec => []NoRepeatInCall
BY SetupInvariance, LutInvImplies, PTL

\* A program that sends with logs and gets through has every address of its
\* request in the table (userMetadata.ts:88-95, instruction.ts:62-105).
THEOREM SetupCompletes == LutSpec => []CompleteWhenDone
BY SetupInvariance, LutInvImplies, PTL

\* A step of the set-up is one of a sender that sends a transaction, or leaves
\* it alone.
LEMMA SetupStepOfSender == LutIInv /\ [LutNext]_lutVars => [Next]_sendVars
<1> SUFFICES ASSUME LutIInv, [LutNext]_lutVars PROVE [Next]_sendVars
  OBVIOUS
<1>1. CASE SendBatch
  BY <1>1, SendBatchCalls DEF Next
<1>2. CASE Continue /\ NoEffect
  BY <1>2 DEF Next
<1>3. ASSUME NEW t \in inFlight, ExecuteWell(t) \/ Land(t, "err") \/ Drop(t)
      PROVE  Next
  <2>1. t \in Tx
    BY DEF LutIInv, IInv, TypeOK
  <2>2. Network
    BY <1>3, <2>1 DEF Network, ExecuteWell
  <2> QED BY <2>2 DEF Next
<1>4. ASSUME NEW r \in Requests, Begin(r) PROVE UNCHANGED sendVars
  BY <1>4 DEF Begin
<1>5. CASE RequestFails \/ MetadataMissing \/ MetadataFetched \/ TableFetched \/ AllSent \/ Stop
  BY <1>5 DEF RequestFails, MetadataMissing, MetadataFetched, TableFetched, AllSent, Stop
<1>6. CASE UNCHANGED lutVars
  BY <1>6 DEF lutVars
<1> QED BY <1>1, <1>2, <1>3, <1>4, <1>5, <1>6 DEF LutNext

\* The batches go out by one of the two senders: what is proved of the senders
\* holds for them (instruction.ts:62-105, sendTransactionsUtils.ts:106-204).
THEOREM SetupUsesSenders == LutSpec => Spec
<1>1. LutInit => Init
  BY DEF LutInit
<1> QED BY <1>1, SetupStepOfSender, SetupInvariance, PTL DEF LutSpec, Spec

=============================================================================
