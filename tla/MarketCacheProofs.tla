-------------------------- MODULE MarketCacheProofs --------------------------
(***************************************************************************)
(* For every set of reserves and callers and every bound: the cache of a   *)
(* market keeps its shape, its two maps agree, and a call never shows less *)
(* than was settled when it began.                                         *)
(***************************************************************************)
EXTENDS MarketCache, TLAPS

\* The ledger never forgets a reserve nor takes it back to an older content,
\* and stamps each account with the slot that wrote it.
LedgerSound ==
  \A s \in 1..head : \A r \in Reserve :
    /\ ledger[s].accounts[r] # undefined => ledger[s].accounts[r].slot <= s
    /\ \A t \in s..head : NoOlder(ledger[s].accounts[r], ledger[t].accounts[r])

\* A running call asked no earlier than it began, and of nothing newer than
\* settled; it names at most one reserve when it reloads one; and what it has
\* received is no older than what was settled when it began.
CallSound(call) ==
  /\ call.since <= call.asked /\ call.asked <= settled
  /\ call.op # "load" => state # undefined
  /\ call.op = "load" /\ call.pc \in {"reserves", "oracles"} => call.market # undefined
  /\ call.op = "reloadSingleReserve" => \A r, q \in call.wanted : r = q
  /\ call.pc = "recompute" => call.op = "refreshAll"
  /\ call.op \in {"loadReserves", "refreshAll"} => call.known = call.wanted
  /\ call.pc = "oracles" =>
       \A r \in call.wanted : NoOlder(ledger[call.since].accounts[r], call.accounts[r])

CallsSound == \A c \in Caller : Running(c) => CallSound(calls[c])

IInv == TypeOK /\ LedgerSound /\ CallsSound /\ MapsAgree

-----------------------------------------------------------------------------
\* A pc tells a running call from an idle caller.
LEMMA RunningCall ==
  ASSUME TypeOK, NEW c \in Caller
  PROVE  /\ Running(c) => calls[c] \in Call
         /\ ~Running(c) => calls[c] \in {Idle, Threw}
BY DEF TypeOK, Running, Call, Idle, Threw, Pc

\* NoOlder is transitive on accounts.
LEMMA NoOlderTrans ==
  ASSUME NEW a \in MaybeAccount, NEW b \in MaybeAccount, NEW d \in MaybeAccount,
         NoOlder(a, b), NoOlder(b, d)
  PROVE  NoOlder(a, d)
<1>1. CASE a = undefined
  BY <1>1 DEF NoOlder
<1>2. CASE a # undefined
  <2>1. /\ b # undefined /\ d # undefined
        /\ b.slot >= a.slot /\ d.slot >= b.slot
    BY <1>2 DEF NoOlder
  <2>2. a.slot \in Int /\ b.slot \in Int /\ d.slot \in Int
    BY <1>2, <2>1 DEF MaybeAccount, Account
  <2> QED BY <2>1, <2>2 DEF NoOlder
<1> QED BY <1>1, <1>2

\* A slot of the ledger holds accounts.
LEMMA LedgerContent ==
  ASSUME TypeOK, NEW s \in 1..head
  PROVE  /\ ledger[s] \in Content
         /\ ledger[s].market \in LendingMarket
         /\ ledger[s].accounts \in Accounts
         /\ \A r \in Reserve : ledger[s].accounts[r] \in MaybeAccount
<1>1. ledger[s] \in Content
  BY DEF TypeOK, head
<1> QED BY <1>1 DEF Content, Accounts

-----------------------------------------------------------------------------
\* A program that starts has an empty cache and idle callers.
LEMMA InitSound == Init => IInv
<1> SUFFICES ASSUME Init PROVE IInv
  OBVIOUS
<1> USE BoundsAssumption
<1>1. PICK listed \in SUBSET Reserve :
       ledger = <<[market |-> [slot |-> 1, groups |-> 0],
                   accounts |-> [r \in Reserve |->
                     IF r \in listed THEN [slot |-> 1, status |-> 0, group |-> 0]
                     ELSE undefined]]>>
  BY DEF Init
<1>2. head = 1
  BY <1>1 DEF head
<1> DEFINE content == [market |-> [slot |-> 1, groups |-> 0],
                       accounts |-> [r \in Reserve |->
                         IF r \in listed THEN [slot |-> 1, status |-> 0, group |-> 0]
                         ELSE undefined]]
<1>3. ledger = <<content>> /\ ledger[1] = content
  BY <1>1
<1>4. /\ [slot |-> 1, groups |-> 0] \in LendingMarket
      /\ [slot |-> 1, status |-> 0, group |-> 0] \in Account
  BY DEF LendingMarket, Account
<1>5. content \in Content
  BY <1>4 DEF Content, Accounts, MaybeAccount
<1>6. TypeOK
  <2>1. ledger \in Seq(Content)
    BY <1>3, <1>5
  <2>2. NoAccounts \in Accounts /\ keys(NoAccounts) = {}
    BY DEF NoAccounts, Accounts, MaybeAccount, keys
  <2> QED BY <1>2, <2>1, <2>2 DEF TypeOK, Init
<1>7. LedgerSound
  <2> SUFFICES ASSUME NEW s \in 1..head, NEW r \in Reserve
               PROVE  /\ ledger[s].accounts[r] # undefined => ledger[s].accounts[r].slot <= s
                      /\ \A t \in s..head : NoOlder(ledger[s].accounts[r], ledger[t].accounts[r])
    BY DEF LedgerSound
  <2>1. s = 1 /\ \A t \in s..head : t = 1
    BY <1>2
  <2>2. ledger[1].accounts[r] # undefined => ledger[1].accounts[r].slot = 1
    BY <1>3
  <2> QED BY <2>1, <2>2 DEF NoOlder
<1>8. CallsSound
  BY DEF Init, CallsSound, Running, Idle, Pc
<1>9. MapsAgree
  BY DEF Init, MapsAgree, NoAccounts
<1> QED BY <1>6, <1>7, <1>8, <1>9 DEF IInv

\* The ledger grows by a content that keeps every reserve, no older.
LEMMA GrowSound ==
  ASSUME IInv, NEW content \in Content, Grow(content),
         \A r \in Reserve :
           /\ content.accounts[r] # undefined => content.accounts[r].slot <= head + 1
           /\ NoOlder(Current.accounts[r], content.accounts[r])
  PROVE  IInv'
<1> USE BoundsAssumption
<1>1. /\ head \in Nat \ {0} /\ ledger \in Seq(Content)
      /\ ledger' = Append(ledger, content)
      /\ head' = head + 1 /\ head + 1 \in 1..MaxSlot
      /\ UNCHANGED <<settled, state, reserves, reservesActive, calls>>
  BY DEF IInv, TypeOK, Grow, head, market
<1>2. /\ \A s \in 1..head : ledger'[s] = ledger[s]
      /\ ledger'[head + 1] = content
  BY <1>1 DEF head
<1>3. TypeOK'
  <2>1. (ledger \in Seq(Content))'
    BY <1>1
  <2> QED BY <1>1, <2>1 DEF IInv, TypeOK
<1>4. LedgerSound'
  <2> SUFFICES ASSUME NEW s \in 1..(head + 1), NEW r \in Reserve
               PROVE  /\ ledger'[s].accounts[r] # undefined => ledger'[s].accounts[r].slot <= s
                      /\ \A t \in s..(head + 1) : NoOlder(ledger'[s].accounts[r], ledger'[t].accounts[r])
    BY <1>1 DEF LedgerSound, NoOlder
  <2>1. CASE s = head + 1
    <3>1. ledger'[s] = content
      BY <1>2, <2>1
    <3>2. content.accounts[r] \in MaybeAccount
      BY DEF Content, Accounts
    <3>3. NoOlder(content.accounts[r], content.accounts[r])
      BY <3>2 DEF NoOlder, MaybeAccount, Account
    <3>4. \A t \in s..(head + 1) : t = s
      BY <1>1, <2>1
    <3> QED BY <2>1, <3>1, <3>3, <3>4
  <2>2. CASE s \in 1..head
    <3>1. /\ ledger[s].accounts[r] # undefined => ledger[s].accounts[r].slot <= s
          /\ \A t \in s..head : NoOlder(ledger[s].accounts[r], ledger[t].accounts[r])
      BY <2>2 DEF IInv, LedgerSound
    <3>2. NoOlder(ledger[s].accounts[r], content.accounts[r])
      <4>1. NoOlder(ledger[s].accounts[r], Current.accounts[r])
        BY <1>1, <2>2, <3>1 DEF Current
      <4>2. /\ ledger[s].accounts[r] \in MaybeAccount
            /\ Current.accounts[r] \in MaybeAccount
        BY <1>1, <2>2, LedgerContent DEF IInv, Current
      <4>3. content.accounts[r] \in MaybeAccount
        BY DEF Content, Accounts
      <4> QED BY <4>1, <4>2, <4>3, NoOlderTrans
    <3>3. \A t \in s..(head + 1) : t \in s..head \/ t = head + 1
      BY <1>1, <2>2
    <3> QED
      <4> SUFFICES ASSUME NEW t \in s..(head + 1)
                   PROVE  NoOlder(ledger'[s].accounts[r], ledger'[t].accounts[r])
        BY <1>2, <2>2, <3>1
      <4>1. CASE t \in s..head
        <5> HIDE DEF head
        <5>1. t \in 1..head
          BY <1>1, <2>2, <4>1
        <5>2. ledger'[t] = ledger[t] /\ ledger'[s] = ledger[s]
          BY <1>2, <2>2, <5>1
        <5> QED BY <3>1, <4>1, <5>2
      <4>2. CASE t = head + 1
        BY <1>2, <2>2, <3>2, <4>2
      <4> QED BY <3>3, <4>1, <4>2
  <2>3. s = head + 1 \/ s \in 1..head
    BY <1>1
  <2> QED BY <2>1, <2>2, <2>3
<1>5. CallsSound'
  <2> SUFFICES ASSUME NEW c \in Caller, Running(c)
               PROVE  CallSound(calls[c])'
    BY <1>1 DEF CallsSound, Running
  <2>1. CallSound(calls[c]) /\ calls[c] \in Call
    BY RunningCall DEF IInv, CallsSound
  <2>2. calls[c].since \in 1..head
    BY <1>1, <2>1 DEF CallSound, Call, IInv, TypeOK
  <2>3. ledger'[calls[c].since] = ledger[calls[c].since]
    BY <1>2, <2>2
  <2> QED BY <1>1, <2>1, <2>3 DEF CallSound
<1>6. MapsAgree'
  BY <1>1 DEF IInv, MapsAgree
<1> QED BY <1>3, <1>4, <1>5, <1>6 DEF IInv

\* An account written at a slot carries that slot.
LEMMA Rewritten ==
  ASSUME NEW a \in Account, NEW slot \in 1..MaxSlot
  PROVE  /\ [a EXCEPT !.slot = slot, !.status = 1 - @] \in Account
         /\ [a EXCEPT !.slot = slot, !.status = 1 - @].slot = slot
         /\ \A g \in 1..MaxGroup : /\ [a EXCEPT !.slot = slot, !.group = g] \in Account
                                   /\ [a EXCEPT !.slot = slot, !.group = g].slot = slot
<1>1. a.status \in 0..1 /\ a.group \in 0..MaxGroup /\ 1 - a.status \in 0..1
  BY DEF Account
<1>2. /\ [a EXCEPT !.slot = slot, !.status = 1 - @] \in Account
      /\ [a EXCEPT !.slot = slot, !.status = 1 - @].slot = slot
  BY <1>1 DEF Account
<1>3. ASSUME NEW g \in 1..MaxGroup
      PROVE  /\ [a EXCEPT !.slot = slot, !.group = g] \in Account
             /\ [a EXCEPT !.slot = slot, !.group = g].slot = slot
  <2>1. g \in 0..MaxGroup
    BY BoundsAssumption
  <2> QED BY <1>1, <2>1 DEF Account
<1> QED BY <1>2, <1>3

\* Each change of the market's owner writes one account or the market.
LEMMA LedgerStepSound == IInv /\ LedgerStep => IInv'
<1> SUFFICES ASSUME IInv, LedgerStep PROVE IInv'
  OBVIOUS
<1>1. /\ head \in 1..MaxSlot /\ MaxSlot \in Nat
      /\ Current \in Content /\ Current.market \in LendingMarket
      /\ Current.accounts \in Accounts
      /\ \A r \in Reserve : Current.accounts[r] \in MaybeAccount
  BY LedgerContent, BoundsAssumption DEF IInv, TypeOK, Current
<1>2. \A r \in Reserve :
        /\ Current.accounts[r] # undefined => Current.accounts[r].slot <= head
        /\ NoOlder(Current.accounts[r], Current.accounts[r])
  BY <1>1 DEF IInv, LedgerSound, Current
<1>3. ASSUME NEW r \in Reserve, NEW account \in Account,
             SetAccount(r, account), account.slot = head + 1
      PROVE  IInv'
  <2> DEFINE content == [Current EXCEPT !.accounts[r] = account]
  <2>1. content \in Content
    BY <1>1 DEF Content, Accounts, MaybeAccount
  <2>2. \A q \in Reserve :
          content.accounts[q] = IF q = r THEN account ELSE Current.accounts[q]
    BY <1>1 DEF Content, Accounts
  <2>3. account.slot \in Nat
    BY DEF Account
  <2>4. \A q \in Reserve :
          /\ content.accounts[q] # undefined => content.accounts[q].slot <= head + 1
          /\ NoOlder(Current.accounts[q], content.accounts[q])
    <3> SUFFICES ASSUME NEW q \in Reserve
                 PROVE  /\ content.accounts[q] # undefined => content.accounts[q].slot <= head + 1
                        /\ NoOlder(Current.accounts[q], content.accounts[q])
      OBVIOUS
    <3>1. CASE q = r
      <4>1. account # undefined
        BY UndefinedAssumption DEF Account
      <4>2. Current.accounts[q] # undefined => Current.accounts[q].slot <= account.slot
        BY <1>1, <1>2, <1>3, <2>3 DEF MaybeAccount, Account
      <4>3. Current.accounts[q] # undefined => Current.accounts[q].slot \in Nat
        BY <1>1 DEF MaybeAccount, Account
      <4> QED BY <1>1, <1>3, <2>2, <2>3, <3>1, <4>1, <4>2, <4>3 DEF NoOlder
    <3>2. CASE q # r
      <4>1. content.accounts[q] = Current.accounts[q]
        BY <2>2, <3>2
      <4>2. Current.accounts[q] # undefined => Current.accounts[q].slot \in Nat
        BY <1>1 DEF MaybeAccount, Account
      <4> HIDE DEF content
      <4> QED BY <1>1, <1>2, <4>1, <4>2
    <3> QED BY <3>1, <3>2
  <2>5. Grow(content)
    BY <1>3 DEF SetAccount
  <2> HIDE DEF content
  <2> QED BY <2>1, <2>4, <2>5, GrowSound
<1>4. CASE \E r \in Reserve : AddReserve(r) \/ SetStatus(r) \/ (\E g \in 1..MaxGroup : SetGroup(r, g))
  <2> PICK r \in Reserve : AddReserve(r) \/ SetStatus(r) \/ (\E g \in 1..MaxGroup : SetGroup(r, g))
    BY <1>4
  <2>1. head + 1 \in 1..MaxSlot
    <3>1. head < MaxSlot
      BY Zenon DEF AddReserve, SetStatus, SetGroup, SetAccount, Grow
    <3> QED BY <1>1, <3>1
  <2>2. CASE AddReserve(r)
    <3> DEFINE account == [slot |-> head + 1, status |-> 0, group |-> 0]
    <3>1. account \in Account /\ account.slot = head + 1
      BY <2>1, BoundsAssumption DEF Account
    <3>2. SetAccount(r, account)
      BY <2>2 DEF AddReserve
    <3> QED BY <1>3, <3>1, <3>2
  <2>3. CASE SetStatus(r)
    <3> DEFINE account == [Current.accounts[r] EXCEPT !.slot = head + 1, !.status = 1 - @]
    <3>1. Current.accounts[r] \in Account
      BY <1>1, <2>3 DEF SetStatus, MaybeAccount
    <3>2. account \in Account /\ account.slot = head + 1
      BY <2>1, <3>1, Rewritten
    <3>3. SetAccount(r, account)
      BY <2>3 DEF SetStatus
    <3> QED BY <1>3, <3>2, <3>3
  <2>4. ASSUME NEW g \in 1..MaxGroup, SetGroup(r, g)
        PROVE  IInv'
    <3> DEFINE account == [Current.accounts[r] EXCEPT !.slot = head + 1, !.group = g]
    <3>1. Current.accounts[r] \in Account
      BY <1>1, <2>4 DEF SetGroup, MaybeAccount
    <3>2. account \in Account /\ account.slot = head + 1
      BY <2>1, <3>1, Rewritten
    <3>3. SetAccount(r, account)
      BY <2>4 DEF SetGroup
    <3> QED BY <1>3, <3>2, <3>3
  <2> QED BY <2>2, <2>3, <2>4
<1>5. CASE AddGroup
  <2> DEFINE content == [Current EXCEPT !.market = [slot |-> head + 1, groups |-> @.groups + 1]]
  <2>1. Grow(content) /\ head + 1 \in 1..MaxSlot /\ Current.market.groups + 1 \in 0..MaxGroup
    BY <1>1, <1>5, BoundsAssumption DEF AddGroup, Grow, LendingMarket
  <2>2. content \in Content /\ content.accounts = Current.accounts
    BY <1>1, <2>1 DEF Content, LendingMarket
  <2>3. \A q \in Reserve :
          /\ content.accounts[q] # undefined => content.accounts[q].slot <= head + 1
          /\ NoOlder(Current.accounts[q], content.accounts[q])
    <3> SUFFICES ASSUME NEW q \in Reserve
                 PROVE  /\ content.accounts[q] # undefined => content.accounts[q].slot <= head + 1
                        /\ NoOlder(Current.accounts[q], content.accounts[q])
      OBVIOUS
    <3>1. Current.accounts[q] # undefined => Current.accounts[q].slot \in Nat
      BY <1>1 DEF MaybeAccount, Account
    <3> HIDE DEF content
    <3> QED BY <1>1, <1>2, <2>2, <3>1
  <2> HIDE DEF content
  <2> QED BY <2>1, <2>2, <2>3, GrowSound
<1>6. CASE Settle
  <2>1. /\ settled' = settled + 1 /\ settled < head /\ settled \in 1..head /\ head' = head
        /\ UNCHANGED <<ledger, state, reserves, reservesActive, calls>>
    BY <1>6 DEF Settle, market, IInv, TypeOK, head
  <2>2. TypeOK'
    <3>1. settled' \in 1..head
      BY <1>1, <2>1
    <3> QED BY <2>1, <3>1 DEF IInv, TypeOK
  <2>3. LedgerSound' /\ MapsAgree'
    BY <2>1 DEF IInv, LedgerSound, MapsAgree
  <2>4. CallsSound'
    <3> SUFFICES ASSUME NEW c \in Caller, Running(c)
                 PROVE  CallSound(calls[c])'
      BY <2>1 DEF CallsSound, Running
    <3>1. CallSound(calls[c]) /\ calls[c].asked \in Nat
      BY RunningCall DEF IInv, CallsSound, Call
    <3>2. calls[c].asked <= settled'
      BY <1>1, <2>1, <3>1 DEF CallSound
    <3> QED BY <2>1, <3>1, <3>2 DEF CallSound
  <2> QED BY <2>2, <2>3, <2>4 DEF IInv
<1> QED BY <1>4, <1>5, <1>6 DEF LedgerStep

-----------------------------------------------------------------------------
\* A step of one caller that leaves the ledger alone keeps the invariant when
\* it keeps the cache sound and what it writes to its own call is sound.
LEMMA CallerStepSound ==
  ASSUME IInv, NEW c \in Caller, NEW call \in Call \union {Idle, Threw},
         UNCHANGED <<ledger, settled>>,
         calls' = [calls EXCEPT ![c] = call],
         call \in Call => CallSound(call)',
         state' \in LendingMarket \union {undefined},
         state # undefined => state' # undefined,
         reserves' \in Accounts, reservesActive' \in Accounts,
         state' = undefined => keys(reserves)' \union keys(reservesActive)' = {},
         MapsAgree'
  PROVE  IInv'
<1>1. head' = head
  BY DEF head
<1>2. TypeOK'
  BY <1>1 DEF IInv, TypeOK
<1>3. LedgerSound'
  BY <1>1 DEF IInv, LedgerSound
<1>4. CallsSound'
  <2> SUFFICES ASSUME NEW d \in Caller, Running(d)'
               PROVE  CallSound(calls[d])'
    BY DEF CallsSound
  <2>1. CASE d = c
    <3>1. calls'[d] = call
      BY <2>1 DEF IInv, TypeOK
    <3>2. call \in Call
      BY <3>1 DEF Running, Idle, Threw, Pc
    <3> QED BY <3>1, <3>2
  <2>2. CASE d # c
    <3>1. calls'[d] = calls[d]
      BY <2>2 DEF IInv, TypeOK
    <3>2. CallSound(calls[d])
      BY <3>1 DEF IInv, CallsSound, Running
    <3> QED BY <3>1, <3>2 DEF CallSound
  <2> QED BY <2>1, <2>2
<1> QED BY <1>2, <1>3, <1>4 DEF IInv

\* That another call began changes nothing else of a call.
LEMMA Interrupted ==
  ASSUME NEW call \in Call, CallSound(call)
  PROVE  /\ [call EXCEPT !.alone = FALSE] \in Call
         /\ CallSound([call EXCEPT !.alone = FALSE])
<1> DEFINE next == [call EXCEPT !.alone = FALSE]
<1>1. /\ next.op = call.op /\ next.pc = call.pc /\ next.asked = call.asked
      /\ next.wanted = call.wanted /\ next.market = call.market
      /\ next.accounts = call.accounts /\ next.since = call.since
      /\ next.known = call.known
  BY DEF Call
<1>2. next \in Call
  BY DEF Call
<1> HIDE DEF next
<1>3. CallSound(next)
  BY <1>1 DEF CallSound
<1> QED BY <1>2, <1>3 DEF next

\* A call that starts has received nothing, or an account that was current
\* when the last settled slot was.
LEMMA StartSound ==
  ASSUME IInv, NEW c \in Caller, NEW op \in Op, NEW pc \in {"market", "reserves", "oracles"},
         NEW wanted \in SUBSET Reserve, NEW accounts \in Accounts,
         Start(c, op, pc, wanted, accounts),
         op # "load" => state # undefined,
         op = "load" => pc = "market",
         op = "reloadSingleReserve" => \A r, q \in wanted : r = q,
         op \in {"loadReserves", "refreshAll"} => wanted = keys(reserves),
         pc = "oracles" => \A r \in wanted : NoOlder(ledger[settled].accounts[r], accounts[r])
  PROVE  IInv'
<1> DEFINE begun == [op |-> op, pc |-> pc, asked |-> settled, wanted |-> wanted,
                     market |-> undefined, accounts |-> accounts, since |-> settled,
                     known |-> keys(reserves), alone |-> \A e \in Caller : ~Running(e)]
           others == [d \in Caller |-> IF d # c /\ Running(d)
                                       THEN [calls[d] EXCEPT !.alone = FALSE] ELSE calls[d]]
<1>1. /\ calls' = [d \in Caller |-> IF d = c THEN begun
                   ELSE IF Running(d) THEN [calls[d] EXCEPT !.alone = FALSE] ELSE calls[d]]
      /\ UNCHANGED <<ledger, settled, state, reserves, reservesActive>>
      /\ head' = head
  BY DEF Start, market, head
<1>2. settled \in Nat /\ settled \in 1..MaxSlot
  BY BoundsAssumption DEF IInv, TypeOK
<1>3. begun \in Call
  <2>1. keys(reserves) \in SUBSET Reserve /\ pc \in Pc
    BY DEF keys, Pc
  <2>2. (\A e \in Caller : ~Running(e)) \in BOOLEAN
    OBVIOUS
  <2> QED BY <1>2, <2>1, <2>2 DEF Call
<1>4. CallSound(begun)
  BY <1>2 DEF CallSound
<1>5. ASSUME NEW d \in Caller
      PROVE  /\ calls'[d] \in Call \union {Idle, Threw}
             /\ Running(d)' => CallSound(calls'[d])
  <2>1. CASE d = c
    BY <1>1, <1>3, <1>4, <2>1
  <2>2. CASE d # c /\ Running(d)
    <3>1. calls[d] \in Call /\ CallSound(calls[d])
      BY <2>2, RunningCall DEF IInv, CallsSound
    <3>2. calls'[d] = [calls[d] EXCEPT !.alone = FALSE]
      BY <1>1, <2>2
    <3>3. /\ [calls[d] EXCEPT !.alone = FALSE] \in Call
          /\ CallSound([calls[d] EXCEPT !.alone = FALSE])
      BY <3>1, Interrupted
    <3> QED BY <3>2, <3>3
  <2>3. CASE d # c /\ ~Running(d)
    <3>1. calls'[d] = calls[d] /\ calls[d] \in {Idle, Threw}
      BY <1>1, <2>3, RunningCall DEF IInv
    <3> QED BY <2>3, <3>1 DEF Running
  <2> QED BY <2>1, <2>2, <2>3
<1>6. calls' \in [Caller -> Call \union {Idle, Threw}]
  <2>1. calls' = [d \in Caller |-> calls'[d]]
    BY <1>1
  <2> QED BY <1>5, <2>1
<1>7. TypeOK'
  BY <1>1, <1>6 DEF IInv, TypeOK, keys
<1>8. LedgerSound' /\ MapsAgree'
  BY <1>1 DEF IInv, LedgerSound, MapsAgree
<1>9. CallsSound'
  <2> SUFFICES ASSUME NEW d \in Caller, Running(d)'
               PROVE  CallSound(calls[d])'
    BY DEF CallsSound
  <2>1. CallSound(calls'[d])
    BY <1>5
  <2> QED BY <1>1, <2>1 DEF CallSound
<1> QED BY <1>7, <1>8, <1>9 DEF IInv

\* Every call of the market starts soundly.
LEMMA StartCallSound == ASSUME IInv, NEW c \in Caller, StartCall(c) PROVE IInv'
<1>1. /\ reserves \in Accounts /\ NoAccounts \in Accounts
      /\ keys(reserves) \in SUBSET Reserve /\ Reserve \in SUBSET Reserve
      /\ settled \in 1..head /\ settled \in Nat /\ head \in Nat
  BY DEF IInv, TypeOK, NoAccounts, Accounts, MaybeAccount, keys, head
<1>2. CASE Load(c)
  BY <1>1, <1>2, StartSound DEF Load, Op
<1>3. CASE Reload(c)
  BY <1>1, <1>3, StartSound DEF Reload, Op
<1>4. CASE LoadReserves(c)
  BY <1>1, <1>4, StartSound DEF LoadReserves, refreshedKeys, Op
<1>5. CASE RefreshAll(c)
  BY <1>1, <1>5, StartSound DEF RefreshAll, refreshedKeys, Op
<1>6. ASSUME NEW r \in Reserve, ReloadSingleReserve(c, r)
      PROVE  IInv'
  BY <1>1, <1>6, StartSound DEF ReloadSingleReserve, Op
<1>7. ASSUME NEW r \in Reserve, NEW slot \in settled..head, ReloadSingleReserveGiven(c, r, slot)
      PROVE  IInv'
  <2> DEFINE given == [NoAccounts EXCEPT ![r] = ledger[slot].accounts[r]]
  <2>1. slot \in 1..head /\ ledger[slot].accounts[r] \in MaybeAccount
    BY <1>1, LedgerContent DEF IInv
  <2>2. given \in Accounts /\ given[r] = ledger[slot].accounts[r]
    BY <2>1 DEF NoAccounts, Accounts, MaybeAccount
  <2>3. NoOlder(ledger[settled].accounts[r], given[r])
    BY <1>1, <2>2 DEF IInv, LedgerSound
  <2>4. /\ state # undefined
        /\ Start(c, "reloadSingleReserve", "oracles", {r}, given)
    BY <1>7 DEF ReloadSingleReserveGiven
  <2> HIDE DEF given
  <2> QED BY <2>2, <2>3, <2>4, StartSound DEF Op
<1> QED BY <1>2, <1>3, <1>4, <1>5, <1>6, <1>7 DEF StartCall

\* The slots that may answer a pending request are in the ledger, and none of
\* them is older than the slot that was settled when the call began.
LEMMA AnswerSlots ==
  ASSUME IInv, NEW c \in Caller, Running(c), NEW slot \in calls[c].asked..head
  PROVE  /\ slot \in 1..head /\ calls[c].since \in 1..head
         /\ slot \in calls[c].since..head
         /\ \A r \in Reserve :
              NoOlder(ledger[calls[c].since].accounts[r], ledger[slot].accounts[r])
<1>1. calls[c] \in Call /\ CallSound(calls[c]) /\ settled \in 1..head /\ head \in Nat
  BY RunningCall DEF IInv, CallsSound, TypeOK, head
<1>2. /\ calls[c].since \in Nat /\ calls[c].since >= 1 /\ calls[c].asked \in Nat
      /\ calls[c].since <= calls[c].asked /\ calls[c].asked <= settled
  BY <1>1, BoundsAssumption DEF Call, CallSound
<1>3. /\ slot \in 1..head /\ calls[c].since \in 1..head /\ slot \in calls[c].since..head
  BY <1>1, <1>2
<1> QED BY <1>3 DEF IInv, LedgerSound

\* The market of any slot is a market, and that of a reload replaces one.
LEMMA MarketFetchedSound == ASSUME IInv, NEW c \in Caller, MarketFetched(c) PROVE IInv'
<1>1. Running(c) /\ calls[c].pc = "market"
  BY DEF MarketFetched, Pending, Running, Pc
<1>2. calls[c] \in Call /\ CallSound(calls[c])
  BY <1>1, RunningCall DEF IInv, CallsSound
<1>3. PICK slot \in calls[c].asked..head :
        /\ state' = shownWhenFetched(c, ledger[slot].market)
        /\ calls' = [calls EXCEPT ![c].pc = "reserves", ![c].asked = settled,
                                  ![c].market = ledger[slot].market]
  BY DEF MarketFetched
<1>4. UNCHANGED <<ledger, settled, reserves, reservesActive>>
  BY DEF MarketFetched
<1>5. ledger[slot].market \in LendingMarket /\ ledger[slot].market # undefined
  <2>1. ledger[slot].market \in LendingMarket
    BY <1>1, AnswerSlots, LedgerContent DEF IInv
  <2> QED BY <2>1, UndefinedAssumption, BoundsAssumption DEF LendingMarket
<1> PICK call : call = [calls[c] EXCEPT !.pc = "reserves", !.asked = settled,
                                        !.market = ledger[slot].market]
  OBVIOUS
<1>6. calls' = [calls EXCEPT ![c] = call]
  BY <1>3
<1>7. settled \in 1..MaxSlot /\ settled \in Nat /\ calls[c].since \in Nat
  BY <1>2, BoundsAssumption DEF IInv, TypeOK, Call
<1>8. /\ call.op = calls[c].op /\ call.pc = "reserves" /\ call.asked = settled
      /\ call.wanted = calls[c].wanted /\ call.market = ledger[slot].market
      /\ call.since = calls[c].since /\ call.known = calls[c].known
      /\ call \in Call
  BY <1>2, <1>5, <1>7 DEF Call, Pc
<1>9. /\ state' \in LendingMarket \union {undefined}
      /\ state # undefined => state' # undefined
  BY <1>3, <1>5 DEF shownWhenFetched, IInv, TypeOK
<1>10. CallSound(call)'
  <2>1. call.since <= settled
    BY <1>2, <1>7, <1>8 DEF CallSound, Call
  <2> QED BY <1>2, <1>4, <1>5, <1>7, <1>8, <1>9, <2>1 DEF CallSound
<1>11. /\ reserves' \in Accounts /\ reservesActive' \in Accounts
       /\ state' = undefined => keys(reserves)' \union keys(reservesActive)' = {}
  BY <1>4, <1>9 DEF IInv, TypeOK, keys
<1>12. MapsAgree'
  BY <1>4 DEF IInv, MapsAgree
<1> QED BY <1>4, <1>6, <1>8, <1>9, <1>10, <1>11, <1>12, CallerStepSound

\* The accounts of the answering slot are no older than what was settled when
\* the call began, and an account that must exist does.
LEMMA ReservesFetchedSound == ASSUME IInv, NEW c \in Caller, ReservesFetched(c) PROVE IInv'
<1>1. Running(c) /\ calls[c].pc = "reserves"
  BY DEF ReservesFetched, Pending, Running, Pc
<1>2. calls[c] \in Call /\ CallSound(calls[c])
  BY <1>1, RunningCall DEF IInv, CallsSound
<1>3. UNCHANGED <<ledger, settled, state, reserves, reservesActive>>
  BY DEF ReservesFetched, market
<1>4. /\ state' \in LendingMarket \union {undefined}
      /\ state # undefined => state' # undefined
      /\ reserves' \in Accounts /\ reservesActive' \in Accounts
      /\ state' = undefined => keys(reserves)' \union keys(reservesActive)' = {}
      /\ MapsAgree'
  BY <1>3 DEF IInv, TypeOK, MapsAgree, keys
<1>5. PICK slot \in calls[c].asked..head :
        calls' = [calls EXCEPT ![c] =
          IF \E r \in mustExist(c) : ledger[slot].accounts[r] = undefined THEN Threw
          ELSE [@ EXCEPT !.pc = "oracles", !.asked = settled,
                         !.accounts = [r \in Reserve |-> IF r \in calls[c].wanted
                                       THEN ledger[slot].accounts[r] ELSE undefined]]]
  BY DEF ReservesFetched
<1>6. /\ slot \in 1..head
      /\ \A r \in Reserve : NoOlder(ledger[calls[c].since].accounts[r], ledger[slot].accounts[r])
      /\ \A r \in Reserve : ledger[slot].accounts[r] \in MaybeAccount
  <2>1. slot \in 1..head
    BY <1>1, AnswerSlots
  <2> QED BY <1>1, <2>1, AnswerSlots, LedgerContent DEF IInv
<1>7. CASE \E r \in mustExist(c) : ledger[slot].accounts[r] = undefined
  <2>1. calls' = [calls EXCEPT ![c] = Threw]
    BY <1>5, <1>7
  <2>2. Threw \notin Call
    BY DEF Threw, Call, Pc
  <2> QED BY <1>3, <1>4, <2>1, <2>2, CallerStepSound
<1>8. CASE ~\E r \in mustExist(c) : ledger[slot].accounts[r] = undefined
  <2> PICK found : found = [r \in Reserve |-> IF r \in calls[c].wanted
                                              THEN ledger[slot].accounts[r] ELSE undefined]
    OBVIOUS
  <2>1. found \in Accounts
    BY <1>6 DEF Accounts, MaybeAccount
  <2>2. \A r \in calls[c].wanted : NoOlder(ledger[calls[c].since].accounts[r], found[r])
    BY <1>2, <1>6 DEF Call
  <2> PICK call : call = [calls[c] EXCEPT !.pc = "oracles", !.asked = settled, !.accounts = found]
    OBVIOUS
  <2>3. calls' = [calls EXCEPT ![c] = call]
    BY <1>5, <1>8
  <2>4. /\ settled \in 1..MaxSlot /\ settled \in Nat
        /\ calls[c].since \in Nat /\ calls[c].asked \in Nat
    BY <1>2, BoundsAssumption DEF IInv, TypeOK, Call
  <2>5. /\ call.op = calls[c].op /\ call.pc = "oracles" /\ call.asked = settled
        /\ call.wanted = calls[c].wanted /\ call.market = calls[c].market
        /\ call.since = calls[c].since /\ call.known = calls[c].known
        /\ call.accounts = found
        /\ call \in Call
    BY <1>2, <2>1, <2>4 DEF Call, Pc
  <2>6. CallSound(call)'
    <3>1. call.since <= settled
      BY <1>2, <2>4, <2>5 DEF CallSound
    <3> QED BY <1>1, <1>2, <1>3, <2>2, <2>4, <2>5, <3>1 DEF CallSound
  <2> QED BY <1>3, <1>4, <2>3, <2>5, <2>6, CallerStepSound
<1> QED BY <1>7, <1>8

\* reservesActive holds of a map what getReservesActive leaves in it.
LEMMA ActiveOf ==
  ASSUME NEW map \in Accounts
  PROVE  /\ getReservesActive(map) \in Accounts
         /\ \A r \in Reserve :
              /\ getReservesActive(map)[r] # undefined => getReservesActive(map)[r] = map[r]
              /\ map[r] # undefined /\ map[r].status = 0 => getReservesActive(map)[r] # undefined
         /\ keys(map) = {} => keys(getReservesActive(map)) = {}
BY DEF getReservesActive, Accounts, MaybeAccount, keys

\* What a call leaves behind when it has returned, or has only its active
\* reserves left to compute.
LEMMA FilledSound ==
  ASSUME IInv, NEW c \in Caller, Running(c), calls[c].pc \in {"oracles", "recompute"},
         UNCHANGED <<ledger, settled>>,
         \/ calls' = [calls EXCEPT ![c] = Idle]
         \/ calls[c].op = "refreshAll" /\ calls' = [calls EXCEPT ![c].pc = "recompute"],
         state' \in LendingMarket, reserves' \in Accounts, reservesActive' \in Accounts,
         MapsAgree'
  PROVE  IInv'
<1>1. calls[c] \in Call /\ CallSound(calls[c])
  BY RunningCall DEF IInv, CallsSound
<1>2. state' # undefined
  BY UndefinedAssumption, BoundsAssumption DEF LendingMarket
<1>3. CASE calls' = [calls EXCEPT ![c] = Idle]
  <2>1. Idle \notin Call
    BY DEF Idle, Call, Pc
  <2> QED BY <1>2, <1>3, <2>1, CallerStepSound
<1>4. CASE calls[c].op = "refreshAll" /\ calls' = [calls EXCEPT ![c].pc = "recompute"]
  <2> PICK call : call = [calls[c] EXCEPT !.pc = "recompute"]
    OBVIOUS
  <2>1. /\ call.op = "refreshAll" /\ call.pc = "recompute" /\ call.asked = calls[c].asked
        /\ call.wanted = calls[c].wanted /\ call.since = calls[c].since
        /\ call.known = calls[c].known
        /\ call \in Call
    BY <1>1, <1>4 DEF Call, Pc
  <2>2. CallSound(call)'
    BY <1>1, <1>2, <1>4, <2>1 DEF CallSound
  <2>3. calls' = [calls EXCEPT ![c] = call]
    BY <1>4
  <2> QED BY <1>2, <2>1, <2>2, <2>3, CallerStepSound
<1> QED BY <1>3, <1>4

\* One fetched reserve goes into both maps; all of them replace both.
LEMMA OraclesFetchedSound == ASSUME IInv, NEW c \in Caller, OraclesFetched(c) PROVE IInv'
<1>1. Running(c) /\ calls[c].pc = "oracles"
  BY DEF OraclesFetched, Pending, Running, Pc
<1>2. calls[c] \in Call /\ CallSound(calls[c]) /\ calls[c].accounts \in Accounts
  BY <1>1, RunningCall DEF IInv, CallsSound, Call
<1>3. /\ UNCHANGED <<ledger, settled>>
      /\ state' = shownWhenLoaded(c)
      /\ \/ calls' = [calls EXCEPT ![c] = Idle]
         \/ calls[c].op = "refreshAll" /\ calls' = [calls EXCEPT ![c].pc = "recompute"]
  BY DEF OraclesFetched
<1>4. state' \in LendingMarket
  BY <1>1, <1>2, <1>3 DEF shownWhenLoaded, CallSound, Call, IInv, TypeOK
<1>5. CASE calls[c].op = "reloadSingleReserve"
  <2>1. PICK r \in calls[c].wanted :
          /\ reserves' = [reserves EXCEPT ![r] = calls[c].accounts[r]]
          /\ reservesActive' = [reservesActive EXCEPT ![r] = calls[c].accounts[r]]
    BY <1>5 DEF OraclesFetched, setActive
  <2>2. reserves \in Accounts /\ reservesActive \in Accounts /\ r \in Reserve
    BY <1>2 DEF IInv, TypeOK, Call
  <2>3. calls[c].accounts[r] \in MaybeAccount
    BY <1>2, <2>2 DEF Accounts
  <2>4. reserves' \in Accounts /\ reservesActive' \in Accounts
    BY <2>1, <2>2, <2>3 DEF Accounts
  <2>5. MapsAgree'
    BY <2>1, <2>2 DEF IInv, MapsAgree, Accounts
  <2> QED BY <1>1, <1>3, <1>4, <2>4, <2>5, FilledSound
<1>6. CASE calls[c].op # "reloadSingleReserve"
  <2>1. /\ reserves' = calls[c].accounts
        /\ reservesActive' = getReservesActive(calls[c].accounts)
    BY <1>6 DEF OraclesFetched
  <2>2. reserves' \in Accounts /\ reservesActive' \in Accounts /\ MapsAgree'
    BY <1>2, <2>1, ActiveOf DEF MapsAgree
  <2> QED BY <1>1, <1>3, <1>4, <2>2, FilledSound
<1> QED BY <1>5, <1>6

\* A call that throws leaves the market as it is.
LEMMA RejectSound == ASSUME IInv, NEW c \in Caller, Reject(c) PROVE IInv'
<1>1. /\ UNCHANGED <<ledger, settled, state, reserves, reservesActive>>
      /\ calls' = [calls EXCEPT ![c] = Threw]
  BY DEF Reject, market
<1>2. Threw \notin Call
  BY DEF Threw, Call, Pc
<1>3. /\ state' \in LendingMarket \union {undefined}
      /\ state # undefined => state' # undefined
      /\ reserves' \in Accounts /\ reservesActive' \in Accounts
      /\ state' = undefined => keys(reserves)' \union keys(reservesActive)' = {}
      /\ MapsAgree'
  BY <1>1 DEF IInv, TypeOK, MapsAgree, keys
<1> QED BY <1>1, <1>2, <1>3, CallerStepSound

\* refreshAll computes the active reserves from whatever map is there by then.
LEMMA RecomputeActiveSound == ASSUME IInv, NEW c \in Caller, RecomputeActive(c) PROVE IInv'
<1>1. Running(c) /\ calls[c].pc = "recompute"
  BY DEF RecomputeActive, Pending, Running, Pc
<1>2. calls[c] \in Call /\ CallSound(calls[c])
  BY <1>1, RunningCall DEF IInv, CallsSound
<1>3. state \in LendingMarket /\ reserves \in Accounts
  BY <1>1, <1>2 DEF CallSound, IInv, TypeOK
<1>4. /\ UNCHANGED <<ledger, settled, state, reserves>>
      /\ reservesActive' = getReservesActive(reserves)
      /\ calls' = [calls EXCEPT ![c] = Idle]
  BY DEF RecomputeActive
<1>5. reservesActive' \in Accounts /\ MapsAgree'
  BY <1>3, <1>4, ActiveOf DEF MapsAgree
<1> QED BY <1>1, <1>3, <1>4, <1>5, FilledSound

\* Steps that change nothing keep everything.
LEMMA StutterSound == IInv /\ UNCHANGED vars => IInv'
BY DEF IInv, vars, market, TypeOK, LedgerSound, CallsSound, CallSound, Running, MapsAgree, keys, head

LEMMA StepSound == IInv /\ [Next]_vars => IInv'
<1> SUFFICES ASSUME IInv, Next PROVE IInv'
  BY StutterSound
<1>1. CASE LedgerStep
  BY <1>1, LedgerStepSound
<1>2. ASSUME NEW c \in Caller, StartCall(c) PROVE IInv'
  BY <1>2, StartCallSound
<1>3. ASSUME NEW c \in Caller, Continue(c) PROVE IInv'
  BY <1>3, MarketFetchedSound, ReservesFetchedSound, OraclesFetchedSound, RejectSound,
     RecomputeActiveSound DEF Continue
<1> QED BY <1>1, <1>2, <1>3 DEF Next

-----------------------------------------------------------------------------
\* IInv holds of every behaviour: it relates what the calls under way have
\* received to the history of the ledger.
THEOREM Invariance == Spec => []IInv
BY InitSound, StepSound, PTL DEF Spec

\* The cache and the pending calls keep their shape, and nothing is cached
\* before there is a market.
THEOREM TypeCorrect == Spec => []TypeOK
<1>1. IInv => TypeOK
  BY DEF IInv
<1> QED BY <1>1, Invariance, PTL

\* However many calls of however many callers overlap, reservesActive and
\* reserves hold the same objects, and every active reserve is in both.
THEOREM MapsAlwaysAgree == Spec => []MapsAgree
<1>1. IInv => MapsAgree
  BY DEF IInv
<1> QED BY <1>1, Invariance, PTL

\* A call that starts stops at its first request; the others stay where they are.
LEMMA StartedElsewhere ==
  ASSUME IInv, NEW c \in Caller, Running(c), NEW d \in Caller, StartCall(d)
  PROVE  ~Running(d) /\ calls'[c].pc = calls[c].pc
<1>1. ASSUME NEW op, NEW pc, NEW wanted, NEW accounts, Start(d, op, pc, wanted, accounts)
      PROVE  ~Running(d) /\ calls'[c].pc = calls[c].pc
  <2>1. ~Running(d) /\ c # d
    BY <1>1 DEF Start
  <2>2. calls'[c] = [calls[c] EXCEPT !.alone = FALSE]
    BY <1>1, <2>1 DEF Start
  <2>3. calls[c] \in Call
    BY RunningCall DEF IInv
  <2> QED BY <2>1, <2>2, <2>3 DEF Call
<1> QED BY <1>1 DEF StartCall, Load, Reload, LoadReserves, RefreshAll, ReloadSingleReserve,
                    ReloadSingleReserveGiven

\* A call that fills the cache fills it with what it fetched.
LEMMA InstallShows ==
  ASSUME IInv, [Next]_vars, NEW c \in Caller, Installs(c), NEW r \in promised(calls[c])
  PROVE  NoOlder(ledger[calls[c].since].accounts[r], reserves'[r])
<1>1. Running(c) /\ calls[c].pc = "oracles" /\ calls'[c].pc \in {"idle", "recompute"}
  BY DEF Installs, Pending, Running, Pc
<1>2. calls[c] \in Call /\ CallSound(calls[c])
  BY <1>1, RunningCall DEF IInv, CallsSound
<1>3. r \in calls[c].wanted /\ r \in Reserve
  BY <1>2 DEF promised, CallSound, Call
<1>4. NoOlder(ledger[calls[c].since].accounts[r], calls[c].accounts[r])
  BY <1>1, <1>2, <1>3 DEF CallSound
<1>5. OraclesFetched(c)
  <2>1. calls'[c] # calls[c] /\ Next
    BY <1>1 DEF vars
  <2>2. ASSUME LedgerStep PROVE FALSE
    BY <2>1, <2>2 DEF LedgerStep, AddReserve, SetStatus, SetGroup, AddGroup, SetAccount, Grow, Settle
  <2>3. ASSUME NEW d \in Caller, StartCall(d) PROVE FALSE
    <3>1. calls'[c].pc = "oracles"
      BY <1>1, <2>3, StartedElsewhere
    <3> QED BY <1>1, <3>1
  <2>4. ASSUME NEW d \in Caller, d # c, Continue(d) PROVE FALSE
    <3>1. calls'[c] = calls[c]
      BY <2>4 DEF Continue, MarketFetched, ReservesFetched, OraclesFetched, Reject,
                  RecomputeActive, IInv, TypeOK
    <3> QED BY <2>1, <3>1
  <2>5. Continue(c)
    BY <2>1, <2>2, <2>3, <2>4 DEF Next
  <2>6. ~MarketFetched(c) /\ ~ReservesFetched(c) /\ ~RecomputeActive(c)
    BY <1>1 DEF MarketFetched, ReservesFetched, RecomputeActive, Pending
  <2>7. ~Reject(c)
    BY <1>1 DEF Reject, Threw, IInv, TypeOK
  <2> QED BY <2>5, <2>6, <2>7 DEF Continue
<1>6. reserves'[r] = calls[c].accounts[r]
  <2>1. CASE calls[c].op = "reloadSingleReserve"
    <3>1. PICK q \in calls[c].wanted : reserves' = [reserves EXCEPT ![q] = calls[c].accounts[q]]
      BY <1>5, <2>1 DEF OraclesFetched
    <3>2. q = r
      BY <1>2, <1>3, <2>1 DEF CallSound
    <3> QED BY <1>3, <3>1, <3>2 DEF IInv, TypeOK, Accounts
  <2>2. CASE calls[c].op # "reloadSingleReserve"
    BY <1>5, <2>2 DEF OraclesFetched
  <2> QED BY <2>1, <2>2
<1> QED BY <1>4, <1>6

\* Whatever the order of replies and the lag of nodes, a call that fills the
\* cache shows every reserve it was to load, no older than the last content
\* that was settled when the call began.
THEOREM CallsAlwaysShowSettled == Spec => CallsShowSettled
<1>1. IInv /\ [Next]_vars =>
        [\A c \in Caller :
           Installs(c) => \A r \in promised(calls[c]) :
                            NoOlder(ledger[calls[c].since].accounts[r], reserves'[r])]_vars
  BY InstallShows
<1> QED BY <1>1, Invariance, PTL DEF Spec, CallsShowSettled

-----------------------------------------------------------------------------
(***************************************************************************)
(* Groups: what is cached of the market and of a reserve was on the ledger *)
(* together with a market that has the group.                              *)
(***************************************************************************)
\* An account was written while the market had the account's group.
Written(account) ==
  account # undefined =>
    account.slot \in 1..head /\ account.group <= ledger[account.slot].market.groups

\* A market is that of some slot.
Known(m) == m # undefined => \E s \in 1..head : m = ledger[s].market

\* The market m later became n: it only gained groups, at a later slot.
Became(m, n) ==
  /\ m.slot <= n.slot /\ m.groups <= n.groups
  /\ m.slot = n.slot => m = n

GroupsWritten ==
  \A s \in 1..head :
    /\ ledger[s].market.slot <= s
    /\ \A r \in Reserve : Written(ledger[s].accounts[r])
    /\ \A t \in s..head : Became(ledger[s].market, ledger[t].market)

CallKnown(call) == Known(call.market) /\ \A r \in Reserve : Written(call.accounts[r])

\* What every cached object comes from, on top of IInv: what a call received
\* has to be followed up to the moment it is installed.
GroupsSound ==
  /\ GroupsWritten
  /\ Known(state) /\ \A r \in Reserve : Written(reserves[r])
  /\ \A c \in Caller : Running(c) => CallKnown(calls[c])

\* The first market has no group, and nobody has fetched anything.
LEMMA InitGroups == Init => GroupsSound
<1> SUFFICES ASSUME Init PROVE GroupsSound
  OBVIOUS
<1>1. PICK listed \in SUBSET Reserve :
       ledger = <<[market |-> [slot |-> 1, groups |-> 0],
                   accounts |-> [r \in Reserve |->
                     IF r \in listed THEN [slot |-> 1, status |-> 0, group |-> 0]
                     ELSE undefined]]>>
  BY DEF Init
<1>2. /\ head = 1 /\ ledger[1].market = [slot |-> 1, groups |-> 0]
      /\ \A r \in Reserve : ledger[1].accounts[r] \in {[slot |-> 1, status |-> 0, group |-> 0], undefined}
  BY <1>1 DEF head
<1>3. GroupsWritten
  <2> HIDE DEF head
  <2>1. \A s \in 1..head : s = 1 /\ \A t \in s..head : t = 1
    BY <1>2
  <2>2. \A r \in Reserve : Written(ledger[1].accounts[r])
    BY <1>2 DEF Written
  <2>3. Became(ledger[1].market, ledger[1].market) /\ ledger[1].market.slot <= 1
    BY <1>2 DEF Became
  <2> QED BY <2>1, <2>2, <2>3 DEF GroupsWritten
<1>4. Known(state) /\ \A r \in Reserve : Written(reserves[r])
  BY DEF Init, NoAccounts, Known, Written
<1>5. \A c \in Caller : ~Running(c)
  BY DEF Init, Running, Idle, Pc
<1> QED BY <1>3, <1>4, <1>5 DEF GroupsSound

\* A content that only adds groups and writes accounts of groups there are
\* keeps what was cached known.
LEMMA GrowGroups ==
  ASSUME IInv, GroupsSound, NEW content \in Content, Grow(content),
         content.market.slot <= head + 1,
         Became(Current.market, content.market),
         \A r \in Reserve :
           LET account == content.accounts[r]
           IN  \/ Written(account)
               \/ account.slot = head + 1 /\ account.group <= content.market.groups
  PROVE  GroupsSound'
<1>1. /\ head \in Nat \ {0} /\ ledger \in Seq(Content)
      /\ ledger' = Append(ledger, content) /\ head' = head + 1
      /\ UNCHANGED <<settled, state, reserves, reservesActive, calls>>
  BY DEF IInv, TypeOK, Grow, head, market
<1>2. /\ \A s \in 1..head : ledger'[s] = ledger[s]
      /\ ledger'[head + 1] = content
  BY <1>1 DEF head
<1> HIDE DEF head
<1>0. head \in Nat \ {0} /\ head' = head + 1
  BY <1>1
<1>3. ASSUME NEW a, Written(a) PROVE Written(a)'
  <2>1. CASE a # undefined
    <3>1. a.slot \in 1..head /\ a.group <= ledger[a.slot].market.groups
      BY <1>3, <2>1 DEF Written
    <3>2. ledger'[a.slot] = ledger[a.slot] /\ a.slot \in 1..(head + 1)
      BY <1>0, <1>2, <3>1
    <3> QED BY <1>0, <3>1, <3>2 DEF Written
  <2> QED BY <2>1 DEF Written
<1>4. ASSUME NEW m, Known(m) PROVE Known(m)'
  <2>1. CASE m # undefined
    <3>1. PICK s \in 1..head : m = ledger[s].market
      BY <1>4, <2>1 DEF Known
    <3>2. s \in 1..(head + 1) /\ m = ledger'[s].market
      BY <1>0, <1>2, <3>1
    <3> QED BY <1>0, <3>2 DEF Known
  <2> QED BY <2>1 DEF Known
<1>5. GroupsWritten'
  <2> SUFFICES ASSUME NEW s \in 1..(head + 1)
               PROVE  /\ ledger'[s].market.slot <= s
                      /\ \A r \in Reserve : Written(ledger[s].accounts[r])'
                      /\ \A t \in s..(head + 1) : Became(ledger'[s].market, ledger'[t].market)
    BY <1>1 DEF GroupsWritten, Became
  <2>1. CASE s = head + 1
    <3>1. ledger'[s] = content /\ \A t \in s..(head + 1) : t = s
      BY <1>0, <1>2, <2>1
    <3>2. ASSUME NEW r \in Reserve PROVE Written(content.accounts[r])'
      <4>1. CASE Written(content.accounts[r])
        BY <1>3, <4>1
      <4>2. CASE content.accounts[r].slot = head + 1
                 /\ content.accounts[r].group <= content.market.groups
        BY <1>0, <1>2, <4>2 DEF Written
      <4> QED BY <4>1, <4>2
    <3>3. Became(content.market, content.market)
      BY DEF Became, Content, LendingMarket
    <3> QED BY <2>1, <3>1, <3>2, <3>3 DEF Written
  <2>2. CASE s \in 1..head
    <3>1. /\ ledger[s].market.slot <= s
          /\ \A r \in Reserve : Written(ledger[s].accounts[r])
          /\ \A t \in s..head : Became(ledger[s].market, ledger[t].market)
          /\ ledger'[s] = ledger[s]
      BY <1>2, <2>2 DEF GroupsSound, GroupsWritten
    <3>2. \A r \in Reserve : Written(ledger[s].accounts[r])'
      BY <1>2, <1>3, <2>2, <3>1 DEF Written
    <3>3. Became(ledger[s].market, content.market)
      <4>1. Became(ledger[s].market, Current.market)
        BY <1>1, <2>2, <3>1 DEF Current
      <4>2. /\ ledger[s].market \in LendingMarket
            /\ Current.market \in LendingMarket
            /\ content.market \in LendingMarket
        BY <1>1, <2>2, LedgerContent DEF IInv, Current, Content
      <4> QED BY <4>1, <4>2 DEF Became, LendingMarket
    <3>4. ASSUME NEW t \in s..(head + 1)
          PROVE  Became(ledger'[s].market, ledger'[t].market)
      <4>1. CASE t \in s..head
        <5>1. t \in 1..head
          BY <1>1, <2>2, <4>1
        <5>2. ledger'[t] = ledger[t]
          BY <1>2, <5>1
        <5> QED BY <3>1, <4>1, <5>2
      <4>2. CASE t = head + 1
        BY <1>2, <3>1, <3>3, <4>2
      <4>3. t \in s..head \/ t = head + 1
        BY <1>1, <2>2
      <4> QED BY <4>1, <4>2, <4>3
    <3> QED BY <3>1, <3>2, <3>4
  <2>3. s = head + 1 \/ s \in 1..head
    BY <1>1
  <2> QED BY <2>1, <2>2, <2>3
<1>6. Known(state)' /\ \A r \in Reserve : Written(reserves[r])'
  <2>1. Known(state) /\ \A r \in Reserve : Written(reserves[r])
    BY DEF GroupsSound
  <2> QED BY <1>1, <1>3, <1>4, <2>1 DEF Written, Known
<1>7. ASSUME NEW c \in Caller, Running(c)' PROVE CallKnown(calls[c])'
  <2>1. CallKnown(calls[c]) /\ calls'[c] = calls[c]
    BY <1>1, <1>7 DEF GroupsSound, Running
  <2>2. Known(calls[c].market)' /\ \A r \in Reserve : Written(calls[c].accounts[r])'
    BY <1>1, <1>3, <1>4, <2>1 DEF CallKnown, Written, Known
  <2> QED BY <2>2 DEF CallKnown
<1> QED BY <1>5, <1>6, <1>7 DEF GroupsSound

\* The owner writes an account with its group or one the market has, or adds
\* a group.
LEMMA LedgerStepGroups == ASSUME IInv, GroupsSound, LedgerStep PROVE GroupsSound'
<1>1. /\ head \in 1..MaxSlot /\ head \in Nat /\ MaxSlot \in Nat
      /\ Current \in Content /\ Current.market \in LendingMarket
      /\ Current.accounts \in Accounts
      /\ \A r \in Reserve : Current.accounts[r] \in MaybeAccount
  BY LedgerContent, BoundsAssumption DEF IInv, TypeOK, Current
<1>2. /\ Current.market.slot <= head /\ Current.market.slot \in Nat
      /\ Current.market.groups \in Nat
      /\ \A r \in Reserve : Written(Current.accounts[r])
  BY <1>1 DEF GroupsSound, GroupsWritten, Current, LendingMarket
<1>3. ASSUME NEW r \in Reserve, NEW account \in Account, SetAccount(r, account),
             account.slot = head + 1, account.group <= Current.market.groups
      PROVE  GroupsSound'
  <2> PICK content : content = [Current EXCEPT !.accounts[r] = account]
    OBVIOUS
  <2>1. /\ content \in Content /\ content.market = Current.market
        /\ \A q \in Reserve :
             content.accounts[q] = IF q = r THEN account ELSE Current.accounts[q]
    BY <1>1 DEF Content, Accounts, MaybeAccount
  <2>2. Became(Current.market, content.market) /\ content.market.slot <= head + 1
    BY <1>1, <1>2, <2>1 DEF Became
  <2>3. \A q \in Reserve :
          \/ Written(content.accounts[q])
          \/ /\ content.accounts[q].slot = head + 1
             /\ content.accounts[q].group <= content.market.groups
    BY <1>2, <1>3, <2>1
  <2>4. Grow(content)
    BY <1>3 DEF SetAccount
  <2> QED BY <2>1, <2>2, <2>3, <2>4, GrowGroups
<1>4. CASE \E r \in Reserve : AddReserve(r) \/ SetStatus(r) \/ (\E g \in 1..MaxGroup : SetGroup(r, g))
  <2> PICK r \in Reserve : AddReserve(r) \/ SetStatus(r) \/ (\E g \in 1..MaxGroup : SetGroup(r, g))
    BY <1>4
  <2>1. head + 1 \in 1..MaxSlot
    <3>1. head < MaxSlot
      BY Zenon DEF AddReserve, SetStatus, SetGroup, SetAccount, Grow
    <3> QED BY <1>1, <3>1
  <2>2. CASE AddReserve(r)
    <3> DEFINE account == [slot |-> head + 1, status |-> 0, group |-> 0]
    <3>1. account \in Account /\ account.slot = head + 1 /\ account.group = 0
      BY <2>1, BoundsAssumption DEF Account
    <3>2. SetAccount(r, account)
      BY <2>2 DEF AddReserve
    <3> HIDE DEF account
    <3> QED BY <1>2, <1>3, <3>1, <3>2
  <2>3. CASE SetStatus(r)
    <3> PICK account : account = [Current.accounts[r] EXCEPT !.slot = head + 1, !.status = 1 - @]
      OBVIOUS
    <3>1. Current.accounts[r] \in Account /\ Current.accounts[r] # undefined
      BY <1>1, <2>3 DEF SetStatus, MaybeAccount
    <3>2. account \in Account /\ account.slot = head + 1
      BY <2>1, <3>1, Rewritten
    <3>3. account.group = Current.accounts[r].group
      BY <3>1 DEF Account
    <3>4. Current.accounts[r].group <= Current.market.groups
      <4> PICK slot \in 1..head : /\ slot = Current.accounts[r].slot
                                  /\ Current.accounts[r].group <= ledger[slot].market.groups
        BY <1>2, <3>1 DEF Written
      <4>1. head \in slot..head
        BY <1>1
      <4>2. Became(ledger[slot].market, Current.market)
        BY <4>1 DEF GroupsSound, GroupsWritten, Current
      <4>3. ledger[slot].market.groups \in Int /\ Current.accounts[r].group \in Int
        BY <3>1, LedgerContent DEF IInv, LendingMarket, Account
      <4> QED BY <1>2, <4>2, <4>3 DEF Became
    <3>5. SetAccount(r, account)
      BY <2>3 DEF SetStatus
    <3> QED BY <1>3, <3>2, <3>3, <3>4, <3>5
  <2>4. ASSUME NEW g \in 1..MaxGroup, SetGroup(r, g)
        PROVE  GroupsSound'
    <3> PICK account : account = [Current.accounts[r] EXCEPT !.slot = head + 1, !.group = g]
      OBVIOUS
    <3>1. Current.accounts[r] \in Account /\ g <= Current.market.groups
      <4>1. Current.accounts[r] # undefined /\ g \in 1..Current.market.groups
        BY <2>4, Zenon DEF SetGroup
      <4>2. Current.accounts[r] \in Account
        BY <1>1, <4>1 DEF MaybeAccount
      <4> QED BY <1>2, <4>1, <4>2
    <3>2. account \in Account /\ account.slot = head + 1
      BY <2>1, <3>1, Rewritten
    <3>3. account.group = g
      BY <3>1 DEF Account
    <3>4. SetAccount(r, account)
      BY <2>4 DEF SetGroup
    <3> QED BY <1>3, <3>1, <3>2, <3>3, <3>4
  <2> QED BY <2>2, <2>3, <2>4
<1>5. CASE AddGroup
  <2> PICK content : content = [Current EXCEPT !.market = [slot |-> head + 1, groups |-> @.groups + 1]]
    OBVIOUS
  <2>1. Grow(content) /\ head + 1 \in 1..MaxSlot /\ Current.market.groups + 1 \in 0..MaxGroup
    BY <1>1, <1>2, <1>5, BoundsAssumption DEF AddGroup, Grow
  <2>2. /\ content \in Content /\ content.accounts = Current.accounts
        /\ content.market = [slot |-> head + 1, groups |-> Current.market.groups + 1]
    BY <1>1, <2>1 DEF Content, LendingMarket
  <2>3. /\ content.market.slot = head + 1
        /\ content.market.groups = Current.market.groups + 1
    BY <2>2
  <2>4. Became(Current.market, content.market) /\ content.market.slot <= head + 1
    BY <1>1, <1>2, <2>3 DEF Became
  <2> QED BY <1>2, <2>1, <2>2, <2>4, GrowGroups
<1>6. CASE Settle
  <2>1. UNCHANGED <<ledger, state, reserves, reservesActive, calls>> /\ head' = head
    BY <1>6 DEF Settle, market, head
  <2> HIDE DEF head
  <2> QED BY <2>1 DEF GroupsSound, GroupsWritten, Written, Known, Became, CallKnown, Running
<1> QED BY <1>4, <1>5, <1>6 DEF LedgerStep

\* A step that leaves the ledger alone keeps known what it does not write.
LEMMA CallerStepGroups ==
  ASSUME GroupsSound, UNCHANGED ledger, NEW c \in Caller,
         Known(state'), \A r \in Reserve : Written(reserves'[r]),
         Running(c)' => CallKnown(calls'[c]),
         \A d \in Caller \ {c} : calls'[d].pc = calls[d].pc /\
           (Running(d) => /\ calls'[d].market = calls[d].market
                          /\ calls'[d].accounts = calls[d].accounts)
  PROVE  GroupsSound'
<1>1. head' = head
  BY DEF head
<1> HIDE DEF head
<1>2. GroupsWritten'
  BY <1>1 DEF GroupsSound, GroupsWritten, Written, Became
<1>3. Known(state)' /\ \A r \in Reserve : Written(reserves[r])'
  BY <1>1 DEF Known, Written
<1>4. ASSUME NEW d \in Caller, Running(d)' PROVE CallKnown(calls[d])'
  <2>1. CallKnown(calls'[d])
    <3>1. CASE d = c
      BY <1>4, <3>1
    <3>2. CASE d # c
      <4>1. Running(d) /\ calls'[d].market = calls[d].market
            /\ calls'[d].accounts = calls[d].accounts
        BY <1>4, <3>2 DEF Running
      <4>2. CallKnown(calls[d])
        BY <4>1 DEF GroupsSound
      <4> QED BY <4>1, <4>2 DEF CallKnown
    <3> QED BY <3>1, <3>2
  <2> QED BY <1>1, <2>1 DEF CallKnown, Known, Written
<1> QED BY <1>2, <1>3, <1>4 DEF GroupsSound

\* A call that starts has received nothing, or an account of the ledger.
LEMMA StartGroups ==
  ASSUME IInv, GroupsSound, NEW c \in Caller, StartCall(c)
  PROVE  GroupsSound'
<1>1. Known(state) /\ \A r \in Reserve : Written(reserves[r])
  BY DEF GroupsSound
<1>2. ASSUME NEW op, NEW pc, NEW wanted, NEW accounts, Start(c, op, pc, wanted, accounts),
             \A r \in Reserve : Written(accounts[r])
      PROVE  GroupsSound'
  <2>1. UNCHANGED <<ledger, state, reserves>>
    BY <1>2 DEF Start, market
  <2>2. calls'[c].market = undefined /\ calls'[c].accounts = accounts
    BY <1>2 DEF Start
  <2>3. CallKnown(calls'[c])
    BY <1>2, <2>2 DEF CallKnown, Known
  <2>4. ASSUME NEW d \in Caller \ {c}
        PROVE  /\ calls'[d].pc = calls[d].pc
               /\ Running(d) => /\ calls'[d].market = calls[d].market
                                /\ calls'[d].accounts = calls[d].accounts
    <3>1. calls'[d] = IF Running(d) THEN [calls[d] EXCEPT !.alone = FALSE] ELSE calls[d]
      BY <1>2 DEF Start
    <3>2. CASE Running(d)
      <4>1. calls[d] \in Call
        BY <3>2, RunningCall DEF IInv
      <4> QED BY <3>1, <3>2, <4>1 DEF Call
    <3>3. CASE ~Running(d)
      BY <3>1, <3>3
    <3> QED BY <3>2, <3>3
  <2> QED BY <1>1, <2>1, <2>3, <2>4, CallerStepGroups
<1>3. \A r \in Reserve : Written(NoAccounts[r])
  BY DEF NoAccounts, Written
<1>4. ASSUME NEW r \in Reserve, NEW slot \in settled..head, ReloadSingleReserveGiven(c, r, slot)
      PROVE  GroupsSound'
  <2> PICK given : given = [NoAccounts EXCEPT ![r] = ledger[slot].accounts[r]]
    OBVIOUS
  <2>1. slot \in 1..head
    BY DEF IInv, TypeOK
  <2>2. Written(ledger[slot].accounts[r])
    BY <2>1 DEF GroupsSound, GroupsWritten
  <2>3. \A q \in Reserve : given[q] = IF q = r THEN ledger[slot].accounts[r] ELSE undefined
    BY DEF NoAccounts
  <2>4. \A q \in Reserve : Written(given[q])
    BY <2>2, <2>3 DEF Written
  <2>5. Start(c, "reloadSingleReserve", "oracles", {r}, given)
    BY <1>4 DEF ReloadSingleReserveGiven
  <2> QED BY <1>2, <2>4, <2>5
<1> QED BY <1>2, <1>3, <1>4 DEF StartCall, Load, Reload, LoadReserves, RefreshAll, ReloadSingleReserve

\* The reserves that are shown, fetched ones or those there were, are known.
LEMMA InstalledKnown ==
  ASSUME IInv, GroupsSound, NEW c \in Caller, OraclesFetched(c)
  PROVE  Known(state') /\ \A r \in Reserve : Written(reserves'[r])
<1>1. Running(c) /\ calls[c] \in Call /\ CallKnown(calls[c])
  <2>1. Running(c)
    BY DEF OraclesFetched, Pending, Running, Pc
  <2> QED BY <2>1, RunningCall DEF IInv, GroupsSound
<1>2. Known(state) /\ \A r \in Reserve : Written(reserves[r])
  BY DEF GroupsSound
<1>3. Known(state')
  BY <1>1, <1>2 DEF OraclesFetched, shownWhenLoaded, CallKnown
<1>4. CASE calls[c].op = "reloadSingleReserve"
  <2> PICK r \in calls[c].wanted : reserves' = [reserves EXCEPT ![r] = calls[c].accounts[r]]
    BY <1>4 DEF OraclesFetched
  <2>1. ASSUME NEW q \in Reserve PROVE reserves'[q] \in {reserves[q], calls[c].accounts[q]}
    BY DEF IInv, TypeOK, Accounts
  <2> QED BY <1>1, <1>2, <1>3, <2>1 DEF CallKnown
<1>5. CASE calls[c].op # "reloadSingleReserve"
  <2>1. reserves' = calls[c].accounts
    BY <1>5 DEF OraclesFetched
  <2> QED BY <1>1, <1>3, <2>1 DEF CallKnown
<1> QED BY <1>4, <1>5

\* What a call receives comes from a slot of the ledger, and what it installs
\* is what it received.
LEMMA ContinueGroups ==
  ASSUME IInv, GroupsSound, NEW c \in Caller, Continue(c)
  PROVE  GroupsSound'
<1>1. /\ Known(state) /\ \A r \in Reserve : Written(reserves[r])
      /\ Running(c) => calls[c] \in Call /\ CallKnown(calls[c])
      /\ calls \in [Caller -> Call \union {Idle, Threw}]
  BY RunningCall DEF GroupsSound, IInv, TypeOK
<1>2. \A d \in Caller \ {c} : calls'[d] = calls[d]
  BY <1>1 DEF Continue, MarketFetched, ReservesFetched, OraclesFetched, Reject, RecomputeActive
<1>3. ASSUME Known(state'), \A r \in Reserve : Written(reserves'[r]),
             Running(c)' => CallKnown(calls'[c]), UNCHANGED ledger
      PROVE  GroupsSound'
  BY <1>2, <1>3, CallerStepGroups
<1>4. CASE MarketFetched(c)
  <2>1. Running(c) /\ UNCHANGED <<ledger, reserves>>
    BY <1>4 DEF MarketFetched, Pending, Running, Pc
  <2> PICK slot \in calls[c].asked..head :
        /\ state' = shownWhenFetched(c, ledger[slot].market)
        /\ calls' = [calls EXCEPT ![c].pc = "reserves", ![c].asked = settled,
                                  ![c].market = ledger[slot].market]
    BY <1>4 DEF MarketFetched
  <2>2. Known(ledger[slot].market)
    BY <2>1, AnswerSlots DEF Known
  <2>3. calls'[c].market = ledger[slot].market /\ calls'[c].accounts = calls[c].accounts
    BY <1>1, <2>1 DEF Call
  <2>4. Known(state')
    BY <1>1, <2>2 DEF shownWhenFetched
  <2>5. CallKnown(calls'[c])
    BY <1>1, <2>1, <2>2, <2>3 DEF CallKnown
  <2> QED BY <1>1, <1>3, <2>1, <2>4, <2>5
<1>5. CASE ReservesFetched(c)
  <2>1. Running(c) /\ UNCHANGED <<ledger, state, reserves>>
    BY <1>5 DEF ReservesFetched, Pending, Running, Pc, market
  <2> PICK slot \in calls[c].asked..head :
        calls' = [calls EXCEPT ![c] =
          IF \E r \in mustExist(c) : ledger[slot].accounts[r] = undefined THEN Threw
          ELSE [@ EXCEPT !.pc = "oracles", !.asked = settled,
                         !.accounts = [r \in Reserve |-> IF r \in calls[c].wanted
                                       THEN ledger[slot].accounts[r] ELSE undefined]]]
    BY <1>5 DEF ReservesFetched
  <2> PICK found : found = [r \in Reserve |-> IF r \in calls[c].wanted
                                              THEN ledger[slot].accounts[r] ELSE undefined]
    OBVIOUS
  <2> PICK call : call = [calls[c] EXCEPT !.pc = "oracles", !.asked = settled, !.accounts = found]
    OBVIOUS
  <2>2. calls'[c] \in {Threw, call}
    BY <1>1
  <2>3. call.market = calls[c].market /\ call.accounts = found
    BY <1>1, <2>1 DEF Call
  <2>4. \A r \in Reserve : Written(found[r])
    <3>1. \A r \in Reserve : Written(ledger[slot].accounts[r])
      BY <2>1, AnswerSlots DEF GroupsSound, GroupsWritten
    <3> QED BY <3>1 DEF Written
  <2>5. CallKnown(call)
    BY <1>1, <2>1, <2>3, <2>4 DEF CallKnown
  <2>6. Running(c)' => calls'[c] = call
    <3>1. Threw.pc \notin Pc
      BY DEF Threw, Pc
    <3>2. Running(c)' => calls'[c].pc \in Pc
      BY DEF Running
    <3> QED BY <2>2, <3>1, <3>2
  <2> QED BY <1>1, <1>3, <2>1, <2>5, <2>6
<1>6. CASE OraclesFetched(c)
  <2>1. Running(c) /\ UNCHANGED ledger
    BY <1>6 DEF OraclesFetched, Pending, Running, Pc
  <2>2. calls'[c] \in {Idle, [calls[c] EXCEPT !.pc = "recompute"]}
    BY <1>1, <1>6 DEF OraclesFetched
  <2>3. Running(c)' => CallKnown(calls'[c])
    <3> SUFFICES ASSUME Running(c)' PROVE CallKnown(calls'[c])
      OBVIOUS
    <3>1. calls'[c] = [calls[c] EXCEPT !.pc = "recompute"]
      BY <2>2 DEF Running, Idle, Pc
    <3>2. calls'[c].market = calls[c].market /\ calls'[c].accounts = calls[c].accounts
      BY <1>1, <2>1, <3>1 DEF Call
    <3> QED BY <1>1, <2>1, <3>2 DEF CallKnown
  <2> QED BY <1>3, <1>6, <2>1, <2>3, InstalledKnown
<1>7. CASE Reject(c) \/ RecomputeActive(c)
  <2>1. UNCHANGED <<ledger, state, reserves>> /\ calls'[c] \in {Threw, Idle}
    BY <1>1, <1>7 DEF Reject, RecomputeActive, market
  <2>2. ~Running(c)'
    BY <2>1 DEF Running, Threw, Idle, Pc
  <2> QED BY <1>1, <1>3, <2>1, <2>2
<1> QED BY <1>4, <1>5, <1>6, <1>7 DEF Continue

LEMMA StepGroups == ASSUME IInv, GroupsSound, [Next]_vars PROVE GroupsSound'
<1>1. CASE UNCHANGED vars
  <2>1. UNCHANGED <<ledger, state, reserves, calls>> /\ head' = head
    BY <1>1 DEF vars, market, head
  <2> HIDE DEF head
  <2> QED BY <2>1 DEF GroupsSound, GroupsWritten, Written, Known, Became, CallKnown, Running
<1> QED BY <1>1, LedgerStepGroups, StartGroups, ContinueGroups DEF Next

\* The groups of an account that was written with a market are those of every
\* market that is not older.
LEMMA MissingOlder == ASSUME IInv, GroupsSound PROVE GroupMissingOnlyIfMarketOlder
<1> SUFFICES ASSUME NEW r \in Reserve, GroupMissing(r)
             PROVE  ledger[reserves[r].slot].market.slot > state.slot
  BY DEF GroupMissingOnlyIfMarketOlder
<1>1. reserves[r] # undefined /\ reserves[r] \in Account /\ ~(reserves[r].group <= state.groups)
  BY DEF GroupMissing, groupListed, IInv, TypeOK, Accounts, MaybeAccount
<1>2. state # undefined
  BY <1>1 DEF IInv, TypeOK, keys
<1>3. PICK s \in 1..head : state = ledger[s].market
  BY <1>2 DEF GroupsSound, Known
<1>4. PICK w \in 1..head : w = reserves[r].slot /\ reserves[r].group <= ledger[w].market.groups
  BY <1>1 DEF GroupsSound, Written
<1>5. /\ ledger[s].market \in LendingMarket /\ ledger[w].market \in LendingMarket
      /\ reserves[r].group \in Int
      /\ head \in Nat
  BY <1>1, LedgerContent DEF IInv, Account, TypeOK, head
<1>6. ~Became(ledger[w].market, ledger[s].market)
  BY <1>1, <1>3, <1>4, <1>5 DEF Became, LendingMarket
<1>7. w \in s..head
  <2>1. ~(s \in w..head)
    BY <1>6 DEF GroupsSound, GroupsWritten
  <2> QED BY <1>5, <2>1
<1>8. Became(ledger[s].market, ledger[w].market)
  BY <1>7 DEF GroupsSound, GroupsWritten
<1>9. ledger[s].market # ledger[w].market
  BY <1>6, <1>8 DEF Became
<1> QED BY <1>3, <1>4, <1>5, <1>8, <1>9 DEF Became, LendingMarket

\* A cached market and every cached or fetched account are traced to the slot
\* they were read at, along all calls and changes of the ledger.
THEOREM GroupsAlwaysSound == Spec => [](IInv /\ GroupsSound)
<1>1. IInv /\ GroupsSound /\ [Next]_vars => (IInv /\ GroupsSound)'
  BY StepSound, StepGroups
<1> QED BY <1>1, InitSound, InitGroups, PTL DEF Spec

\* However calls and changes of the market interleave, the descriptions of the
\* elevation groups fail only where a reserve was written under a market that
\* is newer than the cached one.
THEOREM GroupsMissOnlyIfOlder == Spec => []GroupMissingOnlyIfMarketOlder
<1>1. IInv /\ GroupsSound => GroupMissingOnlyIfMarketOlder
  BY MissingOlder
<1> QED BY <1>1, GroupsAlwaysSound, PTL

==============================================================================
