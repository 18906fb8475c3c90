----------------------------- MODULE MarketCache -----------------------------
(***************************************************************************)
(* The market that a KaminoMarket of src/classes/market.ts caches, the *)
(* asynchronous calls that fill and refresh it, and the nodes that answer. *)
(* JavaScript runs one continuation at a time: an action is the code       *)
(* between two awaits.  Calls of several callers interleave at the awaits. *)
(*                                                                         *)
(* The ledger is not part of the repository.  It is kept as the sequence   *)
(* of its contents, one for each slot.  Nodes lag and commitments differ   *)
(* (loadReserves asks for 'processed', the other calls for the default of  *)
(* the connection): a reply is the content of any slot from the last one   *)
(* that every node had settled when asked to the newest when delivered.    *)
(***************************************************************************)
EXTENDS Integers, Sequences, FiniteSets

CONSTANTS
  Reserve,     \* addresses of reserves
  Caller,      \* asynchronous flows of the program that uses the market
  undefined,   \* no market, no reserve
  MaxGroup,    \* bound: elevation groups of the market
  MaxSlot      \* bound: changes of the ledger

ASSUME BoundsAssumption ==
  /\ MaxGroup \in Nat
  /\ MaxSlot \in Nat \ {0}

ASSUME UndefinedAssumption ==
  /\ undefined \notin [slot : Int, groups : Int]
  /\ undefined \notin [slot : Int, status : Int, group : Int]

VARIABLES
  ledger,          \* content of the ledger by slot
  settled,         \* the slot below which no node answers
  state,           \* KaminoMarket.state, undefined while there is no market
  reserves,        \* KaminoMarket.reserves
  reservesActive,  \* KaminoMarket.reservesActive
  calls            \* the call each caller awaits

market == <<state, reserves, reservesActive>>
vars == <<ledger, settled, market, calls>>

\* slot: when the account last changed.  status 0 is Active.
LendingMarket == [slot : 1..MaxSlot, groups : 0..MaxGroup]
Account == [slot : 1..MaxSlot, status : 0..1, group : 0..MaxGroup]
MaybeAccount == Account \union {undefined}
Accounts == [Reserve -> MaybeAccount]
Content == [market : LendingMarket, accounts : Accounts]

head == Len(ledger)
NoAccounts == [r \in Reserve |-> undefined]
keys(map) == {r \in Reserve : map[r] # undefined}

Op == {"load", "reload", "reloadSingleReserve", "loadReserves", "refreshAll"}
Pc == {"market", "reserves", "oracles", "recompute"}

\* asked: settled when the pending request was sent.
\* wanted: the reserves the call asks for.  market, accounts: what it received.
\* since, known, alone: settled and the cached reserves when it began, whether
\* no other call ran meanwhile; they record history, the code does not read them.
Call == [op : Op, pc : Pc, asked : 1..MaxSlot, wanted : SUBSET Reserve,
         market : LendingMarket \union {undefined}, accounts : Accounts,
         since : 1..MaxSlot, known : SUBSET Reserve, alone : BOOLEAN]

\* What the caller holds when no call runs: nothing, or the last error.
Idle == [pc |-> "idle"]
Threw == [pc |-> "threw"]

Running(c) == calls[c].pc \in Pc

\* The ledger, the cache and the pending calls are of the declared shape; the
\* cache is filled only once there is a market.
TypeOK ==
  /\ ledger \in Seq(Content) /\ head \in 1..MaxSlot
  /\ settled \in 1..head
  /\ state \in LendingMarket \union {undefined}
  /\ reserves \in Accounts
  /\ reservesActive \in Accounts
  /\ calls \in [Caller -> Call \union {Idle, Threw}]
  /\ state = undefined => keys(reserves) \union keys(reservesActive) = {}

\* The ledger holds a market when the program starts, with some reserves.
Init ==
  /\ \E listed \in SUBSET Reserve :
       ledger = <<[market |-> [slot |-> 1, groups |-> 0],
                   accounts |-> [r \in Reserve |->
                     IF r \in listed THEN [slot |-> 1, status |-> 0, group |-> 0]
                     ELSE undefined]]>>
  /\ settled = 1
  /\ state = undefined
  /\ reserves = NoAccounts
  /\ reservesActive = NoAccounts
  /\ calls = [c \in Caller |-> Idle]

-----------------------------------------------------------------------------
(***************************************************************************)
(* The ledger: what the owner of the market changes.                       *)
(***************************************************************************)
Current == ledger[head]

Grow(content) ==
  /\ head < MaxSlot
  /\ ledger' = Append(ledger, content)
  /\ UNCHANGED <<settled, market, calls>>

SetAccount(r, account) ==
  Grow([Current EXCEPT !.accounts[r] = account])

AddReserve(r) ==
  /\ Current.accounts[r] = undefined
  /\ SetAccount(r, [slot |-> head + 1, status |-> 0, group |-> 0])

SetStatus(r) ==
  /\ Current.accounts[r] # undefined
  /\ SetAccount(r, [Current.accounts[r] EXCEPT !.slot = head + 1, !.status = 1 - @])

\* A reserve joins a group that the market has.
SetGroup(r, g) ==
  /\ Current.accounts[r] # undefined
  /\ g \in 1..Current.market.groups
  /\ SetAccount(r, [Current.accounts[r] EXCEPT !.slot = head + 1, !.group = g])

\* Groups are numbered without a gap.
AddGroup ==
  /\ Current.market.groups < MaxGroup
  /\ Grow([Current EXCEPT !.market = [slot |-> head + 1, groups |-> @.groups + 1]])

Settle ==
  /\ settled < head
  /\ settled' = settled + 1
  /\ UNCHANGED <<ledger, market, calls>>

LedgerStep ==
  \/ \E r \in Reserve : AddReserve(r) \/ SetStatus(r) \/ (\E g \in 1..MaxGroup : SetGroup(r, g))
  \/ AddGroup
  \/ Settle

-----------------------------------------------------------------------------
(***************************************************************************)
(* The calls.                                                              *)
(***************************************************************************)
\* A call runs up to its first await.
Start(c, op, pc, wanted, accounts) ==
  /\ ~Running(c)
  /\ calls' = [d \in Caller |->
       IF d = c
       THEN [op |-> op, pc |-> pc, asked |-> settled, wanted |-> wanted,
             market |-> undefined, accounts |-> accounts, since |-> settled,
             known |-> keys(reserves), alone |-> \A e \in Caller : ~Running(e)]
       ELSE IF Running(d) THEN [calls[d] EXCEPT !.alone = FALSE]
       ELSE calls[d]]
  /\ UNCHANGED <<ledger, settled, market>>

\* There is no market to call before load has returned one.  The account of the
\* market is there from the first slot and is never closed, so that no request
\* for it is answered with null, where load returns null and reload at once.
\* load is called with the reserves (withReserves).
Load(c) ==
  /\ state = undefined
  /\ \A d \in Caller : ~Running(d)
  /\ Start(c, "load", "market", Reserve, NoAccounts)

Reload(c) ==
  /\ state # undefined
  /\ Start(c, "reload", "market", Reserve, NoAccounts)

\* Mutant: only the active reserves are asked for again.
activeKeys == keys(reservesActive)

\* The code only refreshes the reserves it has.
refreshedKeys == keys(reserves)

LoadReserves(c) ==
  /\ state # undefined
  /\ Start(c, "loadReserves", "reserves", refreshedKeys, NoAccounts)

\* Every reserve of the cache has stats, so refreshAll always loads them.
RefreshAll(c) ==
  /\ state # undefined
  /\ Start(c, "refreshAll", "reserves", refreshedKeys, NoAccounts)

ReloadSingleReserve(c, r) ==
  /\ state # undefined
  /\ Start(c, "reloadSingleReserve", "reserves", {r}, NoAccounts)

\* The caller already has the account: a recent reply to a request of its own.
ReloadSingleReserveGiven(c, r, slot) ==
  /\ state # undefined
  /\ ledger[slot].accounts[r] # undefined
  /\ Start(c, "reloadSingleReserve", "oracles", {r},
           [NoAccounts EXCEPT ![r] = ledger[slot].accounts[r]])

StartCall(c) ==
  \/ Load(c)
  \/ Reload(c)
  \/ LoadReserves(c)
  \/ RefreshAll(c)
  \/ \E r \in Reserve : \/ ReloadSingleReserve(c, r)
                        \/ \E slot \in settled..head : ReloadSingleReserveGiven(c, r, slot)

-----------------------------------------------------------------------------
Pending(c, pc) == calls[c].pc = pc

\* Mutant: reload fetches the market and does not show it.
fetchedUnshown(c, fetched) == state

\* reload shows the market at once, load when it has everything.
shownWhenFetched(c, fetched) == IF calls[c].op = "reload" THEN fetched ELSE state

MarketFetched(c) ==
  /\ Pending(c, "market")
  /\ \E slot \in calls[c].asked..head :
       LET fetched == ledger[slot].market
       IN  /\ state' = shownWhenFetched(c, fetched)
           /\ calls' = [calls EXCEPT ![c].pc = "reserves", ![c].asked = settled,
                                     ![c].market = fetched]
  /\ UNCHANGED <<ledger, settled, reserves, reservesActive>>

\* getProgramAccounts answers with the accounts there are; the other requests
\* name accounts, and a missing one is an error.
mustExist(c) == IF calls[c].op \in {"load", "reload"} THEN {} ELSE calls[c].wanted

ReservesFetched(c) ==
  /\ Pending(c, "reserves")
  /\ \E slot \in calls[c].asked..head :
       LET found == ledger[slot].accounts
       IN  calls' = [calls EXCEPT ![c] =
             IF \E r \in mustExist(c) : found[r] = undefined THEN Threw
             ELSE [@ EXCEPT !.pc = "oracles", !.asked = settled,
                            !.accounts = [r \in Reserve |-> IF r \in calls[c].wanted
                                                            THEN found[r] ELSE undefined]]]
  /\ UNCHANGED <<ledger, settled, market>>

getReservesActive(map) ==
  [r \in Reserve |-> IF map[r] # undefined /\ map[r].status = 0 THEN map[r] ELSE undefined]

\* Mutant: reloadSingleReserve lists a reserve that is active, and leaves one
\* that stopped being active as it was.
setWhenActive(map, r, account) ==
  IF account.status = 0 THEN [map EXCEPT ![r] = account] ELSE map

setActive(map, r, account) == [map EXCEPT ![r] = account]

\* Mutant: the constructor forgets the market.
unshownWhenLoaded(c) == state

shownWhenLoaded(c) == IF calls[c].op = "load" THEN calls[c].market ELSE state

\* All prices are there: the fetched reserves replace the cached ones.
OraclesFetched(c) ==
  /\ Pending(c, "oracles")
  /\ LET call == calls[c]
     IN  IF call.op = "reloadSingleReserve"
         THEN \E r \in call.wanted :
                /\ reserves' = [reserves EXCEPT ![r] = call.accounts[r]]
                /\ reservesActive' = setActive(reservesActive, r, call.accounts[r])
         ELSE /\ reserves' = call.accounts
              /\ reservesActive' = getReservesActive(call.accounts)
  /\ state' = shownWhenLoaded(c)
  /\ calls' = [calls EXCEPT ![c] = IF @.op = "refreshAll" THEN [@ EXCEPT !.pc = "recompute"]
                                   ELSE Idle]
  /\ UNCHANGED <<ledger, settled>>

\* A request fails, an account does not parse, or a reserve has no price.
Reject(c) ==
  /\ calls[c].pc \in {"market", "reserves", "oracles"}
  /\ calls' = [calls EXCEPT ![c] = Threw]
  /\ UNCHANGED <<ledger, settled, market>>

\* The rest of refreshAll, which runs after loadReserves has returned to it.
RecomputeActive(c) ==
  /\ Pending(c, "recompute")
  /\ reservesActive' = getReservesActive(reserves)
  /\ calls' = [calls EXCEPT ![c] = Idle]
  /\ UNCHANGED <<ledger, settled, state, reserves>>

Continue(c) ==
  \/ MarketFetched(c)
  \/ ReservesFetched(c)
  \/ OraclesFetched(c)
  \/ Reject(c)
  \/ RecomputeActive(c)

Next ==
  \/ LedgerStep
  \/ \E c \in Caller : StartCall(c) \/ Continue(c)

Spec == Init /\ [][Next]_vars

\* Every request is answered or rejected, and the nodes catch up with the
\* ledger.  Nobody has to change the ledger or to call the market.
FairSpec ==
  /\ Spec
  /\ WF_vars(Settle)
  /\ \A c \in Caller : WF_vars(Continue(c))

-----------------------------------------------------------------------------
(***************************************************************************)
(* Properties.                                                             *)
(***************************************************************************)
\* Both maps hold the same object for a key, and no active reserve is left
\* out of reservesActive, however the calls that write one or both interleave.
MapsAgree ==
  \A r \in Reserve :
    /\ reservesActive[r] # undefined => reservesActive[r] = reserves[r]
    /\ reserves[r] # undefined /\ reserves[r].status = 0 => reservesActive[r] # undefined

Installs(c) == Pending(c, "oracles") /\ calls'[c].pc \in {"idle", "recompute"}

\* A reserve that was there is there, as it was or changed since.
NoOlder(old, new) ==
  old # undefined => new # undefined /\ new.slot >= old.slot

promised(call) ==
  IF call.op \in {"loadReserves", "refreshAll"} THEN call.known ELSE call.wanted

\* A call never shows less than was settled when it began: neither a late
\* reply nor a commitment lets it drop a reserve it was to load, or show it
\* older.
CallsShowSettled ==
  [][\A c \in Caller :
       Installs(c) => \A r \in promised(calls[c]) :
                        NoOlder(ledger[calls[c].since].accounts[r], reserves'[r])]_vars

\* Mutant: the id is taken for the index.
groupListedAtId(id) == id < state.groups

\* elevationGroups[id - 1] of getMarketElevationGroupDescriptions is there.
groupListed(id) == id <= state.groups

\* getMarketElevationGroupDescriptions finds no group for r and throws.
GroupMissing(r) ==
  /\ reserves[r] # undefined /\ reserves[r].group # 0
  /\ ~groupListed(reserves[r].group)

\* reload shows the market before its reserves and the other calls never fetch
\* it, so the two can differ.  The descriptions fail only where the market had
\* already changed from the cached one when the reserve was written, never for
\* two that belong together.
GroupMissingOnlyIfMarketOlder ==
  \A r \in Reserve : GroupMissing(r) => ledger[reserves[r].slot].market.slot > state.slot

-----------------------------------------------------------------------------
Fresh == state = Current.market /\ reserves = Current.accounts

SoloReload ==
  \E c \in Caller : /\ Pending(c, "oracles") /\ calls[c].op = "reload" /\ calls[c].alone
                    /\ calls'[c] = Idle

\* A program that keeps calling reload with no other call under way ends with
\* the content of a ledger that stopped changing, and never loses it again to
\* calls that overlap.  Without the reload that runs alone it need not: two
\* callers of reload and loadReserves can drop a new reserve for ever.
EventuallyFresh == []<><<SoloReload>>_vars => <>[]Fresh

==============================================================================
