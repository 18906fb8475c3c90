---------------------------- MODULE KaminoAction ----------------------------
(***************************************************************************)
(* The transaction builder of src/classes/action.ts.  A KaminoAction loads *)
(* an obligation once, then fills five instruction lists (setup, in        *)
(* between, lending, cleanup, pre-transaction) in a fixed program order    *)
(* whose steps are separated by awaits on the RPC node.  One action below  *)
(* stands for one of those steps.                                          *)
(*                                                                         *)
(* Instructions are records.  A run of refreshReserve or of refreshFarm    *)
(* instructions for several reserves is one record that carries the set:   *)
(* the order inside such a run is immaterial to the lending program.       *)
(***************************************************************************)
EXTENDS Integers, Sequences, FiniteSets

CONSTANTS
  Reserve,         \* the market's reserves
  NoReserve,       \* outflowReserve = undefined
  SolReserve,      \* the reserve whose liquidity mint is WRAPPED_SOL_MINT
  CollFarm,        \* reserves with a collateral farm (farmCollateral set)
  DebtFarm,        \* reserves with a debt farm (farmDebt set)
  Group,           \* elevation group ids, positive; 0 is "no group"
  GroupsOf,        \* reserve.state.config.elevationGroups
  GroupDebt,       \* market.state.elevationGroups[g - 1].debtReserve
  GroupLtv,        \* market.state.elevationGroups[g - 1].ltvPct
  POSITION_LIMIT,
  Requests,        \* the calls under study, a subset of Request
  Chains           \* the chain states they start from, a subset of Chain

NoOverride == -1   \* overrideElevationGroupRequest = undefined
Mode == {"coll", "debt"}
GroupId == {0} \union Group

TwoTokenAction == {"depositAndBorrow", "repayAndWithdraw"}
ObligationOnly == {"refreshObligation", "requestElevationGroup"}
ActionType ==
  {"deposit", "borrow", "withdraw", "repay", "mint", "redeem", "liquidate",
   "depositCollateral", "withdrawReferrerFees"} \union TwoTokenAction
                                                 \union ObligationOnly

\* The arguments of a build...Txns call.  level says what the repaid amount
\* covers: 0 less than the amount in the loaded obligation, 1 at least that,
\* 2 at least the debt the builder estimates at currentSlot, 3 (U64_MAX) all
\* of it whenever the transaction lands.  emptied: the withdrawal takes the
\* whole deposit.
Request ==
  [action : ActionType, reserve : Reserve, outflow : Reserve \union {NoReserve},
   level : 0..3, emptied : BOOLEAN, closing : BOOLEAN, budget : BOOLEAN,
   scope : BOOLEAN, ata : BOOLEAN, elevate : BOOLEAN,
   override : GroupId \union {NoOverride}, metadata : BOOLEAN,
   referrer : BOOLEAN]

\* What the RPC node can answer: the obligation, the user's token accounts
\* (atas, colAtas, by reserve) and the accounts the builder probes for.
Chain ==
  [obligation : BOOLEAN, deposits : SUBSET Reserve, borrows : SUBSET Reserve,
   group : GroupId, slot0 : BOOLEAN, metadata : BOOLEAN, referrer : BOOLEAN,
   tokenStates : SUBSET Reserve, atas : SUBSET Reserve,
   colAtas : SUBSET Reserve, farms : SUBSET (Reserve \X Mode)]

ASSUME ReserveAssumption ==
  /\ IsFiniteSet(Reserve)
  /\ NoReserve \notin Reserve \union {SolReserve}
  /\ CollFarm \subseteq Reserve
  /\ DebtFarm \subseteq Reserve

ASSUME GroupAssumption ==
  /\ Group \subseteq Nat \ {0}
  /\ GroupsOf \in [Reserve -> SUBSET Group]
  /\ GroupDebt \in [Group -> Reserve]
  /\ GroupLtv \in [Group -> Nat]

ASSUME InputAssumption ==
  /\ POSITION_LIMIT \in Nat
  /\ Requests \subseteq Request
  /\ Chains \subseteq Chain

-----------------------------------------------------------------------------
(***************************************************************************)
(* Instructions.                                                           *)
(***************************************************************************)
IxOp ==
  {"computeBudget", "scopeRefresh", "createAta", "createColAta",
   "transferLamports", "syncNative", "closeAta", "initUserMetadata",
   "initReferrerTokenState", "initObligation", "initFarm", "refreshReserves",
   "refreshObligation", "requestElevationGroup", "refreshFarms", "deposit",
   "mint", "redeem", "depositCollateral", "borrow", "repay", "withdraw",
   "liquidate", "withdrawReferrerFees"}

\* What changes a position of the obligation.
PositionOp == {"deposit", "depositCollateral", "borrow", "repay", "withdraw", "liquidate"}

\* how: a farm mode, or what a lamport transfer pays for.
How == Mode \union {"none", "rent", "amount", "rentAndAmount"}

Instruction ==
  [op : IxOp, res : Reserve \union {NoReserve}, how : How, grp : GroupId,
   deps : SUBSET Reserve, bors : SUBSET Reserve]

Ix(op, r, D) ==
  [op |-> op, res |-> r, how |-> "none", grp |-> 0, deps |-> D, bors |-> {}]

IxHow(op, r, how) == [Ix(op, r, {}) EXCEPT !.how = how]

FarmsOf(mode) == IF mode = "coll" THEN CollFarm ELSE DebtFarm

\* The farms there are, as <<reserve, mode>>.
Farms == (CollFarm \X {"coll"}) \union (DebtFarm \X {"debt"})

RefreshReserves(S) ==
  IF S = {} THEN <<>> ELSE <<Ix("refreshReserves", NoReserve, S)>>

RefreshFarms(S, mode) ==
  LET farmed == S \intersect FarmsOf(mode)
  IN  IF farmed = {} THEN <<>>
      ELSE <<[Ix("refreshFarms", NoReserve, farmed) EXCEPT !.how = mode]>>

\* An account is created only if the RPC node did not find it.
CreateIfMissing(op, existing, r) ==
  IF r \in existing THEN <<>> ELSE <<Ix(op, r, {})>>

-----------------------------------------------------------------------------
VARIABLES
  req,                 \* the call being served
  chain,               \* what the chain holds
  pc,                  \* the step of the build
  phase,               \* addAsSupportIx of the support pass: setup, inBetween
  known,               \* the loaded obligation; known.obligation: not null
  depositReserves,     \* axn.depositReserves, aliased and grown by the build
  borrowReserves,
  preLoadedDepositReservesSameTx,
  preLoadedBorrowReservesSameTx,
  positions,           \* distinctReserveCount
  referrer,            \* a referrer key was found
  potentialGroup,      \* refreshedStats.potentialElevationGroupUpdate
  setupIxs, inBetweenIxs, lendingIxs, cleanupIxs, preTxnIxs,
  refreshFarmsCleanupTxnIxs

loaded == <<req, chain, known, positions, referrer>>
lists == <<setupIxs, inBetweenIxs, lendingIxs, cleanupIxs, preTxnIxs,
           refreshFarmsCleanupTxnIxs>>
reserveLists == <<depositReserves, borrowReserves,
                  preLoadedDepositReservesSameTx, preLoadedBorrowReservesSameTx>>
vars == <<loaded, pc, phase, reserveLists, potentialGroup, lists>>

PC == {"initialize", "budget", "scope", "metadata", "referrer", "initObligation",
       "ata", "others", "initFarms", "current", "elevation", "farms", "lending",
       "splice", "built", "thrown"}

TypeOK ==
  /\ req \in Request
  /\ chain \in Chain
  /\ pc \in PC
  /\ phase \in {"setup", "inBetween"}
  /\ known \in Chain
  /\ depositReserves \subseteq Reserve
  /\ borrowReserves \subseteq Reserve
  /\ preLoadedDepositReservesSameTx \subseteq Reserve
  /\ preLoadedBorrowReservesSameTx \subseteq Reserve
  /\ positions \in Nat
  /\ referrer \in BOOLEAN
  /\ potentialGroup \in GroupId
  /\ setupIxs \in Seq(Instruction)
  /\ inBetweenIxs \in Seq(Instruction)
  /\ lendingIxs \in Seq(Instruction)
  /\ cleanupIxs \in Seq(Instruction)
  /\ preTxnIxs \in Seq(Instruction)
  /\ refreshFarmsCleanupTxnIxs \in Seq(Instruction)

\* The combinations a caller and a chain can produce.
Compatible(r, c) ==
  /\ r.outflow \in Reserve <=> r.action \in TwoTokenAction \union {"liquidate"}
  /\ r.action \in ObligationOnly => c.obligation
  /\ r.action = "requestElevationGroup" => r.override # NoOverride
  /\ r.override # NoOverride =>
       r.action \in {"deposit", "borrow", "requestElevationGroup"}
  /\ ~c.obligation => /\ c.deposits = {} /\ c.borrows = {} /\ c.group = 0
  /\ c.obligation /\ r.action # "liquidate" => c.metadata
  /\ c.slot0 => c.deposits # {}

Init ==
  /\ req \in Requests
  /\ chain \in Chains
  /\ Compatible(req, chain)
  /\ pc = "initialize"
  /\ phase = "setup"
  /\ known = chain
  /\ depositReserves = {}
  /\ borrowReserves = {}
  /\ preLoadedDepositReservesSameTx = {}
  /\ preLoadedBorrowReservesSameTx = {}
  /\ positions = 0
  /\ referrer = FALSE
  /\ potentialGroup = 0
  /\ setupIxs = <<>>
  /\ inBetweenIxs = <<>>
  /\ lendingIxs = <<>>
  /\ cleanupIxs = <<>>
  /\ preTxnIxs = <<>>
  /\ refreshFarmsCleanupTxnIxs = <<>>

-----------------------------------------------------------------------------
(***************************************************************************)
(* Derived values.                                                         *)
(***************************************************************************)
twoToken == req.action \in TwoTokenAction

\* The ActionType handed to a support pass: the two-token builders call
\* addSupportIxs with the first half and addInBetweenIxs with the whole.
supportAction ==
  IF phase = "inBetween" \/ ~twoToken THEN req.action
  ELSE IF req.action = "depositAndBorrow" THEN "deposit" ELSE "repay"

mint == IF req.action = "liquidate" THEN req.outflow ELSE req.reserve
secondaryMint == IF req.action = "liquidate" THEN req.reserve ELSE req.outflow

\* Mutant: outflowReserve is used without looking at the action.
currentReservesUnchecked == {req.reserve, req.outflow}

currentReserves ==
  IF supportAction \in TwoTokenAction \union {"liquidate"}
  THEN {req.reserve, req.outflow} ELSE {req.reserve}

allReservesExcludingCurrent ==
  (depositReserves \union borrowReserves) \ currentReserves

\* Mutant: both preloaded lists are added.
bothPreloadedLists ==
  depositReserves \union preLoadedDepositReservesSameTx \union preLoadedBorrowReservesSameTx

\* Mutant: the preloaded deposits are forgotten.
depositReservesAsLoaded == depositReserves

AdditionalDepositReservesList ==
  depositReserves \union preLoadedDepositReservesSameTx

\* The account list of refreshObligation and requestElevationGroup.
PositionAccounts(op, g, skipBorrows) ==
  [Ix(op, NoReserve, AdditionalDepositReservesList) EXCEPT
     !.grp = g,
     !.bors = IF skipBorrows THEN {}
              ELSE borrowReserves \ preLoadedBorrowReservesSameTx]

RefreshObligation(skipBorrows) ==
  <<PositionAccounts("refreshObligation", 0, skipBorrows)>>

RequestElevation(g, skipBorrows) ==
  <<PositionAccounts("requestElevationGroup", g, skipBorrows)>>

\* Append to the list addAsSupportIx selects.
PushSupport(ixs) ==
  IF phase = "setup"
  THEN setupIxs' = setupIxs \o ixs /\ UNCHANGED inBetweenIxs
  ELSE inBetweenIxs' = inBetweenIxs \o ixs /\ UNCHANGED setupIxs

Throw == pc' = "thrown"

-----------------------------------------------------------------------------
(***************************************************************************)
(* initialize / initializeMultiTokenAction / initializeWithdrawReferrerFees *)
(***************************************************************************)
\* Mutant: the positions held, without the one about to open.
heldReserveCount(action, inflow, outflow, deposits, borrows) ==
  Cardinality(borrows) + Cardinality(deposits)

distinctReserveCount(action, inflow, outflow, deposits, borrows) ==
  LET newBorrow == IF action \in {"borrow", "depositAndBorrow"}
                   THEN {inflow} ELSE {}
      newDeposit == IF action = "deposit" THEN {inflow}
                    ELSE IF action = "depositAndBorrow" THEN {outflow} ELSE {}
  IN  Cardinality(borrows \union newBorrow) + Cardinality(deposits \union newDeposit)

\* buildRefreshObligationTxns takes the first deposit slot, empty or not;
\* buildRequestElevationGroupTxns the first one that is set.
placeholderReserveFound ==
  CASE req.action = "refreshObligation" -> chain.slot0
    [] req.action = "requestElevationGroup" -> chain.deposits # {}
    [] OTHER -> TRUE

\* Mutant: off by one, no room for the last position.
belowLimit(count) == count < POSITION_LIMIT

withinLimit(count) == count <= POSITION_LIMIT

Initialize ==
  /\ pc = "initialize"
  /\ known' = chain
  /\ IF req.action = "withdrawReferrerFees"
     THEN /\ pc' = "lending"
          /\ UNCHANGED <<depositReserves, borrowReserves, positions, referrer>>
     ELSE /\ depositReserves' = chain.deposits
          /\ borrowReserves' = chain.borrows
          /\ positions' = distinctReserveCount(req.action, req.reserve, req.outflow,
                                               chain.deposits, chain.borrows)
          /\ referrer' = (req.referrer \/ chain.referrer)
          /\ pc' = IF placeholderReserveFound /\ withinLimit(positions')
                   THEN "budget" ELSE "thrown"
  /\ UNCHANGED <<req, chain, phase, preLoadedDepositReservesSameTx,
                 preLoadedBorrowReservesSameTx, potentialGroup, lists>>

AddComputeBudgetIxn ==
  /\ pc = "budget"
  /\ setupIxs' = IF req.budget THEN Append(setupIxs, Ix("computeBudget", NoReserve, {}))
                 ELSE setupIxs
  /\ pc' = IF req.action \in ObligationOnly THEN "lending" ELSE "scope"
  /\ UNCHANGED <<loaded, phase, reserveLists, potentialGroup, inBetweenIxs,
                 lendingIxs, cleanupIxs, preTxnIxs, refreshFarmsCleanupTxnIxs>>

AddScopeRefreshIxs ==
  /\ pc = "scope"
  /\ preTxnIxs' = IF req.scope THEN <<Ix("scopeRefresh", NoReserve, {})>> \o preTxnIxs
                  ELSE preTxnIxs
  /\ pc' = IF req.action \in {"mint", "redeem"} THEN "ata" ELSE "metadata"
  /\ UNCHANGED <<loaded, phase, reserveLists, potentialGroup, setupIxs, inBetweenIxs,
                 lendingIxs, cleanupIxs, refreshFarmsCleanupTxnIxs>>

-----------------------------------------------------------------------------
(***************************************************************************)
(* addSupportIxs: accounts of the user and of the obligation.              *)
(***************************************************************************)
OnlySetup == UNCHANGED <<loaded, phase, reserveLists, potentialGroup, inBetweenIxs,
                         lendingIxs, cleanupIxs, preTxnIxs, refreshFarmsCleanupTxnIxs>>

AddInitUserMetadataIxs ==
  /\ pc = "metadata"
  /\ setupIxs' = IF ~chain.metadata /\ req.metadata
                 THEN Append(setupIxs, Ix("initUserMetadata", NoReserve, {}))
                 ELSE setupIxs
  /\ pc' = "referrer"
  /\ OnlySetup

\* Token states the referrer lacks for the reserve and the outflow reserve
\* go to the front of the setup list, as one block.
AddInitReferrerTokenStateIxs ==
  /\ pc = "referrer"
  /\ LET missing == ({req.reserve, req.outflow} \ {NoReserve}) \ chain.tokenStates
     IN  setupIxs' = IF referrer /\ missing # {}
                     THEN <<Ix("initReferrerTokenState", NoReserve, missing)>> \o setupIxs
                     ELSE setupIxs
  /\ pc' = "initObligation"
  /\ OnlySetup

AddInitObligationIxs ==
  /\ pc = "initObligation"
  /\ setupIxs' = IF known.obligation THEN setupIxs
                 ELSE Append(setupIxs, Ix("initObligation", NoReserve, {}))
  /\ pc' = "ata"
  /\ OnlySetup

-----------------------------------------------------------------------------
(***************************************************************************)
(* addAtaIxs and updateWSOLAccount.                                        *)
(***************************************************************************)
touchesSol == SolReserve \in {mint, secondaryMint} /\ supportAction \notin TwoTokenAction

wsolExists == SolReserve \in chain.atas

\* Mutant: a liquidation is funded whichever side SOL is on.
sendActionOrLiquidation == supportAction \in {"deposit", "repay", "mint", "liquidate"}

\* sendAction: the account is funded with the amount before the lending ix.
sendAction ==
  \/ supportAction \in {"deposit", "repay", "mint"}
  \/ supportAction = "liquidate" /\ secondaryMint = SolReserve

wsolPreIxs ==
  LET pays == CASE ~wsolExists /\ sendAction -> "rentAndAmount"
                [] ~wsolExists /\ ~sendAction -> "rent"
                [] wsolExists /\ sendAction -> "amount"
                [] OTHER -> "none"
  IN  <<IxHow("transferLamports", SolReserve, pays)>>
      \o CreateIfMissing("createAta", chain.atas, SolReserve)
      \o IF ~wsolExists \/ sendAction
         THEN <<Ix("syncNative", SolReserve, {})>> ELSE <<>>

\* Mutant: the account is kept by every sender, even if it was created here.
wsolPostIxsUnlessSent ==
  IF sendAction THEN <<>> ELSE <<Ix("closeAta", SolReserve, {})>>

wsolPostIxs ==
  IF ~wsolExists \/ ~sendAction THEN <<Ix("closeAta", SolReserve, {})>> ELSE <<>>

\* The token accounts put in front of the setup list, last unshift first.
ataSetupIxs ==
  CASE supportAction \in {"withdraw", "borrow", "redeem"} /\ mint # SolReserve
            /\ positions # POSITION_LIMIT ->
         CreateIfMissing("createAta", chain.atas, req.reserve)
    [] supportAction = "liquidate" /\ ~(positions = POSITION_LIMIT /\ mint = SolReserve) ->
         CreateIfMissing("createColAta", chain.colAtas, req.outflow)
         \o CreateIfMissing("createAta", chain.atas, req.outflow)
    [] \/ supportAction = "depositAndBorrow"
       \/ supportAction = "repayAndWithdraw" /\ secondaryMint # SolReserve ->
         CreateIfMissing("createAta", chain.atas, req.outflow)
    [] supportAction = "mint" /\ ~(positions = POSITION_LIMIT /\ mint = SolReserve) ->
         CreateIfMissing("createColAta", chain.colAtas, req.reserve)
    [] OTHER -> <<>>

\* The token accounts pushed to the preceding transaction.
ataPreTxnIxs ==
  LET atLimit == positions = POSITION_LIMIT
      user == IF supportAction \in {"withdraw", "mint", "deposit", "repayAndWithdraw"}
              THEN CreateIfMissing("createAta", chain.atas, req.reserve) ELSE <<>>
      full == CASE supportAction \in {"withdraw", "borrow", "redeem"}
                        /\ mint # SolReserve /\ atLimit ->
                     CreateIfMissing("createAta", chain.atas, req.reserve)
                [] supportAction = "liquidate" /\ atLimit /\ mint = SolReserve ->
                     CreateIfMissing("createAta", chain.atas, req.outflow)
                     \o CreateIfMissing("createColAta", chain.colAtas, req.outflow)
                [] OTHER -> <<>>
      ctoken == IF supportAction = "mint" /\ atLimit /\ mint = SolReserve
                THEN CreateIfMissing("createColAta", chain.colAtas, req.reserve)
                ELSE <<>>
  IN  full \o user \o ctoken

AddAtaIxs ==
  /\ pc = "ata"
  /\ IF ~req.ata
     THEN /\ pc' = IF req.action \in {"mint", "redeem"} THEN "lending" ELSE "others"
          /\ UNCHANGED <<setupIxs, cleanupIxs, preTxnIxs>>
     ELSE IF /\ touchesSol /\ supportAction = "repay" /\ req.level = 3
             /\ known.obligation /\ req.reserve \notin known.borrows
     THEN Throw /\ UNCHANGED <<setupIxs, cleanupIxs, preTxnIxs>>
     ELSE /\ setupIxs' = ataSetupIxs \o (IF touchesSol THEN wsolPreIxs ELSE <<>>)
                         \o setupIxs
          /\ cleanupIxs' = cleanupIxs \o (IF touchesSol THEN wsolPostIxs ELSE <<>>)
          /\ preTxnIxs' = preTxnIxs \o ataPreTxnIxs
          /\ pc' = IF req.action \in {"mint", "redeem"} THEN "lending" ELSE "others"
  /\ UNCHANGED <<loaded, phase, reserveLists, potentialGroup, inBetweenIxs, lendingIxs,
                 refreshFarmsCleanupTxnIxs>>

-----------------------------------------------------------------------------
(***************************************************************************)
(* addSupportIxsWithoutInitObligation, after the token accounts.           *)
(***************************************************************************)
OnlySupport == UNCHANGED <<loaded, phase, potentialGroup, lendingIxs, cleanupIxs,
                           preTxnIxs, refreshFarmsCleanupTxnIxs>>

\* Positions this very transaction opens or closes, for the account lists
\* of later refreshes; then the refresh of every reserve but the current ones.
AddRefreshOtherReserves ==
  /\ pc = "others"
  /\ IF /\ supportAction = "repayAndWithdraw" /\ known.obligation
        /\ req.reserve \notin known.borrows
     THEN Throw /\ UNCHANGED <<reserveLists, setupIxs, inBetweenIxs>>
     ELSE /\ preLoadedDepositReservesSameTx' =
               IF \/ supportAction \in TwoTokenAction /\ ~known.obligation
                  \/ supportAction = "depositAndBorrow" /\ req.reserve \notin known.deposits
               THEN preLoadedDepositReservesSameTx \union {req.reserve}
               ELSE preLoadedDepositReservesSameTx
          /\ preLoadedBorrowReservesSameTx' =
               IF supportAction = "repayAndWithdraw" /\ known.obligation /\ req.level >= 2
               THEN preLoadedBorrowReservesSameTx \union {req.reserve}
               ELSE preLoadedBorrowReservesSameTx
          /\ PushSupport(RefreshReserves(allReservesExcludingCurrent))
          /\ pc' = "initFarms"
          /\ UNCHANGED <<depositReserves, borrowReserves>>
  /\ OnlySupport

\* The <<reserve, mode>> farm user states an action needs.
farmStatesNeeded ==
  (CASE supportAction = "liquidate" ->
          {<<req.reserve, "debt">>, <<req.outflow, "coll">>}
     [] supportAction \in {"depositAndBorrow", "depositCollateral", "withdraw", "deposit"} ->
          {<<req.reserve, "coll">>, <<req.outflow, "debt">>}
     [] OTHER -> {<<req.reserve, "debt">>, <<req.outflow, "coll">>})
  \intersect Farms

\* One initObligationFarmsForReserve per missing user state, as two blocks.
AddInitObligationForFarms ==
  /\ pc = "initFarms"
  /\ LET missing == farmStatesNeeded \ chain.farms
         InitFarms(m) ==
           LET S == {r \in Reserve : <<r, m>> \in missing}
           IN  IF S = {} THEN <<>>
               ELSE <<[Ix("initFarm", NoReserve, S) EXCEPT !.how = m]>>
     IN  PushSupport(IF phase = "setup" THEN InitFarms("coll") \o InitFarms("debt")
                     ELSE <<>>)
  /\ pc' = "current"
  /\ UNCHANGED reserveLists
  /\ OnlySupport

AddRefreshCurrent ==
  /\ pc = "current"
  /\ LET skipBorrows == /\ supportAction = "repayAndWithdraw"
                        /\ phase = "inBetween" /\ req.closing
     IN  PushSupport(RefreshReserves(currentReserves) \o RefreshObligation(skipBorrows))
  /\ depositReserves' = AdditionalDepositReservesList
  /\ pc' = IF req.elevate THEN "elevation" ELSE "farms"
  /\ UNCHANGED <<borrowReserves, preLoadedDepositReservesSameTx,
                 preLoadedBorrowReservesSameTx>>
  /\ OnlySupport

-----------------------------------------------------------------------------
(***************************************************************************)
(* The elevation group part of the support pass.                           *)
(***************************************************************************)
OnlyElevation == UNCHANGED <<loaded, phase, reserveLists, lendingIxs, preTxnIxs,
                             refreshFarmsCleanupTxnIxs>>

\* A full repay of the only debt leaves the group in the same transaction.
RequestGroupOnRepay ==
  /\ supportAction = "repay"
  /\ UNCHANGED <<potentialGroup, setupIxs, inBetweenIxs>>
  /\ IF req.reserve \notin known.borrows
     THEN Throw /\ UNCHANGED cleanupIxs
     ELSE /\ pc' = "farms"
          /\ cleanupIxs' =
               IF req.level >= 1 /\ Cardinality(known.borrows) = 1 /\ known.group # 0
               THEN cleanupIxs
                    \o RefreshReserves(allReservesExcludingCurrent)
                    \o RefreshObligation(TRUE)
                    \o RequestElevation(IF req.override = NoOverride THEN 0
                                        ELSE req.override, TRUE)
               ELSE cleanupIxs

\* Groups both reserves belong to and whose debt reserve is the one borrowed.
commonElevationGroups(coll, debt) ==
  {g \in GroupsOf[coll] \intersect GroupsOf[debt] : GroupDebt[g] = debt}

\* Mutant: the reduction keeps the smaller LTV.
worstGroups(groups) ==
  IF groups = {} THEN {NoOverride}
  ELSE {g \in groups : \A h \in groups : GroupLtv[g] <= GroupLtv[h]}

\* The group to ask for: one of maximal LTV, or none when there is no group.
bestGroups(groups) ==
  IF groups = {} THEN {NoOverride}
  ELSE {g \in groups : \A h \in groups : GroupLtv[h] <= GroupLtv[g]}

\* A null obligation's group is undefined, different from every id.
isNewGroup(g) == ~known.obligation \/ g # known.group

\* Mutant: nothing is refreshed after the request.
SwitchGroupOnly(g) == RequestElevation(g, FALSE)

\* Request the group and refresh again what the request made stale.
SwitchGroup(g) ==
  RequestElevation(g, FALSE) \o RefreshReserves(allReservesExcludingCurrent)
  \o RefreshReserves(currentReserves) \o RefreshObligation(FALSE)

ElevationFor(g) ==
  IF g # NoOverride /\ isNewGroup(g)
  THEN /\ PushSupport(SwitchGroup(g))
       /\ IF supportAction = "borrow" /\ ~known.obligation
          THEN Throw /\ UNCHANGED potentialGroup
          ELSE /\ pc' = "farms"
               /\ potentialGroup' = IF supportAction = "borrow" THEN g ELSE potentialGroup
  ELSE pc' = "farms" /\ UNCHANGED <<potentialGroup, setupIxs, inBetweenIxs>>

\* A borrow's collateral reserve is that of the first deposit slot in use;
\* a two-token borrow's is the reserve deposited in the same transaction.
RequestGroupOnBorrow ==
  /\ supportAction \in {"depositAndBorrow", "borrow"}
  /\ UNCHANGED cleanupIxs
  /\ LET debt == IF supportAction = "borrow" THEN req.reserve ELSE req.outflow
         colls == IF supportAction = "borrow" THEN known.deposits ELSE {req.reserve}
     IN  IF req.override # NoOverride /\ supportAction = "borrow"
         THEN ElevationFor(req.override)
         ELSE IF colls = {}
         THEN Throw /\ UNCHANGED <<potentialGroup, setupIxs, inBetweenIxs>>
         ELSE \E coll \in colls : \E g \in bestGroups(commonElevationGroups(coll, debt)) :
                ElevationFor(g)

RequestGroupOnDeposit ==
  /\ supportAction = "deposit"
  /\ pc' = "farms"
  /\ IF req.override # NoOverride /\ ~twoToken /\ isNewGroup(req.override)
     THEN PushSupport(SwitchGroup(req.override))
     ELSE UNCHANGED <<setupIxs, inBetweenIxs>>
  /\ UNCHANGED <<potentialGroup, cleanupIxs>>

NoGroupRequest ==
  /\ supportAction \notin {"repay", "depositAndBorrow", "borrow", "deposit"}
  /\ pc' = "farms"
  /\ UNCHANGED <<potentialGroup, setupIxs, inBetweenIxs, cleanupIxs>>

AddRequestElevation ==
  /\ pc = "elevation"
  /\ \/ RequestGroupOnRepay
     \/ RequestGroupOnBorrow
     \/ RequestGroupOnDeposit
     \/ NoGroupRequest
  /\ OnlyElevation

-----------------------------------------------------------------------------
(***************************************************************************)
(* addRefreshFarmsForReserve as the support pass calls it.                 *)
(***************************************************************************)
farmRefreshIxs ==
  CASE phase = "inBetween" ->
         RefreshFarms({req.outflow},
                      IF supportAction = "depositAndBorrow" THEN "debt" ELSE "coll")
    [] phase = "setup" /\ supportAction = "liquidate" ->
         RefreshFarms({req.outflow}, "coll") \o RefreshFarms({req.reserve}, "debt")
    [] phase = "setup" /\ supportAction \in {"depositCollateral", "withdraw", "deposit"} ->
         RefreshFarms({req.reserve}, "coll")
    [] OTHER -> RefreshFarms({req.reserve}, "debt")

\* The refresh before the lending instruction is repeated after it: first of
\* the in-between list for the first half of two, else in the cleanup.
AddRefreshFarms ==
  /\ pc = "farms"
  /\ IF phase = "setup"
     THEN /\ setupIxs' = setupIxs \o farmRefreshIxs
          /\ inBetweenIxs' = IF twoToken THEN inBetweenIxs \o farmRefreshIxs
                             ELSE inBetweenIxs
          /\ refreshFarmsCleanupTxnIxs' =
               IF twoToken THEN refreshFarmsCleanupTxnIxs
               ELSE refreshFarmsCleanupTxnIxs \o farmRefreshIxs
          /\ pc' = "lending"
     ELSE /\ inBetweenIxs' = inBetweenIxs \o farmRefreshIxs
          /\ refreshFarmsCleanupTxnIxs' = refreshFarmsCleanupTxnIxs \o farmRefreshIxs
          /\ UNCHANGED setupIxs
          /\ pc' = "splice"
  /\ UNCHANGED <<loaded, phase, reserveLists, potentialGroup, lendingIxs, cleanupIxs,
                 preTxnIxs>>

-----------------------------------------------------------------------------
(***************************************************************************)
(* The lending instructions.                                               *)
(***************************************************************************)
OnlyLending == UNCHANGED <<loaded, borrowReserves, preLoadedDepositReservesSameTx,
                           preLoadedBorrowReservesSameTx, potentialGroup, setupIxs,
                           inBetweenIxs, cleanupIxs, preTxnIxs,
                           refreshFarmsCleanupTxnIxs>>

AddPlainIx(action) ==
  /\ pc = "lending"
  /\ req.action = action
  /\ lendingIxs' = Append(lendingIxs, Ix(action, req.reserve, {}))
  /\ pc' = "splice"
  /\ UNCHANGED <<phase, depositReserves>>
  /\ OnlyLending

AddDepositIx == AddPlainIx("deposit")
AddDepositReserveLiquidityIx == AddPlainIx("mint")
AddRedeemReserveCollateralIx == AddPlainIx("redeem")
AddDepositObligationCollateralIx == AddPlainIx("depositCollateral")
AddWithdrawIx == AddPlainIx("withdraw")

\* The deposit reserves are listed only inside an elevation group; a null
\* obligation is dereferenced.
AddDebtIx(action, inGroup) ==
  /\ pc = "lending"
  /\ req.action = action
  /\ LET accounts == IF inGroup THEN AdditionalDepositReservesList ELSE {}
     IN  IF known.obligation
         THEN /\ lendingIxs' = Append(lendingIxs, Ix(action, req.reserve, accounts))
              /\ pc' = "splice"
         ELSE Throw /\ UNCHANGED lendingIxs
  /\ depositReserves' = AdditionalDepositReservesList
  /\ UNCHANGED phase
  /\ OnlyLending

AddBorrowIx == AddDebtIx("borrow", known.group > 0 \/ potentialGroup > 0)
AddRepayIx == AddDebtIx("repay", known.group > 0)
AddLiquidateIx == AddDebtIx("liquidate", known.group > 0)

\* The list is the builder's own array: an empty one receives the reserve.
AddDepositAndBorrowIx ==
  /\ pc = "lending"
  /\ req.action = "depositAndBorrow"
  /\ depositReserves' = IF AdditionalDepositReservesList = {} THEN {req.reserve}
                        ELSE AdditionalDepositReservesList
  /\ lendingIxs' = lendingIxs \o <<Ix("deposit", req.reserve, {}),
                                   Ix("borrow", req.outflow, depositReserves')>>
  /\ phase' = "inBetween"
  /\ pc' = "ata"
  /\ OnlyLending

AddRepayAndWithdrawIxs ==
  /\ pc = "lending"
  /\ req.action = "repayAndWithdraw"
  /\ depositReserves' = AdditionalDepositReservesList
  /\ lendingIxs' = lendingIxs \o <<Ix("repay", req.reserve, depositReserves'),
                                   Ix("withdraw", req.outflow, {})>>
  /\ phase' = "inBetween"
  /\ pc' = "ata"
  /\ OnlyLending

\* addRefreshObligation, and addRequestElevationIx behind it.
AddRefreshObligation ==
  /\ pc = "lending"
  /\ req.action \in ObligationOnly
  /\ LET farms == RefreshFarms(depositReserves, "coll") \o RefreshFarms(borrowReserves, "debt")
     IN  /\ setupIxs' = setupIxs \o RefreshReserves(depositReserves \union borrowReserves)
                        \o farms \o RefreshObligation(FALSE)
                        \o IF req.action = "refreshObligation" THEN <<>>
                           ELSE RequestElevation(req.override, FALSE)
         /\ refreshFarmsCleanupTxnIxs' = refreshFarmsCleanupTxnIxs \o farms
  /\ pc' = "built"
  /\ UNCHANGED <<loaded, phase, reserveLists, potentialGroup, inBetweenIxs, lendingIxs,
                 cleanupIxs, preTxnIxs>>

\* buildWithdrawReferrerFeeTxns
AddWithdrawReferrerFees ==
  /\ pc = "lending"
  /\ req.action = "withdrawReferrerFees"
  /\ preTxnIxs' = preTxnIxs \o CreateIfMissing("createAta", chain.atas, req.reserve)
  /\ setupIxs' = setupIxs \o RefreshReserves({req.reserve})
  /\ lendingIxs' = Append(lendingIxs, Ix("withdrawReferrerFees", req.reserve, {}))
  /\ pc' = "built"
  /\ UNCHANGED <<loaded, phase, reserveLists, potentialGroup, inBetweenIxs, cleanupIxs,
                 refreshFarmsCleanupTxnIxs>>

\* Mutant: pushed behind the closing of the WSOL account.
appendedCleanup == cleanupIxs \o refreshFarmsCleanupTxnIxs

splicedCleanup == refreshFarmsCleanupTxnIxs \o cleanupIxs

AddRefreshFarmsCleanupTxnIxsToCleanupIxs ==
  /\ pc = "splice"
  /\ cleanupIxs' = splicedCleanup
  /\ pc' = "built"
  /\ UNCHANGED <<loaded, phase, reserveLists, potentialGroup, setupIxs, inBetweenIxs,
                 lendingIxs, preTxnIxs, refreshFarmsCleanupTxnIxs>>

-----------------------------------------------------------------------------
AddLendingIx ==
  \/ AddDepositIx
  \/ AddDepositReserveLiquidityIx
  \/ AddRedeemReserveCollateralIx
  \/ AddDepositObligationCollateralIx
  \/ AddWithdrawIx
  \/ AddBorrowIx
  \/ AddRepayIx
  \/ AddLiquidateIx
  \/ AddDepositAndBorrowIx
  \/ AddRepayAndWithdrawIxs
  \/ AddRefreshObligation
  \/ AddWithdrawReferrerFees

Next ==
  \/ Initialize
  \/ AddComputeBudgetIxn
  \/ AddScopeRefreshIxs
  \/ AddInitUserMetadataIxs
  \/ AddInitReferrerTokenStateIxs
  \/ AddInitObligationIxs
  \/ AddAtaIxs
  \/ AddRefreshOtherReserves
  \/ AddInitObligationForFarms
  \/ AddRefreshCurrent
  \/ AddRequestElevation
  \/ AddRefreshFarms
  \/ AddLendingIx
  \/ AddRefreshFarmsCleanupTxnIxsToCleanupIxs

Spec == Init /\ [][Next]_vars

\* getTransactions: two lending instructions enclose the in-between list.
lendingTxn ==
  setupIxs
  \o (IF Len(lendingIxs) = 2
      THEN <<lendingIxs[1]>> \o inBetweenIxs \o <<lendingIxs[2]>>
      ELSE lendingIxs)
  \o cleanupIxs

-----------------------------------------------------------------------------
\* With no obligation yet, the repaid reserve passes for a deposit too.
ownDeposits ==
  known.deposits \union
  (IF req.action = "depositAndBorrow" \/ (req.action = "repayAndWithdraw" /\ ~known.obligation)
   THEN {req.reserve} ELSE {})

\* The changes of positions the call asks for.
ownChanges ==
  CASE req.action = "depositAndBorrow" -> {<<"deposit", req.reserve>>, <<"borrow", req.outflow>>}
    [] req.action = "repayAndWithdraw" -> {<<"repay", req.reserve>>, <<"withdraw", req.outflow>>}
    [] OTHER -> {<<req.action, req.reserve>>}

OwnInstruction ==
  {ix \in Instruction :
     /\ ix.op \in PositionOp => <<ix.op, ix.res>> \in ownChanges
     /\ ix.op \in {"refreshObligation", "requestElevationGroup", "borrow", "repay", "liquidate"}
        => ix.deps \subseteq ownDeposits /\ ix.bors \subseteq known.borrows}

\* The reserve lists the build passes around are aliased, grown in place and
\* shared by two support passes; still, no instruction of any list names as a
\* position a reserve that is neither held in the loaded obligation nor
\* deposited by this very call, in whatever order the passes grow them, and
\* none changes a position but as the call asks.
ListsOwnPositions ==
  \A ixs \in {setupIxs, inBetweenIxs, lendingIxs, cleanupIxs} : ixs \in Seq(OwnInstruction)

=============================================================================
