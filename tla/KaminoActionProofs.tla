-------------------------- MODULE KaminoActionProofs --------------------------
(***************************************************************************)
(* Type correctness of the builder, the soundness of its position lists,   *)
(* its limit and its refusals, alone and while transactions are sent, lost *)
(* and rebuilt, for every market, every set of calls and every chain.      *)
(*                                                                         *)
(* In this order: what the lists may hold and what a build may throw       *)
(* (IInv, SendCore); wrapped SOL (WrappedSol); the farm refreshes next to  *)
(* each change of a position (FarmSound); what a list does to the program  *)
(* (Runs) and the group it leads to (GroupBuilt).                          *)
(***************************************************************************)
EXTENDS KaminoActionSend, FiniteSetTheorems, SequenceTheorems, TLAPS

\* Instructions by the list they are for: of the support passes, of the setup
\* (accounts too), of the cleanup (closing the WSOL account too), and lending.
LendingOp == PositionOp \union {"mint", "redeem", "withdrawReferrerFees"}
AccountOp == {"createAta", "createColAta", "closeAta", "transferLamports", "syncNative"}
SupportOp == IxOp \ (LendingOp \union AccountOp)

SupportInstruction ==
  {ix \in OwnInstruction : ix.op \in SupportOp /\ (ix.op = "initFarm" => ix.how \in Mode)}
SetupInstruction ==
  SupportInstruction \union
  {ix \in OwnInstruction : ix.op \in AccountOp \ {"closeAta"} /\ ix.res \in Reserve}
CleanupInstruction ==
  SupportInstruction \union
  {ix \in OwnInstruction : ix.op = "closeAta" /\ ix.res = SolReserve}
LendingInstruction == {ix \in OwnInstruction : ix.op \in LendingOp}

\* Nothing is built before the obligation is loaded.
Unbuilt ==
  /\ depositReserves = {} /\ borrowReserves = {}
  /\ preLoadedDepositReservesSameTx = {} /\ preLoadedBorrowReservesSameTx = {}
  /\ setupIxs = <<>> /\ inBetweenIxs = <<>> /\ lendingIxs = <<>>
  /\ cleanupIxs = <<>> /\ preTxnIxs = <<>> /\ refreshFarmsCleanupTxnIxs = <<>>

\* The lists are sound because the aliased reserve lists they are built from
\* are: that part makes the invariant inductive.
ReserveListsSound ==
  /\ depositReserves \subseteq ownDeposits
  /\ preLoadedDepositReservesSameTx \subseteq ownDeposits
  /\ borrowReserves \subseteq known.borrows
  /\ pc = "initialize" => Unbuilt

CallSound ==
  /\ req.action \in TwoTokenAction \union {"liquidate"} => req.outflow \in Reserve
  /\ req.action = "requestElevationGroup" => req.override # NoOverride
  /\ req.override # NoOverride => req.action \in {"deposit", "borrow", "requestElevationGroup"}

ListsSound ==
  /\ setupIxs \in Seq(SetupInstruction)
  /\ inBetweenIxs \in Seq(SupportInstruction)
  /\ lendingIxs \in Seq(LendingInstruction)
  /\ cleanupIxs \in Seq(CleanupInstruction)
  /\ refreshFarmsCleanupTxnIxs \in Seq(SupportInstruction)
  /\ preTxnIxs \in Seq(SetupInstruction)

StateSound ==
  /\ req \in Request /\ chain \in Chain /\ known \in Chain
  /\ pc \in PC
  /\ phase \in {"setup", "inBetween"}
  /\ depositReserves \subseteq Reserve
  /\ borrowReserves \subseteq Reserve
  /\ preLoadedDepositReservesSameTx \subseteq Reserve
  /\ preLoadedBorrowReservesSameTx \subseteq Reserve
  /\ positions \in Nat
  /\ referrer \in BOOLEAN
  /\ potentialGroup \in GroupId

IInv == StateSound /\ CallSound /\ ReserveListsSound /\ ListsSound

PositionList == {"refreshObligation", "requestElevationGroup", "borrow", "repay", "liquidate"}

-----------------------------------------------------------------------------
LEMMA OwnIsInstruction ==
  /\ OwnInstruction \subseteq Instruction
  /\ SupportInstruction \subseteq OwnInstruction /\ SetupInstruction \subseteq OwnInstruction
  /\ CleanupInstruction \subseteq OwnInstruction /\ LendingInstruction \subseteq OwnInstruction
BY DEF OwnInstruction, SupportInstruction, SetupInstruction, CleanupInstruction,
       LendingInstruction

LEMMA SeqSubset ==
  ASSUME NEW S, NEW T, S \subseteq T, NEW s \in Seq(S)
  PROVE  s \in Seq(T)
OBVIOUS

\* What is for a support pass fits into the setup and the cleanup.
LEMMA SupportFits ==
  /\ SupportInstruction \subseteq SetupInstruction
  /\ SupportInstruction \subseteq CleanupInstruction
  /\ \A s \in Seq(SupportInstruction) :
       s \in Seq(SetupInstruction) /\ s \in Seq(CleanupInstruction)
<1>1. /\ SupportInstruction \subseteq SetupInstruction
      /\ SupportInstruction \subseteq CleanupInstruction
  BY DEF SetupInstruction, CleanupInstruction
<1> QED BY <1>1, SeqSubset

\* The inductive invariant is what the two theorems state, and more.
LEMMA IInvImplies == IInv => TypeOK /\ ListsOwnPositions
<1> SUFFICES ASSUME IInv PROVE TypeOK /\ ListsOwnPositions
  OBVIOUS
<1>1. /\ setupIxs \in Seq(OwnInstruction) /\ inBetweenIxs \in Seq(OwnInstruction)
      /\ lendingIxs \in Seq(OwnInstruction) /\ cleanupIxs \in Seq(OwnInstruction)
      /\ preTxnIxs \in Seq(OwnInstruction)
      /\ refreshFarmsCleanupTxnIxs \in Seq(OwnInstruction)
  BY OwnIsInstruction, SeqSubset DEF IInv, ListsSound
<1>2. ASSUME NEW s \in Seq(OwnInstruction) PROVE s \in Seq(Instruction)
  BY OwnIsInstruction, SeqSubset
<1>3. TypeOK
  BY <1>1, <1>2 DEF IInv, StateSound, TypeOK
<1> QED BY <1>1, <1>3 DEF ListsOwnPositions

LEMMA PlainIx ==
  ASSUME NEW op \in SupportOp \ (PositionList \union {"initFarm"}),
         NEW r \in Reserve \union {NoReserve}, NEW D \in SUBSET Reserve
  PROVE  Ix(op, r, D) \in SupportInstruction /\ Ix(op, r, D) \in SetupInstruction
<1>1. Ix(op, r, D) \in SupportInstruction
  BY DEF Ix, SupportInstruction, OwnInstruction, Instruction, How, GroupId, PositionList, SupportOp,
         LendingOp
<1> QED BY <1>1, SupportFits

LEMMA TransferIx ==
  ASSUME NEW r \in Reserve, NEW how \in How
  PROVE  IxHow("transferLamports", r, how) \in SetupInstruction
BY DEF IxHow, Ix, SetupInstruction, OwnInstruction, Instruction, How, GroupId, IxOp, AccountOp,
       PositionOp

\* An account is that of a reserve.
LEMMA AccountIx ==
  ASSUME NEW op \in {"createAta", "createColAta", "syncNative"}, NEW r \in Reserve
  PROVE  Ix(op, r, {}) \in SetupInstruction
BY DEF Ix, SetupInstruction, OwnInstruction, Instruction, How, GroupId, IxOp, AccountOp, PositionOp

LEMMA CloseIx ==
  ASSUME SolReserve \in Reserve
  PROVE  Ix("closeAta", SolReserve, {}) \in CleanupInstruction
BY DEF Ix, CleanupInstruction, OwnInstruction, Instruction, How, GroupId, IxOp, PositionOp

LEMMA RefreshReservesSeq ==
  ASSUME NEW S \in SUBSET Reserve
  PROVE  RefreshReserves(S) \in Seq(SupportInstruction)
<1>1. Ix("refreshReserves", NoReserve, S) \in SupportInstruction
  BY PlainIx DEF SupportOp, LendingOp, AccountOp, PositionOp, IxOp, PositionList
<1> QED BY <1>1 DEF RefreshReserves

LEMMA RefreshFarmsSeq ==
  ASSUME NEW S, NEW mode \in Mode
  PROVE  RefreshFarms(S, mode) \in Seq(SupportInstruction)
<1> DEFINE farmed == S \intersect FarmsOf(mode)
<1>1. farmed \in SUBSET Reserve
  BY ReserveAssumption DEF FarmsOf
<1>2. [Ix("refreshFarms", NoReserve, farmed) EXCEPT !.how = mode] \in SupportInstruction
  BY <1>1 DEF Ix, SupportInstruction, OwnInstruction, Instruction, How, GroupId, IxOp, SupportOp,
              LendingOp, AccountOp, PositionOp
<1> QED BY <1>2 DEF RefreshFarms

LEMMA InitFarmIx ==
  ASSUME NEW S \in SUBSET Reserve, NEW mode \in Mode
  PROVE  [Ix("initFarm", NoReserve, S) EXCEPT !.how = mode] \in SupportInstruction
BY DEF Ix, SupportInstruction, OwnInstruction, Instruction, How, GroupId, IxOp, SupportOp,
       LendingOp, AccountOp, PositionOp

LEMMA CreateSeq ==
  ASSUME NEW op \in {"createAta", "createColAta"}, NEW existing,
         NEW r \in Reserve
  PROVE  CreateIfMissing(op, existing, r) \in Seq(SetupInstruction)
<1>1. Ix(op, r, {}) \in SetupInstruction
  BY AccountIx
<1> QED BY <1>1 DEF CreateIfMissing

LEMMA PositionIx ==
  ASSUME NEW op \in {"refreshObligation", "requestElevationGroup"}, NEW g \in GroupId,
         NEW D \in SUBSET Reserve, NEW B \in SUBSET Reserve, D \subseteq ownDeposits, B \subseteq known.borrows
  PROVE  [Ix(op, NoReserve, D) EXCEPT !.grp = g, !.bors = B] \in SupportInstruction
BY DEF Ix, SupportInstruction, OwnInstruction, Instruction, How, IxOp, SupportOp, LendingOp,
       AccountOp, PositionOp

\* The account lists of the obligation, from the aliased reserve lists.
LEMMA PositionSeqs ==
  ASSUME IInv, NEW skip \in BOOLEAN
  PROVE  /\ AdditionalDepositReservesList \subseteq ownDeposits
         /\ AdditionalDepositReservesList \subseteq Reserve
         /\ RefreshObligation(skip) \in Seq(SupportInstruction)
         /\ \A g \in GroupId : RequestElevation(g, skip) \in Seq(SupportInstruction)
<1>1. /\ AdditionalDepositReservesList \subseteq ownDeposits
      /\ AdditionalDepositReservesList \subseteq Reserve
  BY DEF IInv, StateSound, ReserveListsSound, AdditionalDepositReservesList
<1>2. ASSUME NEW op \in {"refreshObligation", "requestElevationGroup"}, NEW g \in GroupId
      PROVE  PositionAccounts(op, g, skip) \in SupportInstruction
  <2> DEFINE B == IF skip THEN {} ELSE borrowReserves \ preLoadedBorrowReservesSameTx
  <2>1. B \subseteq known.borrows /\ B \in SUBSET Reserve
    BY DEF IInv, StateSound, ReserveListsSound
  <2>2. AdditionalDepositReservesList \in SUBSET Reserve
    BY <1>1
  <2>3. PositionAccounts(op, g, skip) =
          [Ix(op, NoReserve, AdditionalDepositReservesList) EXCEPT !.grp = g, !.bors = B]
    BY Zenon DEF PositionAccounts
  <2> HIDE DEF B
  <2>4. [Ix(op, NoReserve, AdditionalDepositReservesList) EXCEPT !.grp = g, !.bors = B]
          \in SupportInstruction
    BY <1>1, <2>1, <2>2, PositionIx
  <2> QED BY Zenon, <2>3, <2>4
<1>3. 0 \in GroupId
  BY DEF GroupId
<1> QED BY <1>1, <1>2, <1>3 DEF RefreshObligation, RequestElevation

\* The reserves a support pass works on.
LEMMA PassReserves ==
  ASSUME IInv
  PROVE  /\ supportAction \in ActionType
         /\ currentReserves \subseteq Reserve
         /\ allReservesExcludingCurrent \subseteq Reserve
         /\ mint \in Reserve
         /\ secondaryMint \in Reserve \union {NoReserve}
         /\ req.reserve \in Reserve
         /\ req.outflow \in Reserve \union {NoReserve}
         /\ supportAction \in TwoTokenAction \union {"liquidate"} => req.outflow \in Reserve
         /\ supportAction \in TwoTokenAction => supportAction = req.action
<1>1. /\ req.action \in ActionType /\ req.reserve \in Reserve
      /\ req.outflow \in Reserve \union {NoReserve}
      /\ req.action \in TwoTokenAction \union {"liquidate"} => req.outflow \in Reserve
      /\ depositReserves \subseteq Reserve /\ borrowReserves \subseteq Reserve
  BY DEF IInv, StateSound, CallSound, Request
<1>2. /\ supportAction \in ActionType
      /\ supportAction \in TwoTokenAction \union {"liquidate"} => supportAction = req.action
  BY <1>1 DEF supportAction, twoToken, TwoTokenAction, ActionType
<1>3. currentReserves \subseteq Reserve
  BY <1>1, <1>2 DEF currentReserves
<1>4. mint \in Reserve /\ secondaryMint \in Reserve \union {NoReserve}
  BY <1>1 DEF mint, secondaryMint, TwoTokenAction
<1> QED BY <1>1, <1>2, <1>3, <1>4 DEF allReservesExcludingCurrent

-----------------------------------------------------------------------------
(***************************************************************************)
(* What a step has to establish.  The call and the loaded obligation stay, *)
(* so that what is the obligation's own can be stated before the step.     *)
(***************************************************************************)
NextState ==
  /\ UNCHANGED <<req, chain, known>>
  /\ pc \notin {"initialize", "thrown"}
  /\ pc' \in PC \ {"initialize"}
  /\ phase' \in {"setup", "inBetween"}
  /\ positions' \in Nat /\ referrer' \in BOOLEAN /\ potentialGroup' \in GroupId

NextReserves ==
  /\ depositReserves' \subseteq ownDeposits
  /\ preLoadedDepositReservesSameTx' \subseteq ownDeposits
  /\ borrowReserves' \subseteq known.borrows
  /\ preLoadedBorrowReservesSameTx' \subseteq Reserve

NextLists ==
  /\ setupIxs' \in Seq(SetupInstruction)
  /\ inBetweenIxs' \in Seq(SupportInstruction)
  /\ lendingIxs' \in Seq(LendingInstruction)
  /\ cleanupIxs' \in Seq(CleanupInstruction)
  /\ refreshFarmsCleanupTxnIxs' \in Seq(SupportInstruction)
  /\ preTxnIxs' \in Seq(SetupInstruction)

LEMMA OwnReserves ==
  ASSUME StateSound
  PROVE  ownDeposits \subseteq Reserve /\ known.borrows \subseteq Reserve
BY DEF StateSound, ownDeposits, Request, Chain

\* A step that keeps the call and the loaded obligation keeps what is its own.
LEMMA SameOwn ==
  ASSUME UNCHANGED <<req, known>>
  PROVE  /\ ownDeposits' = ownDeposits
         /\ SupportInstruction' = SupportInstruction /\ SetupInstruction' = SetupInstruction
         /\ CleanupInstruction' = CleanupInstruction /\ LendingInstruction' = LendingInstruction
<1>1. ownDeposits' = ownDeposits /\ ownChanges' = ownChanges
  BY DEF ownDeposits, ownChanges
<1>2. OwnInstruction' = OwnInstruction
  BY <1>1 DEF OwnInstruction
<1> QED BY <1>1, <1>2 DEF SupportInstruction, SetupInstruction, CleanupInstruction,
                         LendingInstruction

LEMMA Preserved ==
  ASSUME IInv, NextState, NextReserves, NextLists
  PROVE  IInv'
<1>1. /\ ownDeposits' = ownDeposits
      /\ SupportInstruction' = SupportInstruction /\ SetupInstruction' = SetupInstruction
      /\ CleanupInstruction' = CleanupInstruction /\ LendingInstruction' = LendingInstruction
  BY SameOwn DEF NextState
<1>2. StateSound'
  BY OwnReserves DEF IInv, StateSound, NextState, NextReserves
<1>3. CallSound'
  BY DEF IInv, CallSound, NextState
<1>4. ReserveListsSound'
  BY <1>1 DEF NextState, NextReserves, ReserveListsSound
<1>5. ListsSound'
  BY <1>1 DEF ListsSound, NextLists
<1> QED BY <1>2, <1>3, <1>4, <1>5 DEF IInv

\* What a step leaves alone.
LEMMA Kept ==
  ASSUME IInv
  PROVE  /\ UNCHANGED loaded /\ UNCHANGED phase /\ pc' \in PC \ {"initialize"}
            /\ UNCHANGED potentialGroup /\ pc \notin {"initialize", "thrown"} => NextState
         /\ UNCHANGED reserveLists => NextReserves
         /\ UNCHANGED setupIxs => setupIxs' \in Seq(SetupInstruction)
         /\ UNCHANGED inBetweenIxs => inBetweenIxs' \in Seq(SupportInstruction)
         /\ UNCHANGED lendingIxs => lendingIxs' \in Seq(LendingInstruction)
         /\ UNCHANGED cleanupIxs => cleanupIxs' \in Seq(CleanupInstruction)
         /\ UNCHANGED refreshFarmsCleanupTxnIxs =>
              refreshFarmsCleanupTxnIxs' \in Seq(SupportInstruction)
         /\ UNCHANGED preTxnIxs => preTxnIxs' \in Seq(SetupInstruction)
BY DEF IInv, StateSound, ReserveListsSound, ListsSound, NextState, NextReserves,
       loaded, reserveLists

LEMMA Concatenated ==
  ASSUME NEW S, NEW s \in Seq(S), NEW t \in Seq(S)
  PROVE  s \o t \in Seq(S)
OBVIOUS

LEMMA Pushed ==
  ASSUME IInv, NEW ixs \in Seq(SupportInstruction), PushSupport(ixs)
  PROVE  setupIxs' \in Seq(SetupInstruction) /\ inBetweenIxs' \in Seq(SupportInstruction)
<1>1. setupIxs \o ixs \in Seq(SetupInstruction) /\ inBetweenIxs \o ixs \in Seq(SupportInstruction)
  BY SupportFits, Concatenated DEF IInv, ListsSound
<1> QED BY <1>1 DEF PushSupport, IInv, ListsSound

-----------------------------------------------------------------------------
LEMMA InitSound == Init => IInv
<1> SUFFICES ASSUME Init PROVE IInv
  OBVIOUS
<1>1. req \in Request /\ chain \in Chain /\ known = chain
  BY InputAssumption DEF Init
<1>2. StateSound
  BY <1>1 DEF Init, StateSound, PC, GroupId
<1>3. CallSound
  BY DEF Init, CallSound, Compatible
<1>4. ReserveListsSound
  BY DEF Init, ReserveListsSound, Unbuilt
<1>5. ListsSound
  BY DEF Init, ListsSound
<1> QED BY <1>2, <1>3, <1>4, <1>5 DEF IInv

LEMMA CountIsNat ==
  ASSUME NEW a, NEW i \in Reserve, NEW o \in Reserve \union {NoReserve},
         a = "depositAndBorrow" => o \in Reserve,
         NEW D \in SUBSET Reserve, NEW B \in SUBSET Reserve
  PROVE  distinctReserveCount(a, i, o, D, B) \in Nat
<1> DEFINE newBorrow == IF a \in {"borrow", "depositAndBorrow"} THEN {i} ELSE {}
           newDeposit == IF a = "deposit" THEN {i}
                         ELSE IF a = "depositAndBorrow" THEN {o} ELSE {}
<1>1. B \union newBorrow \subseteq Reserve /\ D \union newDeposit \subseteq Reserve
  OBVIOUS
<1>2. IsFiniteSet(B \union newBorrow) /\ IsFiniteSet(D \union newDeposit)
  BY <1>1, FS_Subset, ReserveAssumption
<1>3. Cardinality(B \union newBorrow) \in Nat /\ Cardinality(D \union newDeposit) \in Nat
  BY <1>2, FS_CardinalityType
<1> HIDE DEF newBorrow, newDeposit
<1>4. distinctReserveCount(a, i, o, D, B) =
        Cardinality(B \union newBorrow) + Cardinality(D \union newDeposit)
  BY DEF distinctReserveCount, newBorrow, newDeposit
<1> QED BY <1>3, <1>4

\* The obligation loaded is the one on the chain, so its own positions are
\* those the reserve lists start with.
LEMMA InitializeSound == ASSUME IInv, Initialize PROVE IInv'
<1>1. chain \in Chain /\ known' = chain /\ Unbuilt /\ UNCHANGED <<req, chain, phase>>
  BY DEF Initialize, IInv, ReserveListsSound, StateSound
<1>2. distinctReserveCount(req.action, req.reserve, req.outflow, chain.deposits,
                           chain.borrows) \in Nat
  BY <1>1, CountIsNat DEF IInv, StateSound, CallSound, Request, Chain, TwoTokenAction
<1>3. (req.referrer \/ chain.referrer) \in BOOLEAN
  OBVIOUS
<1>4. pc' \in PC \ {"initialize"} /\ positions' \in Nat /\ referrer' \in BOOLEAN
  BY <1>2, <1>3 DEF Initialize, IInv, StateSound, PC
<1>5. /\ depositReserves' \subseteq chain.deposits /\ borrowReserves' \subseteq chain.borrows
      /\ preLoadedDepositReservesSameTx' = {} /\ preLoadedBorrowReservesSameTx' = {}
  BY <1>1 DEF Initialize, Unbuilt
<1>6. chain.deposits \subseteq Reserve /\ chain.borrows \subseteq Reserve
  BY <1>1 DEF Chain
<1>7. /\ setupIxs' = <<>> /\ inBetweenIxs' = <<>> /\ lendingIxs' = <<>> /\ cleanupIxs' = <<>>
      /\ preTxnIxs' = <<>> /\ refreshFarmsCleanupTxnIxs' = <<>>
  BY <1>1 DEF Initialize, Unbuilt, lists
<1>8. StateSound' /\ CallSound'
  BY <1>1, <1>4, <1>5, <1>6 DEF Initialize, IInv, StateSound, CallSound
<1>9. ReserveListsSound'
  BY <1>1, <1>4, <1>5 DEF ReserveListsSound, ownDeposits
<1>10. ListsSound'
  BY <1>7 DEF ListsSound
<1> QED BY <1>8, <1>9, <1>10 DEF IInv

LEMMA AddComputeBudgetIxnSound == ASSUME IInv, AddComputeBudgetIxn PROVE IInv'
<1>1. Ix("computeBudget", NoReserve, {}) \in SetupInstruction
  BY PlainIx DEF IxOp, PositionList, SupportOp, LendingOp, AccountOp, PositionOp
<1>2. NextState /\ NextReserves
  BY Kept DEF AddComputeBudgetIxn, PC
<1>3. setupIxs' \in Seq(SetupInstruction)
  BY <1>1 DEF AddComputeBudgetIxn, IInv, ListsSound
<1>4. NextLists
  BY <1>3, Kept DEF AddComputeBudgetIxn, NextLists
<1> QED BY <1>2, <1>4, Preserved

LEMMA AddScopeRefreshIxsSound == ASSUME IInv, AddScopeRefreshIxs PROVE IInv'
<1>1. <<Ix("scopeRefresh", NoReserve, {})>> \in Seq(SetupInstruction)
  BY PlainIx DEF IxOp, PositionList, SupportOp, LendingOp, AccountOp, PositionOp
<1>2. NextState /\ NextReserves
  BY Kept DEF AddScopeRefreshIxs, PC
<1>3. preTxnIxs' \in Seq(SetupInstruction)
  BY <1>1, Concatenated DEF AddScopeRefreshIxs, IInv, ListsSound
<1>4. NextLists
  BY <1>3, Kept DEF AddScopeRefreshIxs, NextLists
<1> QED BY <1>2, <1>4, Preserved

LEMMA AddInitUserMetadataIxsSound == ASSUME IInv, AddInitUserMetadataIxs PROVE IInv'
<1>1. Ix("initUserMetadata", NoReserve, {}) \in SetupInstruction
  BY PlainIx DEF IxOp, PositionList, SupportOp, LendingOp, AccountOp, PositionOp
<1>2. NextState /\ NextReserves
  BY Kept DEF AddInitUserMetadataIxs, OnlySetup, PC
<1>3. setupIxs' \in Seq(SetupInstruction)
  BY <1>1 DEF AddInitUserMetadataIxs, IInv, ListsSound
<1>4. NextLists
  BY <1>3, Kept DEF AddInitUserMetadataIxs, OnlySetup, NextLists
<1> QED BY <1>2, <1>4, Preserved

LEMMA AddInitReferrerTokenStateIxsSound ==
  ASSUME IInv, AddInitReferrerTokenStateIxs PROVE IInv'
<1> DEFINE missing == ({req.reserve, req.outflow} \ {NoReserve}) \ chain.tokenStates
           block == <<Ix("initReferrerTokenState", NoReserve, missing)>>
<1>1. missing \subseteq Reserve
  BY PassReserves
<1>2. block \in Seq(SetupInstruction)
  BY <1>1, PlainIx DEF IxOp, PositionList, SupportOp, LendingOp, AccountOp, PositionOp
<1>3. NextState /\ NextReserves
  BY Kept DEF AddInitReferrerTokenStateIxs, OnlySetup, PC
<1>4. setupIxs' = block \o setupIxs \/ setupIxs' = setupIxs
  BY DEF AddInitReferrerTokenStateIxs
<1> HIDE DEF block, missing
<1>5. setupIxs' \in Seq(SetupInstruction)
  BY <1>2, <1>4, Concatenated DEF IInv, ListsSound
<1>6. NextLists
  BY <1>5, Kept DEF AddInitReferrerTokenStateIxs, OnlySetup, NextLists
<1> QED BY <1>3, <1>6, Preserved

LEMMA AddInitObligationIxsSound == ASSUME IInv, AddInitObligationIxs PROVE IInv'
<1>1. Ix("initObligation", NoReserve, {}) \in SetupInstruction
  BY PlainIx DEF IxOp, PositionList, SupportOp, LendingOp, AccountOp, PositionOp
<1>2. NextState /\ NextReserves
  BY Kept DEF AddInitObligationIxs, OnlySetup, PC
<1>3. setupIxs' \in Seq(SetupInstruction)
  BY <1>1 DEF AddInitObligationIxs, IInv, ListsSound
<1>4. NextLists
  BY <1>3, Kept DEF AddInitObligationIxs, OnlySetup, NextLists
<1> QED BY <1>2, <1>4, Preserved

-----------------------------------------------------------------------------
\* The instructions about token accounts name no position.
LEMMA WsolSeqs ==
  ASSUME IInv, SolReserve \in Reserve
  PROVE  wsolPreIxs \in Seq(SetupInstruction) /\ wsolPostIxs \in Seq(CleanupInstruction)
<1> DEFINE pays == CASE ~wsolExists /\ sendAction -> "rentAndAmount"
                     [] ~wsolExists /\ ~sendAction -> "rent"
                     [] wsolExists /\ sendAction -> "amount"
                     [] OTHER -> "none"
<1>1. pays \in How
  BY DEF How
<1>2. /\ Ix("syncNative", SolReserve, {}) \in SetupInstruction
      /\ Ix("closeAta", SolReserve, {}) \in CleanupInstruction
  BY AccountIx, CloseIx
<1>3. CreateIfMissing("createAta", chain.atas, SolReserve) \in Seq(SetupInstruction)
  BY CreateSeq
<1> HIDE DEF pays
<1>4. <<IxHow("transferLamports", SolReserve, pays)>> \in Seq(SetupInstruction)
  BY <1>1, TransferIx
<1>5. (IF ~wsolExists \/ sendAction THEN <<Ix("syncNative", SolReserve, {})>> ELSE <<>>)
        \in Seq(SetupInstruction)
  BY <1>2
<1>6. wsolPreIxs \in Seq(SetupInstruction)
  BY <1>3, <1>4, <1>5, Concatenated DEF wsolPreIxs, pays
<1>7. wsolPostIxs \in Seq(CleanupInstruction)
  BY <1>2 DEF wsolPostIxs
<1> QED BY <1>6, <1>7

LEMMA AtaSeqs ==
  ASSUME IInv
  PROVE  ataSetupIxs \in Seq(SetupInstruction) /\ ataPreTxnIxs \in Seq(SetupInstruction)
<1> DEFINE two == supportAction \in TwoTokenAction \union {"liquidate"}
           ataIn == CreateIfMissing("createAta", chain.atas, req.reserve)
           ataOut == IF two THEN CreateIfMissing("createAta", chain.atas, req.outflow) ELSE <<>>
           colIn == CreateIfMissing("createColAta", chain.colAtas, req.reserve)
           colOut == IF two THEN CreateIfMissing("createColAta", chain.colAtas, req.outflow)
                     ELSE <<>>
<1>1. req.reserve \in Reserve /\ (two => req.outflow \in Reserve)
  BY PassReserves
<1>2. /\ ataIn \in Seq(SetupInstruction) /\ ataOut \in Seq(SetupInstruction)
      /\ colIn \in Seq(SetupInstruction) /\ colOut \in Seq(SetupInstruction)
  BY <1>1, CreateSeq
<1>3. <<>> \in Seq(SetupInstruction)
  OBVIOUS
<1>4. ataSetupIxs \in {ataIn, colOut \o ataOut, ataOut, colIn, <<>>}
  BY DEF ataSetupIxs, TwoTokenAction
<1>5. PICK full \in {ataIn, ataOut \o colOut, <<>>}, user \in {ataIn, <<>>},
             ctoken \in {colIn, <<>>} : ataPreTxnIxs = full \o user \o ctoken
  BY DEF ataPreTxnIxs
<1> HIDE DEF ataIn, ataOut, colIn, colOut
<1>6. ataSetupIxs \in Seq(SetupInstruction)
  BY <1>2, <1>3, <1>4, Concatenated
<1>7. /\ full \in Seq(SetupInstruction)
      /\ user \in Seq(SetupInstruction) /\ ctoken \in Seq(SetupInstruction)
  BY <1>2, <1>3, <1>5, Concatenated
<1>8. ataPreTxnIxs \in Seq(SetupInstruction)
  BY <1>5, <1>7, Concatenated
<1> QED BY <1>6, <1>8

LEMMA AddAtaIxsSound == ASSUME IInv, AddAtaIxs PROVE IInv'
<1>1. NextState /\ NextReserves
  BY Kept DEF AddAtaIxs, Throw, PC
<1> DEFINE pre == IF touchesSol THEN wsolPreIxs ELSE <<>>
           post == IF touchesSol THEN wsolPostIxs ELSE <<>>
<1>2. pre \in Seq(SetupInstruction) /\ post \in Seq(CleanupInstruction)
  <2>1. CASE touchesSol
    <3>1. SolReserve \in Reserve
      BY <2>1, PassReserves, ReserveAssumption DEF touchesSol
    <3>2. wsolPreIxs \in Seq(SetupInstruction) /\ wsolPostIxs \in Seq(CleanupInstruction)
      BY <3>1, WsolSeqs
    <3> QED BY <2>1, <3>2
  <2>2. CASE ~touchesSol
    BY <2>2
  <2> QED BY <2>1, <2>2
<1>3. \/ setupIxs' = ataSetupIxs \o pre \o setupIxs /\ cleanupIxs' = cleanupIxs \o post
         /\ preTxnIxs' = preTxnIxs \o ataPreTxnIxs
      \/ UNCHANGED <<setupIxs, cleanupIxs, preTxnIxs>>
  BY DEF AddAtaIxs
<1> HIDE DEF pre, post
<1>4. /\ ataSetupIxs \o pre \o setupIxs \in Seq(SetupInstruction)
      /\ cleanupIxs \o post \in Seq(CleanupInstruction)
      /\ preTxnIxs \o ataPreTxnIxs \in Seq(SetupInstruction)
  BY <1>2, AtaSeqs, Concatenated DEF IInv, ListsSound
<1>5. /\ setupIxs' \in Seq(SetupInstruction) /\ cleanupIxs' \in Seq(CleanupInstruction)
      /\ preTxnIxs' \in Seq(SetupInstruction)
  BY <1>3, <1>4, Kept
<1>6. NextLists
  BY <1>5, Kept DEF AddAtaIxs, NextLists
<1> QED BY <1>1, <1>6, Preserved

-----------------------------------------------------------------------------
\* Only a reserve deposited by this call, or standing for one when there is no
\* obligation, is preloaded.
LEMMA AddRefreshOtherReservesSound == ASSUME IInv, AddRefreshOtherReserves PROVE IInv'
<1>1. NextState
  BY Kept DEF AddRefreshOtherReserves, OnlySupport, Throw, PC
<1>2. RefreshReserves(allReservesExcludingCurrent) \in Seq(SupportInstruction)
  BY PassReserves, RefreshReservesSeq
<1>3. setupIxs' \in Seq(SetupInstruction) /\ inBetweenIxs' \in Seq(SupportInstruction)
  BY <1>2, Pushed, Kept DEF AddRefreshOtherReserves
<1>4. preLoadedDepositReservesSameTx' \subseteq ownDeposits
  <2>1. CASE preLoadedDepositReservesSameTx' = preLoadedDepositReservesSameTx
    BY <2>1 DEF IInv, ReserveListsSound
  <2>2. CASE /\ preLoadedDepositReservesSameTx' =
                  preLoadedDepositReservesSameTx \union {req.reserve}
             /\ \/ supportAction \in TwoTokenAction /\ ~known.obligation
                \/ supportAction = "depositAndBorrow"
    <3>1. req.reserve \in ownDeposits
      BY <2>2, PassReserves DEF ownDeposits, TwoTokenAction
    <3> QED BY <2>2, <3>1 DEF IInv, ReserveListsSound
  <2> QED BY <2>1, <2>2 DEF AddRefreshOtherReserves, reserveLists
<1>5. preLoadedBorrowReservesSameTx' \subseteq Reserve
  BY PassReserves DEF AddRefreshOtherReserves, reserveLists, IInv, StateSound
<1>6. UNCHANGED <<depositReserves, borrowReserves>>
  BY DEF AddRefreshOtherReserves, reserveLists
<1>7. NextReserves
  BY <1>4, <1>5, <1>6 DEF NextReserves, IInv, ReserveListsSound
<1>8. NextLists
  BY <1>3, Kept DEF AddRefreshOtherReserves, OnlySupport, NextLists
<1> QED BY <1>1, <1>7, <1>8, Preserved

LEMMA AddInitObligationForFarmsSound ==
  ASSUME IInv, AddInitObligationForFarms PROVE IInv'
<1> DEFINE missing == farmStatesNeeded \ chain.farms
           S(m) == {r \in Reserve : <<r, m>> \in missing}
           InitFarms(m) == IF S(m) = {} THEN <<>>
                           ELSE <<[Ix("initFarm", NoReserve, S(m)) EXCEPT !.how = m]>>
           block == IF phase = "setup" THEN InitFarms("coll") \o InitFarms("debt") ELSE <<>>
<1>1. ASSUME NEW m \in Mode
      PROVE  InitFarms(m) \in Seq(SupportInstruction)
  <2>1. [Ix("initFarm", NoReserve, S(m)) EXCEPT !.how = m] \in SupportInstruction
    BY InitFarmIx
  <2> HIDE DEF S
  <2> QED BY <2>1
<1>2. PushSupport(block)
  BY DEF AddInitObligationForFarms
<1> HIDE DEF InitFarms
<1>3. block \in Seq(SupportInstruction)
  BY <1>1, Concatenated DEF Mode
<1> HIDE DEF block
<1>4. setupIxs' \in Seq(SetupInstruction) /\ inBetweenIxs' \in Seq(SupportInstruction)
  BY <1>2, <1>3, Pushed
<1>5. NextState /\ NextReserves
  BY Kept DEF AddInitObligationForFarms, OnlySupport, PC
<1>6. NextLists
  BY <1>4, Kept DEF AddInitObligationForFarms, OnlySupport, NextLists
<1> QED BY <1>5, <1>6, Preserved

LEMMA AddRefreshCurrentSound == ASSUME IInv, AddRefreshCurrent PROVE IInv'
<1> DEFINE skip == /\ supportAction = "repayAndWithdraw"
                   /\ phase = "inBetween" /\ req.closing
           block == RefreshReserves(currentReserves) \o RefreshObligation(skip)
<1>1. skip \in BOOLEAN
  OBVIOUS
<1>2. PushSupport(block)
  BY DEF AddRefreshCurrent
<1> HIDE DEF skip
<1>3. RefreshReserves(currentReserves) \in Seq(SupportInstruction)
  BY PassReserves, RefreshReservesSeq
<1>4. RefreshObligation(skip) \in Seq(SupportInstruction)
  BY <1>1, PositionSeqs
<1>5. block \in Seq(SupportInstruction)
  BY <1>3, <1>4, Concatenated
<1> HIDE DEF block
<1>6. setupIxs' \in Seq(SetupInstruction) /\ inBetweenIxs' \in Seq(SupportInstruction)
  BY <1>2, <1>5, Pushed
<1>7. NextState
  BY Kept DEF AddRefreshCurrent, OnlySupport, PC
<1>8. NextReserves
  BY PositionSeqs DEF AddRefreshCurrent, NextReserves, IInv, StateSound, ReserveListsSound
<1>9. NextLists
  BY <1>6, Kept DEF AddRefreshCurrent, OnlySupport, NextLists
<1> QED BY <1>7, <1>8, <1>9, Preserved

-----------------------------------------------------------------------------
LEMMA SwitchGroupSeq ==
  ASSUME IInv, NEW g \in GroupId
  PROVE  SwitchGroup(g) \in Seq(SupportInstruction)
<1>1. /\ RequestElevation(g, FALSE) \in Seq(SupportInstruction)
      /\ RefreshObligation(FALSE) \in Seq(SupportInstruction)
  BY PositionSeqs
<1>2. /\ RefreshReserves(allReservesExcludingCurrent) \in Seq(SupportInstruction)
      /\ RefreshReserves(currentReserves) \in Seq(SupportInstruction)
  BY PassReserves, RefreshReservesSeq
<1> QED BY <1>1, <1>2, Concatenated DEF SwitchGroup

\* A group switch fills the lists of the support pass, and nothing else.
LEMMA ElevationForSound ==
  ASSUME IInv, NEW g \in GroupId \union {NoOverride}, ElevationFor(g)
  PROVE  /\ setupIxs' \in Seq(SetupInstruction) /\ inBetweenIxs' \in Seq(SupportInstruction)
         /\ potentialGroup' \in GroupId /\ pc' \in PC \ {"initialize"}
<1>1. CASE g # NoOverride /\ isNewGroup(g)
  <2>1. g \in GroupId
    BY <1>1
  <2>2. PushSupport(SwitchGroup(g))
    BY <1>1 DEF ElevationFor
  <2>3. setupIxs' \in Seq(SetupInstruction) /\ inBetweenIxs' \in Seq(SupportInstruction)
    BY <2>1, <2>2, SwitchGroupSeq, Pushed
  <2>4. potentialGroup' \in GroupId /\ pc' \in PC \ {"initialize"}
    BY <1>1, <2>1 DEF ElevationFor, Throw, PC, IInv, StateSound
  <2> QED BY <2>3, <2>4
<1>2. CASE ~(g # NoOverride /\ isNewGroup(g))
  <2>1. UNCHANGED <<potentialGroup, setupIxs, inBetweenIxs>> /\ pc' = "farms"
    BY <1>2 DEF ElevationFor
  <2> QED BY <2>1, Kept DEF PC, IInv, StateSound
<1> QED BY <1>1, <1>2

LEMMA BestGroupIsId ==
  ASSUME NEW coll \in Reserve, NEW debt,
         NEW g \in bestGroups(commonElevationGroups(coll, debt))
  PROVE  g \in GroupId \union {NoOverride}
<1> DEFINE groups == commonElevationGroups(coll, debt)
<1>1. groups \subseteq Group
  BY GroupAssumption DEF commonElevationGroups
<1> HIDE DEF groups
<1>2. g \in groups \union {NoOverride}
  BY DEF bestGroups, groups
<1> QED BY <1>1, <1>2 DEF GroupId

\* The four shapes of the elevation part, each with the lists it fills.
ElevationLists ==
  /\ setupIxs' \in Seq(SetupInstruction) /\ inBetweenIxs' \in Seq(SupportInstruction)
  /\ cleanupIxs' \in Seq(CleanupInstruction)
  /\ potentialGroup' \in GroupId /\ pc' \in PC \ {"initialize"}

LEMMA RequestGroupOnRepaySound == ASSUME IInv, RequestGroupOnRepay PROVE ElevationLists
<1> DEFINE g == IF req.override = NoOverride THEN 0 ELSE req.override
           refresh == RefreshReserves(allReservesExcludingCurrent)
           leave == cleanupIxs \o refresh \o RefreshObligation(TRUE)
                    \o RequestElevation(g, TRUE)
<1>1. g \in GroupId
  BY DEF GroupId, IInv, StateSound, Request
<1>2. /\ refresh \in Seq(SupportInstruction)
      /\ RefreshObligation(TRUE) \in Seq(SupportInstruction)
      /\ RequestElevation(g, TRUE) \in Seq(SupportInstruction)
  BY <1>1, PassReserves, PositionSeqs, RefreshReservesSeq
<1>3. cleanupIxs' = leave \/ UNCHANGED cleanupIxs
  BY DEF RequestGroupOnRepay
<1> HIDE DEF g, refresh
<1>4. leave \in Seq(CleanupInstruction)
  BY <1>2, SupportFits, Concatenated DEF IInv, ListsSound
<1> HIDE DEF leave
<1>5. cleanupIxs' \in Seq(CleanupInstruction)
  BY <1>3, <1>4, Kept
<1>6. UNCHANGED <<potentialGroup, setupIxs, inBetweenIxs>> /\ pc' \in {"farms", "thrown"}
  BY DEF RequestGroupOnRepay, Throw
<1> QED BY <1>5, <1>6, Kept DEF ElevationLists, PC, IInv, StateSound

LEMMA RequestGroupOnBorrowSound == ASSUME IInv, RequestGroupOnBorrow PROVE ElevationLists
<1> DEFINE debt == IF supportAction = "borrow" THEN req.reserve ELSE req.outflow
           colls == IF supportAction = "borrow" THEN known.deposits ELSE {req.reserve}
<1>1. colls \subseteq Reserve
  BY PassReserves DEF IInv, StateSound, Chain
<1>2. \/ req.override # NoOverride /\ ElevationFor(req.override)
      \/ Throw /\ UNCHANGED <<potentialGroup, setupIxs, inBetweenIxs>>
      \/ \E coll \in colls : \E g \in bestGroups(commonElevationGroups(coll, debt)) :
           ElevationFor(g)
  BY DEF RequestGroupOnBorrow
<1> HIDE DEF debt, colls
<1>3. cleanupIxs' \in Seq(CleanupInstruction)
  BY Kept DEF RequestGroupOnBorrow
<1>4. ASSUME NEW g \in GroupId \union {NoOverride}, ElevationFor(g)
      PROVE  ElevationLists
  BY <1>3, <1>4, ElevationForSound DEF ElevationLists
<1>5. CASE req.override # NoOverride /\ ElevationFor(req.override)
  BY <1>4, <1>5 DEF IInv, StateSound, Request
<1>6. CASE Throw /\ UNCHANGED <<potentialGroup, setupIxs, inBetweenIxs>>
  BY <1>3, <1>6, Kept DEF ElevationLists, Throw, PC, IInv, StateSound
<1>7. ASSUME NEW coll \in colls, NEW g \in bestGroups(commonElevationGroups(coll, debt)),
             ElevationFor(g)
      PROVE  ElevationLists
  <2>1. g \in GroupId \union {NoOverride}
    BY <1>1, BestGroupIsId
  <2> QED BY <1>4, <1>7, <2>1
<1> QED BY <1>2, <1>5, <1>6, <1>7

LEMMA RequestGroupOnDepositSound == ASSUME IInv, RequestGroupOnDeposit PROVE ElevationLists
<1>1. req.override \in GroupId \union {NoOverride}
  BY DEF IInv, StateSound, Request
<1>2. setupIxs' \in Seq(SetupInstruction) /\ inBetweenIxs' \in Seq(SupportInstruction)
  BY <1>1, SwitchGroupSeq, Pushed, Kept DEF RequestGroupOnDeposit
<1>3. UNCHANGED <<potentialGroup, cleanupIxs>> /\ pc' = "farms"
  BY DEF RequestGroupOnDeposit
<1> QED BY <1>2, <1>3, Kept DEF ElevationLists, PC, IInv, StateSound

LEMMA AddRequestElevationSound == ASSUME IInv, AddRequestElevation PROVE IInv'
<1>1. ElevationLists
  <2>1. CASE RequestGroupOnRepay
    BY <2>1, RequestGroupOnRepaySound
  <2>2. CASE RequestGroupOnBorrow
    BY <2>2, RequestGroupOnBorrowSound
  <2>3. CASE RequestGroupOnDeposit
    BY <2>3, RequestGroupOnDepositSound
  <2>4. CASE NoGroupRequest
    BY <2>4, Kept DEF NoGroupRequest, ElevationLists, PC, IInv, StateSound
  <2> QED BY <2>1, <2>2, <2>3, <2>4 DEF AddRequestElevation
<1>2. NextState
  BY <1>1 DEF AddRequestElevation, OnlyElevation, ElevationLists, loaded, NextState,
              IInv, StateSound
<1>3. NextReserves
  BY Kept DEF AddRequestElevation, OnlyElevation
<1>4. NextLists
  BY <1>1, Kept DEF AddRequestElevation, OnlyElevation, ElevationLists, NextLists
<1> QED BY <1>2, <1>3, <1>4, Preserved

-----------------------------------------------------------------------------
LEMMA FarmRefreshSeq ==
  ASSUME IInv
  PROVE  farmRefreshIxs \in Seq(SupportInstruction)
<1>1. ASSUME NEW S, NEW mode \in Mode
      PROVE  RefreshFarms(S, mode) \in Seq(SupportInstruction)
  BY RefreshFarmsSeq
<1>2. RefreshFarms({req.outflow}, "coll") \o RefreshFarms({req.reserve}, "debt")
        \in Seq(SupportInstruction)
  BY <1>1, Concatenated DEF Mode
<1> QED BY <1>1, <1>2 DEF farmRefreshIxs, Mode

LEMMA AddRefreshFarmsSound == ASSUME IInv, AddRefreshFarms PROVE IInv'
<1>1. /\ setupIxs \o farmRefreshIxs \in Seq(SetupInstruction)
      /\ inBetweenIxs \o farmRefreshIxs \in Seq(SupportInstruction)
      /\ refreshFarmsCleanupTxnIxs \o farmRefreshIxs \in Seq(SupportInstruction)
  BY FarmRefreshSeq, SupportFits, Concatenated DEF IInv, ListsSound
<1>2. /\ setupIxs' \in Seq(SetupInstruction) /\ inBetweenIxs' \in Seq(SupportInstruction)
      /\ refreshFarmsCleanupTxnIxs' \in Seq(SupportInstruction)
  BY <1>1 DEF AddRefreshFarms, IInv, ListsSound
<1>3. NextState /\ NextReserves
  BY Kept DEF AddRefreshFarms, PC
<1>4. NextLists
  BY <1>2, Kept DEF AddRefreshFarms, NextLists
<1> QED BY <1>3, <1>4, Preserved

-----------------------------------------------------------------------------
\* The lending instructions, with the deposit reserves they list.
LEMMA LendingIx ==
  ASSUME NEW op \in LendingOp, NEW r \in Reserve \union {NoReserve},
         op \in PositionOp => <<op, r>> \in ownChanges,
         NEW D \in SUBSET Reserve, D \subseteq ownDeposits
  PROVE  Ix(op, r, D) \in LendingInstruction
BY DEF Ix, LendingInstruction, OwnInstruction, Instruction, How, GroupId, IxOp, LendingOp,
       PositionOp

\* An action with one lending instruction changes the position it names.
LEMMA PlainChange ==
  ASSUME req.action \notin TwoTokenAction
  PROVE  <<req.action, req.reserve>> \in ownChanges
BY DEF ownChanges, TwoTokenAction

LEMMA AddPlainIxSound ==
  ASSUME IInv, NEW action \in LendingOp \ TwoTokenAction, AddPlainIx(action)
  PROVE  IInv'
<1>1. Ix(action, req.reserve, {}) \in LendingInstruction
  BY PassReserves, LendingIx, PlainChange DEF AddPlainIx
<1>2. lendingIxs' \in Seq(LendingInstruction)
  BY <1>1 DEF AddPlainIx, IInv, ListsSound
<1>3. NextState
  BY Kept DEF AddPlainIx, OnlyLending, PC
<1>4. NextReserves
  BY Kept DEF AddPlainIx, OnlyLending, reserveLists
<1>5. NextLists
  BY <1>2, Kept DEF AddPlainIx, OnlyLending, NextLists
<1> QED BY <1>3, <1>4, <1>5, Preserved

LEMMA AddDebtIxSound ==
  ASSUME IInv, NEW action \in LendingOp \ TwoTokenAction, NEW inGroup \in BOOLEAN,
         AddDebtIx(action, inGroup)
  PROVE  IInv'
<1> DEFINE accounts == IF inGroup THEN AdditionalDepositReservesList ELSE {}
<1>1. accounts \subseteq ownDeposits /\ accounts \in SUBSET Reserve
  BY PositionSeqs
<1>2. \/ lendingIxs' = Append(lendingIxs, Ix(action, req.reserve, accounts))
      \/ UNCHANGED lendingIxs
  BY DEF AddDebtIx
<1> HIDE DEF accounts
<1>3. Ix(action, req.reserve, accounts) \in LendingInstruction
  BY <1>1, PassReserves, LendingIx, PlainChange DEF AddDebtIx
<1>4. lendingIxs' \in Seq(LendingInstruction)
  <2>1. lendingIxs \in Seq(LendingInstruction)
    BY DEF IInv, ListsSound
  <2>2. Append(lendingIxs, Ix(action, req.reserve, accounts)) \in Seq(LendingInstruction)
    BY <1>3, <2>1
  <2> QED BY <1>2, <2>1, <2>2
<1>5. NextState
  BY Kept DEF AddDebtIx, OnlyLending, Throw, PC
<1>6. NextReserves
  BY PositionSeqs DEF AddDebtIx, OnlyLending, NextReserves, IInv, StateSound, ReserveListsSound
<1>7. NextLists
  BY <1>4, Kept DEF AddDebtIx, OnlyLending, NextLists
<1> QED BY <1>5, <1>6, <1>7, Preserved

\* Two lending instructions, of which at most one lists deposit reserves.
LEMMA TwoIxs ==
  ASSUME IInv, NEW i \in LendingInstruction, NEW j \in LendingInstruction
  PROVE  lendingIxs \o <<i, j>> \in Seq(LendingInstruction)
<1>1. <<i, j>> \in Seq(LendingInstruction)
  OBVIOUS
<1> QED BY <1>1, Concatenated DEF IInv, ListsSound

LEMMA AddDepositAndBorrowIxSound == ASSUME IInv, AddDepositAndBorrowIx PROVE IInv'
<1>1. /\ req.reserve \in ownDeposits /\ req.reserve \in Reserve
      /\ req.outflow \in Reserve \union {NoReserve}
  BY PassReserves DEF AddDepositAndBorrowIx, ownDeposits
<1>2. depositReserves' \subseteq ownDeposits /\ depositReserves' \in SUBSET Reserve
  BY <1>1, PositionSeqs DEF AddDepositAndBorrowIx
<1>3. /\ Ix("deposit", req.reserve, {}) \in LendingInstruction
      /\ Ix("borrow", req.outflow, depositReserves') \in LendingInstruction
  BY <1>1, <1>2, LendingIx DEF LendingOp, PositionOp, ownChanges, AddDepositAndBorrowIx
<1>4. lendingIxs' \in Seq(LendingInstruction)
  BY <1>3, TwoIxs DEF AddDepositAndBorrowIx
<1>5. NextState
  BY DEF AddDepositAndBorrowIx, OnlyLending, loaded, NextState, PC, IInv, StateSound
<1>6. NextReserves
  BY <1>2 DEF AddDepositAndBorrowIx, OnlyLending, NextReserves, IInv, StateSound,
              ReserveListsSound
<1>7. NextLists
  BY <1>4, Kept DEF AddDepositAndBorrowIx, OnlyLending, NextLists
<1> QED BY <1>5, <1>6, <1>7, Preserved

LEMMA AddRepayAndWithdrawIxsSound == ASSUME IInv, AddRepayAndWithdrawIxs PROVE IInv'
<1>1. req.reserve \in Reserve /\ req.outflow \in Reserve \union {NoReserve}
  BY PassReserves
<1>2. depositReserves' \subseteq ownDeposits /\ depositReserves' \in SUBSET Reserve
  BY PositionSeqs DEF AddRepayAndWithdrawIxs
<1>3. /\ Ix("repay", req.reserve, depositReserves') \in LendingInstruction
      /\ Ix("withdraw", req.outflow, {}) \in LendingInstruction
  BY <1>1, <1>2, LendingIx DEF LendingOp, PositionOp, ownChanges, AddRepayAndWithdrawIxs
<1>4. lendingIxs' \in Seq(LendingInstruction)
  BY <1>3, TwoIxs DEF AddRepayAndWithdrawIxs
<1>5. NextState
  BY DEF AddRepayAndWithdrawIxs, OnlyLending, loaded, NextState, PC, IInv, StateSound
<1>6. NextReserves
  BY <1>2 DEF AddRepayAndWithdrawIxs, OnlyLending, NextReserves, IInv, StateSound,
              ReserveListsSound
<1>7. NextLists
  BY <1>4, Kept DEF AddRepayAndWithdrawIxs, OnlyLending, NextLists
<1> QED BY <1>5, <1>6, <1>7, Preserved

LEMMA AddRefreshObligationSound == ASSUME IInv, AddRefreshObligation PROVE IInv'
<1> DEFINE farms == RefreshFarms(depositReserves, "coll") \o RefreshFarms(borrowReserves, "debt")
           all == RefreshReserves(depositReserves \union borrowReserves)
           request == IF req.action = "refreshObligation" THEN <<>>
                      ELSE RequestElevation(req.override, FALSE)
<1>1. farms \in Seq(SupportInstruction)
  BY RefreshFarmsSeq, Concatenated DEF Mode
<1>2. all \in Seq(SupportInstruction)
  BY RefreshReservesSeq DEF IInv, StateSound
<1>3. request \in Seq(SupportInstruction)
  <2>1. CASE req.action = "refreshObligation"
    BY <2>1
  <2>2. CASE req.action # "refreshObligation"
    <3>1. req.override \in GroupId
      BY <2>2 DEF AddRefreshObligation, ObligationOnly, IInv, StateSound, CallSound, Request
    <3>2. RequestElevation(req.override, FALSE) \in Seq(SupportInstruction)
      BY <3>1, PositionSeqs
    <3> QED BY <2>2, <3>2
  <2> QED BY <2>1, <2>2
<1>4. RefreshObligation(FALSE) \in Seq(SupportInstruction)
  BY PositionSeqs
<1>5. /\ setupIxs' = setupIxs \o all \o farms \o RefreshObligation(FALSE) \o request
      /\ refreshFarmsCleanupTxnIxs' = refreshFarmsCleanupTxnIxs \o farms
  BY DEF AddRefreshObligation
<1> HIDE DEF farms, all, request
<1>6. /\ setupIxs' \in Seq(SetupInstruction)
      /\ refreshFarmsCleanupTxnIxs' \in Seq(SupportInstruction)
  BY <1>1, <1>2, <1>3, <1>4, <1>5, SupportFits, Concatenated DEF IInv, ListsSound
<1>7. NextState /\ NextReserves
  BY Kept DEF AddRefreshObligation, PC
<1>8. NextLists
  BY <1>6, Kept DEF AddRefreshObligation, NextLists
<1> QED BY <1>7, <1>8, Preserved

LEMMA AddWithdrawReferrerFeesSound == ASSUME IInv, AddWithdrawReferrerFees PROVE IInv'
<1>1. req.reserve \in Reserve
  BY PassReserves
<1>2. CreateIfMissing("createAta", chain.atas, req.reserve) \in Seq(SetupInstruction)
  BY <1>1, CreateSeq
<1>3. RefreshReserves({req.reserve}) \in Seq(SetupInstruction)
  BY <1>1, RefreshReservesSeq, SupportFits
<1>4. Ix("withdrawReferrerFees", req.reserve, {}) \in LendingInstruction
  BY <1>1, LendingIx DEF LendingOp, PositionOp
<1>5. /\ preTxnIxs' \in Seq(SetupInstruction)
      /\ setupIxs' \in Seq(SetupInstruction)
      /\ lendingIxs' \in Seq(LendingInstruction)
  <2>1. preTxnIxs' \in Seq(SetupInstruction)
    BY <1>2, Concatenated DEF AddWithdrawReferrerFees, IInv, ListsSound
  <2>2. setupIxs' \in Seq(SetupInstruction)
    BY <1>3, Concatenated DEF AddWithdrawReferrerFees, IInv, ListsSound
  <2>3. lendingIxs' \in Seq(LendingInstruction)
    BY <1>4 DEF AddWithdrawReferrerFees, IInv, ListsSound
  <2> QED BY <2>1, <2>2, <2>3
<1>6. NextState /\ NextReserves
  BY Kept DEF AddWithdrawReferrerFees, PC
<1>7. NextLists
  BY <1>5, Kept DEF AddWithdrawReferrerFees, NextLists
<1> QED BY <1>6, <1>7, Preserved

LEMMA AddRefreshFarmsCleanupTxnIxsToCleanupIxsSound ==
  ASSUME IInv, AddRefreshFarmsCleanupTxnIxsToCleanupIxs PROVE IInv'
<1>1. cleanupIxs' \in Seq(CleanupInstruction)
  BY SupportFits, Concatenated DEF AddRefreshFarmsCleanupTxnIxsToCleanupIxs, splicedCleanup, IInv,
                      ListsSound
<1>2. NextState /\ NextReserves
  BY Kept DEF AddRefreshFarmsCleanupTxnIxsToCleanupIxs, PC
<1>3. NextLists
  BY <1>1, Kept DEF AddRefreshFarmsCleanupTxnIxsToCleanupIxs, NextLists
<1> QED BY <1>2, <1>3, Preserved

-----------------------------------------------------------------------------
LEMMA StutterSound == ASSUME IInv, UNCHANGED vars PROVE IInv'
<1>1. /\ UNCHANGED <<req, chain, known, positions, referrer, pc, phase, potentialGroup>>
      /\ UNCHANGED <<depositReserves, borrowReserves, preLoadedDepositReservesSameTx,
                     preLoadedBorrowReservesSameTx>>
      /\ UNCHANGED <<setupIxs, inBetweenIxs, lendingIxs, cleanupIxs, preTxnIxs,
                     refreshFarmsCleanupTxnIxs>>
  BY DEF vars, loaded, reserveLists, lists
<1>2. /\ ownDeposits' = ownDeposits
      /\ SupportInstruction' = SupportInstruction /\ SetupInstruction' = SetupInstruction
      /\ CleanupInstruction' = CleanupInstruction /\ LendingInstruction' = LendingInstruction
  BY <1>1, SameOwn
<1>3. StateSound' /\ CallSound'
  BY <1>1 DEF IInv, StateSound, CallSound
<1>4. ReserveListsSound'
  BY <1>1, <1>2 DEF IInv, ReserveListsSound, Unbuilt
<1>5. ListsSound'
  BY <1>1, <1>2 DEF IInv, ListsSound
<1> QED BY <1>3, <1>4, <1>5 DEF IInv

LEMMA NextSound == ASSUME IInv, Next PROVE IInv'
<1>1. CASE Initialize
  BY <1>1, InitializeSound
<1>2. CASE AddComputeBudgetIxn
  BY <1>2, AddComputeBudgetIxnSound
<1>3. CASE AddScopeRefreshIxs
  BY <1>3, AddScopeRefreshIxsSound
<1>4. CASE AddInitUserMetadataIxs
  BY <1>4, AddInitUserMetadataIxsSound
<1>5. CASE AddInitReferrerTokenStateIxs
  BY <1>5, AddInitReferrerTokenStateIxsSound
<1>6. CASE AddInitObligationIxs
  BY <1>6, AddInitObligationIxsSound
<1>7. CASE AddAtaIxs
  BY <1>7, AddAtaIxsSound
<1>8. CASE AddRefreshOtherReserves
  BY <1>8, AddRefreshOtherReservesSound
<1>9. CASE AddInitObligationForFarms
  BY <1>9, AddInitObligationForFarmsSound
<1>10. CASE AddRefreshCurrent
  BY <1>10, AddRefreshCurrentSound
<1>11. CASE AddRequestElevation
  BY <1>11, AddRequestElevationSound
<1>12. CASE AddRefreshFarms
  BY <1>12, AddRefreshFarmsSound
<1>13. CASE AddLendingIx
  <2>1. ASSUME NEW action \in {"deposit", "mint", "redeem", "depositCollateral", "withdraw"},
               AddPlainIx(action)
        PROVE  IInv'
    BY <2>1, AddPlainIxSound DEF LendingOp, PositionOp, TwoTokenAction
  <2>2. ASSUME NEW action \in {"borrow", "repay", "liquidate"}, NEW inGroup \in BOOLEAN,
               AddDebtIx(action, inGroup)
        PROVE  IInv'
    BY <2>2, AddDebtIxSound DEF LendingOp, PositionOp, TwoTokenAction
  <2>3. CASE AddDepositAndBorrowIx
    BY <2>3, AddDepositAndBorrowIxSound
  <2>4. CASE AddRepayAndWithdrawIxs
    BY <2>4, AddRepayAndWithdrawIxsSound
  <2>5. CASE AddRefreshObligation
    BY <2>5, AddRefreshObligationSound
  <2>6. CASE AddWithdrawReferrerFees
    BY <2>6, AddWithdrawReferrerFeesSound
  <2>7. CASE \/ AddDepositIx \/ AddDepositReserveLiquidityIx \/ AddRedeemReserveCollateralIx
             \/ AddDepositObligationCollateralIx \/ AddWithdrawIx
    BY <2>1, <2>7 DEF AddDepositIx, AddDepositReserveLiquidityIx, AddRedeemReserveCollateralIx,
                      AddDepositObligationCollateralIx, AddWithdrawIx
  <2>8. CASE AddBorrowIx
    <3> DEFINE inGroup == known.group > 0 \/ potentialGroup > 0
    <3>1. inGroup \in BOOLEAN
      OBVIOUS
    <3>2. AddDebtIx("borrow", inGroup)
      BY <2>8 DEF AddBorrowIx
    <3> HIDE DEF inGroup
    <3> QED BY <2>2, <3>1, <3>2
  <2>9. CASE AddRepayIx
    <3> DEFINE inGroup == known.group > 0
    <3>1. inGroup \in BOOLEAN
      OBVIOUS
    <3>2. AddDebtIx("repay", inGroup)
      BY <2>9 DEF AddRepayIx
    <3> HIDE DEF inGroup
    <3> QED BY <2>2, <3>1, <3>2
  <2>10. CASE AddLiquidateIx
    <3> DEFINE inGroup == known.group > 0
    <3>1. inGroup \in BOOLEAN
      OBVIOUS
    <3>2. AddDebtIx("liquidate", inGroup)
      BY <2>10 DEF AddLiquidateIx
    <3> HIDE DEF inGroup
    <3> QED BY <2>2, <3>1, <3>2
  <2> QED BY <1>13, <2>3, <2>4, <2>5, <2>6, <2>7, <2>8, <2>9, <2>10 DEF AddLendingIx
<1>14. CASE AddRefreshFarmsCleanupTxnIxsToCleanupIxs
  BY <1>14, AddRefreshFarmsCleanupTxnIxsToCleanupIxsSound
<1> QED BY <1>1, <1>2, <1>3, <1>4, <1>5, <1>6, <1>7, <1>8, <1>9, <1>10, <1>11, <1>12,
           <1>13, <1>14 DEF Next

LEMMA StepSound == IInv /\ [Next]_vars => IInv'
BY NextSound, StutterSound

\* IInv holds of every behaviour of the builder: it is what makes the two
\* properties below inductive.
THEOREM Invariance == Spec => []IInv
BY InitSound, StepSound, PTL DEF Spec

\* Every list, count and reserve list of the builder keeps its shape through
\* all steps of every build, whatever market, calls and chains are given.
THEOREM TypeCorrect == Spec => []TypeOK
<1>1. IInv => TypeOK
  BY IInvImplies
<1> QED BY <1>1, Invariance, PTL

\* No build ever names, in any instruction, a position that is neither in the
\* obligation it loaded nor deposited by the call itself: the arrays that
\* getAdditionalDepositReservesList hands out and lets every later pass grow
\* never let another reserve in.
THEOREM PositionListsSound == Spec => []ListsOwnPositions
<1>1. IInv => ListsOwnPositions
  BY IInvImplies
<1> QED BY <1>1, Invariance, PTL

-----------------------------------------------------------------------------
(***************************************************************************)
(* A build loads the obligation once, and counts and refuses by it.        *)
(***************************************************************************)
LEMMA StepKeeps ==
  ASSUME Next, ~Initialize
  PROVE  pc \notin {"initialize", "thrown"} /\ UNCHANGED loaded
<1>1. CASE AddComputeBudgetIxn
  BY <1>1 DEF AddComputeBudgetIxn
<1>2. CASE AddScopeRefreshIxs
  BY <1>2 DEF AddScopeRefreshIxs
<1>3. CASE AddInitUserMetadataIxs \/ AddInitReferrerTokenStateIxs \/ AddInitObligationIxs
  BY <1>3 DEF AddInitUserMetadataIxs, AddInitReferrerTokenStateIxs, AddInitObligationIxs, OnlySetup
<1>4. CASE AddAtaIxs
  BY <1>4 DEF AddAtaIxs
<1>5. CASE AddRefreshOtherReserves \/ AddInitObligationForFarms \/ AddRefreshCurrent
  BY <1>5 DEF AddRefreshOtherReserves, AddInitObligationForFarms, AddRefreshCurrent, OnlySupport
<1>6. CASE AddRequestElevation
  BY <1>6 DEF AddRequestElevation, OnlyElevation
<1>7. CASE AddRefreshFarms
  BY <1>7 DEF AddRefreshFarms
<1>8. CASE AddLendingIx
  BY <1>8 DEF AddLendingIx, AddDepositIx, AddDepositReserveLiquidityIx,
       AddRedeemReserveCollateralIx, AddDepositObligationCollateralIx, AddWithdrawIx, AddBorrowIx,
       AddRepayIx, AddLiquidateIx, AddPlainIx, AddDebtIx, AddDepositAndBorrowIx,
       AddRepayAndWithdrawIxs, AddRefreshObligation, AddWithdrawReferrerFees, OnlyLending
<1>9. CASE AddRefreshFarmsCleanupTxnIxsToCleanupIxs
  BY <1>9 DEF AddRefreshFarmsCleanupTxnIxsToCleanupIxs
<1> QED BY <1>1, <1>2, <1>3, <1>4, <1>5, <1>6, <1>7, <1>8, <1>9 DEF Next

\* The positions are counted as they are on loading.
CountSound ==
  pc \notin {"initialize", "thrown"} /\ req.action # "withdrawReferrerFees" =>
    /\ positions = distinctReserveCount(req.action, req.reserve, req.outflow, known.deposits,
                                        known.borrows)
    /\ positions <= POSITION_LIMIT

LEMMA CountStep == ASSUME CountSound, Next PROVE CountSound'
<1>1. CASE Initialize
  BY <1>1 DEF Initialize, CountSound, withinLimit
<1>2. CASE ~Initialize
  BY <1>2, StepKeeps DEF CountSound, loaded
<1> QED BY <1>1, <1>2

\* Why a build throws.
ThrowReason ==
  \/ positions > POSITION_LIMIT
  \/ req.action = "refreshObligation" /\ ~known.slot0
  \/ req.action = "requestElevationGroup" /\ known.deposits = {}
  \/ req.action \in {"repay", "repayAndWithdraw"} /\ req.reserve \notin known.borrows
  \/ req.action = "borrow" /\ known.deposits = {}
  \/ req.action \in {"borrow", "repay", "liquidate"} /\ ~known.obligation

ThrownSound == pc = "thrown" => ThrowReason

LEMMA ThrownStep == ASSUME IInv, Next PROVE ThrownSound'
<1> SUFFICES ASSUME pc' = "thrown" PROVE ThrowReason'
  BY DEF ThrownSound
<1>1. CASE Initialize
  <2>1. known' = chain /\ UNCHANGED req
    BY <1>1 DEF Initialize
  <2>2. ~placeholderReserveFound \/ ~withinLimit(positions')
    BY <1>1 DEF Initialize
  <2>3. CASE ~placeholderReserveFound
    BY <2>1, <2>3 DEF placeholderReserveFound, ThrowReason
  <2>4. CASE ~withinLimit(positions')
    <3>1. IInv'
      BY <1>1, InitializeSound
    <3>2. positions' \in Nat /\ POSITION_LIMIT \in Nat
      BY <3>1, InputAssumption DEF IInv, StateSound
    <3> QED BY <2>4, <3>2 DEF withinLimit, ThrowReason
  <2> QED BY <2>2, <2>3, <2>4
<1>2. CASE ~Initialize
  <2> USE DEF Throw
  <2>1. UNCHANGED loaded
    BY <1>2, StepKeeps
  <2>2. ThrowReason => ThrowReason'
    BY <2>1 DEF loaded, ThrowReason
  <2>3. supportAction = "repay" => req.action \in {"repay", "repayAndWithdraw"}
    BY DEF supportAction, twoToken, TwoTokenAction
  <2>4. supportAction = "borrow" => req.action = "borrow"
    BY DEF supportAction, twoToken, TwoTokenAction
  <2>5. supportAction = "repayAndWithdraw" => req.action = "repayAndWithdraw"
    BY DEF supportAction, twoToken, TwoTokenAction
  <2>6. CASE AddAtaIxs
    <3>1. supportAction = "repay" /\ req.reserve \notin known.borrows
      BY <2>6 DEF AddAtaIxs
    <3> QED BY <2>2, <2>3, <3>1 DEF ThrowReason
  <2>7. CASE AddRefreshOtherReserves
    <3>1. supportAction = "repayAndWithdraw" /\ req.reserve \notin known.borrows
      BY <2>7 DEF AddRefreshOtherReserves
    <3> QED BY <2>2, <2>5, <3>1 DEF ThrowReason
  <2>8. CASE AddRequestElevation
    <3>1. CASE RequestGroupOnRepay
      <4>1. supportAction = "repay" /\ req.reserve \notin known.borrows
        BY <3>1 DEF RequestGroupOnRepay
      <4> QED BY <2>2, <2>3, <4>1 DEF ThrowReason
    <3>2. CASE RequestGroupOnBorrow
      <4>1. ASSUME NEW g, ElevationFor(g) PROVE supportAction = "borrow" /\ ~known.obligation
        BY <4>1 DEF ElevationFor
      <4>2. CASE supportAction = "borrow"
        <5>1. known.deposits = {} \/ ~known.obligation
          BY <3>2, <4>1, <4>2, Zenon DEF RequestGroupOnBorrow
        <5> QED BY <2>2, <2>4, <4>2, <5>1 DEF ThrowReason
      <4>3. CASE supportAction # "borrow"
        BY <3>2, <4>1, <4>3 DEF RequestGroupOnBorrow
      <4> QED BY <4>2, <4>3
    <3>3. CASE RequestGroupOnDeposit \/ NoGroupRequest
      BY <3>3 DEF RequestGroupOnDeposit, NoGroupRequest
    <3> QED BY <2>8, <3>1, <3>2, <3>3 DEF AddRequestElevation
  <2>9. CASE AddBorrowIx \/ AddRepayIx \/ AddLiquidateIx
    <3>1. req.action \in {"borrow", "repay", "liquidate"} /\ ~known.obligation
      BY <2>9 DEF AddBorrowIx, AddRepayIx, AddLiquidateIx, AddDebtIx
    <3> QED BY <2>2, <3>1 DEF ThrowReason
  <2>10. CASE \/ AddComputeBudgetIxn \/ AddScopeRefreshIxs \/ AddInitUserMetadataIxs
              \/ AddInitReferrerTokenStateIxs \/ AddInitObligationIxs
              \/ AddInitObligationForFarms \/ AddRefreshCurrent \/ AddRefreshFarms
              \/ AddRefreshFarmsCleanupTxnIxsToCleanupIxs
    BY <2>10 DEF AddComputeBudgetIxn, AddScopeRefreshIxs, AddInitUserMetadataIxs,
         AddInitReferrerTokenStateIxs, AddInitObligationIxs, AddInitObligationForFarms,
         AddRefreshCurrent, AddRefreshFarms, AddRefreshFarmsCleanupTxnIxsToCleanupIxs
  <2>11. CASE \/ AddDepositIx \/ AddDepositReserveLiquidityIx \/ AddRedeemReserveCollateralIx
              \/ AddDepositObligationCollateralIx \/ AddWithdrawIx \/ AddDepositAndBorrowIx
              \/ AddRepayAndWithdrawIxs \/ AddRefreshObligation \/ AddWithdrawReferrerFees
    BY <2>11 DEF AddDepositIx, AddDepositReserveLiquidityIx, AddRedeemReserveCollateralIx,
         AddDepositObligationCollateralIx, AddWithdrawIx, AddPlainIx, AddDepositAndBorrowIx,
         AddRepayAndWithdrawIxs, AddRefreshObligation, AddWithdrawReferrerFees
  <2> QED BY <1>2, <2>6, <2>7, <2>8, <2>9, <2>10, <2>11 DEF Next, AddLendingIx
<1> QED BY <1>1, <1>2

-----------------------------------------------------------------------------
(***************************************************************************)
(* Sending: what is executed is what was built, on the ledger that the     *)
(* build has seen, save for accounts the preceding transaction created.    *)
(***************************************************************************)
ListedInstruction == SetupInstruction \union CleanupInstruction \union LendingInstruction

openedDeposits == {r \in Reserve : \E op \in {"deposit", "depositCollateral"} :
                                     <<op, r>> \in ownChanges}
openedBorrows == {r \in Reserve : <<"borrow", r>> \in ownChanges}

PositionsWithin(l) ==
  /\ l.deposits \subseteq known.deposits \union openedDeposits
  /\ l.borrows \subseteq known.borrows \union openedBorrows

Status == {"building", "pre", "lending", "committed", "rejected", "dropped"}

SendSound ==
  /\ status \in Status
  /\ ledger \in Chain /\ queue \in Seq(ListedInstruction)
  /\ status = "building" => queue = <<>> /\ (pc # "initialize" => known = chain)
  /\ status # "building" => pc = "built"
  /\ status = "committed" => chain = ledger
  /\ status # "committed" => chain.deposits = known.deposits /\ chain.borrows = known.borrows
  /\ PositionsWithin(ledger)

SendCore == IInv /\ CountSound /\ ThrownSound /\ SendSound

\* A change of a position is one of a reserve.
LEMMA ChangesReserve ==
  ASSUME IInv, NEW ix \in ListedInstruction, ix.op \in PositionOp
  PROVE  ix.res \in Reserve /\ <<ix.op, ix.res>> \in ownChanges
<1>1. ix \in OwnInstruction
  BY OwnIsInstruction DEF ListedInstruction
<1>2. <<ix.op, ix.res>> \in ownChanges
  BY <1>1 DEF OwnInstruction
<1>3. req.reserve \in Reserve /\ (req.action \in TwoTokenAction => req.outflow \in Reserve)
  BY DEF IInv, StateSound, CallSound, Request
<1>4. ix.res \in Reserve
  BY <1>2, <1>3 DEF ownChanges, TwoTokenAction
<1> QED BY <1>2, <1>4

LEMMA LedgerAfterTyped ==
  ASSUME IInv, NEW l \in Chain, NEW ix \in ListedInstruction
  PROVE  LedgerAfter(ix, l) \in Chain
<1>1. ix \in OwnInstruction /\ ix \in Instruction
  BY OwnIsInstruction DEF ListedInstruction
<1>2. ix.op \in PositionOp => ix.res \in Reserve
  BY ChangesReserve
<1>3. ix.op \in {"createAta", "createColAta"} => ix.res \in Reserve
  BY DEF ListedInstruction, SetupInstruction, CleanupInstruction, LendingInstruction,
         SupportInstruction, SupportOp, AccountOp, LendingOp, PositionOp
<1>4. ix.op = "initFarm" => ix.how \in Mode
  BY DEF ListedInstruction, SetupInstruction, CleanupInstruction, LendingInstruction,
         SupportInstruction, SupportOp, AccountOp, LendingOp, PositionOp
<1>5. ix.deps \subseteq Reserve /\ ix.grp \in GroupId /\ referrer \in BOOLEAN
  BY <1>1 DEF Instruction, IInv, StateSound
<1>6. CASE ix.op \in {"createAta", "createColAta", "closeAta"}
  BY <1>3, <1>6 DEF LedgerAfter, Chain
<1>7. CASE ix.op \in {"initUserMetadata", "initReferrerTokenState", "initObligation"}
  BY <1>5, <1>7 DEF LedgerAfter, Chain
<1>8. CASE ix.op = "initFarm"
  BY <1>4, <1>5, <1>8 DEF LedgerAfter, Chain
<1>9. CASE ix.op = "requestElevationGroup"
  BY <1>5, <1>9 DEF LedgerAfter, Chain
<1>10. CASE ix.op \in PositionOp
  BY <1>2, <1>10 DEF LedgerAfter, Chain, PositionOp
<1>11. CASE ix.op \notin {"createAta", "createColAta", "closeAta", "initUserMetadata",
                          "initReferrerTokenState", "initObligation", "initFarm",
                          "requestElevationGroup"} \union PositionOp
  BY <1>11 DEF LedgerAfter, PositionOp
<1> QED BY <1>6, <1>7, <1>8, <1>9, <1>10, <1>11

LEMMA LedgerAfterWithin ==
  ASSUME IInv, ledger \in Chain, PositionsWithin(ledger), NEW ix \in ListedInstruction
  PROVE  PositionsWithin(LedgerAfter(ix, ledger))
<1>1. ix.op \in PositionOp => ix.res \in Reserve /\ <<ix.op, ix.res>> \in ownChanges
  BY ChangesReserve
<1> DEFINE l == LedgerAfter(ix, ledger)
<1>2. \/ l.deposits \subseteq ledger.deposits
      \/ /\ ix.op \in {"deposit", "depositCollateral"}
         /\ l.deposits = ledger.deposits \union {ix.res}
  BY DEF LedgerAfter, Chain
<1>3. \/ l.borrows \subseteq ledger.borrows
      \/ ix.op = "borrow" /\ l.borrows = ledger.borrows \union {ix.res}
  BY DEF LedgerAfter, Chain
<1> HIDE DEF l
<1>4. l.deposits \subseteq known.deposits \union openedDeposits
  BY <1>1, <1>2 DEF PositionsWithin, openedDeposits, PositionOp
<1>5. l.borrows \subseteq known.borrows \union openedBorrows
  BY <1>1, <1>3 DEF PositionsWithin, openedBorrows, PositionOp
<1> QED BY <1>4, <1>5 DEF PositionsWithin, l

LEMMA TxnListed ==
  ASSUME IInv
  PROVE  lendingTxn \in Seq(ListedInstruction)
<1>1. /\ setupIxs \in Seq(ListedInstruction) /\ inBetweenIxs \in Seq(ListedInstruction)
      /\ lendingIxs \in Seq(ListedInstruction) /\ cleanupIxs \in Seq(ListedInstruction)
  BY SupportFits, SeqSubset DEF IInv, ListsSound, ListedInstruction
<1> DEFINE middle == IF Len(lendingIxs) = 2
                     THEN <<lendingIxs[1]>> \o inBetweenIxs \o <<lendingIxs[2]>>
                     ELSE lendingIxs
<1>2. CASE Len(lendingIxs) = 2
  <2>0. lendingIxs[1] \in ListedInstruction /\ lendingIxs[2] \in ListedInstruction
    <3>1. 1 \in 1..Len(lendingIxs) /\ 2 \in 1..Len(lendingIxs)
      BY <1>2
    <3> QED BY <1>1, <3>1, ElementOfSeq, Zenon
  <2> DEFINE lent == lendingIxs[1]
             rest == lendingIxs[2]
  <2> HIDE DEF lent, rest
  <2>a. <<lent>> \in Seq(ListedInstruction) /\ <<rest>> \in Seq(ListedInstruction)
    BY <2>0 DEF lent, rest
  <2>1. <<lendingIxs[1]>> \in Seq(ListedInstruction) /\ <<lendingIxs[2]>> \in Seq(ListedInstruction)
    BY <2>a DEF lent, rest
  <2>2. middle = <<lendingIxs[1]>> \o inBetweenIxs \o <<lendingIxs[2]>>
    BY <1>2
  <2> HIDE DEF middle
  <2>3. middle \in Seq(ListedInstruction)
    BY <1>1, <2>1, <2>2, Concatenated
  <2> QED BY <1>1, <2>3, Concatenated DEF lendingTxn, middle
<1>3. CASE Len(lendingIxs) # 2
  BY <1>1, <1>3, Concatenated DEF lendingTxn
<1> QED BY <1>2, <1>3

\* What the build has made of the call stays as it is while it is sent.
LEMMA BuiltKept ==
  ASSUME IInv, chain' \in Chain,
         UNCHANGED <<req, pc, phase, known, positions, referrer, reserveLists, potentialGroup, lists>>
  PROVE  IInv' /\ (CountSound => CountSound') /\ (ThrownSound => ThrownSound')
<1>1. /\ UNCHANGED <<depositReserves, borrowReserves, preLoadedDepositReservesSameTx,
                     preLoadedBorrowReservesSameTx>>
      /\ UNCHANGED <<setupIxs, inBetweenIxs, lendingIxs, cleanupIxs, preTxnIxs,
                     refreshFarmsCleanupTxnIxs>>
  BY DEF reserveLists, lists
<1>2. /\ ownDeposits' = ownDeposits
      /\ SupportInstruction' = SupportInstruction /\ SetupInstruction' = SetupInstruction
      /\ CleanupInstruction' = CleanupInstruction /\ LendingInstruction' = LendingInstruction
  BY SameOwn
<1>3. StateSound' /\ CallSound'
  BY <1>1 DEF IInv, StateSound, CallSound
<1>4. ReserveListsSound'
  BY <1>1, <1>2 DEF IInv, ReserveListsSound, Unbuilt
<1>5. ListsSound'
  BY <1>1, <1>2 DEF IInv, ListsSound
<1>6. CountSound => CountSound'
  BY DEF CountSound
<1>7. ThrownSound => ThrownSound'
  BY DEF ThrownSound, ThrowReason
<1> QED BY <1>3, <1>4, <1>5, <1>6, <1>7 DEF IInv

LEMMA SameListed ==
  ASSUME UNCHANGED <<req, known>>
  PROVE  /\ ListedInstruction' = ListedInstruction
         /\ openedDeposits' = openedDeposits /\ openedBorrows' = openedBorrows
<1>1. ownChanges' = ownChanges
  BY DEF ownChanges
<1> QED BY <1>1, SameOwn DEF ListedInstruction, openedDeposits, openedBorrows

-----------------------------------------------------------------------------
LEMMA SendInitSound == SendInit => SendCore
<1> SUFFICES ASSUME SendInit PROVE SendCore
  OBVIOUS
<1>1. IInv
  BY InitSound DEF SendInit
<1>2. CountSound /\ ThrownSound
  BY DEF SendInit, Init, CountSound, ThrownSound
<1>3. SendSound
  BY <1>1 DEF SendInit, Init, SendSound, Status, PositionsWithin, IInv, StateSound
<1> QED BY <1>1, <1>2, <1>3 DEF SendCore

LEMMA BuildSound == ASSUME SendCore, Build PROVE SendCore'
<1>1. IInv' /\ CountSound' /\ ThrownSound'
  BY NextSound, CountStep, ThrownStep DEF SendCore, Build
<1>2. UNCHANGED <<status, queue, ledger>> /\ status = "building" /\ queue = <<>>
  BY DEF Build, sendVars, SendCore, SendSound
<1>3. UNCHANGED <<req, chain>> /\ known' = chain
  <2>1. CASE Initialize
    BY <2>1 DEF Initialize
  <2>2. CASE ~Initialize
    BY <2>2, <1>2, StepKeeps DEF Build, loaded, SendCore, SendSound
  <2> QED BY <2>1, <2>2
<1>4. chain.deposits = known.deposits /\ chain.borrows = known.borrows
  BY <1>2 DEF SendCore, SendSound
<1>5. openedDeposits' = openedDeposits /\ openedBorrows' = openedBorrows
  BY <1>3 DEF openedDeposits, openedBorrows, ownChanges
<1>6. PositionsWithin(ledger)'
  BY <1>2, <1>3, <1>4, <1>5 DEF PositionsWithin, SendCore, SendSound
<1>7. SendSound'
  BY <1>2, <1>3, <1>6 DEF SendCore, SendSound, Status
<1> QED BY <1>1, <1>7 DEF SendCore

LEMMA GetTransactionsSound == ASSUME SendCore, GetTransactions PROVE SendCore'
<1>1. IInv /\ CountSound /\ ThrownSound /\ SendSound
  BY DEF SendCore
<1>2. IInv' /\ CountSound' /\ ThrownSound'
  BY <1>1, BuiltKept DEF GetTransactions, vars, loaded, IInv, StateSound
<1>3. UNCHANGED <<req, chain, pc, known>>
  BY DEF GetTransactions, vars, loaded
<1>4. lendingTxn \in Seq(ListedInstruction)
  BY <1>1, TxnListed
<1>5. known = chain /\ chain \in Chain /\ pc = "built"
  BY <1>1 DEF GetTransactions, SendSound, IInv, StateSound
<1>6. PositionsWithin(chain)
  BY <1>5 DEF PositionsWithin
<1>7. status' \in {"pre", "lending"} /\ queue' = lendingTxn /\ ledger' = chain
  BY DEF GetTransactions
<1>8. SendSound'
  BY <1>1, <1>3, <1>4, <1>5, <1>6, <1>7, SameListed DEF SendSound, PositionsWithin, Status
<1> QED BY <1>2, <1>8 DEF SendCore

\* The preceding transaction creates token accounts, and nothing else.
LEMMA PreTxnCreates ==
  ASSUME SendCore, SendPreTxn
  PROVE  /\ chain' \in Chain /\ chain.atas \subseteq chain'.atas
         /\ chain' = [chain EXCEPT !.atas = chain'.atas, !.colAtas = chain'.colAtas]
<1>1. chain \in Chain /\ preTxnIxs \in Seq(SetupInstruction)
  BY DEF SendCore, IInv, StateSound, ListsSound
<1>2. CASE UNCHANGED chain
  BY <1>1, <1>2 DEF Chain
<1>3. CASE ~UNCHANGED chain
  <2> DEFINE created(op) == {ix.res : ix \in {preTxnIxs[i] : i \in {i \in 1..Len(preTxnIxs) :
                                                preTxnIxs[i].op = op}}}
  <2>1. ASSUME NEW op \in {"createAta", "createColAta"} PROVE created(op) \subseteq Reserve
    <3>1. ASSUME NEW ix \in SetupInstruction, ix.op = op PROVE ix.res \in Reserve
      BY <3>1 DEF SetupInstruction, SupportInstruction, SupportOp, AccountOp
    <3>2. \A i \in 1..Len(preTxnIxs) : preTxnIxs[i] \in SetupInstruction
      BY <1>1
    <3> QED BY <3>1, <3>2
  <2>2. chain' = [chain EXCEPT !.atas = @ \union created("createAta"),
                               !.colAtas = @ \union created("createColAta")]
    BY <1>3, Zenon DEF SendPreTxn
  <2> HIDE DEF created
  <2> QED BY <1>1, <2>1, <2>2 DEF Chain
<1> QED BY <1>2, <1>3

LEMMA SendPreTxnSound == ASSUME SendCore, SendPreTxn PROVE SendCore'
<1>1. IInv /\ CountSound /\ ThrownSound /\ SendSound
  BY DEF SendCore
<1>2. /\ chain' \in Chain
      /\ chain'.deposits = chain.deposits /\ chain'.borrows = chain.borrows
  BY PreTxnCreates, <1>1 DEF Chain, IInv, StateSound
<1>3. IInv' /\ CountSound' /\ ThrownSound'
  BY <1>1, <1>2, BuiltKept DEF SendPreTxn
<1>4. /\ UNCHANGED <<req, pc, known, queue>> /\ status = "pre" /\ status' = "lending"
      /\ ledger' = chain'
  BY DEF SendPreTxn
<1>5. chain.deposits = known.deposits /\ chain.borrows = known.borrows /\ pc = "built"
  BY <1>1, <1>4 DEF SendSound
<1>6. SendSound'
  BY <1>1, <1>2, <1>4, <1>5, SameListed DEF SendSound, PositionsWithin, Status
<1> QED BY <1>3, <1>6 DEF SendCore

LEMMA ExecuteIxSound == ASSUME SendCore, ExecuteIx PROVE SendCore'
<1>1. IInv /\ CountSound /\ ThrownSound /\ SendSound
  BY DEF SendCore
<1>2. IInv' /\ CountSound' /\ ThrownSound'
  BY <1>1, BuiltKept DEF ExecuteIx, vars, loaded, IInv, StateSound
<1>3. /\ UNCHANGED <<req, chain, pc, known, status>> /\ status = "lending"
      /\ ledger' = LedgerAfter(Head(queue), ledger) /\ queue' = Tail(queue)
  BY DEF ExecuteIx, vars, loaded
<1>4. Head(queue) \in ListedInstruction /\ Tail(queue) \in Seq(ListedInstruction)
  BY <1>1 DEF ExecuteIx, SendSound
<1>5. ledger' \in Chain /\ PositionsWithin(ledger)'
  <2>1. PositionsWithin(LedgerAfter(Head(queue), ledger))
    BY <1>1, <1>4, LedgerAfterWithin DEF SendSound
  <2>2. LedgerAfter(Head(queue), ledger) \in Chain
    BY <1>1, <1>4, LedgerAfterTyped DEF SendSound
  <2> HIDE DEF LedgerAfter
  <2> QED BY <1>3, <2>1, <2>2, SameListed DEF PositionsWithin
<1>6. SendSound'
  BY <1>1, <1>3, <1>4, <1>5, SameListed DEF SendSound
<1> QED BY <1>2, <1>6 DEF SendCore

LEMMA RejectSound == ASSUME SendCore, Reject PROVE SendCore'
<1>1. IInv /\ CountSound /\ ThrownSound /\ SendSound
  BY DEF SendCore
<1>2. IInv' /\ CountSound' /\ ThrownSound'
  BY <1>1, BuiltKept DEF Reject, vars, loaded, IInv, StateSound
<1>3. /\ UNCHANGED <<req, chain, pc, known, queue>> /\ status = "lending"
      /\ status' = "rejected" /\ ledger' = chain
  BY DEF Reject, vars, loaded
<1>4. chain \in Chain /\ PositionsWithin(chain)
  BY <1>1, <1>3 DEF SendSound, IInv, StateSound, PositionsWithin
<1>5. SendSound'
  BY <1>1, <1>3, <1>4, SameListed DEF SendSound, PositionsWithin, Status
<1> QED BY <1>2, <1>5 DEF SendCore

LEMMA CommitSound == ASSUME SendCore, Commit PROVE SendCore'
<1>1. IInv /\ CountSound /\ ThrownSound /\ SendSound
  BY DEF SendCore
<1>2. chain' = ledger /\ ledger \in Chain
  BY <1>1 DEF Commit, SendSound
<1>3. IInv' /\ CountSound' /\ ThrownSound'
  BY <1>1, <1>2, BuiltKept DEF Commit
<1>4. /\ UNCHANGED <<req, pc, known, queue, ledger>> /\ status = "lending"
      /\ status' = "committed"
  BY DEF Commit
<1>5. SendSound'
  BY <1>1, <1>2, <1>4, SameListed DEF SendSound, PositionsWithin, Status
<1> QED BY <1>3, <1>5 DEF SendCore

LEMMA DropSound == ASSUME SendCore, Drop PROVE SendCore'
<1>1. IInv /\ CountSound /\ ThrownSound /\ SendSound
  BY DEF SendCore
<1>2. IInv' /\ CountSound' /\ ThrownSound'
  BY <1>1, BuiltKept DEF Drop, vars, loaded, IInv, StateSound
<1>3. /\ UNCHANGED <<req, chain, pc, known, queue, ledger>> /\ status \in {"pre", "lending"}
      /\ status' = "dropped"
  BY DEF Drop, vars, loaded
<1>4. SendSound'
  BY <1>1, <1>3, SameListed DEF SendSound, PositionsWithin, Status
<1> QED BY <1>2, <1>4 DEF SendCore

\* A retry starts with empty lists, on the chain as it is now.
LEMMA RetrySound == ASSUME SendCore, Retry PROVE SendCore'
<1>1. IInv /\ SendSound
  BY DEF SendCore
<1>2. UNCHANGED <<req, chain, known, ledger>> /\ pc' = "initialize" /\ status = "dropped"
  BY DEF Retry
<1>3. Unbuilt'
  BY DEF Retry, Unbuilt
<1>4. StateSound' /\ CallSound'
  BY <1>1, <1>2 DEF Retry, IInv, StateSound, CallSound, PC, GroupId
<1>5. ReserveListsSound'
  BY <1>2, <1>3 DEF ReserveListsSound, Unbuilt
<1>6. ListsSound'
  BY <1>3 DEF ListsSound, Unbuilt
<1>7. CountSound' /\ ThrownSound'
  BY <1>2 DEF CountSound, ThrownSound
<1>8. SendSound'
  BY <1>1, <1>2, SameListed DEF Retry, SendSound, PositionsWithin, Status
<1> QED BY <1>4, <1>5, <1>6, <1>7, <1>8 DEF IInv, SendCore

LEMMA SendCoreStep == SendCore /\ [SendNext]_allVars => SendCore'
<1> SUFFICES ASSUME SendCore, [SendNext]_allVars PROVE SendCore'
  OBVIOUS
<1>1. CASE UNCHANGED allVars
  <2>1. UNCHANGED <<req, chain, pc, phase, known, positions, referrer, reserveLists, potentialGroup,
                    lists, status, queue, ledger>>
    BY <1>1 DEF allVars, vars, loaded, sendVars
  <2>2. IInv' /\ CountSound' /\ ThrownSound'
    BY <2>1, BuiltKept DEF SendCore, IInv, StateSound
  <2>3. SendSound'
    BY <2>1, SameListed DEF SendCore, SendSound, PositionsWithin
  <2> QED BY <2>2, <2>3 DEF SendCore
<1> QED BY <1>1, BuildSound, GetTransactionsSound, SendPreTxnSound, ExecuteIxSound, RejectSound,
           CommitSound, DropSound, RetrySound DEF SendNext

-----------------------------------------------------------------------------
\* SendCore holds of every behaviour of the builder and the program together.
\* ListsOwnPositions and the two properties below do not survive a step by
\* themselves: they need that the queue holds what was built, that the ledger
\* has left the loaded obligation by the call's own changes only, and that a
\* retry starts from nothing.
THEOREM SendInvariance == SendSpec => []SendCore
BY SendInitSound, SendCoreStep, PTL DEF SendSpec

\* The typing of the builder's state also survives sending: a failed attempt
\* is rebuilt from empty lists, a committed one changes the chain by what its
\* instructions change and nothing else.
THEOREM SendTypeCorrect == SendSpec => []TypeOK
<1>1. SendCore => TypeOK
  BY IInvImplies DEF SendCore
<1> QED BY <1>1, SendInvariance, PTL

\* No transaction sent, the first or a rebuilt one, names as a position a
\* reserve the loaded obligation has not got and the call does not deposit.
THEOREM SendPositionListsSound == SendSpec => []ListsOwnPositions
<1>1. SendCore => ListsOwnPositions
  BY IInvImplies DEF SendCore
<1> QED BY <1>1, SendInvariance, PTL

LEMMA DepositCount ==
  ASSUME req.action = "deposit"
  PROVE  /\ openedDeposits \subseteq {req.reserve} /\ openedBorrows = {}
         /\ distinctReserveCount(req.action, req.reserve, req.outflow, known.deposits,
                                 known.borrows)
              = Cardinality(known.borrows) + Cardinality(known.deposits \union {req.reserve})
<1>1. ownChanges = {<<"deposit", req.reserve>>}
  BY DEF ownChanges
<1>2. known.borrows \union {} = known.borrows
  OBVIOUS
<1>3. distinctReserveCount(req.action, req.reserve, req.outflow, known.deposits, known.borrows)
        = Cardinality(known.borrows) + Cardinality(known.deposits \union {req.reserve})
  BY <1>2 DEF distinctReserveCount
<1> QED BY <1>1, <1>3 DEF openedDeposits, openedBorrows

LEMMA BorrowCount ==
  ASSUME req.action = "borrow"
  PROVE  /\ openedBorrows \subseteq {req.reserve} /\ openedDeposits = {}
         /\ distinctReserveCount(req.action, req.reserve, req.outflow, known.deposits,
                                 known.borrows)
              = Cardinality(known.borrows \union {req.reserve}) + Cardinality(known.deposits)
<1>1. ownChanges = {<<"borrow", req.reserve>>}
  BY DEF ownChanges
<1>2. known.deposits \union {} = known.deposits
  OBVIOUS
<1>3. distinctReserveCount(req.action, req.reserve, req.outflow, known.deposits, known.borrows)
        = Cardinality(known.borrows \union {req.reserve}) + Cardinality(known.deposits)
  BY <1>2 DEF distinctReserveCount
<1> QED BY <1>1, <1>3 DEF openedDeposits, openedBorrows

\* A set of reserves has no more members than one it lies in.
LEMMA FewerReserves ==
  ASSUME NEW S \in SUBSET Reserve, NEW T \in SUBSET S
  PROVE  Cardinality(T) \in Nat /\ Cardinality(S) \in Nat /\ Cardinality(T) <= Cardinality(S)
<1>1. IsFiniteSet(S)
  BY FS_Subset, ReserveAssumption
<1>2. IsFiniteSet(T) /\ Cardinality(T) <= Cardinality(S)
  BY <1>1, FS_Subset
<1> QED BY <1>1, <1>2, FS_CardinalityType

\* The limit of loadObligation, checked before the transaction is built,
\* holds of the obligation after it has landed, whichever of the retried
\* transactions that was: the count takes in the position about to open.
THEOREM LimitAlwaysKept == SendSpec => []PositionLimitKept
<1>1. SendCore => PositionLimitKept
  <2> SUFFICES ASSUME SendCore, status = "committed", req.action \in {"deposit", "borrow"}
               PROVE  Cardinality(chain.deposits) + Cardinality(chain.borrows) <= POSITION_LIMIT
    BY DEF PositionLimitKept
  <2>1. IInv /\ CountSound /\ pc = "built" /\ POSITION_LIMIT \in Nat
    BY InputAssumption, Zenon DEF SendCore, SendSound
  <2>a. PositionsWithin(ledger) /\ chain = ledger
    BY DEF SendCore, SendSound
  <2>b. PositionsWithin(chain)
    BY <2>a DEF PositionsWithin
  <2>2. /\ req.reserve \in Reserve
        /\ known.deposits \in SUBSET Reserve /\ known.borrows \in SUBSET Reserve
    BY <2>1 DEF IInv, StateSound, CallSound, Chain, Request
  <2>3. distinctReserveCount(req.action, req.reserve, req.outflow, known.deposits, known.borrows)
          <= POSITION_LIMIT
    BY <2>1 DEF CountSound
  <2>4. CASE req.action = "deposit"
    <3>1. /\ chain.deposits \in SUBSET (known.deposits \union {req.reserve})
          /\ chain.borrows \in SUBSET known.borrows
      BY <2>b, <2>4, DepositCount DEF PositionsWithin
    <3> DEFINE grown == known.deposits \union {req.reserve}
    <3>2. /\ Cardinality(chain.deposits) <= Cardinality(grown)
          /\ Cardinality(chain.deposits) \in Nat /\ Cardinality(grown) \in Nat
      BY <2>2, <3>1, FewerReserves
    <3>3. /\ Cardinality(chain.borrows) <= Cardinality(known.borrows)
          /\ Cardinality(chain.borrows) \in Nat /\ Cardinality(known.borrows) \in Nat
      BY <2>2, <3>1, FewerReserves
    <3>4. Cardinality(known.borrows) + Cardinality(grown) <= POSITION_LIMIT
      BY <2>3, <2>4, DepositCount
    <3> HIDE DEF grown
    <3> QED BY <2>1, <3>2, <3>3, <3>4
  <2>5. CASE req.action = "borrow"
    <3>1. /\ chain.borrows \in SUBSET (known.borrows \union {req.reserve})
          /\ chain.deposits \in SUBSET known.deposits
      BY <2>b, <2>5, BorrowCount DEF PositionsWithin
    <3> DEFINE grown == known.borrows \union {req.reserve}
    <3>2. /\ Cardinality(chain.borrows) <= Cardinality(grown)
          /\ Cardinality(chain.borrows) \in Nat /\ Cardinality(grown) \in Nat
      BY <2>2, <3>1, FewerReserves
    <3>3. /\ Cardinality(chain.deposits) <= Cardinality(known.deposits)
          /\ Cardinality(chain.deposits) \in Nat /\ Cardinality(known.deposits) \in Nat
      BY <2>2, <3>1, FewerReserves
    <3>4. Cardinality(grown) + Cardinality(known.deposits) <= POSITION_LIMIT
      BY <2>3, <2>5, BorrowCount
    <3> HIDE DEF grown
    <3> QED BY <2>1, <3>2, <3>3, <3>4
  <2> QED BY <2>4, <2>5
<1> QED BY <1>1, SendInvariance, PTL

\* The builder refuses a request that makes sense for the position limit or
\* an empty first slot and for nothing else, in any build of any retry: of
\* the six reasons to throw, the other four look at positions such a
\* request has.
THEOREM ServableNeverThrows == SendSpec => []ServableNeverThrown
<1>1. SendCore => ServableNeverThrown
  <2> SUFFICES ASSUME SendCore, pc = "thrown", Servable(chain),
                      req.action \notin {"borrow", "repay", "liquidate"} \/ known.obligation
               PROVE  \/ positions > POSITION_LIMIT
                      \/ req.action \in ObligationOnly /\ chain.deposits = {}
                      \/ req.action = "refreshObligation" /\ ~chain.slot0
    BY DEF ServableNeverThrown
  <2>1. ThrowReason /\ known = chain
    BY DEF SendCore, SendSound, ThrownSound
  <2>2. PositionsHeld(chain)
    BY DEF Servable
  <2>3. req.action \in {"repay", "repayAndWithdraw"} => req.reserve \in chain.borrows
    BY <2>2 DEF PositionsHeld, repaid
  <2>4. req.action = "borrow" => chain.deposits # {}
    BY <2>2 DEF PositionsHeld
  <2> QED BY <2>1, <2>3, <2>4 DEF ThrowReason, ObligationOnly
<1> QED BY <1>1, SendInvariance, PTL

-----------------------------------------------------------------------------
(***************************************************************************)
(* Where in a list the instructions of a kind stand.                       *)
(***************************************************************************)
Has(s, A) == \E i \in DOMAIN s : s[i] \in A
Followed(s, A, B) ==
  \A i \in DOMAIN s : s[i] \in A => \E j \in DOMAIN s : i < j /\ s[j] \in B
NoneAfter(s, A, B) ==
  \A i, j \in DOMAIN s : i < j /\ s[i] \in A => s[j] \notin B

LEMMA ConcatAt ==
  ASSUME NEW X, NEW s \in Seq(X), NEW t \in Seq(X)
  PROVE  /\ s \o t \in Seq(X) /\ Len(s) \in Nat
         /\ \A i \in DOMAIN s : i \in Int /\ i <= Len(s) /\ i \in DOMAIN (s \o t) /\ (s \o t)[i] = s[i]
         /\ \A i \in DOMAIN t : i \in Int /\ Len(s) + i \in DOMAIN (s \o t) /\ (s \o t)[Len(s) + i] = t[i]
                                /\ Len(s) < Len(s) + i
         /\ \A i \in DOMAIN (s \o t) :
              \/ i \in DOMAIN s
              \/ i \notin DOMAIN s /\ \E k \in DOMAIN t : i = Len(s) + k
<1>1. /\ s \o t \in Seq(X) /\ Len(s) \in Nat /\ Len(t) \in Nat
      /\ Len(s \o t) = Len(s) + Len(t)
      /\ DOMAIN s = 1..Len(s) /\ DOMAIN t = 1..Len(t) /\ DOMAIN (s \o t) = 1..(Len(s) + Len(t))
  OBVIOUS
<1>2. \A i \in 1..Len(s) : (s \o t)[i] = s[i]
  OBVIOUS
<1>3. \A i \in 1..Len(t) : (s \o t)[Len(s) + i] = t[i]
  OBVIOUS
<1>4. ASSUME NEW i \in DOMAIN (s \o t), i \notin DOMAIN s
      PROVE  \E k \in DOMAIN t : i = Len(s) + k
  <2>1. i - Len(s) \in DOMAIN t /\ i = Len(s) + (i - Len(s))
    BY <1>1, <1>4
  <2> QED BY <2>1
<1> QED BY <1>1, <1>2, <1>3, <1>4

LEMMA HasConcat ==
  ASSUME NEW X, NEW s \in Seq(X), NEW t \in Seq(X), NEW A
  PROVE  Has(s \o t, A) <=> Has(s, A) \/ Has(t, A)
<1>1. ASSUME Has(s \o t, A) PROVE Has(s, A) \/ Has(t, A)
  <2>1. PICK i \in DOMAIN (s \o t) : (s \o t)[i] \in A
    BY <1>1 DEF Has
  <2>2. CASE i \in DOMAIN s
    BY <2>1, <2>2, ConcatAt DEF Has
  <2>3. CASE i \notin DOMAIN s
    <3>1. PICK k \in DOMAIN t : i = Len(s) + k
      BY <2>3, ConcatAt
    <3> QED BY <2>1, <3>1, ConcatAt DEF Has
  <2> QED BY <2>2, <2>3
<1>2. ASSUME Has(s, A) \/ Has(t, A) PROVE Has(s \o t, A)
  <2>1. CASE Has(s, A)
    <3>1. PICK i \in DOMAIN s : s[i] \in A
      BY <2>1 DEF Has
    <3> QED BY <3>1, ConcatAt DEF Has
  <2>2. CASE Has(t, A)
    <3>1. PICK i \in DOMAIN t : t[i] \in A
      BY <2>2 DEF Has
    <3>2. Len(s) + i \in DOMAIN (s \o t) /\ (s \o t)[Len(s) + i] \in A
      BY <3>1, ConcatAt
    <3> QED BY <3>2 DEF Has
  <2> QED BY <1>2, <2>1, <2>2
<1> QED BY <1>1, <1>2

LEMMA HasBasics ==
  ASSUME NEW A, NEW x
  PROVE  ~Has(<<>>, A) /\ (Has(<<x>>, A) <=> x \in A)
<1>1. DOMAIN <<x>> = {1} /\ <<x>>[1] = x
  OBVIOUS
<1> QED BY <1>1 DEF Has

LEMMA HasNone ==
  ASSUME NEW X, NEW s \in Seq(X), NEW A, A \intersect X = {}
  PROVE  ~Has(s, A)
<1>1. \A i \in DOMAIN s : s[i] \in X
  OBVIOUS
<1> QED BY <1>1 DEF Has

LEMMA FollowedConcat ==
  ASSUME NEW X, NEW s \in Seq(X), NEW t \in Seq(X), NEW A, NEW B,
         Followed(s, A, B) \/ Has(t, B), Followed(t, A, B)
  PROVE  Followed(s \o t, A, B)
<1> SUFFICES ASSUME NEW i \in DOMAIN (s \o t), (s \o t)[i] \in A
             PROVE  \E j \in DOMAIN (s \o t) : i < j /\ (s \o t)[j] \in B
  BY DEF Followed
<1>1. CASE i \in DOMAIN s
  <2>1. CASE Followed(s, A, B)
    <3>1. PICK j \in DOMAIN s : i < j /\ s[j] \in B
      BY <1>1, <2>1, ConcatAt DEF Followed
    <3> QED BY <3>1, ConcatAt
  <2>2. CASE Has(t, B)
    <3>1. PICK k \in DOMAIN t : t[k] \in B
      BY <2>2 DEF Has
    <3>2. /\ k \in Int /\ Len(s) + k \in DOMAIN (s \o t) /\ (s \o t)[Len(s) + k] = t[k]
          /\ Len(s) < Len(s) + k /\ i <= Len(s) /\ i \in Int /\ Len(s) \in Int
      BY <1>1, ConcatAt
    <3> QED BY <3>1, <3>2
  <2> QED BY <2>1, <2>2
<1>2. CASE i \notin DOMAIN s
  <2>1. PICK k \in DOMAIN t : i = Len(s) + k
    BY <1>2, ConcatAt
  <2>2. t[k] \in A
    BY <2>1, ConcatAt
  <2>3. PICK m \in DOMAIN t : k < m /\ t[m] \in B
    BY <2>2 DEF Followed
  <2>4. Len(s) + m \in DOMAIN (s \o t) /\ (s \o t)[Len(s) + m] = t[m] /\ k \in Int /\ m \in Int /\ Len(s) \in Int
    BY ConcatAt
  <2>5. i < Len(s) + m
    BY <2>1, <2>3, <2>4
  <2> QED BY <2>3, <2>4, <2>5
<1> QED BY <1>1, <1>2

LEMMA NoneAfterConcat ==
  ASSUME NEW X, NEW s \in Seq(X), NEW t \in Seq(X), NEW A, NEW B,
         ~Has(s, A), ~Has(t, B)
  PROVE  NoneAfter(s \o t, A, B)
<1> SUFFICES ASSUME NEW i \in DOMAIN (s \o t), NEW j \in DOMAIN (s \o t), i < j,
                    (s \o t)[i] \in A, (s \o t)[j] \in B
             PROVE  FALSE
  BY DEF NoneAfter
<1>1. i \notin DOMAIN s
  BY ConcatAt DEF Has
<1>2. j \in DOMAIN s
  <2>1. ASSUME j \notin DOMAIN s PROVE FALSE
    <3>1. PICK k \in DOMAIN t : j = Len(s) + k
      BY <2>1, ConcatAt
    <3>2. t[k] \in B
      BY <3>1, ConcatAt
    <3> QED BY <3>2 DEF Has
  <2> QED BY <2>1
<1>3. PICK k \in DOMAIN t : i = Len(s) + k
  BY <1>1, ConcatAt
<1>4. j <= Len(s) /\ Len(s) < Len(s) + k /\ k \in Int /\ j \in Int /\ Len(s) \in Int
  BY <1>2, <1>3, ConcatAt
<1> QED BY <1>3, <1>4

LEMMA TailAt ==
  ASSUME NEW X, NEW s \in Seq(X), s # <<>>
  PROVE  /\ Tail(s) \in Seq(X) /\ Head(s) \in X /\ Head(s) = s[1] /\ 1 \in DOMAIN s
         /\ \A i \in DOMAIN Tail(s) : i \in Int /\ 1 < i + 1 /\ i + 1 \in DOMAIN s /\ Tail(s)[i] = s[i + 1]
         /\ \A i \in DOMAIN s : i = 1 \/ \E k \in DOMAIN Tail(s) : i = k + 1
<1>1. /\ Tail(s) \in Seq(X) /\ Len(s) \in Nat \ {0} /\ Len(Tail(s)) = Len(s) - 1
      /\ DOMAIN s = 1..Len(s) /\ DOMAIN Tail(s) = 1..(Len(s) - 1)
  OBVIOUS
<1>2. Head(s) \in X /\ Head(s) = s[1]
  OBVIOUS
<1>3. \A i \in 1..(Len(s) - 1) : Tail(s)[i] = s[i + 1]
  OBVIOUS
<1>4. ASSUME NEW i \in DOMAIN s, i # 1
      PROVE  \E k \in DOMAIN Tail(s) : i = k + 1
  <2>1. i - 1 \in DOMAIN Tail(s) /\ i = (i - 1) + 1
    BY <1>1, <1>4
  <2> QED BY <2>1
<1> QED BY <1>1, <1>2, <1>3, <1>4

LEMMA TailFacts ==
  ASSUME NEW X, NEW s \in Seq(X), s # <<>>, NEW A, NEW B
  PROVE  /\ Has(Tail(s), A) => Has(s, A)
         /\ Has(s, A) => Head(s) \in A \/ Has(Tail(s), A)
         /\ Followed(s, A, B) => Followed(Tail(s), A, B) /\ (Head(s) \in A => Has(Tail(s), B))
         /\ NoneAfter(s, A, B) => NoneAfter(Tail(s), A, B) /\ (Head(s) \in A => ~Has(Tail(s), B))
<1>1. Has(Tail(s), A) => Has(s, A)
  BY TailAt DEF Has
<1>2. Has(s, A) => Head(s) \in A \/ Has(Tail(s), A)
  BY TailAt DEF Has
<1>3. ASSUME Followed(s, A, B) PROVE Followed(Tail(s), A, B) /\ (Head(s) \in A => Has(Tail(s), B))
  <2>1. ASSUME NEW i \in DOMAIN Tail(s), Tail(s)[i] \in A
        PROVE  \E j \in DOMAIN Tail(s) : i < j /\ Tail(s)[j] \in B
    <3>1. i + 1 \in DOMAIN s /\ s[i + 1] \in A /\ i \in Int /\ 1 < i + 1
      BY <2>1, TailAt
    <3>2. PICK j \in DOMAIN s : i + 1 < j /\ s[j] \in B
      BY <1>3, <3>1 DEF Followed
    <3>3. PICK k \in DOMAIN Tail(s) : j = k + 1
      BY <3>1, <3>2, TailAt
    <3>4. Tail(s)[k] \in B /\ k \in Int
      BY <3>2, <3>3, TailAt
    <3>5. i < k
      BY <3>1, <3>2, <3>3, <3>4
    <3> QED BY <3>4, <3>5
  <2>2. ASSUME Head(s) \in A PROVE Has(Tail(s), B)
    <3>1. PICK j \in DOMAIN s : 1 < j /\ s[j] \in B
      BY <1>3, <2>2, TailAt DEF Followed
    <3>2. PICK k \in DOMAIN Tail(s) : j = k + 1
      BY <3>1, TailAt
    <3> QED BY <3>1, <3>2, TailAt DEF Has
  <2> QED BY <2>1, <2>2 DEF Followed
<1>4. ASSUME NoneAfter(s, A, B)
      PROVE  NoneAfter(Tail(s), A, B) /\ (Head(s) \in A => ~Has(Tail(s), B))
  <2>1. ASSUME NEW i \in DOMAIN Tail(s), NEW j \in DOMAIN Tail(s), i < j, Tail(s)[i] \in A
        PROVE  Tail(s)[j] \notin B
    <3>1. /\ i + 1 \in DOMAIN s /\ s[i + 1] \in A /\ i \in Int
          /\ j + 1 \in DOMAIN s /\ Tail(s)[j] = s[j + 1] /\ j \in Int
      BY <2>1, TailAt
    <3>2. i + 1 < j + 1
      BY <2>1, <3>1
    <3> QED BY <1>4, <3>1, <3>2 DEF NoneAfter
  <2>2. ASSUME Head(s) \in A, Has(Tail(s), B) PROVE FALSE
    <3>1. PICK k \in DOMAIN Tail(s) : Tail(s)[k] \in B
      BY <2>2 DEF Has
    <3>2. k + 1 \in DOMAIN s /\ s[k + 1] \in B /\ 1 < k + 1 /\ 1 \in DOMAIN s /\ s[1] \in A
      BY <2>2, <3>1, TailAt
    <3> QED BY <1>4, <3>2 DEF NoneAfter
  <2> QED BY <2>1, <2>2 DEF NoneAfter
<1> QED BY <1>1, <1>2, <1>3, <1>4

-----------------------------------------------------------------------------
(***************************************************************************)
(* What a build has put where.  Every step but the one for the token       *)
(* accounts only puts support instructions around a list.                  *)
(***************************************************************************)
Around(s, t) == \E a, b \in Seq(SupportInstruction) : t = a \o s \o b

LEMMA AroundOneSide ==
  ASSUME NEW s \in Seq(Instruction), NEW b \in Seq(SupportInstruction)
  PROVE  Around(s, s) /\ Around(s, s \o b) /\ Around(s, b \o s)
<1>1. b \in Seq(Instruction)
  BY OwnIsInstruction, SeqSubset
<1>2. <<>> \in Seq(SupportInstruction)
  OBVIOUS
<1>3. s = <<>> \o s \o <<>> /\ s \o b = <<>> \o s \o b /\ b \o s = b \o s \o <<>>
  BY <1>1
<1> QED BY <1>2, <1>3 DEF Around

LEMMA Regrouped ==
  \A x, y, z \in Seq(Instruction) : (x \o y) \o z = x \o (y \o z)
BY ConcatAssociative

LEMMA AroundMore ==
  ASSUME NEW s \in Seq(Instruction), NEW t, Around(s, t), NEW c \in Seq(SupportInstruction)
  PROVE  Around(s, t \o c)
<1>1. PICK a \in Seq(SupportInstruction), b \in Seq(SupportInstruction) : t = a \o s \o b
  BY DEF Around
<1> DEFINE front == a \o s
<1>2. /\ front \in Seq(Instruction) /\ b \in Seq(Instruction) /\ c \in Seq(Instruction)
  BY OwnIsInstruction, SeqSubset, Concatenated
<1>3. t = front \o b
  BY <1>1
<1> HIDE DEF front
<1>4. (front \o b) \o c = front \o (b \o c)
  BY <1>2, Regrouped, Zenon
<1>5. b \o c \in Seq(SupportInstruction)
  BY Concatenated
<1> QED BY <1>3, <1>4, <1>5 DEF Around, front

LEMMA AroundKeeps ==
  ASSUME NEW s \in Seq(Instruction), NEW t, Around(s, t), NEW A, NEW B,
         A \intersect SupportInstruction = {}
  PROVE  /\ Has(t, A) <=> Has(s, A)
         /\ Has(s, B) => Has(t, B)
         /\ Followed(s, A, B) => Followed(t, A, B)
<1>1. PICK a \in Seq(SupportInstruction), b \in Seq(SupportInstruction) : t = a \o s \o b
  BY DEF Around
<1>2. /\ a \in Seq(Instruction) /\ b \in Seq(Instruction) /\ a \o s \in Seq(Instruction)
  BY OwnIsInstruction, SeqSubset, Concatenated
<1>3. ~Has(a, A) /\ ~Has(b, A)
  BY HasNone
<1>4. /\ Has(t, A) <=> Has(a \o s, A) \/ Has(b, A)
      /\ Has(t, B) <=> Has(a \o s, B) \/ Has(b, B)
      /\ Has(a \o s, A) <=> Has(a, A) \/ Has(s, A)
      /\ Has(a \o s, B) <=> Has(a, B) \/ Has(s, B)
  <2>1. \A C : Has(a \o s, C) <=> Has(a, C) \/ Has(s, C)
    BY <1>2, HasConcat
  <2>2. \A C : Has((a \o s) \o b, C) <=> Has(a \o s, C) \/ Has(b, C)
    BY <1>2, HasConcat
  <2> QED BY <1>1, <2>1, <2>2, Zenon
<1>5. ASSUME Followed(s, A, B) PROVE Followed(t, A, B)
  <2>1. Followed(a, A, B) /\ Followed(b, A, B)
    BY <1>3 DEF Has, Followed
  <2>2. Followed(a \o s, A, B)
    BY <1>2, <1>5, <2>1, FollowedConcat
  <2> QED BY <1>1, <1>2, <2>1, <2>2, FollowedConcat
<1> QED BY <1>3, <1>4, <1>5

LEMMA ListsAreInstructions ==
  ASSUME IInv
  PROVE  /\ setupIxs \in Seq(Instruction) /\ inBetweenIxs \in Seq(Instruction)
         /\ lendingIxs \in Seq(Instruction) /\ cleanupIxs \in Seq(Instruction)
         /\ refreshFarmsCleanupTxnIxs \in Seq(Instruction)
<1>1. /\ SetupInstruction \subseteq Instruction /\ SupportInstruction \subseteq Instruction
      /\ LendingInstruction \subseteq Instruction /\ CleanupInstruction \subseteq Instruction
  BY OwnIsInstruction
<1> QED BY <1>1, SeqSubset DEF IInv, ListsSound

LEMMA PushedAround ==
  ASSUME IInv, NEW ixs \in Seq(SupportInstruction), PushSupport(ixs)
  PROVE  Around(setupIxs, setupIxs')
BY ListsAreInstructions, AroundOneSide DEF PushSupport

SupportAround == Around(setupIxs, setupIxs') /\ Around(cleanupIxs, cleanupIxs')

LEMMA UnchangedAround ==
  ASSUME IInv
  PROVE  /\ UNCHANGED setupIxs => Around(setupIxs, setupIxs')
         /\ UNCHANGED cleanupIxs => Around(cleanupIxs, cleanupIxs')
<1>1. <<>> \in Seq(SupportInstruction)
  OBVIOUS
<1> QED BY <1>1, ListsAreInstructions, AroundOneSide

\* What a support pass adds comes last in the list of its phase.
Pushing == \E ixs \in Seq(SupportInstruction) : PushSupport(ixs)

LEMMA NothingPushed == ASSUME IInv, UNCHANGED <<setupIxs, inBetweenIxs>> PROVE Pushing
<1>1. <<>> \in Seq(SupportInstruction)
  OBVIOUS
<1>2. setupIxs \o <<>> = setupIxs /\ inBetweenIxs \o <<>> = inBetweenIxs
  BY ListsAreInstructions
<1>3. PushSupport(<<>>)
  BY <1>2 DEF PushSupport
<1> QED BY <1>1, <1>3 DEF Pushing

LEMMA OthersPushes == ASSUME IInv, AddRefreshOtherReserves PROVE Pushing
<1>1. RefreshReserves(allReservesExcludingCurrent) \in Seq(SupportInstruction)
  BY PassReserves, RefreshReservesSeq
<1>2. \/ PushSupport(RefreshReserves(allReservesExcludingCurrent))
      \/ UNCHANGED <<setupIxs, inBetweenIxs>>
  BY DEF AddRefreshOtherReserves
<1> QED BY <1>1, <1>2, NothingPushed DEF Pushing

LEMMA InitFarmsPushes == ASSUME IInv, AddInitObligationForFarms PROVE Pushing
<1> DEFINE missing == farmStatesNeeded \ chain.farms
           S(m) == {r \in Reserve : <<r, m>> \in missing}
           InitFarms(m) == IF S(m) = {} THEN <<>>
                           ELSE <<[Ix("initFarm", NoReserve, S(m)) EXCEPT !.how = m]>>
           block == IF phase = "setup" THEN InitFarms("coll") \o InitFarms("debt") ELSE <<>>
<1>1. ASSUME NEW m \in Mode
      PROVE  InitFarms(m) \in Seq(SupportInstruction)
  <2>1. [Ix("initFarm", NoReserve, S(m)) EXCEPT !.how = m] \in SupportInstruction
    BY InitFarmIx
  <2> HIDE DEF S
  <2> QED BY <2>1
<1>2. PushSupport(block)
  BY DEF AddInitObligationForFarms
<1> HIDE DEF InitFarms
<1>3. block \in Seq(SupportInstruction)
  BY <1>1, Concatenated DEF Mode
<1> HIDE DEF block
<1> QED BY <1>2, <1>3 DEF Pushing

LEMMA CurrentPushes == ASSUME IInv, AddRefreshCurrent PROVE Pushing
<1> DEFINE skip == /\ supportAction = "repayAndWithdraw"
                   /\ phase = "inBetween" /\ req.closing
           block == RefreshReserves(currentReserves) \o RefreshObligation(skip)
<1>1. skip \in BOOLEAN
  OBVIOUS
<1>2. PushSupport(block)
  BY DEF AddRefreshCurrent
<1> HIDE DEF skip
<1>3. RefreshReserves(currentReserves) \in Seq(SupportInstruction)
  BY PassReserves, RefreshReservesSeq
<1>4. block \in Seq(SupportInstruction)
  BY <1>1, <1>3, PositionSeqs, Concatenated
<1> HIDE DEF block
<1> QED BY <1>2, <1>4 DEF Pushing

LEMMA ElevationForPushes ==
  ASSUME IInv, NEW g \in GroupId \union {NoOverride}, ElevationFor(g)
  PROVE  Pushing
<1>1. CASE g # NoOverride /\ isNewGroup(g)
  <2>1. g \in GroupId /\ PushSupport(SwitchGroup(g))
    BY <1>1 DEF ElevationFor
  <2> QED BY <2>1, SwitchGroupSeq DEF Pushing
<1>2. CASE ~(g # NoOverride /\ isNewGroup(g))
  BY <1>2, NothingPushed DEF ElevationFor
<1> QED BY <1>1, <1>2

LEMMA ElevationPushes == ASSUME IInv, AddRequestElevation PROVE Pushing
<1>1. req.override \in GroupId \union {NoOverride}
  BY DEF IInv, StateSound, Request
<1>2. CASE RequestGroupOnRepay \/ NoGroupRequest
  BY <1>2, NothingPushed DEF RequestGroupOnRepay, NoGroupRequest
<1>3. CASE RequestGroupOnBorrow
  <2> DEFINE debt == IF supportAction = "borrow" THEN req.reserve ELSE req.outflow
             colls == IF supportAction = "borrow" THEN known.deposits ELSE {req.reserve}
  <2>1. colls \subseteq Reserve
    BY PassReserves DEF IInv, StateSound, Chain
  <2>2. \/ req.override # NoOverride /\ ElevationFor(req.override)
        \/ UNCHANGED <<setupIxs, inBetweenIxs>>
        \/ \E coll \in colls : \E g \in bestGroups(commonElevationGroups(coll, debt)) :
             ElevationFor(g)
    BY <1>3 DEF RequestGroupOnBorrow
  <2> HIDE DEF debt, colls
  <2>3. ASSUME NEW coll \in colls, NEW g \in bestGroups(commonElevationGroups(coll, debt)),
               ElevationFor(g)
        PROVE  Pushing
    <3>1. g \in GroupId \union {NoOverride}
      BY <2>1, BestGroupIsId
    <3> QED BY <2>3, <3>1, ElevationForPushes
  <2> QED BY <1>1, <2>2, <2>3, ElevationForPushes, NothingPushed
<1>4. CASE RequestGroupOnDeposit
  BY <1>1, <1>4, SwitchGroupSeq, NothingPushed DEF RequestGroupOnDeposit, Pushing
<1> QED BY <1>2, <1>3, <1>4 DEF AddRequestElevation

LEMMA PushingAround == ASSUME IInv, Pushing PROVE Around(setupIxs, setupIxs')
BY PushedAround DEF Pushing

LEMMA ElevationAround == ASSUME IInv, AddRequestElevation PROVE SupportAround
<1>1. CASE RequestGroupOnRepay
  <2> DEFINE g == IF req.override = NoOverride THEN 0 ELSE req.override
             refresh == RefreshReserves(allReservesExcludingCurrent)
  <2>1. g \in GroupId
    BY DEF GroupId, IInv, StateSound, Request
  <2>2. /\ refresh \in Seq(SupportInstruction)
        /\ RefreshObligation(TRUE) \in Seq(SupportInstruction)
        /\ RequestElevation(g, TRUE) \in Seq(SupportInstruction)
    BY <2>1, PassReserves, PositionSeqs, RefreshReservesSeq
  <2>3. \/ cleanupIxs' = cleanupIxs \o refresh \o RefreshObligation(TRUE)
                         \o RequestElevation(g, TRUE)
        \/ UNCHANGED cleanupIxs
    BY <1>1 DEF RequestGroupOnRepay
  <2> HIDE DEF g, refresh
  <2>4. cleanupIxs \in Seq(Instruction)
    BY ListsAreInstructions
  <2>5. Around(cleanupIxs, cleanupIxs \o refresh)
    BY <2>2, <2>4, AroundOneSide
  <2>6. Around(cleanupIxs, cleanupIxs \o refresh \o RefreshObligation(TRUE))
    BY <2>2, <2>4, <2>5, AroundMore
  <2>7. Around(cleanupIxs, cleanupIxs \o refresh \o RefreshObligation(TRUE)
                           \o RequestElevation(g, TRUE))
    BY <2>2, <2>4, <2>6, AroundMore
  <2>8. Around(cleanupIxs, cleanupIxs')
    BY <2>3, <2>7, UnchangedAround
  <2> QED BY <2>8, ElevationPushes, PushingAround DEF SupportAround
<1>2. CASE RequestGroupOnBorrow \/ RequestGroupOnDeposit \/ NoGroupRequest
  <2>1. UNCHANGED cleanupIxs
    BY <1>2 DEF RequestGroupOnBorrow, RequestGroupOnDeposit, NoGroupRequest
  <2> QED BY <2>1, UnchangedAround, ElevationPushes, PushingAround DEF SupportAround
<1> QED BY <1>1, <1>2 DEF AddRequestElevation

LEMMA RefreshObligationAround == ASSUME IInv, AddRefreshObligation PROVE SupportAround
<1> DEFINE farms == RefreshFarms(depositReserves, "coll") \o RefreshFarms(borrowReserves, "debt")
           all == RefreshReserves(depositReserves \union borrowReserves)
           request == IF req.action = "refreshObligation" THEN <<>>
                      ELSE RequestElevation(req.override, FALSE)
<1>1. farms \in Seq(SupportInstruction)
  BY RefreshFarmsSeq, Concatenated DEF Mode
<1>2. all \in Seq(SupportInstruction)
  BY RefreshReservesSeq DEF IInv, StateSound
<1>3. request \in Seq(SupportInstruction)
  <2>1. CASE req.action = "refreshObligation"
    BY <2>1
  <2>2. CASE req.action # "refreshObligation"
    <3>1. req.override \in GroupId
      BY <2>2 DEF AddRefreshObligation, ObligationOnly, IInv, StateSound, CallSound, Request
    <3>2. RequestElevation(req.override, FALSE) \in Seq(SupportInstruction)
      BY <3>1, PositionSeqs
    <3> QED BY <2>2, <3>2
  <2> QED BY <2>1, <2>2
<1>4. RefreshObligation(FALSE) \in Seq(SupportInstruction)
  BY PositionSeqs
<1>5. setupIxs' = setupIxs \o all \o farms \o RefreshObligation(FALSE) \o request
  BY DEF AddRefreshObligation
<1> HIDE DEF farms, all, request
<1>6. setupIxs \in Seq(Instruction)
  BY ListsAreInstructions
<1>7. Around(setupIxs, setupIxs \o all)
  BY <1>2, <1>6, AroundOneSide
<1>8. Around(setupIxs, setupIxs \o all \o farms)
  BY <1>1, <1>6, <1>7, AroundMore
<1>9. Around(setupIxs, setupIxs \o all \o farms \o RefreshObligation(FALSE))
  BY <1>4, <1>6, <1>8, AroundMore
<1>10. Around(setupIxs, setupIxs')
  BY <1>3, <1>5, <1>6, <1>9, AroundMore
<1> QED BY <1>10, UnchangedAround DEF AddRefreshObligation, SupportAround

\* The initialisations of accounts come one at a time.
LEMMA SetupAround ==
  ASSUME IInv, \/ AddComputeBudgetIxn \/ AddInitUserMetadataIxs
               \/ AddInitReferrerTokenStateIxs \/ AddInitObligationIxs
  PROVE  SupportAround
<1> DEFINE missing == ({req.reserve, req.outflow} \ {NoReserve}) \ chain.tokenStates
           budget == Ix("computeBudget", NoReserve, {})
           metadata == Ix("initUserMetadata", NoReserve, {})
           obligation == Ix("initObligation", NoReserve, {})
           states == Ix("initReferrerTokenState", NoReserve, missing)
<1>1. missing \in SUBSET Reserve
  BY PassReserves
<1>2. /\ budget \in SupportInstruction /\ metadata \in SupportInstruction
      /\ obligation \in SupportInstruction /\ states \in SupportInstruction
  <2> HIDE DEF missing
  <2> QED BY <1>1, PlainIx DEF SupportOp, LendingOp, AccountOp, PositionOp, IxOp, PositionList
<1>3. /\ \/ setupIxs' = Append(setupIxs, budget) \/ setupIxs' = Append(setupIxs, metadata)
         \/ setupIxs' = Append(setupIxs, obligation)
         \/ setupIxs' = <<states>> \o setupIxs
         \/ UNCHANGED setupIxs
      /\ UNCHANGED cleanupIxs
  BY DEF AddComputeBudgetIxn, AddInitUserMetadataIxs, AddInitReferrerTokenStateIxs,
         AddInitObligationIxs, OnlySetup
<1> HIDE DEF missing, budget, metadata, obligation, states
<1>4. ASSUME NEW ix \in SupportInstruction
      PROVE  <<ix>> \in Seq(SupportInstruction) /\ Append(setupIxs, ix) = setupIxs \o <<ix>>
  BY ListsAreInstructions
<1>5. Around(setupIxs, setupIxs')
  BY <1>2, <1>3, <1>4, ListsAreInstructions, AroundOneSide, UnchangedAround
<1> QED BY <1>3, <1>5, UnchangedAround DEF SupportAround

LEMMA StepAround ==
  ASSUME IInv, Next, ~Initialize, ~AddAtaIxs
  PROVE  SupportAround
<1>1. CASE \/ AddComputeBudgetIxn \/ AddInitUserMetadataIxs
           \/ AddInitReferrerTokenStateIxs \/ AddInitObligationIxs
  BY <1>1, SetupAround
<1>2. CASE AddScopeRefreshIxs
  BY <1>2, UnchangedAround DEF AddScopeRefreshIxs, SupportAround
<1>3. CASE AddRefreshOtherReserves
  BY <1>3, OthersPushes, PushingAround, UnchangedAround
  DEF AddRefreshOtherReserves, OnlySupport, SupportAround
<1>4. CASE AddInitObligationForFarms
  BY <1>4, InitFarmsPushes, PushingAround, UnchangedAround
  DEF AddInitObligationForFarms, OnlySupport, SupportAround
<1>5. CASE AddRefreshCurrent
  BY <1>5, CurrentPushes, PushingAround, UnchangedAround
  DEF AddRefreshCurrent, OnlySupport, SupportAround
<1>6. CASE AddRequestElevation
  BY <1>6, ElevationAround
<1>7. CASE AddRefreshFarms
  BY <1>7, FarmRefreshSeq, ListsAreInstructions, AroundOneSide, UnchangedAround
  DEF AddRefreshFarms, SupportAround
<1>8. CASE AddLendingIx
  <2>1. CASE AddRefreshObligation
    BY <2>1, RefreshObligationAround
  <2>2. CASE AddWithdrawReferrerFees
    <3>1. RefreshReserves({req.reserve}) \in Seq(SupportInstruction)
      BY PassReserves, RefreshReservesSeq
    <3> QED BY <2>2, <3>1, ListsAreInstructions, AroundOneSide, UnchangedAround
            DEF AddWithdrawReferrerFees, SupportAround
  <2>3. CASE ~AddRefreshObligation /\ ~AddWithdrawReferrerFees
    <3>1. UNCHANGED <<setupIxs, cleanupIxs>>
      BY <1>8, <2>3 DEF AddLendingIx, AddDepositIx, AddDepositReserveLiquidityIx,
         AddRedeemReserveCollateralIx, AddDepositObligationCollateralIx, AddWithdrawIx,
         AddBorrowIx, AddRepayIx, AddLiquidateIx, AddPlainIx, AddDebtIx,
         AddDepositAndBorrowIx, AddRepayAndWithdrawIxs, OnlyLending
    <3> QED BY <3>1, UnchangedAround DEF SupportAround
  <2> QED BY <2>1, <2>2, <2>3
<1>9. CASE AddRefreshFarmsCleanupTxnIxsToCleanupIxs
  BY <1>9, ListsAreInstructions, AroundOneSide, UnchangedAround
  DEF AddRefreshFarmsCleanupTxnIxsToCleanupIxs, splicedCleanup, SupportAround, IInv, ListsSound
<1> QED BY <1>1, <1>2, <1>3, <1>4, <1>5, <1>6, <1>7, <1>8, <1>9 DEF Next

-----------------------------------------------------------------------------
(***************************************************************************)
(* The lending instructions of a build: what the call asks for, in order.  *)
(***************************************************************************)
Lent == pc \in {"splice", "built"} \/ phase = "inBetween"

firstOp == IF req.action = "depositAndBorrow" THEN "deposit"
           ELSE IF req.action = "repayAndWithdraw" THEN "repay" ELSE req.action
secondOp == IF req.action = "depositAndBorrow" THEN "borrow" ELSE "withdraw"

MadeAsAsked ==
  /\ req.action \in ObligationOnly => lendingIxs = <<>>
  /\ req.action \notin ObligationOnly =>
       lendingIxs[1].op = firstOp /\ lendingIxs[1].res = req.reserve
  /\ req.action \notin ObligationOnly /\ ~twoToken => Len(lendingIxs) = 1
  /\ twoToken => /\ Len(lendingIxs) = 2
                 /\ lendingIxs[2].op = secondOp /\ lendingIxs[2].res = req.outflow

ShapeSound ==
  /\ phase = "inBetween" =>
       /\ twoToken
       /\ pc \in {"ata", "others", "initFarms", "current", "elevation", "farms", "splice",
                  "built", "thrown"}
  /\ req.action \in ObligationOnly => pc \in {"initialize", "budget", "lending", "built", "thrown"}
  /\ req.action = "withdrawReferrerFees" => pc \in {"initialize", "lending", "built"}
  /\ twoToken /\ Lent => phase = "inBetween"
  /\ ~Lent => lendingIxs = <<>>
  /\ Lent => MadeAsAsked

\* A step that is none of the lending leaves the shape, unless it ends a pass.
LEMMA ShapeKept ==
  ASSUME ShapeSound, UNCHANGED <<req, phase, lendingIxs>>, pc \notin {"splice", "built"},
         pc' \notin {"initialize", "splice", "built"},
         pc' = "lending" => phase = "setup",
         phase = "inBetween" =>
           pc' \in {"ata", "others", "initFarms", "current", "elevation", "farms", "thrown"},
         req.action \in ObligationOnly => pc' \in {"budget", "lending", "thrown"},
         req.action = "withdrawReferrerFees" => pc' = "lending"
  PROVE  ShapeSound'
BY DEF ShapeSound, Lent, MadeAsAsked, twoToken, firstOp, secondOp

LEMMA ShapeInit == Init => ShapeSound
BY DEF Init, ShapeSound, Lent

LEMMA ShapeLending == ASSUME IInv, ShapeSound, AddLendingIx PROVE ShapeSound'
<1>1. /\ pc = "lending" /\ phase = "setup" /\ lendingIxs = <<>>
      /\ phase' \in {"setup", "inBetween"} /\ req' = req
  BY DEF AddLendingIx, AddDepositIx, AddDepositReserveLiquidityIx, AddRedeemReserveCollateralIx,
     AddDepositObligationCollateralIx, AddWithdrawIx, AddBorrowIx, AddRepayIx, AddLiquidateIx,
     AddPlainIx, AddDebtIx, AddDepositAndBorrowIx, AddRepayAndWithdrawIxs, AddRefreshObligation,
     AddWithdrawReferrerFees, OnlyLending, loaded, ShapeSound, Lent, IInv, StateSound
<1>2. ASSUME NEW action \in {"deposit", "mint", "redeem", "depositCollateral", "withdraw"},
             AddPlainIx(action)
      PROVE  ShapeSound'
  <2>1. /\ lendingIxs' = <<Ix(action, req.reserve, {})>> /\ req.action = action
        /\ pc' = "splice" /\ phase' = "setup"
    BY <1>1, <1>2 DEF AddPlainIx
  <2> QED BY <1>1, <2>1 DEF ShapeSound, Lent, MadeAsAsked, twoToken, firstOp, TwoTokenAction,
             ObligationOnly, Ix
<1>3. ASSUME NEW action \in {"borrow", "repay", "liquidate"}, NEW inGroup \in BOOLEAN,
             AddDebtIx(action, inGroup)
      PROVE  ShapeSound'
  <2>1. /\ req.action = action /\ phase' = "setup"
        /\ \/ /\ pc' = "splice"
              /\ \E D : lendingIxs' = <<Ix(action, req.reserve, D)>>
           \/ pc' = "thrown" /\ lendingIxs' = <<>>
    BY <1>1, <1>3 DEF AddDebtIx, Throw
  <2> QED BY <1>1, <2>1 DEF ShapeSound, Lent, MadeAsAsked, twoToken, firstOp, TwoTokenAction,
             ObligationOnly, Ix
<1>4. ASSUME AddDepositAndBorrowIx PROVE ShapeSound'
  <2>1. /\ \E D : lendingIxs' = <<Ix("deposit", req.reserve, {}), Ix("borrow", req.outflow, D)>>
        /\ req.action = "depositAndBorrow" /\ pc' = "ata" /\ phase' = "inBetween"
    BY <1>1, <1>4 DEF AddDepositAndBorrowIx
  <2> QED BY <1>1, <2>1 DEF ShapeSound, Lent, MadeAsAsked, twoToken, firstOp, secondOp,
             TwoTokenAction, ObligationOnly, Ix
<1>5. ASSUME AddRepayAndWithdrawIxs PROVE ShapeSound'
  <2>1. /\ \E D : lendingIxs' = <<Ix("repay", req.reserve, D), Ix("withdraw", req.outflow, {})>>
        /\ req.action = "repayAndWithdraw" /\ pc' = "ata" /\ phase' = "inBetween"
    BY <1>1, <1>5 DEF AddRepayAndWithdrawIxs
  <2> QED BY <1>1, <2>1 DEF ShapeSound, Lent, MadeAsAsked, twoToken, firstOp, secondOp,
             TwoTokenAction, ObligationOnly, Ix
<1>6. ASSUME AddRefreshObligation PROVE ShapeSound'
  <2>1. lendingIxs' = <<>> /\ req.action \in ObligationOnly /\ pc' = "built" /\ phase' = "setup"
    BY <1>1, <1>6 DEF AddRefreshObligation
  <2> QED BY <1>1, <2>1 DEF ShapeSound, Lent, MadeAsAsked, twoToken, TwoTokenAction,
             ObligationOnly
<1>7. ASSUME AddWithdrawReferrerFees PROVE ShapeSound'
  <2>1. /\ lendingIxs' = <<Ix("withdrawReferrerFees", req.reserve, {})>>
        /\ req.action = "withdrawReferrerFees" /\ pc' = "built" /\ phase' = "setup"
    BY <1>1, <1>7 DEF AddWithdrawReferrerFees
  <2> QED BY <1>1, <2>1 DEF ShapeSound, Lent, MadeAsAsked, twoToken, firstOp, TwoTokenAction,
             ObligationOnly, Ix
<1>8. (known.group > 0 \/ potentialGroup > 0) \in BOOLEAN /\ (known.group > 0) \in BOOLEAN
  OBVIOUS
<1> QED BY <1>2, <1>3, <1>4, <1>5, <1>6, <1>7, <1>8 DEF AddLendingIx, AddDepositIx,
        AddDepositReserveLiquidityIx, AddRedeemReserveCollateralIx,
        AddDepositObligationCollateralIx, AddWithdrawIx, AddBorrowIx, AddRepayIx, AddLiquidateIx

LEMMA ShapeStep == ASSUME IInv, ShapeSound, Next PROVE ShapeSound'
<1>0. phase \in {"setup", "inBetween"}
  BY DEF IInv, StateSound
<1>1. CASE Initialize
  <2>1. /\ pc = "initialize" /\ UNCHANGED <<req, phase, lendingIxs>>
        /\ pc' \in {"budget", "lending", "thrown"}
        /\ req.action = "withdrawReferrerFees" => pc' = "lending"
    BY <1>1 DEF Initialize, lists
  <2>2. phase = "setup"
    BY <1>0, <2>1 DEF ShapeSound
  <2> QED BY <2>1, <2>2, ShapeKept
<1>2. CASE AddComputeBudgetIxn
  <2>1. /\ pc = "budget" /\ UNCHANGED <<req, phase, lendingIxs>>
        /\ pc' = IF req.action \in ObligationOnly THEN "lending" ELSE "scope"
    BY <1>2 DEF AddComputeBudgetIxn, loaded
  <2>2. phase = "setup" /\ req.action # "withdrawReferrerFees"
    BY <1>0, <2>1 DEF ShapeSound
  <2> QED BY <2>1, <2>2, ShapeKept
<1>3. CASE AddScopeRefreshIxs
  BY <1>3, ShapeKept DEF AddScopeRefreshIxs, loaded, ShapeSound
<1>4. CASE AddInitUserMetadataIxs \/ AddInitReferrerTokenStateIxs \/ AddInitObligationIxs
  BY <1>4, ShapeKept DEF AddInitUserMetadataIxs, AddInitReferrerTokenStateIxs,
     AddInitObligationIxs, OnlySetup, loaded, ShapeSound
<1>5. CASE AddAtaIxs
  <2>1. /\ pc = "ata" /\ UNCHANGED <<req, phase, lendingIxs>>
        /\ \/ pc' = IF req.action \in {"mint", "redeem"} THEN "lending" ELSE "others"
           \/ pc' = "thrown"
    BY <1>5 DEF AddAtaIxs, Throw, loaded
  <2>2. /\ req.action # "withdrawReferrerFees" /\ req.action \notin ObligationOnly
        /\ req.action \in {"mint", "redeem"} => phase = "setup"
    BY <1>0, <2>1 DEF ShapeSound, twoToken, TwoTokenAction
  <2> QED BY <2>1, <2>2, ShapeKept
<1>6. CASE AddRefreshOtherReserves
  BY <1>6, ShapeKept DEF AddRefreshOtherReserves, OnlySupport, Throw, loaded, ShapeSound
<1>7. CASE AddInitObligationForFarms
  BY <1>7, ShapeKept DEF AddInitObligationForFarms, OnlySupport, loaded, ShapeSound
<1>8. CASE AddRefreshCurrent
  BY <1>8, ShapeKept DEF AddRefreshCurrent, OnlySupport, loaded, ShapeSound
<1>9. CASE AddRequestElevation
  <2>1. pc = "elevation" /\ UNCHANGED <<req, phase, lendingIxs>>
    BY <1>9 DEF AddRequestElevation, OnlyElevation, loaded
  <2>2. pc' \in {"farms", "thrown"}
    <3>1. ASSUME NEW g, ElevationFor(g) PROVE pc' \in {"farms", "thrown"}
      BY <3>1 DEF ElevationFor, Throw
    <3>2. CASE RequestGroupOnBorrow
      BY <3>1, <3>2 DEF RequestGroupOnBorrow, Throw
    <3>3. CASE RequestGroupOnRepay \/ RequestGroupOnDeposit \/ NoGroupRequest
      BY <3>3 DEF RequestGroupOnRepay, RequestGroupOnDeposit, NoGroupRequest, Throw
    <3> QED BY <1>9, <3>2, <3>3 DEF AddRequestElevation
  <2>3. req.action # "withdrawReferrerFees" /\ req.action \notin ObligationOnly
    BY <2>1 DEF ShapeSound
  <2> QED BY <2>1, <2>2, <2>3, ShapeKept
<1>10. CASE AddRefreshFarms
  <2>1. /\ pc = "farms" /\ UNCHANGED <<req, phase, lendingIxs>>
        /\ pc' = IF phase = "setup" THEN "lending" ELSE "splice"
    BY <1>10 DEF AddRefreshFarms, loaded
  <2>2. req.action # "withdrawReferrerFees" /\ req.action \notin ObligationOnly
    BY <2>1 DEF ShapeSound
  <2>3. CASE phase = "setup"
    BY <2>1, <2>2, <2>3, ShapeKept
  <2>4. CASE phase = "inBetween"
    BY <2>1, <2>2, <2>4 DEF ShapeSound, Lent, MadeAsAsked, twoToken, firstOp, secondOp
  <2> QED BY <1>0, <2>3, <2>4
<1>11. CASE AddLendingIx
  BY <1>11, ShapeLending
<1>12. CASE AddRefreshFarmsCleanupTxnIxsToCleanupIxs
  BY <1>12 DEF AddRefreshFarmsCleanupTxnIxsToCleanupIxs, loaded, ShapeSound, Lent, MadeAsAsked,
     twoToken, firstOp, secondOp
<1> QED BY <1>1, <1>2, <1>3, <1>4, <1>5, <1>6, <1>7, <1>8, <1>9, <1>10, <1>11, <1>12 DEF Next

-----------------------------------------------------------------------------
(***************************************************************************)
(* Wrapped SOL: what a build puts in front is matched by what it puts      *)
(* behind.                                                                 *)
(***************************************************************************)
Creating == {ix \in Instruction : ix.op = "createAta"}
Closing == {ix \in Instruction : ix.op = "closeAta"}
Syncing == {ix \in Instruction : ix.op = "syncNative"}
Funding == {ix \in Instruction : ix.op = "transferLamports"
                                 /\ ix.how \in {"amount", "rentAndAmount"}}
Spending == {ix \in Instruction : /\ ix.op \in {"deposit", "repay", "liquidate", "mint"}
                                  /\ ix.res = SolReserve}
Unwrapping == Closing \union IF overfunded THEN {} ELSE Spending

\* The token accounts of the first pass are done.
PastAta ==
  \/ pc \in {"others", "initFarms", "current", "elevation", "farms", "lending", "splice", "built"}
  \/ phase = "inBetween"

SolMoves == sends \union receives

SolSound ==
  /\ req.outflow \in Reserve => req.action \in TwoTokenAction \union {"liquidate"}
  /\ Has(cleanupIxs, Closing) => SolReserve \notin sends \intersect known.atas
  /\ PastAta /\ pc # "thrown" /\ req.ata /\ SolReserve \in SolMoves \ known.atas =>
       Has(cleanupIxs, Closing)
  /\ Followed(setupIxs, Funding, Syncing)
  /\ Has(setupIxs, Syncing) =>
       Has(cleanupIxs, Closing) \/ SolReserve \in sends \intersect known.atas \/ outflowSol

\* No list of support instructions touches the accounts.
LEMMA SupportLeavesAccounts ==
  /\ Creating \intersect SupportInstruction = {} /\ Closing \intersect SupportInstruction = {}
  /\ Syncing \intersect SupportInstruction = {} /\ Funding \intersect SupportInstruction = {}
  /\ Creating \intersect LendingInstruction = {} /\ Closing \intersect LendingInstruction = {}
  /\ Syncing \intersect LendingInstruction = {} /\ Funding \intersect LendingInstruction = {}
  /\ Closing \intersect SetupInstruction = {}
  /\ Creating \intersect CleanupInstruction = {} /\ Syncing \intersect CleanupInstruction = {}
  /\ Funding \intersect CleanupInstruction = {}
BY DEF Creating, Closing, Syncing, Funding, SupportInstruction, SupportOp, LendingInstruction,
       LendingOp, PositionOp, AccountOp, SetupInstruction, CleanupInstruction

\* sends, receives and outflowSol are of the call alone.
LEMMA SolSame ==
  ASSUME UNCHANGED req
  PROVE  sends' = sends /\ SolMoves' = SolMoves /\ outflowSol' = outflowSol
BY DEF sends, receives, SolMoves, outflowSol

\* A step around the lists, which does not end the accounts of a first pass.
LEMMA SolKept ==
  ASSUME IInv, SolSound, UNCHANGED <<req, known>>, SupportAround,
         PastAta' /\ pc' # "thrown" => \/ PastAta /\ pc # "thrown"
                                       \/ ~req.ata \/ SolMoves = {}
  PROVE  SolSound'
<1>1. setupIxs \in Seq(Instruction) /\ cleanupIxs \in Seq(Instruction)
  BY ListsAreInstructions
<1>2. Has(cleanupIxs', Closing) <=> Has(cleanupIxs, Closing)
  BY <1>1, SupportLeavesAccounts, AroundKeeps DEF SupportAround
<1>3. Has(setupIxs', Syncing) <=> Has(setupIxs, Syncing)
  BY <1>1, SupportLeavesAccounts, AroundKeeps DEF SupportAround
<1>4. Followed(setupIxs', Funding, Syncing)
  BY <1>1, SupportLeavesAccounts, AroundKeeps DEF SupportAround, SolSound
<1> DEFINE closes == Has(cleanupIxs, Closing)
           syncs == Has(setupIxs, Syncing)
<1>5. /\ Has(cleanupIxs, Closing)' <=> closes
      /\ Has(setupIxs, Syncing)' <=> syncs
      /\ Followed(setupIxs, Funding, Syncing)'
  BY <1>2, <1>3, <1>4 DEF Has, Followed, Closing, Syncing, Funding
<1> HIDE DEF closes, syncs
<1>6. /\ req.outflow \in Reserve => req.action \in TwoTokenAction \union {"liquidate"}
      /\ closes => SolReserve \notin sends \intersect known.atas
      /\ PastAta /\ pc # "thrown" /\ req.ata /\ SolReserve \in SolMoves \ known.atas => closes
      /\ syncs => closes \/ SolReserve \in sends \intersect known.atas \/ outflowSol
  BY DEF SolSound, closes, syncs
<1> QED BY <1>5, <1>6, SolSame DEF SolSound

\* The WSOL account of a first pass.
LEMMA WsolPart ==
  ASSUME IInv, ShapeSound, SolSound, AddAtaIxs, req.ata, touchesSol, known = chain
  PROVE  /\ Followed(wsolPreIxs, Funding, Syncing)
         /\ Has(wsolPostIxs, Closing) => SolReserve \notin sends \intersect known.atas
         /\ SolReserve \notin known.atas => Has(wsolPostIxs, Closing)
         /\ Has(wsolPreIxs, Syncing) =>
              Has(wsolPostIxs, Closing) \/ SolReserve \in sends \intersect known.atas \/ outflowSol
<1>1. SolReserve \in Reserve
  BY PassReserves, ReserveAssumption DEF touchesSol
<1> DEFINE sync == Ix("syncNative", SolReserve, {})
           close == Ix("closeAta", SolReserve, {})
<1>2. sync \in Instruction /\ close \in Instruction /\ sync \in Syncing /\ close \in Closing
  <2>1. sync \in Instruction /\ close \in Instruction
    BY <1>1, AccountIx, CloseIx, OwnIsInstruction
  <2> QED BY <2>1 DEF Syncing, Closing, Ix
<1>3. Has(wsolPostIxs, Closing) <=> ~wsolExists \/ ~sendAction
  <2> HIDE DEF close
  <2>1. Has(<<close>>, Closing) /\ ~Has(<<>>, Closing)
    BY <1>2, HasBasics
  <2> QED BY <2>1 DEF wsolPostIxs, close
<1>4. phase = "setup"
  BY DEF touchesSol, supportAction, twoToken, ShapeSound, IInv, StateSound
<1>5. SolReserve \in sends => sendAction
  BY <1>4 DEF sends, sendAction, supportAction, twoToken, secondaryMint, TwoTokenAction
<1>6. sendAction => SolReserve \in sends \/ outflowSol
  <2>1. req.outflow \notin Reserve => req.outflow # SolReserve
    BY <1>1
  <2>2. CASE req.action = "liquidate"
    BY <1>4, <2>2 DEF sends, sendAction, supportAction, twoToken, secondaryMint, TwoTokenAction
  <2>3. CASE req.action \in TwoTokenAction
    BY <2>3 DEF touchesSol, mint, secondaryMint, sends, outflowSol, TwoTokenAction
  <2>4. CASE req.action \notin TwoTokenAction \union {"liquidate"}
    <3>1. req.outflow # SolReserve
      BY <2>1, <2>4 DEF SolSound
    <3> QED BY <2>4, <3>1 DEF touchesSol, mint, secondaryMint, sends, sendAction, supportAction,
               twoToken
  <2> QED BY <2>2, <2>3, <2>4
<1>7. Followed(wsolPreIxs, Funding, Syncing)
  <2> DEFINE pays == CASE ~wsolExists /\ sendAction -> "rentAndAmount"
                       [] ~wsolExists /\ ~sendAction -> "rent"
                       [] wsolExists /\ sendAction -> "amount"
                       [] OTHER -> "none"
             transfer == IxHow("transferLamports", SolReserve, pays)
             create == CreateIfMissing("createAta", chain.atas, SolReserve)
             last == IF ~wsolExists \/ sendAction THEN <<sync>> ELSE <<>>
  <2>1. pays \in How
    BY DEF How
  <2>2. pays \in {"amount", "rentAndAmount"} => sendAction
    OBVIOUS
  <2> HIDE DEF pays
  <2>3. transfer \in SetupInstruction /\ transfer.op = "transferLamports" /\ transfer.how = pays
    BY <1>1, <2>1, TransferIx DEF IxHow, Ix
  <2>4. wsolPreIxs = <<transfer>> \o create \o last
    BY DEF wsolPreIxs, pays
  <2>5. create \in Seq(Instruction)
    BY <1>1, CreateSeq, OwnIsInstruction, SeqSubset
  <2>6. ~Has(create, Funding)
    <3>1. Ix("createAta", SolReserve, {}) \notin Funding
      BY DEF Funding, Ix
    <3> QED BY <3>1, HasBasics DEF CreateIfMissing
  <2> HIDE DEF transfer, create, sync
  <2>7. last \in Seq(Instruction) /\ ~Has(last, Funding)
        /\ (sendAction => Has(last, Syncing))
    <3>1. sync \notin Funding
      BY <1>2 DEF Syncing, Funding
    <3>2. ~Has(<<>>, Funding) /\ ~Has(<<sync>>, Funding) /\ Has(<<sync>>, Syncing)
      BY <1>2, <3>1, HasBasics
    <3> QED BY <1>2, <3>2
  <2> HIDE DEF last
  <2>8. <<transfer>> \in Seq(Instruction) /\ create \o last \in Seq(Instruction)
    BY <2>3, <2>5, <2>7, OwnIsInstruction, Concatenated
  <2>9. Followed(create \o last, Funding, Syncing)
    <3>1. ~Has(create \o last, Funding)
      BY <2>5, <2>6, <2>7, HasConcat
    <3> QED BY <3>1 DEF Has, Followed
  <2>10. Followed(<<transfer>>, Funding, Syncing) \/ Has(create \o last, Syncing)
    <3>1. CASE sendAction
      BY <2>5, <2>7, <3>1, HasConcat
    <3>2. CASE ~sendAction
      <4>1. transfer \notin Funding
        BY <2>2, <2>3, <3>2 DEF Funding
      <4>2. ~Has(<<transfer>>, Funding)
        BY <4>1, HasBasics
      <4> QED BY <4>2 DEF Has, Followed
    <3> QED BY <3>1, <3>2
  <2>11. Followed(<<transfer>> \o (create \o last), Funding, Syncing)
    BY <2>8, <2>9, <2>10, FollowedConcat
  <2>12. <<transfer>> \o create \o last = <<transfer>> \o (create \o last)
    BY <2>5, <2>7, <2>8, ConcatAssociative
  <2> QED BY <2>4, <2>11, <2>12
<1>8. Has(wsolPreIxs, Syncing) =>
        Has(wsolPostIxs, Closing) \/ SolReserve \in sends \intersect known.atas \/ outflowSol
  <2>1. wsolExists => SolReserve \in known.atas
    BY DEF wsolExists
  <2> QED BY <1>3, <1>6, <2>1
<1> QED BY <1>3, <1>5, <1>7, <1>8 DEF wsolExists

\* What is put in front of the setup list for other accounts creates them.
LEMMA AtaOnlyCreates ==
  ~Has(ataSetupIxs, Funding) /\ ~Has(ataSetupIxs, Syncing)
<1> DEFINE made == {Ix(op, r, {}) : op \in {"createAta", "createColAta"},
                                    r \in {req.reserve, req.outflow}}
<1>1. made \intersect Funding = {} /\ made \intersect Syncing = {}
  BY DEF Funding, Syncing, Ix
<1>2. ASSUME NEW op \in {"createAta", "createColAta"}, NEW r \in {req.reserve, req.outflow},
             NEW existing
      PROVE  CreateIfMissing(op, existing, r) \in Seq(made)
  <2>1. Ix(op, r, {}) \in made
    OBVIOUS
  <2> HIDE DEF made
  <2> QED BY <2>1 DEF CreateIfMissing
<1> HIDE DEF made
<1>3. <<>> \in Seq(made)
  OBVIOUS
<1>4. ataSetupIxs \in Seq(made)
  BY <1>2, <1>3, Concatenated DEF ataSetupIxs
<1> QED BY <1>1, <1>4, HasNone

LEMMA SolAta ==
  ASSUME IInv, ShapeSound, SolSound, AddAtaIxs, known = chain
  PROVE  SolSound'
<1>1. /\ UNCHANGED <<req, known, phase>> /\ pc = "ata" /\ phase \in {"setup", "inBetween"}
      /\ pc' \in {"lending", "others", "thrown"}
  BY DEF AddAtaIxs, loaded, Throw, IInv, StateSound
<1>2. setupIxs \in Seq(Instruction) /\ cleanupIxs \in Seq(Instruction)
  BY ListsAreInstructions
<1>3. CASE UNCHANGED <<setupIxs, cleanupIxs>> /\ (~req.ata \/ pc' = "thrown")
  BY <1>1, <1>3, SolKept, UnchangedAround DEF SupportAround
<1>4. CASE ~(UNCHANGED <<setupIxs, cleanupIxs>> /\ (~req.ata \/ pc' = "thrown"))
  <2> DEFINE pre == IF touchesSol THEN wsolPreIxs ELSE <<>>
             post == IF touchesSol THEN wsolPostIxs ELSE <<>>
  <2>1. /\ req.ata /\ setupIxs' = ataSetupIxs \o pre \o setupIxs
        /\ cleanupIxs' = cleanupIxs \o post
    BY <1>4 DEF AddAtaIxs, Throw
  <2>2. /\ Followed(pre, Funding, Syncing)
        /\ Has(post, Closing) => SolReserve \notin sends \intersect known.atas
        /\ touchesSol /\ SolReserve \notin known.atas => Has(post, Closing)
        /\ Has(pre, Syncing) =>
             Has(post, Closing) \/ SolReserve \in sends \intersect known.atas \/ outflowSol
    <3>1. CASE touchesSol
      BY <2>1, <3>1, WsolPart
    <3>2. CASE ~touchesSol
      <4>1. pre = <<>> /\ post = <<>>
        BY <3>2
      <4>2. ~Has(<<>>, Syncing) /\ ~Has(<<>>, Closing) /\ ~Has(<<>>, Funding)
        BY HasBasics
      <4> HIDE DEF pre, post
      <4>3. Followed(pre, Funding, Syncing)
        BY <4>1, <4>2 DEF Has, Followed
      <4> QED BY <3>2, <4>1, <4>2, <4>3
    <3> QED BY <3>1, <3>2
  <2>3. pre \in Seq(Instruction) /\ post \in Seq(Instruction)
    <3>1. CASE touchesSol
      <4>1. SolReserve \in Reserve
        BY <3>1, PassReserves, ReserveAssumption DEF touchesSol
      <4>2. wsolPreIxs \in Seq(Instruction) /\ wsolPostIxs \in Seq(Instruction)
        BY <4>1, WsolSeqs, OwnIsInstruction, SeqSubset
      <4> QED BY <3>1, <4>2
    <3>2. CASE ~touchesSol
      BY <3>2
    <3> QED BY <3>1, <3>2
  <2> HIDE DEF pre, post
  <2>4. ataSetupIxs \in Seq(Instruction)
    BY AtaSeqs, OwnIsInstruction, SeqSubset
  <2>5. ~Has(ataSetupIxs, Funding) /\ ~Has(ataSetupIxs, Syncing)
    BY AtaOnlyCreates
  <2>6. ataSetupIxs \o pre \in Seq(Instruction)
    BY <2>3, <2>4, Concatenated
  <2>7. Followed(setupIxs', Funding, Syncing)
    <3>1. Followed(ataSetupIxs, Funding, Syncing)
      BY <2>5 DEF Has, Followed
    <3>2. Followed(ataSetupIxs \o pre, Funding, Syncing)
      BY <2>2, <2>3, <2>4, <3>1, FollowedConcat
    <3> QED BY <1>2, <2>1, <2>6, <3>2, FollowedConcat DEF SolSound
  <2>8. Has(setupIxs', Syncing) <=> Has(pre, Syncing) \/ Has(setupIxs, Syncing)
    <3>1. Has(ataSetupIxs \o pre, Syncing) <=> Has(ataSetupIxs, Syncing) \/ Has(pre, Syncing)
      BY <2>3, <2>4, HasConcat
    <3>2. Has((ataSetupIxs \o pre) \o setupIxs, Syncing)
            <=> Has(ataSetupIxs \o pre, Syncing) \/ Has(setupIxs, Syncing)
      BY <1>2, <2>6, HasConcat
    <3> QED BY <2>1, <2>5, <3>1, <3>2
  <2>9. Has(cleanupIxs', Closing) <=> Has(cleanupIxs, Closing) \/ Has(post, Closing)
    BY <1>2, <2>1, <2>3, HasConcat
  <2>10. SolReserve \in SolMoves \ known.atas => Has(cleanupIxs', Closing)
    <3> SUFFICES ASSUME SolReserve \in SolMoves, SolReserve \notin known.atas
                 PROVE  Has(cleanupIxs', Closing)
      OBVIOUS
    <3>1. CASE phase = "inBetween"
      BY <1>1, <2>1, <2>9, <3>1 DEF SolSound, PastAta
    <3>2. CASE phase = "setup"
      <4>1. touchesSol
        BY <3>2 DEF SolMoves, sends, receives, touchesSol, mint, secondaryMint, supportAction,
           twoToken, TwoTokenAction
      <4> QED BY <2>2, <2>9, <4>1
    <3> QED BY <1>1, <3>1, <3>2
  <2> DEFINE closes == Has(cleanupIxs, Closing)
             syncs == Has(setupIxs, Syncing)
             closesNext == Has(cleanupIxs', Closing)
             syncsNext == Has(setupIxs', Syncing)
  <2>11. /\ Has(cleanupIxs, Closing)' <=> closesNext
         /\ Has(setupIxs, Syncing)' <=> syncsNext
         /\ Followed(setupIxs, Funding, Syncing)'
    BY <2>7 DEF Has, Followed, Closing, Syncing, Funding
  <2>12. /\ req.outflow \in Reserve => req.action \in TwoTokenAction \union {"liquidate"}
         /\ closes => SolReserve \notin sends \intersect known.atas
         /\ syncs => closes \/ SolReserve \in sends \intersect known.atas \/ outflowSol
    BY DEF SolSound
  <2>13. /\ closesNext => SolReserve \notin sends \intersect known.atas
         /\ syncsNext => closesNext \/ SolReserve \in sends \intersect known.atas \/ outflowSol
         /\ SolReserve \in SolMoves \ known.atas => closesNext
    BY <2>2, <2>8, <2>9, <2>10, <2>12
  <2> HIDE DEF closes, syncs, closesNext, syncsNext
  <2> QED BY <1>1, <2>11, <2>12, <2>13, SolSame DEF SolSound
<1> QED BY <1>3, <1>4

LEMMA SolInitialize == ASSUME IInv, ShapeSound, SolSound, Initialize PROVE SolSound'
<1>1. /\ UNCHANGED <<req, phase, setupIxs, cleanupIxs>>
      /\ pc = "initialize" /\ pc' \in {"lending", "budget", "thrown"}
      /\ pc' = "lending" => req.action = "withdrawReferrerFees"
  BY DEF Initialize, lists
<1>2. phase' = "setup" /\ setupIxs' = <<>> /\ cleanupIxs' = <<>>
  BY <1>1 DEF ShapeSound, IInv, StateSound, ReserveListsSound, Unbuilt
<1>3. DOMAIN setupIxs' = {} /\ DOMAIN cleanupIxs' = {}
  BY <1>2
<1>4. /\ ~(Has(cleanupIxs, Closing)') /\ ~(Has(setupIxs, Syncing)')
      /\ Followed(setupIxs, Funding, Syncing)'
  BY <1>3 DEF Has, Followed
<1>5. PastAta' /\ pc' # "thrown" => SolMoves' = {}
  BY <1>1, <1>2 DEF PastAta, SolMoves, sends, receives, TwoTokenAction
<1>6. (req.outflow \in Reserve)' => (req.action \in TwoTokenAction \union {"liquidate"})'
  BY <1>1 DEF SolSound
<1> QED BY <1>4, <1>5, <1>6 DEF SolSound

LEMMA SolStep ==
  ASSUME IInv, ShapeSound, SolSound, Next, pc # "initialize" => known = chain
  PROVE  SolSound'
<1>1. CASE Initialize
  BY <1>1, SolInitialize
<1>2. CASE AddAtaIxs
  <2>1. pc = "ata"
    BY <1>2 DEF AddAtaIxs
  <2> QED BY <1>2, <2>1, SolAta
<1>3. CASE ~Initialize /\ ~AddAtaIxs
  <2>1. SupportAround
    BY <1>3, StepAround
  <2>2. UNCHANGED <<req, known>>
    BY <1>3, StepKeeps DEF loaded
  <2>3. PastAta' /\ pc' # "thrown" => (PastAta /\ pc # "thrown") \/ SolMoves = {}
    <3>1. CASE AddComputeBudgetIxn
      BY <3>1 DEF AddComputeBudgetIxn, PastAta, SolMoves, sends, receives, ObligationOnly,
         TwoTokenAction
    <3>2. CASE \/ AddScopeRefreshIxs \/ AddInitUserMetadataIxs \/ AddInitReferrerTokenStateIxs
               \/ AddInitObligationIxs
      BY <3>2 DEF AddScopeRefreshIxs, AddInitUserMetadataIxs, AddInitReferrerTokenStateIxs,
         AddInitObligationIxs, OnlySetup, PastAta
    <3>3. CASE \/ AddRefreshOtherReserves \/ AddInitObligationForFarms \/ AddRefreshCurrent
               \/ AddRequestElevation \/ AddRefreshFarms \/ AddLendingIx
               \/ AddRefreshFarmsCleanupTxnIxsToCleanupIxs
      BY <3>3 DEF AddRefreshOtherReserves, AddInitObligationForFarms, AddRefreshCurrent,
         AddRequestElevation, AddRefreshFarms, AddRefreshFarmsCleanupTxnIxsToCleanupIxs,
         AddLendingIx, AddDepositIx, AddDepositReserveLiquidityIx, AddRedeemReserveCollateralIx,
         AddDepositObligationCollateralIx, AddWithdrawIx, AddBorrowIx, AddRepayIx,
         AddLiquidateIx, AddPlainIx, AddDebtIx, AddDepositAndBorrowIx, AddRepayAndWithdrawIxs,
         AddRefreshObligation, AddWithdrawReferrerFees, PastAta
    <3> QED BY <1>3, <3>1, <3>2, <3>3 DEF Next
  <2> QED BY <2>1, <2>2, <2>3, SolKept
<1> QED BY <1>1, <1>2, <1>3

LEMMA SolInit == Init => SolSound
<1> SUFFICES ASSUME Init PROVE SolSound
  OBVIOUS
<1>1. DOMAIN setupIxs = {} /\ DOMAIN cleanupIxs = {} /\ ~PastAta
  BY DEF Init, PastAta
<1> QED BY <1>1 DEF Init, Compatible, SolSound, Has, Followed

-----------------------------------------------------------------------------
(***************************************************************************)
(* Wrapped SOL while the transaction runs: what is still queued undoes     *)
(* what has been done.                                                     *)
(***************************************************************************)
VMType ==
  [fresh : SUBSET Reserve, obligation : BOOLEAN, farmFresh : SUBSET (Reserve \X How),
   farmOwed : SUBSET (Reserve \X How), unsynced : BOOLEAN, funded : BOOLEAN]

QueueSound(q) ==
  /\ Followed(q, Funding, Syncing)
  /\ ~outflowSol /\ ~paddingLeft => Followed(q, Syncing, Unwrapping)
  /\ NoneAfter(q, Closing, Creating)

ExecSound ==
  /\ QueueSound(queue)
  /\ vm.unsynced => Has(queue, Syncing)
  /\ ~outflowSol /\ ~paddingLeft /\ vm.funded => Has(queue, Unwrapping)
  /\ Has(cleanupIxs, Closing) =>
       Has(queue, Closing) \/ (~Has(queue, Creating) /\ SolReserve \notin ledger.atas)
  /\ ~Has(cleanupIxs, Closing) =>
       ~Has(queue, Closing) /\ (SolReserve \in known.atas => SolReserve \in ledger.atas)

RunSound ==
  /\ vm \in VMType
  /\ status \in {"building", "pre"} => vm = NewVM
  /\ status = "pre" => queue = lendingTxn /\ known = chain
  /\ status = "committed" => queue = <<>>
  /\ status \in {"lending", "committed"} => ExecSound

\* Setup and cleanup with the lending instructions in between.
LEMMA TxnParts ==
  ASSUME IInv, NEW A, lendingIxs # <<>> => lendingIxs[1] \in A
  PROVE  \E m \in Seq(SupportInstruction \union LendingInstruction) :
           /\ lendingTxn = setupIxs \o m \o cleanupIxs
           /\ lendingIxs # <<>> => Has(m, A)
<1> DEFINE M == SupportInstruction \union LendingInstruction
<1>1. inBetweenIxs \in Seq(M) /\ lendingIxs \in Seq(M)
  BY SeqSubset DEF IInv, ListsSound
<1> HIDE DEF M
<1>2. CASE Len(lendingIxs) = 2
  <2> DEFINE one == lendingIxs[1]
             two == lendingIxs[2]
             m == <<one>> \o inBetweenIxs \o <<two>>
  <2>1. 1 \in 1..Len(lendingIxs) /\ 2 \in 1..Len(lendingIxs)
    BY <1>2
  <2>2. one \in M /\ two \in M
    BY <1>1, <2>1, ElementOfSeq
  <2>3. lendingIxs # <<>> /\ one \in A
    BY <1>2
  <2>4. lendingTxn = setupIxs \o m \o cleanupIxs
    BY <1>2 DEF lendingTxn
  <2> HIDE DEF one, two
  <2>5. <<one>> \in Seq(M) /\ <<two>> \in Seq(M)
    BY <2>2
  <2>6. <<one>> \o inBetweenIxs \in Seq(M) /\ m \in Seq(M)
    BY <1>1, <2>5, Concatenated
  <2>7. Has(<<one>> \o inBetweenIxs, A)
    BY <1>1, <2>3, <2>5, HasConcat, HasBasics
  <2>8. Has(m, A)
    BY <2>5, <2>6, <2>7, HasConcat
  <2> HIDE DEF m
  <2> QED BY <2>4, <2>6, <2>8 DEF M
<1>3. CASE Len(lendingIxs) # 2
  <2>1. lendingTxn = setupIxs \o lendingIxs \o cleanupIxs
    BY <1>3 DEF lendingTxn
  <2>2. lendingIxs # <<>> => 1 \in DOMAIN lendingIxs
    BY <1>1
  <2>3. lendingIxs # <<>> => Has(lendingIxs, A)
    BY <2>2 DEF Has
  <2> QED BY <1>1, <2>1, <2>3 DEF M
<1> QED BY <1>2, <1>3

LEMMA TxnSound ==
  ASSUME IInv, ShapeSound, SolSound, pc = "built"
  PROVE  /\ QueueSound(lendingTxn)
         /\ Has(lendingTxn, Closing) <=> Has(cleanupIxs, Closing)
<1> DEFINE A == IF SolReserve \in sends THEN Spending ELSE Instruction
<1>1. lendingIxs # <<>> => lendingIxs[1] \in A
  <2> SUFFICES ASSUME lendingIxs # <<>> PROVE lendingIxs[1] \in A
    OBVIOUS
  <2>1. 1 \in 1..Len(lendingIxs)
    BY DEF IInv, ListsSound
  <2>2. lendingIxs[1] \in Instruction
    BY <2>1, ListsAreInstructions, ElementOfSeq
  <2>3. MadeAsAsked /\ req.action \notin ObligationOnly
    BY DEF ShapeSound, Lent, MadeAsAsked
  <2>4. CASE SolReserve \in sends
    BY <2>2, <2>3, <2>4 DEF MadeAsAsked, firstOp, Spending, sends, TwoTokenAction
  <2>5. CASE SolReserve \notin sends
    BY <2>2, <2>5
  <2> QED BY <2>4, <2>5
<1>2. SolReserve \in sends => lendingIxs # <<>>
  <2>1. MadeAsAsked
    BY DEF ShapeSound, Lent
  <2>2. SolReserve \in sends => req.action \notin ObligationOnly
    BY DEF sends, ObligationOnly, TwoTokenAction
  <2>3. Len(lendingIxs) = 1 \/ Len(lendingIxs) = 2 => lendingIxs # <<>>
    OBVIOUS
  <2> QED BY <2>1, <2>2, <2>3 DEF MadeAsAsked
<1> HIDE DEF A
<1>3. PICK m \in Seq(SupportInstruction \union LendingInstruction) :
        /\ lendingTxn = setupIxs \o m \o cleanupIxs
        /\ lendingIxs # <<>> => Has(m, A)
  BY <1>1, TxnParts
<1>4. /\ setupIxs \in Seq(Instruction) /\ cleanupIxs \in Seq(Instruction)
      /\ m \in Seq(Instruction)
  <2>1. SupportInstruction \union LendingInstruction \subseteq Instruction
    BY OwnIsInstruction
  <2> QED BY <2>1, ListsAreInstructions, SeqSubset
<1>5. /\ ~Has(m, Closing) /\ ~Has(m, Syncing) /\ ~Has(m, Funding)
      /\ ~Has(cleanupIxs, Creating) /\ ~Has(cleanupIxs, Syncing) /\ ~Has(cleanupIxs, Funding)
      /\ ~Has(setupIxs, Closing)
  <2>1. /\ Closing \intersect (SupportInstruction \union LendingInstruction) = {}
        /\ Syncing \intersect (SupportInstruction \union LendingInstruction) = {}
        /\ Funding \intersect (SupportInstruction \union LendingInstruction) = {}
    BY SupportLeavesAccounts
  <2> QED BY <2>1, SupportLeavesAccounts, HasNone DEF IInv, ListsSound
<1> DEFINE front == setupIxs \o m
<1>6. front \in Seq(Instruction) /\ lendingTxn = front \o cleanupIxs
  BY <1>3, <1>4, Concatenated
<1>7. Followed(m, Funding, Syncing) /\ Followed(cleanupIxs, Funding, Syncing)
      /\ Followed(m, Syncing, Unwrapping) /\ Followed(cleanupIxs, Syncing, Unwrapping)
  BY <1>5 DEF Has, Followed
<1>8. Has(front, Closing) <=> Has(setupIxs, Closing) \/ Has(m, Closing)
  BY <1>4, HasConcat
<1>9. Has(front \o cleanupIxs, Closing) <=> Has(front, Closing) \/ Has(cleanupIxs, Closing)
  BY <1>4, <1>6, HasConcat
<1>10. Followed(front, Funding, Syncing)
  BY <1>4, <1>7, FollowedConcat DEF SolSound
<1>11. Followed(lendingTxn, Funding, Syncing)
  BY <1>4, <1>6, <1>7, <1>10, FollowedConcat
<1>12. ASSUME ~outflowSol, ~paddingLeft PROVE Followed(lendingTxn, Syncing, Unwrapping)
  <2>1. CASE ~Has(setupIxs, Syncing)
    <3>1. Followed(setupIxs, Syncing, Unwrapping)
      BY <2>1 DEF Has, Followed
    <3>2. Followed(front, Syncing, Unwrapping)
      BY <1>4, <1>7, <3>1, FollowedConcat
    <3> QED BY <1>4, <1>6, <1>7, <3>2, FollowedConcat
  <2>2. CASE Has(cleanupIxs, Closing)
    <3>1. Has(cleanupIxs, Unwrapping)
      BY <2>2 DEF Has, Unwrapping
    <3> QED BY <1>4, <1>6, <1>7, <3>1, FollowedConcat
  <2>3. CASE SolReserve \in sends \intersect known.atas
    <3>0. ~overfunded
      <4>1. req.reserve = SolReserve
        BY <2>3 DEF sends
      <4> QED BY <1>12, <2>3, <4>1 DEF paddingLeft
    <3>1. Has(m, Unwrapping)
      <4>1. Has(m, Spending) /\ Spending \subseteq Unwrapping
        BY <1>2, <1>3, <2>3, <3>0 DEF Unwrapping, A
      <4> QED BY <4>1 DEF Has
    <3>2. Followed(front, Syncing, Unwrapping)
      BY <1>4, <1>7, <3>1, FollowedConcat
    <3> QED BY <1>4, <1>6, <1>7, <3>2, FollowedConcat
  <2> QED BY <1>12, <2>1, <2>2, <2>3 DEF SolSound
<1>13. NoneAfter(lendingTxn, Closing, Creating)
  BY <1>4, <1>5, <1>6, <1>8, NoneAfterConcat
<1> QED BY <1>5, <1>6, <1>8, <1>9, <1>11, <1>12, <1>13 DEF QueueSound

\* Of the next state, with the call as it is.
LEMMA NextQueue ==
  ASSUME UNCHANGED <<req, known>>
  PROVE  /\ QueueSound(queue)' <=> QueueSound(queue')
         /\ Has(queue, Closing)' <=> Has(queue', Closing)
         /\ Has(queue, Creating)' <=> Has(queue', Creating)
         /\ Has(queue, Syncing)' <=> Has(queue', Syncing)
         /\ Has(queue, Unwrapping)' <=> Has(queue', Unwrapping)
         /\ Has(cleanupIxs, Closing)' <=> Has(cleanupIxs', Closing)
<1>1. outflowSol' = outflowSol /\ overfunded' = overfunded /\ paddingLeft' = paddingLeft
  BY SolSame DEF overfunded, paddingLeft
<1>2. /\ Closing' = Closing /\ Creating' = Creating /\ Syncing' = Syncing
      /\ Funding' = Funding /\ Unwrapping' = Unwrapping
  BY <1>1 DEF Closing, Creating, Syncing, Funding, Unwrapping, Spending
<1> QED BY <1>1, <1>2 DEF QueueSound, Has, Followed, NoneAfter

LEMMA ExecStart ==
  ASSUME IInv, ShapeSound, SolSound, pc = "built",
         UNCHANGED <<req, known, cleanupIxs>>, queue' = lendingTxn, vm' = NewVM,
         known.atas \subseteq ledger'.atas
  PROVE  ExecSound'
<1>1. /\ QueueSound(queue)'
      /\ Has(queue, Closing)' <=> Has(cleanupIxs, Closing)'
  BY TxnSound, NextQueue
<1>2. ~vm'.unsynced /\ ~vm'.funded
  BY DEF NewVM
<1> QED BY <1>1, <1>2 DEF ExecSound

\* What an instruction does to the virtual machine and to the WSOL account.
LEMMA VMEffect ==
  ASSUME NEW v \in VMType, req \in Request, NEW ix \in Instruction
  PROVE  /\ VMAfter(ix, v) \in VMType
         /\ VMAfter(ix, v).unsynced => ix \in Funding \/ (v.unsynced /\ ix \notin Syncing)
         /\ VMAfter(ix, v).funded =>
              (v.funded /\ ix \notin Unwrapping) \/ (v.unsynced /\ ix \in Syncing)
<1>1. touchedFarms(ix) \subseteq Reserve \X How
  BY ReserveAssumption DEF touchedFarms, Farms, How, Mode
<1>2. ix.deps \subseteq Reserve /\ ix.how \in How
  BY DEF Instruction
<1>3. VMAfter(ix, v) \in VMType
  <2> DEFINE F == ix.deps \X {ix.how}
             W == Reserve \X How
  <2>1. F \subseteq W
    BY <1>2
  <2> HIDE DEF F, W
  <2>2. CASE ix.op = "refreshFarms"
    <3>1. VMAfter(ix, v) = [v EXCEPT !.farmFresh = @ \union F, !.farmOwed = @ \ F]
      BY <2>2 DEF VMAfter, F, PositionOp
    <3>2. \A x, y \in SUBSET W : [v EXCEPT !.farmFresh = x, !.farmOwed = y] \in VMType
      BY DEF VMType, W
    <3>3. v.farmFresh \union F \in SUBSET W /\ v.farmOwed \ F \in SUBSET W
      BY <2>1 DEF VMType, W
    <3>4. [v EXCEPT !.farmFresh = v.farmFresh \union F, !.farmOwed = v.farmOwed \ F] \in VMType
      BY <3>2, <3>3
    <3> QED BY <3>1, <3>4
  <2>3. CASE ix.op \in PositionOp
    BY <1>1, <2>3 DEF VMAfter, VMType, PositionOp
  <2>4. CASE ix.op = "refreshReserves"
    BY <1>2, <2>4 DEF VMAfter, VMType, PositionOp
  <2>5. CASE ix.op \in {"transferLamports", "syncNative", "closeAta"}
    <3>1. CASE ix.op = "transferLamports"
      <4> DEFINE b == ix.how \in {"amount", "rentAndAmount"}
      <4>1. VMAfter(ix, v) = [v EXCEPT !.unsynced = b]
        BY <3>1 DEF VMAfter, PositionOp
      <4>2. b \in BOOLEAN
        OBVIOUS
      <4> HIDE DEF b
      <4> QED BY <4>1, <4>2 DEF VMType
    <3>2. CASE ix.op = "syncNative"
      BY <3>2 DEF VMAfter, VMType, PositionOp
    <3>3. CASE ix.op = "closeAta"
      BY <3>3 DEF VMAfter, VMType, PositionOp
    <3> QED BY <2>5, <3>1, <3>2, <3>3
  <2>6. CASE ix.op \in {"refreshObligation", "requestElevationGroup", "mint"}
    BY <2>6 DEF VMAfter, VMType, PositionOp
  <2> QED BY <2>2, <2>3, <2>4, <2>5, <2>6 DEF VMAfter
<1>4. VMAfter(ix, v).unsynced => ix \in Funding \/ (v.unsynced /\ ix \notin Syncing)
  BY DEF VMAfter, VMType, Funding, Syncing, PositionOp
<1>5. VMAfter(ix, v).funded =>
        (v.funded /\ ix \notin Unwrapping) \/ (v.unsynced /\ ix \in Syncing)
  BY DEF VMAfter, VMType, Unwrapping, Closing, Spending, Syncing, PositionOp
<1> QED BY <1>3, <1>4, <1>5

LEMMA AccountEffect ==
  ASSUME ledger \in Chain, NEW ix \in ListedInstruction
  PROVE  /\ ix \in Closing => SolReserve \notin LedgerAfter(ix, ledger).atas
         /\ ix \notin Closing /\ SolReserve \in ledger.atas => SolReserve \in LedgerAfter(ix, ledger).atas
         /\ ix \notin Creating /\ SolReserve \notin ledger.atas =>
              SolReserve \notin LedgerAfter(ix, ledger).atas
<1>1. ix \in Instruction
  BY OwnIsInstruction DEF ListedInstruction
<1>2. ix.op = "closeAta" => ix.res = SolReserve
  BY DEF ListedInstruction, SetupInstruction, CleanupInstruction, LendingInstruction,
         SupportInstruction, SupportOp, AccountOp, LendingOp, PositionOp
<1>3. CASE ix.op \in {"createAta", "closeAta"}
  BY <1>1, <1>2, <1>3 DEF LedgerAfter, Chain, Closing, Creating
<1>4. CASE ix.op \notin {"createAta", "closeAta"}
  <2>1. LedgerAfter(ix, ledger).atas = ledger.atas
    BY <1>4 DEF LedgerAfter, Chain
  <2> QED BY <1>4, <2>1 DEF Closing, Creating
<1> QED BY <1>3, <1>4

\* The build is not touched once it is done.
LEMMA BuiltSolKept ==
  ASSUME ShapeSound, SolSound, UNCHANGED <<req, pc, phase, known, lists>>
  PROVE  ShapeSound' /\ SolSound'
<1>1. UNCHANGED <<setupIxs, lendingIxs, cleanupIxs>>
  BY DEF lists
<1>2. ShapeSound'
  BY <1>1 DEF ShapeSound, Lent, MadeAsAsked, twoToken, firstOp, secondOp
<1>3. SolSound'
  <2>1. PastAta' <=> PastAta
    BY DEF PastAta
  <2>2. /\ Has(cleanupIxs, Closing)' <=> Has(cleanupIxs, Closing)
        /\ Has(setupIxs, Syncing)' <=> Has(setupIxs, Syncing)
        /\ Followed(setupIxs, Funding, Syncing)' <=> Followed(setupIxs, Funding, Syncing)
    BY <1>1 DEF Has, Followed, Closing, Syncing, Funding
  <2> QED BY <2>1, <2>2, SolSame DEF SolSound
<1> QED BY <1>2, <1>3

WrappedSol == SendCore /\ ShapeSound /\ SolSound /\ RunSound

LEMMA NewVMTyped == NewVM \in VMType /\ ~NewVM.unsynced /\ ~NewVM.funded
BY DEF NewVM, VMType

LEMMA SolSendInit == SendInit => WrappedSol
<1> SUFFICES ASSUME SendInit PROVE WrappedSol
  OBVIOUS
<1>1. ShapeSound /\ SolSound /\ SendCore
  BY ShapeInit, SolInit, SendInitSound DEF SendInit
<1>2. RunSound
  BY NewVMTyped DEF SendInit, RunSound
<1> QED BY <1>1, <1>2 DEF WrappedSol

LEMMA SolBuild == ASSUME WrappedSol, Build PROVE ShapeSound' /\ SolSound' /\ RunSound'
<1>1. IInv /\ ShapeSound /\ SolSound /\ Next /\ (pc # "initialize" => known = chain)
  BY DEF WrappedSol, SendCore, SendSound, Build
<1>2. ShapeSound' /\ SolSound'
  BY <1>1, ShapeStep, SolStep
<1>3. status' = "building" /\ vm' = vm /\ vm = NewVM
  BY DEF Build, sendVars, WrappedSol, RunSound
<1>4. RunSound'
  BY <1>3, NewVMTyped DEF RunSound, NewVM
<1> QED BY <1>2, <1>4

LEMMA SolGetTransactions ==
  ASSUME WrappedSol, GetTransactions
  PROVE  ShapeSound' /\ SolSound' /\ RunSound'
<1>1. /\ UNCHANGED <<req, chain, pc, phase, known, lists>> /\ pc = "built" /\ vm' = vm
      /\ status = "building" /\ status' \in {"pre", "lending"}
      /\ queue' = lendingTxn /\ ledger' = chain
  BY DEF GetTransactions, vars, loaded
<1>2. IInv /\ ShapeSound /\ SolSound /\ known = chain /\ vm = NewVM
  BY <1>1 DEF WrappedSol, SendCore, SendSound, RunSound
<1>3. ShapeSound' /\ SolSound'
  BY <1>1, <1>2, BuiltSolKept
<1>4. ExecSound'
  BY <1>1, <1>2, ExecStart DEF lists
<1>5. lendingTxn' = lendingTxn
  BY <1>1 DEF lendingTxn, lists
<1>6. RunSound'
  BY <1>1, <1>2, <1>4, <1>5, NewVMTyped DEF RunSound, NewVM
<1> QED BY <1>3, <1>6

LEMMA SolSendPreTxn ==
  ASSUME WrappedSol, SendPreTxn
  PROVE  ShapeSound' /\ SolSound' /\ RunSound'
<1>1. /\ UNCHANGED <<req, pc, phase, known, lists, queue, vm>>
      /\ status = "pre" /\ status' = "lending" /\ ledger' = chain'
  BY DEF SendPreTxn
<1>2. IInv /\ ShapeSound /\ SolSound /\ pc = "built" /\ vm = NewVM /\ queue = lendingTxn
      /\ known = chain
  BY <1>1 DEF WrappedSol, SendCore, SendSound, RunSound
<1>3. ShapeSound' /\ SolSound'
  BY <1>1, <1>2, BuiltSolKept
<1>4. chain.atas \subseteq chain'.atas
  BY PreTxnCreates DEF WrappedSol
<1>5. ExecSound'
  BY <1>1, <1>2, <1>4, ExecStart DEF lists
<1>6. RunSound'
  BY <1>1, <1>2, <1>5, NewVMTyped DEF RunSound
<1> QED BY <1>3, <1>6

\* What is still to come undoes what the instruction at the head did.
LEMMA ExecStep ==
  ASSUME WrappedSol, ExecuteIx
  PROVE  ExecSound' /\ vm' \in VMType
<1> DEFINE ix == Head(queue)
           rest == Tail(queue)
<1>1. /\ UNCHANGED <<req, known, cleanupIxs>> /\ status = "lending" /\ queue # <<>>
      /\ ledger' = LedgerAfter(ix, ledger) /\ vm' = VMAfter(ix, vm) /\ queue' = rest
  BY DEF ExecuteIx, vars, loaded, lists
<1>2. /\ ExecSound /\ vm \in VMType /\ req \in Request /\ ledger \in Chain
      /\ queue \in Seq(ListedInstruction)
  BY <1>1 DEF WrappedSol, RunSound, SendCore, SendSound, IInv, StateSound
<1>3. ix \in ListedInstruction /\ ix \in Instruction
  BY <1>1, <1>2, OwnIsInstruction
     DEF ListedInstruction, SetupInstruction, SupportInstruction, CleanupInstruction,
         LendingInstruction
<1>4. QueueSound(rest)
  BY <1>1, <1>2, TailFacts DEF ExecSound, QueueSound
<1>5. vm'.unsynced => Has(rest, Syncing)
  <2>1. ix \in Funding => Has(rest, Syncing)
    BY <1>1, <1>2, TailFacts DEF ExecSound, QueueSound
  <2>2. vm.unsynced /\ ix \notin Syncing => Has(rest, Syncing)
    BY <1>1, <1>2, TailFacts DEF ExecSound
  <2> QED BY <1>1, <1>2, <1>3, <2>1, <2>2, VMEffect
<1>6. ~outflowSol /\ ~paddingLeft /\ vm'.funded => Has(rest, Unwrapping)
  <2>1. ~outflowSol /\ ~paddingLeft /\ ix \in Syncing => Has(rest, Unwrapping)
    BY <1>1, <1>2, TailFacts DEF ExecSound, QueueSound
  <2>2. ~outflowSol /\ ~paddingLeft /\ vm.funded /\ ix \notin Unwrapping => Has(rest, Unwrapping)
    BY <1>1, <1>2, TailFacts DEF ExecSound
  <2> QED BY <1>1, <1>2, <1>3, <2>1, <2>2, VMEffect
<1>7. /\ Has(rest, Closing) => Has(queue, Closing)
      /\ Has(queue, Closing) => ix \in Closing \/ Has(rest, Closing)
      /\ Has(rest, Creating) => Has(queue, Creating)
      /\ ix \in Closing => ~Has(rest, Creating)
      /\ Has(queue, Creating) => ix \in Creating \/ Has(rest, Creating)
      /\ ix \in Creating => Has(queue, Creating)
      /\ ix \in Closing => Has(queue, Closing)
  <2>1. 1 \in DOMAIN queue /\ ix = queue[1]
    BY <1>1, <1>2, TailAt
  <2>2. (ix \in Creating => Has(queue, Creating)) /\ (ix \in Closing => Has(queue, Closing))
    BY <2>1 DEF Has
  <2>3. ix \in Closing => ~Has(rest, Creating)
    BY <1>1, <1>2, TailFacts DEF ExecSound, QueueSound
  <2> QED BY <1>1, <1>2, <2>2, <2>3, TailFacts
<1>8. Has(cleanupIxs, Closing) =>
        Has(rest, Closing) \/ (~Has(rest, Creating) /\ SolReserve \notin ledger'.atas)
  BY <1>1, <1>2, <1>3, <1>7, AccountEffect DEF ExecSound
<1>9. ~Has(cleanupIxs, Closing) =>
        ~Has(rest, Closing) /\ (SolReserve \in known.atas => SolReserve \in ledger'.atas)
  BY <1>1, <1>2, <1>3, <1>7, AccountEffect DEF ExecSound
<1>10. vm' \in VMType
  BY <1>1, <1>2, <1>3, VMEffect
<1> HIDE DEF ix, rest
<1>11. ExecSound'
  BY <1>1, <1>4, <1>5, <1>6, <1>8, <1>9, NextQueue, SolSame DEF ExecSound, paddingLeft, overfunded
<1> QED BY <1>10, <1>11

LEMMA SolExecuteIx == ASSUME WrappedSol, ExecuteIx PROVE ShapeSound' /\ SolSound' /\ RunSound'
<1>1. UNCHANGED <<req, pc, phase, known, lists>> /\ status = "lending" /\ status' = "lending"
  BY DEF ExecuteIx, vars, loaded
<1>2. ShapeSound' /\ SolSound'
  BY <1>1, BuiltSolKept DEF WrappedSol
<1>3. RunSound'
  BY <1>1, ExecStep DEF RunSound
<1> QED BY <1>2, <1>3

LEMMA ExecKept ==
  ASSUME ExecSound, UNCHANGED <<req, known, cleanupIxs, queue, vm, ledger>>
  PROVE  ExecSound'
<1>1. QueueSound(queue)' <=> QueueSound(queue)
  BY NextQueue
<1> QED BY <1>1, NextQueue, SolSame DEF ExecSound, paddingLeft, overfunded

LEMMA SolCommit == ASSUME WrappedSol, Commit PROVE ShapeSound' /\ SolSound' /\ RunSound'
<1>1. /\ UNCHANGED <<req, pc, phase, known, lists, queue, vm, ledger>> /\ queue = <<>>
      /\ status = "lending" /\ status' = "committed"
  BY DEF Commit
<1>2. ShapeSound' /\ SolSound'
  BY <1>1, BuiltSolKept DEF WrappedSol
<1>3. ExecSound'
  BY <1>1, ExecKept DEF WrappedSol, RunSound, lists
<1>4. RunSound'
  BY <1>1, <1>3 DEF WrappedSol, RunSound
<1> QED BY <1>2, <1>4

LEMMA SolStop ==
  ASSUME WrappedSol, Reject \/ Drop
  PROVE  ShapeSound' /\ SolSound' /\ RunSound'
<1>1. UNCHANGED <<req, pc, phase, known, lists, vm>> /\ status' \in {"rejected", "dropped"}
  BY DEF Reject, Drop, vars, loaded
<1>2. ShapeSound' /\ SolSound'
  BY <1>1, BuiltSolKept DEF WrappedSol
<1>3. RunSound'
  BY <1>1 DEF WrappedSol, RunSound
<1> QED BY <1>2, <1>3

LEMMA SolRetry == ASSUME WrappedSol, Retry PROVE ShapeSound' /\ SolSound' /\ RunSound'
<1>1. /\ req' = req /\ pc' = "initialize" /\ phase' = "setup" /\ status' = "building"
      /\ vm' = NewVM /\ setupIxs' = <<>> /\ lendingIxs' = <<>> /\ cleanupIxs' = <<>>
  BY DEF Retry
<1>2. ShapeSound'
  BY <1>1 DEF ShapeSound, Lent
<1>3. DOMAIN setupIxs' = {} /\ DOMAIN cleanupIxs' = {} /\ ~PastAta'
  BY <1>1 DEF PastAta
<1>4. SolSound'
  BY <1>1, <1>3 DEF WrappedSol, SolSound, Has, Followed
<1>5. RunSound'
  BY <1>1, NewVMTyped DEF RunSound, NewVM
<1> QED BY <1>2, <1>4, <1>5

LEMMA WrappedSolStep == WrappedSol /\ [SendNext]_allVars => WrappedSol'
<1> SUFFICES ASSUME WrappedSol, [SendNext]_allVars PROVE WrappedSol'
  OBVIOUS
<1>1. SendCore'
  BY SendCoreStep DEF WrappedSol
<1>2. CASE UNCHANGED allVars
  <2>1. /\ UNCHANGED <<req, chain, pc, phase, known, lists, status, queue, vm, ledger, setupIxs,
                       inBetweenIxs, lendingIxs, cleanupIxs>>
    BY <1>2 DEF allVars, vars, loaded, sendVars, lists
  <2>2. ShapeSound' /\ SolSound'
    BY <2>1, BuiltSolKept DEF WrappedSol
  <2>3. lendingTxn' = lendingTxn /\ NewVM' = NewVM
    BY <2>1 DEF lendingTxn, NewVM
  <2>4. ExecSound => ExecSound'
    BY <2>1, ExecKept
  <2>5. RunSound'
    BY <2>1, <2>3, <2>4 DEF WrappedSol, RunSound
  <2> QED BY <1>1, <2>2, <2>5 DEF WrappedSol
<1> QED BY <1>1, <1>2, SolBuild, SolGetTransactions, SolSendPreTxn, SolExecuteIx, SolCommit,
           SolStop, SolRetry DEF SendNext, WrappedSol

\* WrappedSol holds of every behaviour of the builder and the program.  The
\* two properties below speak of a committed transaction only; they hold
\* because every funding of the WSOL account is followed in the queue by its
\* sync, every sync by what spends or returns the amount, and no account is
\* created after the one that is closed, which addAtaIxs arranges.
THEOREM WrappedSolInvariance == SendSpec => []WrappedSol
<1>1. QED BY SolSendInit, WrappedSolStep, PTL DEF SendSpec

\* A committed transaction leaves no SOL wrapped for nothing, whatever the
\* call, the accounts there were and the preceding transaction's outcome: the
\* padding of a full repay, and what a liquidation does not take, is returned
\* unless the account was there before (action.ts:2606-2671).
THEOREM NothingStranded == SendSpec => []NoStrandedSol
<1>1. WrappedSol => NoStrandedSol
  <2> SUFFICES ASSUME WrappedSol, status = "committed", ~outflowSol
               PROVE  ~vm.unsynced /\ (vm.funded => paddingLeft)
    BY DEF NoStrandedSol
  <2>1. ExecSound /\ queue = <<>>
    BY DEF WrappedSol, RunSound
  <2>2. ~Has(queue, Syncing) /\ ~Has(queue, Unwrapping)
    BY <2>1 DEF Has
  <2> QED BY <2>1, <2>2 DEF ExecSound
<1> QED BY <1>1, WrappedSolInvariance, PTL

\* The WSOL account of a committed transaction is as the builder found it.
THEOREM WsolAlwaysRestored == SendSpec => []WsolAccountRestored
<1>1. WrappedSol => WsolAccountRestored
  <2> SUFFICES ASSUME WrappedSol, status = "committed", req.ata, SolReserve \in SolMoves
               PROVE  /\ SolReserve \notin known.atas => SolReserve \notin chain.atas
                      /\ SolReserve \in known.atas \intersect sends => SolReserve \in chain.atas
    BY DEF WsolAccountRestored, SolMoves
  <2>1. ExecSound /\ queue = <<>> /\ pc = "built" /\ chain = ledger /\ SolSound
    BY DEF WrappedSol, RunSound, SendCore, SendSound
  <2>2. ~Has(queue, Closing) /\ PastAta
    BY <2>1 DEF Has, PastAta
  <2>3. SolReserve \notin known.atas => Has(cleanupIxs, Closing)
    BY <2>1, <2>2 DEF SolSound
  <2>4. SolReserve \in known.atas \intersect sends => ~Has(cleanupIxs, Closing)
    BY <2>1 DEF SolSound
  <2> QED BY <2>1, <2>2, <2>3, <2>4 DEF ExecSound
<1> QED BY <1>1, WrappedSolInvariance, PTL

-----------------------------------------------------------------------------
(***************************************************************************)
(* The refreshes of the farms: at the end of the list before a lending     *)
(* instruction and at the start of the one after it.                       *)
(***************************************************************************)
Staked == req.action \notin {"mint", "redeem", "withdrawReferrerFees"} \union ObligationOnly

firstFarms ==
  CASE req.action = "liquidate" ->
         RefreshFarms({req.outflow}, "coll") \o RefreshFarms({req.reserve}, "debt")
    [] req.action \in {"depositCollateral", "withdraw", "deposit", "depositAndBorrow"} ->
         RefreshFarms({req.reserve}, "coll")
    [] OTHER -> RefreshFarms({req.reserve}, "debt")
secondFarms ==
  RefreshFarms({req.outflow}, IF req.action = "depositAndBorrow" THEN "debt" ELSE "coll")
lastFarms == IF twoToken THEN secondFarms ELSE firstFarms

Starts(s, t) == \E b \in Seq(Instruction) : s = t \o b
Ends(s, t) == \E a \in Seq(Instruction) : s = a \o t

\* The farms of the first lending instruction have been refreshed.
FirstDone == pc = "lending" \/ Lent

FarmSound ==
  /\ phase = "setup" /\ pc \notin {"lending", "splice", "built", "thrown"} =>
       inBetweenIxs = <<>> /\ refreshFarmsCleanupTxnIxs = <<>>
  /\ Staked /\ FirstDone => Ends(setupIxs, firstFarms)
  /\ twoToken /\ FirstDone => Starts(inBetweenIxs, firstFarms)
  /\ twoToken /\ FirstDone /\ pc \notin {"splice", "built"} => refreshFarmsCleanupTxnIxs = <<>>
  /\ Staked /\ ~twoToken /\ pc = "lending" => refreshFarmsCleanupTxnIxs = firstFarms
  /\ Staked /\ pc = "splice" => refreshFarmsCleanupTxnIxs = lastFarms
  /\ twoToken /\ pc \in {"splice", "built"} => Ends(inBetweenIxs, secondFarms)
  /\ Staked /\ pc = "built" => Starts(cleanupIxs, lastFarms)

LEMMA FarmsTyped ==
  /\ firstFarms \in Seq(Instruction) /\ secondFarms \in Seq(Instruction)
  /\ lastFarms \in Seq(Instruction)
<1>1. ASSUME NEW S, NEW mode \in Mode PROVE RefreshFarms(S, mode) \in Seq(Instruction)
  BY RefreshFarmsSeq, OwnIsInstruction, SeqSubset
<1>2. firstFarms \in Seq(Instruction)
  BY <1>1, Concatenated DEF firstFarms, Mode
<1>3. secondFarms \in Seq(Instruction)
  BY <1>1 DEF secondFarms, Mode
<1> QED BY <1>2, <1>3 DEF lastFarms

LEMMA FarmsSame ==
  ASSUME UNCHANGED req
  PROVE  /\ firstFarms' = firstFarms /\ secondFarms' = secondFarms /\ lastFarms' = lastFarms
         /\ Staked' = Staked /\ twoToken' = twoToken
BY DEF firstFarms, secondFarms, lastFarms, Staked, twoToken

LEMMA TwoTokensStake == twoToken => Staked
BY DEF twoToken, Staked, TwoTokenAction, ObligationOnly

LEMMA EndsMore ==
  ASSUME NEW a \in Seq(Instruction), NEW s \in Seq(Instruction), NEW t \in Seq(Instruction)
  PROVE  /\ Ends(a \o t, t) /\ Starts(t \o a, t)
         /\ Ends(s, t) => Ends(a \o s, t)
         /\ Starts(s, t) => Starts(s \o a, t)
<1>1. Ends(a \o t, t) /\ Starts(t \o a, t)
  BY DEF Ends, Starts
<1>2. ASSUME Ends(s, t) PROVE Ends(a \o s, t)
  <2>1. PICK b \in Seq(Instruction) : s = b \o t
    BY <1>2 DEF Ends
  <2>2. a \o (b \o t) = (a \o b) \o t
    BY Regrouped, Zenon
  <2>3. a \o b \in Seq(Instruction)
    BY Concatenated
  <2> QED BY <2>1, <2>2, <2>3 DEF Ends
<1>3. ASSUME Starts(s, t) PROVE Starts(s \o a, t)
  <2>1. PICK b \in Seq(Instruction) : s = t \o b
    BY <1>3 DEF Starts
  <2>2. (t \o b) \o a = t \o (b \o a)
    BY Regrouped, Zenon
  <2>3. b \o a \in Seq(Instruction)
    BY Concatenated
  <2> QED BY <2>1, <2>2, <2>3 DEF Starts
<1> QED BY <1>1, <1>2, <1>3

\* A step of a support pass before its farms.
LEMMA FarmKept ==
  ASSUME IInv, ShapeSound, FarmSound, UNCHANGED <<req, phase, refreshFarmsCleanupTxnIxs>>,
         pc \notin {"lending", "splice", "built", "thrown"}, pc' \notin {"splice", "built"},
         pc' = "lending" => ~Staked /\ phase = "setup",
         phase = "setup" => UNCHANGED inBetweenIxs,
         phase = "inBetween" =>
           /\ \E a \in Seq(Instruction) : setupIxs' = a \o setupIxs
           /\ \E b \in Seq(Instruction) : inBetweenIxs' = inBetweenIxs \o b
  PROVE  FarmSound'
<1>1. phase \in {"setup", "inBetween"}
  BY DEF IInv, StateSound
<1>2. CASE phase = "setup"
  <2>1. /\ inBetweenIxs' = <<>> /\ refreshFarmsCleanupTxnIxs' = <<>>
        /\ FirstDone' => ~Staked /\ ~twoToken
    BY <1>2, TwoTokensStake DEF FarmSound, FirstDone, Lent
  <2> QED BY <1>2, <2>1, FarmsSame DEF FarmSound
<1>3. CASE phase = "inBetween"
  <2>1. twoToken /\ Staked /\ FirstDone /\ pc' # "lending"
    BY <1>3, TwoTokensStake DEF ShapeSound, FirstDone, Lent
  <2>2. /\ Ends(setupIxs, firstFarms) /\ Starts(inBetweenIxs, firstFarms)
        /\ refreshFarmsCleanupTxnIxs = <<>>
    BY <2>1 DEF FarmSound
  <2>3. Ends(setupIxs', firstFarms)
    <3>1. PICK a \in Seq(Instruction) : setupIxs' = a \o setupIxs
      BY <1>3
    <3>2. Ends(a \o setupIxs, firstFarms)
      BY <2>2, EndsMore, FarmsTyped, ListsAreInstructions
    <3> QED BY <3>1, <3>2
  <2>4. Starts(inBetweenIxs', firstFarms)
    <3>1. PICK b \in Seq(Instruction) : inBetweenIxs' = inBetweenIxs \o b
      BY <1>3
    <3>2. Starts(inBetweenIxs \o b, firstFarms)
      BY <2>2, EndsMore, FarmsTyped, ListsAreInstructions
    <3> QED BY <3>1, <3>2
  <2>5. Ends(setupIxs, firstFarms)' /\ Starts(inBetweenIxs, firstFarms)'
    BY <2>3, <2>4, FarmsSame DEF Ends, Starts
  <2> QED BY <1>3, <2>1, <2>2, <2>5, FarmsSame DEF FarmSound
<1> QED BY <1>1, <1>2, <1>3

LEMMA FarmPushed ==
  ASSUME IInv, ShapeSound, FarmSound, UNCHANGED <<req, phase, refreshFarmsCleanupTxnIxs>>,
         pc \notin {"lending", "splice", "built", "thrown"},
         pc' \notin {"lending", "splice", "built"}, Pushing
  PROVE  FarmSound'
<1>1. PICK ixs \in Seq(SupportInstruction) : PushSupport(ixs)
  BY DEF Pushing
<1>2. ixs \in Seq(Instruction) /\ <<>> \in Seq(Instruction) /\ <<>> \o setupIxs = setupIxs
  BY OwnIsInstruction, SeqSubset, ListsAreInstructions
<1>3. phase = "setup" => UNCHANGED inBetweenIxs
  BY <1>1 DEF PushSupport
<1>4. phase = "inBetween" => setupIxs' = <<>> \o setupIxs /\ inBetweenIxs' = inBetweenIxs \o ixs
  BY <1>1, <1>2 DEF PushSupport
<1> HIDE DEF PushSupport
<1> QED BY <1>2, <1>3, <1>4, FarmKept

LEMMA FarmAta == ASSUME IInv, ShapeSound, FarmSound, AddAtaIxs PROVE FarmSound'
<1> DEFINE pre == IF touchesSol THEN wsolPreIxs ELSE <<>>
           front == ataSetupIxs \o pre
<1>1. /\ UNCHANGED <<req, phase, refreshFarmsCleanupTxnIxs, inBetweenIxs>> /\ pc = "ata"
      /\ pc' \in {"lending", "others", "thrown"}
      /\ pc' = "lending" => req.action \in {"mint", "redeem"}
  BY DEF AddAtaIxs, Throw, loaded
<1>2. pre \in Seq(SetupInstruction)
  <2>1. CASE touchesSol
    <3>1. SolReserve \in Reserve
      BY <2>1, PassReserves, ReserveAssumption DEF touchesSol
    <3> QED BY <2>1, <3>1, WsolSeqs
  <2> QED BY <2>1
<1>3. setupIxs' = front \o setupIxs \/ UNCHANGED setupIxs
  BY DEF AddAtaIxs
<1> HIDE DEF pre
<1>4. front \in Seq(Instruction) /\ <<>> \in Seq(Instruction)
  BY <1>2, AtaSeqs, Concatenated, OwnIsInstruction, SeqSubset
<1> HIDE DEF front
<1>5. setupIxs = <<>> \o setupIxs /\ inBetweenIxs = inBetweenIxs \o <<>>
  BY ListsAreInstructions
<1>6. /\ \E a \in Seq(Instruction) : setupIxs' = a \o setupIxs
      /\ \E b \in Seq(Instruction) : inBetweenIxs' = inBetweenIxs \o b
  BY <1>1, <1>3, <1>4, <1>5
<1>7. pc' = "lending" => ~Staked /\ phase = "setup"
  BY <1>1 DEF Staked, ShapeSound, twoToken, TwoTokenAction, IInv, StateSound
<1> QED BY <1>1, <1>6, <1>7, FarmKept

\* The end of a pass refreshes the farms of the lending instruction to come,
\* and puts the same refreshes where they will follow it.
LEMMA FarmRefreshed == ASSUME IInv, ShapeSound, FarmSound, AddRefreshFarms PROVE FarmSound'
<1>1. /\ UNCHANGED <<req, phase>> /\ pc = "farms"
      /\ pc' = IF phase = "setup" THEN "lending" ELSE "splice"
      /\ phase \in {"setup", "inBetween"}
  BY DEF AddRefreshFarms, loaded, IInv, StateSound
<1>2. /\ firstFarms \in Seq(Instruction) /\ secondFarms \in Seq(Instruction)
      /\ setupIxs \in Seq(Instruction) /\ inBetweenIxs \in Seq(Instruction)
      /\ <<>> \in Seq(Instruction)
  BY FarmsTyped, ListsAreInstructions
<1>3. CASE phase = "setup"
  <2>1. farmRefreshIxs = firstFarms
    BY <1>3 DEF farmRefreshIxs, firstFarms, supportAction, twoToken, TwoTokenAction
  <2>2. inBetweenIxs = <<>> /\ refreshFarmsCleanupTxnIxs = <<>>
    BY <1>1, <1>3 DEF FarmSound
  <2>3. /\ setupIxs' = setupIxs \o firstFarms
        /\ twoToken => inBetweenIxs' = firstFarms /\ refreshFarmsCleanupTxnIxs' = <<>>
        /\ ~twoToken => refreshFarmsCleanupTxnIxs' = firstFarms
    BY <1>2, <1>3, <2>1, <2>2 DEF AddRefreshFarms
  <2>4. firstFarms = firstFarms \o <<>>
    BY <1>2
  <2>5. Ends(setupIxs', firstFarms) /\ (twoToken => Starts(inBetweenIxs', firstFarms))
    BY <1>2, <2>3, <2>4 DEF Ends, Starts
  <2>6. Ends(setupIxs, firstFarms)' /\ (twoToken => Starts(inBetweenIxs, firstFarms)')
    BY <1>1, <2>5, FarmsSame DEF Ends, Starts
  <2> QED BY <1>1, <1>3, <2>3, <2>6, FarmsSame DEF FarmSound
<1>4. CASE phase = "inBetween"
  <2>1. twoToken /\ Staked /\ FirstDone
    BY <1>4, TwoTokensStake DEF ShapeSound, FirstDone, Lent
  <2>2. farmRefreshIxs = secondFarms
    BY <1>4, <2>1 DEF farmRefreshIxs, secondFarms, supportAction, twoToken, TwoTokenAction
  <2>3. /\ Ends(setupIxs, firstFarms) /\ Starts(inBetweenIxs, firstFarms)
        /\ refreshFarmsCleanupTxnIxs = <<>>
    BY <1>1, <2>1 DEF FarmSound
  <2>4. /\ UNCHANGED setupIxs /\ inBetweenIxs' = inBetweenIxs \o secondFarms
        /\ refreshFarmsCleanupTxnIxs' = secondFarms
    BY <1>2, <1>4, <2>2, <2>3 DEF AddRefreshFarms
  <2>5. Starts(inBetweenIxs', firstFarms) /\ Ends(inBetweenIxs', secondFarms)
    BY <1>2, <2>3, <2>4, EndsMore
  <2>6. /\ Ends(setupIxs, firstFarms)' /\ Starts(inBetweenIxs, firstFarms)'
        /\ Ends(inBetweenIxs, secondFarms)'
    BY <1>1, <2>3, <2>4, <2>5, FarmsSame DEF Ends, Starts
  <2>7. refreshFarmsCleanupTxnIxs' = lastFarms
    BY <2>1, <2>4 DEF lastFarms
  <2> QED BY <1>1, <1>4, <2>1, <2>6, <2>7, FarmsSame DEF FarmSound
<1> QED BY <1>1, <1>3, <1>4

LEMMA FarmLending == ASSUME IInv, ShapeSound, FarmSound, AddLendingIx PROVE FarmSound'
<1>1. /\ pc = "lending" /\ phase = "setup" /\ req' = req
      /\ UNCHANGED <<setupIxs, inBetweenIxs, refreshFarmsCleanupTxnIxs>> \/ ~Staked
      /\ \/ pc' = "splice" /\ phase' = "setup" /\ ~twoToken
         \/ pc' = "thrown" /\ phase' = "setup"
         \/ pc' = "ata" /\ phase' = "inBetween" /\ twoToken
         \/ pc' = "built" /\ phase' = "setup" /\ ~Staked
  BY DEF AddLendingIx, AddDepositIx, AddDepositReserveLiquidityIx, AddRedeemReserveCollateralIx,
     AddDepositObligationCollateralIx, AddWithdrawIx, AddBorrowIx, AddRepayIx, AddLiquidateIx,
     AddPlainIx, AddDebtIx, AddDepositAndBorrowIx, AddRepayAndWithdrawIxs, AddRefreshObligation,
     AddWithdrawReferrerFees, OnlyLending, loaded, ShapeSound, Lent, IInv, StateSound, Throw,
     Staked, twoToken, TwoTokenAction, ObligationOnly
<1>2. CASE ~Staked
  <2>1. ~twoToken
    BY <1>2, TwoTokensStake
  <2> QED BY <1>1, <1>2, <2>1, FarmsSame DEF FarmSound
<1>3. CASE Staked
  <2>1. UNCHANGED <<setupIxs, inBetweenIxs, refreshFarmsCleanupTxnIxs>>
    BY <1>1, <1>3
  <2>2. /\ Ends(setupIxs, firstFarms) /\ (twoToken => Starts(inBetweenIxs, firstFarms))
        /\ refreshFarmsCleanupTxnIxs = IF twoToken THEN <<>> ELSE firstFarms
    BY <1>1, <1>3 DEF FarmSound, FirstDone
  <2>3. Ends(setupIxs, firstFarms)' /\ (twoToken => Starts(inBetweenIxs, firstFarms)')
    BY <1>1, <2>1, <2>2, FarmsSame DEF Ends, Starts
  <2> QED BY <1>1, <1>3, <2>1, <2>2, <2>3, FarmsSame DEF FarmSound, lastFarms
<1> QED BY <1>2, <1>3

LEMMA FarmStep == ASSUME IInv, ShapeSound, FarmSound, Next PROVE FarmSound'
<1>1. CASE Initialize
  <2>1. /\ UNCHANGED <<req, phase, refreshFarmsCleanupTxnIxs, inBetweenIxs>> /\ pc = "initialize"
        /\ pc' \in {"lending", "budget", "thrown"}
        /\ pc' = "lending" => req.action = "withdrawReferrerFees"
    BY <1>1 DEF Initialize, lists
  <2>2. phase = "setup"
    BY <2>1 DEF ShapeSound, IInv, StateSound
  <2> QED BY <2>1, <2>2, FarmKept DEF Staked
<1>2. CASE \/ AddComputeBudgetIxn \/ AddScopeRefreshIxs \/ AddInitUserMetadataIxs
           \/ AddInitReferrerTokenStateIxs \/ AddInitObligationIxs
  <2>1. /\ UNCHANGED <<req, phase, refreshFarmsCleanupTxnIxs, inBetweenIxs>>
        /\ pc \in {"budget", "scope", "metadata", "referrer", "initObligation"}
        /\ pc' \in {"scope", "metadata", "referrer", "initObligation", "ata", "lending"}
        /\ pc' = "lending" => req.action \in ObligationOnly
    BY <1>2 DEF AddComputeBudgetIxn, AddScopeRefreshIxs, AddInitUserMetadataIxs,
       AddInitReferrerTokenStateIxs, AddInitObligationIxs, OnlySetup, loaded
  <2>2. phase = "setup"
    BY <2>1 DEF ShapeSound, IInv, StateSound
  <2> QED BY <2>1, <2>2, FarmKept DEF Staked
<1>3. CASE AddAtaIxs
  BY <1>3, FarmAta
<1>4. CASE AddRefreshOtherReserves
  BY <1>4, OthersPushes, FarmPushed DEF AddRefreshOtherReserves, OnlySupport, loaded, Throw
<1>5. CASE AddInitObligationForFarms
  BY <1>5, InitFarmsPushes, FarmPushed DEF AddInitObligationForFarms, OnlySupport, loaded
<1>6. CASE AddRefreshCurrent
  BY <1>6, CurrentPushes, FarmPushed DEF AddRefreshCurrent, OnlySupport, loaded
<1>7. CASE AddRequestElevation
  <2>1. pc = "elevation" /\ UNCHANGED <<req, phase, refreshFarmsCleanupTxnIxs>>
    BY <1>7 DEF AddRequestElevation, OnlyElevation, loaded
  <2>2. pc' \in {"farms", "thrown"}
    <3>1. ASSUME NEW g, ElevationFor(g) PROVE pc' \in {"farms", "thrown"}
      BY <3>1 DEF ElevationFor, Throw
    <3>2. CASE RequestGroupOnBorrow
      BY <3>1, <3>2 DEF RequestGroupOnBorrow, Throw
    <3>3. CASE RequestGroupOnRepay \/ RequestGroupOnDeposit \/ NoGroupRequest
      BY <3>3 DEF RequestGroupOnRepay, RequestGroupOnDeposit, NoGroupRequest, Throw
    <3> QED BY <1>7, <3>2, <3>3 DEF AddRequestElevation
  <2> QED BY <1>7, <2>1, <2>2, ElevationPushes, FarmPushed
<1>8. CASE AddRefreshFarms
  BY <1>8, FarmRefreshed
<1>9. CASE AddLendingIx
  BY <1>9, FarmLending
<1>10. CASE AddRefreshFarmsCleanupTxnIxsToCleanupIxs
  <2>1. /\ pc = "splice" /\ pc' = "built" /\ UNCHANGED <<req, phase, setupIxs, inBetweenIxs>>
        /\ cleanupIxs' = refreshFarmsCleanupTxnIxs \o cleanupIxs
    BY <1>10 DEF AddRefreshFarmsCleanupTxnIxsToCleanupIxs, splicedCleanup, loaded
  <2>2. FirstDone
    BY <2>1 DEF FirstDone, Lent
  <2>3. Staked => Starts(cleanupIxs', lastFarms)
    BY <2>1, EndsMore, FarmsTyped, ListsAreInstructions DEF FarmSound
  <2>4. /\ Staked => Ends(setupIxs, firstFarms)' /\ Starts(cleanupIxs, lastFarms)'
        /\ twoToken => Starts(inBetweenIxs, firstFarms)' /\ Ends(inBetweenIxs, secondFarms)'
    BY <2>1, <2>2, <2>3, FarmsSame DEF FarmSound, Ends, Starts
  <2> QED BY <2>1, <2>4, FarmsSame DEF FarmSound
<1> QED BY <1>1, <1>2, <1>3, <1>4, <1>5, <1>6, <1>7, <1>8, <1>9, <1>10 DEF Next

AllRefreshFarms(F) == \A j \in 1..Len(F) : F[j].op = "refreshFarms"
CoveredBy(F) == UNION {F[j].deps \X {F[j].how} : j \in 1..Len(F)}

\* F stands in s, behind the first n instructions.
At(s, n, F) ==
  /\ n \in Nat /\ n + Len(F) <= Len(s)
  /\ \A j \in 1..Len(F) : s[n + j] = F[j]

FarmsBefore(s, i) == {j \in 1..(i - 1) : \A k \in j..(i - 1) : s[k].op = "refreshFarms"}
FarmsAfter(s, i) == {j \in (i + 1)..Len(s) : \A k \in (i + 1)..j : s[k].op = "refreshFarms"}
CoveredIn(s, J) == UNION {s[j].deps \X {s[j].how} : j \in J}
Adjacent(s, i) ==
  /\ touchedFarms(s[i]) \subseteq CoveredIn(s, FarmsBefore(s, i))
  /\ touchedFarms(s[i]) \subseteq CoveredIn(s, FarmsAfter(s, i))

LEMMA AtConcat ==
  ASSUME NEW s \in Seq(Instruction), NEW t \in Seq(Instruction), NEW F \in Seq(Instruction), NEW n
  PROVE  /\ At(s, n, F) => At(s \o t, n, F)
         /\ At(t, n, F) => At(s \o t, Len(s) + n, F)
<1>1. /\ Len(s) \in Nat /\ Len(t) \in Nat /\ Len(F) \in Nat /\ Len(s \o t) = Len(s) + Len(t)
      /\ \A i \in 1..Len(s) : (s \o t)[i] = s[i]
      /\ \A i \in 1..Len(t) : (s \o t)[Len(s) + i] = t[i]
  OBVIOUS
<1>2. ASSUME At(s, n, F) PROVE At(s \o t, n, F)
  <2>1. ASSUME NEW j \in 1..Len(F) PROVE n + j \in 1..Len(s) /\ s[n + j] = F[j]
    BY <1>1, <1>2 DEF At
  <2>2. n \in Nat /\ n + Len(F) <= Len(s \o t)
    BY <1>1, <1>2 DEF At
  <2> QED BY <1>1, <2>1, <2>2 DEF At
<1>3. ASSUME At(t, n, F) PROVE At(s \o t, Len(s) + n, F)
  <2>1. ASSUME NEW j \in 1..Len(F) PROVE (s \o t)[(Len(s) + n) + j] = F[j]
    <3>1. n + j \in 1..Len(t) /\ t[n + j] = F[j] /\ Len(s) + (n + j) = (Len(s) + n) + j
      BY <1>1, <1>3 DEF At
    <3>2. (s \o t)[Len(s) + (n + j)] = F[j]
      BY <1>1, <3>1
    <3> QED BY <3>1, <3>2
  <2>2. Len(s) + n \in Nat /\ (Len(s) + n) + Len(F) <= Len(s \o t)
    BY <1>1, <1>3 DEF At
  <2> QED BY <2>1, <2>2 DEF At
<1> QED BY <1>2, <1>3

LEMMA AtEnds ==
  ASSUME NEW s \in Seq(Instruction), NEW F \in Seq(Instruction)
  PROVE  /\ Starts(s, F) => At(s, 0, F)
         /\ Ends(s, F) => \E n \in Nat : n + Len(F) = Len(s) /\ At(s, n, F)
<1>1. At(F, 0, F)
  <2>1. Len(F) \in Nat /\ \A j \in 1..Len(F) : 0 + j = j
    OBVIOUS
  <2> QED BY <2>1 DEF At
<1>2. ASSUME Starts(s, F) PROVE At(s, 0, F)
  <2>1. PICK b \in Seq(Instruction) : s = F \o b
    BY <1>2 DEF Starts
  <2> QED BY <1>1, <2>1, AtConcat
<1>3. ASSUME Ends(s, F) PROVE \E n \in Nat : n + Len(F) = Len(s) /\ At(s, n, F)
  <2>1. PICK a \in Seq(Instruction) : s = a \o F
    BY <1>3 DEF Ends
  <2>2. At(s, Len(a) + 0, F)
    BY <1>1, <2>1, AtConcat
  <2>3. Len(a) \in Nat /\ Len(a) + 0 = Len(a) /\ Len(a) + Len(F) = Len(s)
    BY <2>1
  <2> QED BY <2>2, <2>3
<1> QED BY <1>2, <1>3

\* An instruction between two runs of refreshes that cover its farms.
LEMMA BetweenRefreshes ==
  ASSUME NEW s \in Seq(Instruction), NEW F \in Seq(Instruction), NEW n \in Nat, NEW i,
         At(s, n, F), At(s, i, F), i = n + Len(F) + 1,
         AllRefreshFarms(F), touchedFarms(s[i]) \subseteq CoveredBy(F)
  PROVE  Adjacent(s, i)
<1>1. i \in Nat /\ Len(F) \in Nat /\ Len(s) \in Nat /\ i + Len(F) <= Len(s)
  BY DEF At
<1>2. ASSUME NEW f \in touchedFarms(s[i])
      PROVE  /\ f \in CoveredIn(s, FarmsBefore(s, i))
             /\ f \in CoveredIn(s, FarmsAfter(s, i))
  <2>1. PICK j \in 1..Len(F) : f \in F[j].deps \X {F[j].how}
    BY <1>2 DEF CoveredBy
  <2>2. n + j \in 1..(i - 1) /\ s[n + j] = F[j] /\ i + j \in (i + 1)..Len(s) /\ s[i + j] = F[j]
    BY <1>1 DEF At
  <2>3. ASSUME NEW k \in (n + j)..(i - 1) PROVE s[k].op = "refreshFarms"
    <3>1. k - n \in 1..Len(F) /\ n + (k - n) = k
      BY <1>1
    <3>2. s[n + (k - n)] = F[k - n]
      BY <3>1 DEF At
    <3> QED BY <3>1, <3>2 DEF AllRefreshFarms
  <2>4. ASSUME NEW k \in (i + 1)..(i + j) PROVE s[k].op = "refreshFarms"
    <3>1. k - i \in 1..Len(F) /\ i + (k - i) = k
      BY <1>1
    <3>2. s[i + (k - i)] = F[k - i]
      BY <3>1 DEF At
    <3> QED BY <3>1, <3>2 DEF AllRefreshFarms
  <2>5. n + j \in FarmsBefore(s, i) /\ i + j \in FarmsAfter(s, i)
    BY <2>2, <2>3, <2>4 DEF FarmsBefore, FarmsAfter
  <2> QED BY <2>1, <2>2, <2>5 DEF CoveredIn
<1> QED BY <1>2 DEF Adjacent

LEMMA RefreshesCover ==
  ASSUME NEW S, NEW mode \in Mode
  PROVE  /\ AllRefreshFarms(RefreshFarms(S, mode))
         /\ CoveredBy(RefreshFarms(S, mode)) = (S \intersect FarmsOf(mode)) \X {mode}
<1> DEFINE farmed == S \intersect FarmsOf(mode)
           ix == [Ix("refreshFarms", NoReserve, farmed) EXCEPT !.how = mode]
<1>1. ix.op = "refreshFarms" /\ ix.deps = farmed /\ ix.how = mode
  BY DEF Ix
<1>2. RefreshFarms(S, mode) = IF farmed = {} THEN <<>> ELSE <<ix>>
  BY DEF RefreshFarms
<1> HIDE DEF ix, farmed
<1>3. CASE farmed = {}
  <2>1. 1..Len(<<>>) = {}
    OBVIOUS
  <2>2. AllRefreshFarms(<<>>) /\ CoveredBy(<<>>) = {}
    BY <2>1 DEF AllRefreshFarms, CoveredBy
  <2>3. farmed \X {mode} = {}
    BY <1>3
  <2> QED BY <1>2, <1>3, <2>2, <2>3 DEF farmed
<1>4. CASE farmed # {}
  <2>1. 1..Len(<<ix>>) = {1} /\ <<ix>>[1] = ix
    OBVIOUS
  <2>2. AllRefreshFarms(<<ix>>) /\ CoveredBy(<<ix>>) = farmed \X {mode}
    BY <1>1, <2>1 DEF AllRefreshFarms, CoveredBy
  <2> QED BY <1>2, <1>4, <2>2 DEF farmed
<1> QED BY <1>3, <1>4

LEMMA CoverConcat ==
  ASSUME NEW F \in Seq(Instruction), NEW G \in Seq(Instruction),
         AllRefreshFarms(F), AllRefreshFarms(G)
  PROVE  /\ AllRefreshFarms(F \o G)
         /\ CoveredBy(F) \union CoveredBy(G) \subseteq CoveredBy(F \o G)
<1>1. /\ Len(F) \in Nat /\ Len(G) \in Nat /\ Len(F \o G) = Len(F) + Len(G)
      /\ \A i \in 1..Len(F) : (F \o G)[i] = F[i]
      /\ \A i \in 1..Len(G) : (F \o G)[Len(F) + i] = G[i]
  OBVIOUS
<1>2. ASSUME NEW j \in 1..Len(F \o G) PROVE (F \o G)[j].op = "refreshFarms"
  <2>1. CASE j \in 1..Len(F)
    BY <1>1, <2>1 DEF AllRefreshFarms
  <2>2. CASE j \notin 1..Len(F)
    <3>1. j - Len(F) \in 1..Len(G) /\ Len(F) + (j - Len(F)) = j
      BY <1>1, <2>2
    <3>2. (F \o G)[Len(F) + (j - Len(F))] = G[j - Len(F)]
      BY <1>1, <3>1
    <3> QED BY <3>1, <3>2 DEF AllRefreshFarms
  <2> QED BY <2>1, <2>2
<1>3. ASSUME NEW f \in CoveredBy(F) PROVE f \in CoveredBy(F \o G)
  <2>1. PICK j \in 1..Len(F) : f \in F[j].deps \X {F[j].how}
    BY <1>3 DEF CoveredBy
  <2>2. j \in 1..Len(F \o G) /\ (F \o G)[j] = F[j]
    BY <1>1
  <2> QED BY <2>1, <2>2 DEF CoveredBy
<1>4. ASSUME NEW f \in CoveredBy(G) PROVE f \in CoveredBy(F \o G)
  <2>1. PICK j \in 1..Len(G) : f \in G[j].deps \X {G[j].how}
    BY <1>4 DEF CoveredBy
  <2>2. Len(F) + j \in 1..Len(F \o G) /\ (F \o G)[Len(F) + j] = G[j]
    BY <1>1
  <2> QED BY <2>1, <2>2 DEF CoveredBy
<1> QED BY <1>2, <1>3, <1>4 DEF AllRefreshFarms

\* The refreshes of each pass are of the farms its lending instruction
\* touches.
LEMMA FirstCovers ==
  ASSUME NEW x, x.op = firstOp, x.res = req.reserve, x.op \in PositionOp
  PROVE  AllRefreshFarms(firstFarms) /\ touchedFarms(x) \subseteq CoveredBy(firstFarms)
<1> DEFINE coll(r) == RefreshFarms({r}, "coll")
           debt(r) == RefreshFarms({r}, "debt")
<1>1. ASSUME NEW r
      PROVE  /\ coll(r) \in Seq(Instruction) /\ AllRefreshFarms(coll(r))
             /\ {<<r, "coll">>} \intersect Farms \subseteq CoveredBy(coll(r))
             /\ debt(r) \in Seq(Instruction) /\ AllRefreshFarms(debt(r))
             /\ {<<r, "debt">>} \intersect Farms \subseteq CoveredBy(debt(r))
  <2>1. coll(r) \in Seq(SupportInstruction) /\ debt(r) \in Seq(SupportInstruction)
    BY RefreshFarmsSeq DEF Mode
  <2>2. coll(r) \in Seq(Instruction) /\ debt(r) \in Seq(Instruction)
    BY <2>1, OwnIsInstruction, SeqSubset
  <2>3. /\ AllRefreshFarms(coll(r)) /\ CoveredBy(coll(r)) = ({r} \intersect CollFarm) \X {"coll"}
        /\ AllRefreshFarms(debt(r)) /\ CoveredBy(debt(r)) = ({r} \intersect DebtFarm) \X {"debt"}
    BY RefreshesCover DEF Mode, FarmsOf
  <2> HIDE DEF coll, debt
  <2> QED BY <2>2, <2>3 DEF Farms
<1>2. \/ firstFarms = coll(req.outflow) \o debt(req.reserve) /\ x.op = "liquidate"
      \/ firstFarms = coll(req.reserve) /\ x.op \in {"deposit", "depositCollateral", "withdraw"}
      \/ firstFarms = debt(req.reserve) /\ x.op \in {"borrow", "repay"}
  BY DEF firstFarms, firstOp, PositionOp
<1> HIDE DEF coll, debt
<1>3. CASE firstFarms = coll(req.outflow) \o debt(req.reserve) /\ x.op = "liquidate"
  <2>1. touchedFarms(x) = {<<req.reserve, "debt">>, <<req.outflow, "coll">>} \intersect Farms
    BY <1>3 DEF touchedFarms
  <2>2. /\ AllRefreshFarms(firstFarms)
        /\ CoveredBy(coll(req.outflow)) \union CoveredBy(debt(req.reserve))
             \subseteq CoveredBy(firstFarms)
    BY <1>1, <1>3, CoverConcat
  <2> QED BY <1>1, <2>1, <2>2
<1>4. CASE firstFarms = coll(req.reserve) /\ x.op \in {"deposit", "depositCollateral", "withdraw"}
  <2>1. touchedFarms(x) = {<<req.reserve, "coll">>} \intersect Farms
    BY <1>4 DEF touchedFarms
  <2> QED BY <1>1, <1>4, <2>1
<1>5. CASE firstFarms = debt(req.reserve) /\ x.op \in {"borrow", "repay"}
  <2>1. touchedFarms(x) = {<<req.reserve, "debt">>} \intersect Farms
    BY <1>5 DEF touchedFarms
  <2> QED BY <1>1, <1>5, <2>1
<1> QED BY <1>2, <1>3, <1>4, <1>5

LEMMA SecondCovers ==
  ASSUME NEW x, x.op = secondOp, x.res = req.outflow
  PROVE  AllRefreshFarms(secondFarms) /\ touchedFarms(x) \subseteq CoveredBy(secondFarms)
<1> DEFINE mode == IF req.action = "depositAndBorrow" THEN "debt" ELSE "coll"
<1>1. mode \in Mode /\ secondFarms = RefreshFarms({req.outflow}, mode)
  BY DEF Mode, secondFarms
<1>2. touchedFarms(x) = {<<req.outflow, mode>>} \intersect Farms
  BY DEF touchedFarms, secondOp
<1>3. {<<req.outflow, mode>>} \intersect Farms
        \subseteq ({req.outflow} \intersect FarmsOf(mode)) \X {mode}
  BY DEF Farms, FarmsOf
<1> HIDE DEF mode
<1> QED BY <1>1, <1>2, <1>3, RefreshesCover

\* Positions are changed by the lending instructions alone.
LEMMA NoPositionOutside ==
  ASSUME IInv
  PROVE  \A l \in {setupIxs, inBetweenIxs, cleanupIxs} : \A i \in 1..Len(l) : ~isPosition(l[i])
<1>1. ASSUME NEW ix \in SetupInstruction \union SupportInstruction \union CleanupInstruction
      PROVE  ~isPosition(ix)
  BY DEF SetupInstruction, CleanupInstruction, SupportInstruction, SupportOp, LendingOp,
         AccountOp, PositionOp, isPosition
<1>2. \A i \in 1..Len(setupIxs) : setupIxs[i] \in SetupInstruction
  BY DEF IInv, ListsSound
<1>3. \A i \in 1..Len(inBetweenIxs) : inBetweenIxs[i] \in SupportInstruction
  BY DEF IInv, ListsSound
<1>4. \A i \in 1..Len(cleanupIxs) : cleanupIxs[i] \in CleanupInstruction
  BY DEF IInv, ListsSound
<1> QED BY <1>1, <1>2, <1>3, <1>4

LEMMA PositionInConcat ==
  ASSUME NEW s \in Seq(Instruction), NEW t \in Seq(Instruction),
         NEW i \in 1..Len(s \o t), isPosition((s \o t)[i])
  PROVE  \/ i \in 1..Len(s) /\ isPosition(s[i]) /\ (s \o t)[i] = s[i]
         \/ \E k \in 1..Len(t) : /\ i = Len(s) + k
                                 /\ isPosition(t[k]) /\ (s \o t)[i] = t[k]
<1>1. /\ Len(s) \in Nat /\ Len(t) \in Nat /\ Len(s \o t) = Len(s) + Len(t)
      /\ \A k \in 1..Len(s) : (s \o t)[k] = s[k]
      /\ \A k \in 1..Len(t) : (s \o t)[Len(s) + k] = t[k]
  OBVIOUS
<1>2. CASE i \in 1..Len(s)
  BY <1>1, <1>2
<1>3. CASE i \notin 1..Len(s)
  <2>1. i - Len(s) \in 1..Len(t) /\ i = Len(s) + (i - Len(s))
    BY <1>1, <1>3
  <2>2. (s \o t)[i] = t[i - Len(s)]
    BY <1>1, <2>1
  <2> QED BY <2>1, <2>2
<1> QED BY <1>2, <1>3

LEMMA SingleAdjacent ==
  ASSUME IInv, ShapeSound, FarmSound, pc = "built", ~twoToken,
         NEW i \in 1..Len(lendingTxn), isPosition(lendingTxn[i])
  PROVE  Adjacent(lendingTxn, i)
<1> DEFINE front == setupIxs \o lendingIxs
<1>1. /\ setupIxs \in Seq(Instruction) /\ lendingIxs \in Seq(Instruction)
      /\ cleanupIxs \in Seq(Instruction) /\ front \in Seq(Instruction)
      /\ firstFarms \in Seq(Instruction)
  BY ListsAreInstructions, FarmsTyped, Concatenated
<1>2. MadeAsAsked /\ Len(lendingIxs) # 2
  BY DEF ShapeSound, Lent, MadeAsAsked
<1>3. lendingTxn = front \o cleanupIxs
  BY <1>2 DEF lendingTxn
<1>4. Len(front) = Len(setupIxs) + Len(lendingIxs)
  BY <1>1
<1>5. PICK k \in 1..Len(lendingIxs) :
        i = Len(setupIxs) + k /\ isPosition(lendingIxs[k]) /\ lendingTxn[i] = lendingIxs[k]
  <2>1. \A j \in 1..Len(cleanupIxs) : ~isPosition(cleanupIxs[j])
    BY NoPositionOutside
  <2>2. i \in 1..Len(front) /\ isPosition(front[i]) /\ lendingTxn[i] = front[i]
    BY <1>1, <1>3, <2>1, PositionInConcat
  <2>3. \A j \in 1..Len(setupIxs) : ~isPosition(setupIxs[j])
    BY NoPositionOutside
  <2> QED BY <1>1, <2>2, <2>3, PositionInConcat
<1>6. /\ req.action \notin ObligationOnly /\ Len(lendingIxs) = 1 /\ k = 1
      /\ lendingIxs[1].op = firstOp /\ lendingIxs[1].res = req.reserve
  BY <1>1, <1>2, <1>5 DEF MadeAsAsked
<1>7. Staked /\ lastFarms = firstFarms
  BY <1>5, <1>6 DEF Staked, lastFarms, isPosition, PositionOp, firstOp, twoToken, TwoTokenAction
<1>8. Ends(setupIxs, firstFarms) /\ Starts(cleanupIxs, firstFarms)
  BY <1>7 DEF FarmSound, FirstDone, Lent
<1>9. PICK n \in Nat : n + Len(firstFarms) = Len(setupIxs) /\ At(setupIxs, n, firstFarms)
  BY <1>1, <1>8, AtEnds
<1>10. At(lendingTxn, n, firstFarms)
  <2>1. At(front, n, firstFarms)
    BY <1>1, <1>9, AtConcat
  <2> HIDE DEF front
  <2> QED BY <1>1, <1>3, <2>1, AtConcat
<1> HIDE DEF front
<1>11. At(lendingTxn, Len(front) + 0, firstFarms)
  <2>1. At(cleanupIxs, 0, firstFarms)
    BY <1>1, <1>8, AtEnds
  <2> QED BY <1>1, <1>3, <2>1, AtConcat
<1>12. i = n + Len(firstFarms) + 1 /\ i = Len(front) + 0
  BY <1>1, <1>4, <1>5, <1>6, <1>9
<1>13. AllRefreshFarms(firstFarms) /\ touchedFarms(lendingTxn[i]) \subseteq CoveredBy(firstFarms)
  BY <1>5, <1>6, FirstCovers DEF isPosition
<1>14. lendingTxn \in Seq(Instruction)
  BY <1>1, <1>3, Concatenated
<1> QED BY <1>1, <1>10, <1>11, <1>12, <1>13, <1>14, BetweenRefreshes

\* Two lists end to end are a list as long as both.
LEMMA ConcatLen ==
  \A x, y \in Seq(Instruction) : x \o y \in Seq(Instruction) /\ Len(x \o y) = Len(x) + Len(y)
OBVIOUS

\* PositionInConcat, for the leaves that apply it to lists by name.
LEMMA PositionSplits ==
  \A s, t \in Seq(Instruction) : \A i \in 1..Len(s \o t) : isPosition((s \o t)[i]) =>
     \/ i \in 1..Len(s) /\ isPosition(s[i]) /\ (s \o t)[i] = s[i]
     \/ \E j \in 1..Len(t) : /\ i = Len(s) + j
                             /\ isPosition(t[j]) /\ (s \o t)[i] = t[j]
<1> SUFFICES ASSUME NEW s \in Seq(Instruction), NEW t \in Seq(Instruction),
                    NEW i \in 1..Len(s \o t), isPosition((s \o t)[i])
             PROVE  \/ i \in 1..Len(s) /\ isPosition(s[i]) /\ (s \o t)[i] = s[i]
                    \/ \E j \in 1..Len(t) : /\ i = Len(s) + j
                                            /\ isPosition(t[j]) /\ (s \o t)[i] = t[j]
  OBVIOUS
<1> QED BY PositionInConcat

LEMMA PairAdjacent ==
  ASSUME IInv, ShapeSound, FarmSound, pc = "built", twoToken,
         NEW i \in 1..Len(lendingTxn), isPosition(lendingTxn[i])
  PROVE  Adjacent(lendingTxn, i)
<1> DEFINE one == lendingIxs[1]
           two == lendingIxs[2]
           head == <<one>> \o inBetweenIxs
           mid == head \o <<two>>
           front == setupIxs \o mid
<1>1. MadeAsAsked /\ Len(lendingIxs) = 2 /\ Staked /\ lastFarms = secondFarms
  BY TwoTokensStake DEF ShapeSound, Lent, MadeAsAsked, lastFarms
<1>2. /\ one.op = firstOp /\ one.res = req.reserve
      /\ two.op = secondOp /\ two.res = req.outflow
  BY <1>1 DEF MadeAsAsked, twoToken, TwoTokenAction, ObligationOnly
<1>3. one \in Instruction /\ two \in Instruction
  <2>1. 1 \in 1..Len(lendingIxs) /\ 2 \in 1..Len(lendingIxs)
    BY <1>1
  <2> QED BY <2>1, ListsAreInstructions, ElementOfSeq
<1>4. lendingTxn = front \o cleanupIxs
  BY <1>1 DEF lendingTxn
<1> HIDE DEF one, two
<1>5. /\ setupIxs \in Seq(Instruction) /\ inBetweenIxs \in Seq(Instruction)
      /\ cleanupIxs \in Seq(Instruction) /\ <<one>> \in Seq(Instruction)
      /\ <<two>> \in Seq(Instruction)
      /\ firstFarms \in Seq(Instruction) /\ secondFarms \in Seq(Instruction)
  BY <1>3, ListsAreInstructions, FarmsTyped
<1>6. /\ head \in Seq(Instruction) /\ Len(head) = 1 + Len(inBetweenIxs)
      /\ mid \in Seq(Instruction) /\ Len(mid) = 2 + Len(inBetweenIxs)
      /\ front \in Seq(Instruction) /\ Len(front) = Len(setupIxs) + 2 + Len(inBetweenIxs)
  <2>1. head \in Seq(Instruction) /\ Len(head) = 1 + Len(inBetweenIxs)
    BY <1>5
  <2> HIDE DEF head
  <2>2. mid \in Seq(Instruction) /\ Len(mid) = 2 + Len(inBetweenIxs)
    BY <1>5, <2>1
  <2> HIDE DEF mid
  <2>3. front \in Seq(Instruction) /\ Len(front) = Len(setupIxs) + Len(mid)
    BY <1>5, <2>2, ConcatLen, Zenon
  <2> HIDE DEF front
  <2>4. Len(setupIxs) \in Nat /\ Len(inBetweenIxs) \in Nat
    BY <1>5
  <2> QED BY <2>1, <2>2, <2>3, <2>4
<1>7. lendingTxn \in Seq(Instruction)
  BY <1>4, <1>5, <1>6, Concatenated
<1>8. /\ Ends(setupIxs, firstFarms) /\ Starts(inBetweenIxs, firstFarms)
      /\ Ends(inBetweenIxs, secondFarms) /\ Starts(cleanupIxs, secondFarms)
  BY <1>1 DEF FarmSound, FirstDone, Lent
\* What stands in the list between stands in the transaction.
<1>9. ASSUME NEW n, NEW F \in Seq(Instruction), At(inBetweenIxs, n, F)
      PROVE  At(lendingTxn, Len(setupIxs) + (Len(<<one>>) + n), F)
  <2>1. At(head, Len(<<one>>) + n, F)
    BY <1>5, <1>9, AtConcat
  <2> HIDE DEF head
  <2>2. At(mid, Len(<<one>>) + n, F)
    BY <1>5, <1>6, <2>1, AtConcat
  <2> HIDE DEF mid
  <2>3. At(front, Len(setupIxs) + (Len(<<one>>) + n), F)
    BY <1>5, <1>6, <2>2, AtConcat
  <2> HIDE DEF front
  <2> QED BY <1>4, <1>5, <1>6, <2>3, AtConcat
<1>10. \/ i = Len(setupIxs) + 1 /\ lendingTxn[i] = one
       \/ i = Len(setupIxs) + 2 + Len(inBetweenIxs) /\ lendingTxn[i] = two
  <2>1. /\ \A j \in 1..Len(cleanupIxs) : ~isPosition(cleanupIxs[j])
        /\ \A j \in 1..Len(setupIxs) : ~isPosition(setupIxs[j])
        /\ \A j \in 1..Len(inBetweenIxs) : ~isPosition(inBetweenIxs[j])
    BY NoPositionOutside
  <2>2. i \in 1..Len(front) /\ isPosition(front[i]) /\ lendingTxn[i] = front[i]
    <3> HIDE DEF front
    <3> QED BY <1>4, <1>5, <1>6, <2>1, PositionInConcat
  <2>3. PICK k \in 1..Len(mid) :
          i = Len(setupIxs) + k /\ isPosition(mid[k]) /\ lendingTxn[i] = mid[k]
    <3>1. front = setupIxs \o mid
      OBVIOUS
    <3>2. mid \in Seq(Instruction)
      BY <1>6
    <3> HIDE DEF mid, front
    <3>3. i \in 1..Len(setupIxs \o mid) /\ isPosition((setupIxs \o mid)[i])
      BY <2>2, <3>1
    <3>4. \/ i \in 1..Len(setupIxs) /\ isPosition(setupIxs[i])
          \/ \E j \in 1..Len(mid) : /\ i = Len(setupIxs) + j
                                    /\ isPosition(mid[j]) /\ (setupIxs \o mid)[i] = mid[j]
      <4>1. setupIxs \in Seq(Instruction)
        BY <1>5
      <4> QED BY <3>2, <3>3, <4>1, PositionSplits, Zenon
    <3>5. lendingTxn[i] = (setupIxs \o mid)[i]
      BY <2>2, <3>1
    <3> QED BY <2>1, <3>4, <3>5
  <2>4. \/ k \in 1..Len(head) /\ isPosition(head[k]) /\ lendingTxn[i] = head[k]
        \/ k = Len(head) + 1 /\ lendingTxn[i] = two
    <3>1. \A j \in 1..Len(<<two>>) : j = 1 /\ <<two>>[j] = two
      OBVIOUS
    <3>2. head \in Seq(Instruction) /\ mid = head \o <<two>>
      BY <1>6
    <3> HIDE DEF head, mid
    <3>3. k \in 1..Len(head \o <<two>>) /\ isPosition((head \o <<two>>)[k])
      BY <2>3, <3>2
    <3>4. \/ k \in 1..Len(head) /\ isPosition(head[k]) /\ (head \o <<two>>)[k] = head[k]
          \/ \E j \in 1..Len(<<two>>) : k = Len(head) + j /\ (head \o <<two>>)[k] = <<two>>[j]
      BY <1>5, <3>2, <3>3, PositionInConcat
    <3> QED BY <2>3, <3>1, <3>2, <3>4
  <2>5. CASE k \in 1..Len(head) /\ isPosition(head[k]) /\ lendingTxn[i] = head[k]
    <3>1. \A j \in 1..Len(<<one>>) : j = 1 /\ <<one>>[j] = one
      OBVIOUS
    <3>2. <<one>> \in Seq(Instruction) /\ inBetweenIxs \in Seq(Instruction)
      BY <1>5
    <3>3. /\ head = <<one>> \o inBetweenIxs
          /\ lendingTxn[i] = (<<one>> \o inBetweenIxs)[k]
      BY <2>5
    <3>4. k \in 1..Len(<<one>> \o inBetweenIxs) /\ isPosition((<<one>> \o inBetweenIxs)[k])
      BY <2>5
    <3> HIDE DEF head
    <3>5. /\ k \in 1..Len(<<one>>)
          /\ (<<one>> \o inBetweenIxs)[k] = <<one>>[k]
      <4>1. \/ /\ k \in 1..Len(<<one>>)
               /\ (<<one>> \o inBetweenIxs)[k] = <<one>>[k]
            \/ \E j \in 1..Len(inBetweenIxs) : isPosition(inBetweenIxs[j])
        BY <3>2, <3>4, PositionSplits, Zenon
      <4> QED BY <2>1, <4>1
    <3>6. k = 1 /\ <<one>>[k] = one
      BY <3>1, <3>5
    <3> QED BY <2>3, <3>3, <3>5, <3>6
  <2>6. CASE k = Len(head) + 1 /\ lendingTxn[i] = two
    BY <1>5, <1>6, <2>3, <2>6
  <2> QED BY <2>4, <2>5, <2>6
<1> HIDE DEF head, mid, front
<1>11. /\ Len(<<one>>) = 1 /\ Len(setupIxs) \in Nat /\ Len(inBetweenIxs) \in Nat
       /\ Len(firstFarms) \in Nat /\ Len(secondFarms) \in Nat
  BY <1>5
<1>12. CASE i = Len(setupIxs) + 1 /\ lendingTxn[i] = one
  <2>1. PICK n \in Nat : n + Len(firstFarms) = Len(setupIxs) /\ At(setupIxs, n, firstFarms)
    BY <1>5, <1>8, AtEnds
  <2>2. At(front, n, firstFarms)
    BY <1>5, <1>6, <2>1, AtConcat DEF front
  <2>3. At(lendingTxn, n, firstFarms)
    BY <1>4, <1>5, <1>6, <2>2, AtConcat
  <2>4. At(lendingTxn, Len(setupIxs) + (Len(<<one>>) + 0), firstFarms)
    BY <1>5, <1>8, <1>9, AtEnds
  <2>5. i = Len(setupIxs) + (Len(<<one>>) + 0) /\ i = n + Len(firstFarms) + 1
    BY <1>11, <1>12, <2>1
  <2>6. AllRefreshFarms(firstFarms) /\ touchedFarms(lendingTxn[i]) \subseteq CoveredBy(firstFarms)
    BY <1>2, <1>12, FirstCovers DEF isPosition
  <2> QED BY <1>5, <1>7, <2>3, <2>4, <2>5, <2>6, BetweenRefreshes
<1>13. CASE i = Len(setupIxs) + 2 + Len(inBetweenIxs) /\ lendingTxn[i] = two
  <2>1. PICK n \in Nat : n + Len(secondFarms) = Len(inBetweenIxs) /\ At(inBetweenIxs, n, secondFarms)
    BY <1>5, <1>8, AtEnds
  <2> DEFINE m == Len(setupIxs) + (Len(<<one>>) + n)
  <2>2. At(lendingTxn, m, secondFarms)
    BY <1>5, <1>9, <2>1
  <2>3. At(lendingTxn, Len(front) + 0, secondFarms)
    BY <1>4, <1>5, <1>6, <1>8, AtEnds, AtConcat
  <2>4. m \in Nat /\ i = m + Len(secondFarms) + 1 /\ i = Len(front) + 0
    <3>1. m = Len(setupIxs) + (1 + n)
      BY <1>11
    <3>2. Len(front) = Len(setupIxs) + 2 + Len(inBetweenIxs)
      BY <1>6
    <3>3. i = Len(setupIxs) + 2 + Len(inBetweenIxs)
      BY <1>13
    <3> HIDE DEF m
    <3> QED BY <1>11, <2>1, <3>1, <3>2, <3>3
  <2>5. AllRefreshFarms(secondFarms) /\ touchedFarms(lendingTxn[i]) \subseteq CoveredBy(secondFarms)
    BY <1>2, <1>13, SecondCovers
  <2> HIDE DEF m
  <2> QED BY <1>5, <1>7, <2>2, <2>3, <2>4, <2>5, BetweenRefreshes
<1> QED BY <1>10, <1>12, <1>13

LEMMA FarmSendStep == WrappedSol /\ FarmSound /\ [SendNext]_allVars => FarmSound'
<1> SUFFICES ASSUME WrappedSol, FarmSound, [SendNext]_allVars PROVE FarmSound'
  OBVIOUS
<1>1. IInv /\ ShapeSound
  BY DEF WrappedSol, SendCore
<1>2. CASE Build
  BY <1>1, <1>2, FarmStep DEF Build
<1>3. CASE Retry
  <2>1. /\ phase' = "setup" /\ pc' = "initialize" /\ inBetweenIxs' = <<>>
        /\ refreshFarmsCleanupTxnIxs' = <<>>
    BY <1>3 DEF Retry
  <2> QED BY <2>1 DEF FarmSound, FirstDone, Lent
<1>4. CASE ~Build /\ ~Retry
  <2>1. UNCHANGED <<req, pc, phase, lists>>
    BY <1>4 DEF SendNext, GetTransactions, SendPreTxn, ExecuteIx, Reject, Commit, Drop, vars,
       loaded, allVars
  <2>2. UNCHANGED <<setupIxs, inBetweenIxs, cleanupIxs, refreshFarmsCleanupTxnIxs>>
    BY <2>1 DEF lists
  <2>3. /\ Ends(setupIxs, firstFarms)' <=> Ends(setupIxs, firstFarms)
        /\ Starts(inBetweenIxs, firstFarms)' <=> Starts(inBetweenIxs, firstFarms)
        /\ Ends(inBetweenIxs, secondFarms)' <=> Ends(inBetweenIxs, secondFarms)
        /\ Starts(cleanupIxs, lastFarms)' <=> Starts(cleanupIxs, lastFarms)
    BY <2>1, <2>2, FarmsSame DEF Ends, Starts
  <2>4. FirstDone' <=> FirstDone
    BY <2>1 DEF FirstDone, Lent
  <2> QED BY <2>1, <2>2, <2>3, <2>4, FarmsSame DEF FarmSound
<1> QED BY <1>2, <1>3, <1>4

\* Whatever passes an action takes, each of its changes of a staked position
\* stands between two refreshes of its farms.  The list between serves twice:
\* it starts with the refreshes after the first change and ends with those
\* before the second, however much the second pass puts between them.
THEOREM RefreshesAlwaysAdjacent == SendSpec => []FarmRefreshAdjacent
<1>1. SendInit => FarmSound
  BY DEF SendInit, Init, FarmSound, FirstDone, Lent
<1>2. WrappedSol /\ FarmSound => FarmRefreshAdjacent
  <2> SUFFICES ASSUME WrappedSol, FarmSound, pc = "built",
                      NEW i \in 1..Len(lendingTxn), isPosition(lendingTxn[i])
               PROVE  Adjacent(lendingTxn, i)
    BY DEF FarmRefreshAdjacent, Adjacent, CoveredIn, FarmsBefore, FarmsAfter
  <2> QED BY SingleAdjacent, PairAdjacent DEF WrappedSol, SendCore
<1> QED BY <1>1, <1>2, FarmSendStep, WrappedSolInvariance, PTL DEF SendSpec

-----------------------------------------------------------------------------
(***************************************************************************)
(* What a list of instructions does to the program. Runs(c, q, S, T): from *)
(* any state of S, each instruction of q in turn is admitted as far as     *)
(* concern c goes, and the last leaves the program in a state of T. The    *)
(* annotation A gives the states before each instruction, so that the      *)
(* relation composes along a concatenation without induction.              *)
(***************************************************************************)
Machine == Chain \X VMType

After(x, s) == <<LedgerAfter(x, s[1]), VMAfter(x, s[2])>>

\* The checks of the program by what they are about; "none" checks nothing.
Concern == {"money", "user", "referral", "position"}

Admits(c, x, s) ==
  /\ c = "money" => AccountsReady(x, s[1]) /\ SolFunded(x, s[2])
  /\ c = "user" => UserReady(x, s[1])
  /\ c = "referral" => ReferralReady(x, s[1])
  /\ c = "position" => /\ PositionsListed(x, s[1])
                       /\ Refreshed(x, s[1], s[2])
                       /\ PositionHeld(x, s[1])

Leads(c, x, S, T) == \A s \in S : Admits(c, x, s) /\ After(x, s) \in T

Runs(c, q, S, T) ==
  \E A \in [1..(Len(q) + 1) -> SUBSET Machine] :
    /\ S \subseteq A[1]
    /\ A[Len(q) + 1] \subseteq T
    /\ \A i \in 1..Len(q) : Leads(c, q[i], A[i], A[i + 1])

LEMMA LeadsWeaken ==
  ASSUME NEW c, NEW x, NEW S, NEW T, NEW U, NEW V, Leads(c, x, S, T), U \subseteq S, T \subseteq V
  PROVE  Leads(c, x, U, V)
BY DEF Leads

\* An empty list leaves the program where it is.
LEMMA RunsNothing ==
  ASSUME NEW c, NEW S \in SUBSET Machine
  PROVE  Runs(c, <<>>, S, S)
<1> DEFINE A == [i \in 1..1 |-> S]
<1>1. A \in [1..1 -> SUBSET Machine] /\ A[1] = S /\ Len(<<>>) = 0
  OBVIOUS
<1> HIDE DEF A
<1>2. 1..Len(<<>>) = {}
  BY <1>1
<1> QED BY <1>1, <1>2 DEF Runs

LEMMA RunsOne ==
  ASSUME NEW c, NEW x, NEW S \in SUBSET Machine, NEW T \in SUBSET Machine, Leads(c, x, S, T)
  PROVE  Runs(c, <<x>>, S, T)
<1> DEFINE A == [i \in 1..2 |-> IF i = 1 THEN S ELSE T]
<1>1. A \in [1..2 -> SUBSET Machine] /\ A[1] = S /\ A[2] = T
  OBVIOUS
<1>2. Len(<<x>>) = 1 /\ <<x>>[1] = x
  OBVIOUS
<1> HIDE DEF A
<1>3. \A i \in 1..Len(<<x>>) : Leads(c, <<x>>[i], A[i], A[i + 1])
  <2> SUFFICES ASSUME NEW i \in 1..Len(<<x>>) PROVE Leads(c, <<x>>[i], A[i], A[i + 1])
    OBVIOUS
  <2>1. i = 1 /\ i + 1 = 2
    BY <1>2
  <2> QED BY <1>1, <1>2, <2>1
<1> QED BY <1>1, <1>2, <1>3 DEF Runs

LEMMA RunsWeaken ==
  ASSUME NEW c, NEW q, NEW S, NEW T, NEW U, NEW V, Runs(c, q, S, T), U \subseteq S, T \subseteq V
  PROVE  Runs(c, q, U, V)
BY DEF Runs

LEMMA RunsConcat ==
  ASSUME NEW c, NEW X, NEW p \in Seq(X), NEW q \in Seq(X), NEW S, NEW T, NEW U,
         Runs(c, p, S, T), Runs(c, q, T, U)
  PROVE  Runs(c, p \o q, S, U)
<1>1. PICK A \in [1..(Len(p) + 1) -> SUBSET Machine] :
        /\ S \subseteq A[1] /\ A[Len(p) + 1] \subseteq T
        /\ \A i \in 1..Len(p) : Leads(c, p[i], A[i], A[i + 1])
  BY DEF Runs
<1>2. PICK B \in [1..(Len(q) + 1) -> SUBSET Machine] :
        /\ T \subseteq B[1] /\ B[Len(q) + 1] \subseteq U
        /\ \A i \in 1..Len(q) : Leads(c, q[i], B[i], B[i + 1])
  BY DEF Runs
<1> DEFINE m == Len(p)
           n == Len(q)
           C == [i \in 1..(m + n + 1) |-> IF i <= m THEN A[i] ELSE B[i - m]]
<1>3. /\ m \in Nat /\ n \in Nat /\ Len(p \o q) = m + n
      /\ \A i \in 1..m : (p \o q)[i] = p[i]
      /\ \A i \in (m + 1)..(m + n) : i - m \in 1..n /\ (p \o q)[i] = q[i - m]
  OBVIOUS
<1> HIDE DEF m, n
<1>4. C \in [1..(m + n + 1) -> SUBSET Machine]
  <2> SUFFICES ASSUME NEW i \in 1..(m + n + 1)
               PROVE  (IF i <= m THEN A[i] ELSE B[i - m]) \in SUBSET Machine
    OBVIOUS
  <2>1. CASE i <= m
    <3>1. i \in 1..(m + 1)
      BY <1>3, <2>1
    <3> QED BY <1>1, <2>1, <3>1 DEF m
  <2>2. CASE ~(i <= m)
    <3>1. i - m \in 1..(n + 1)
      BY <1>3, <2>2
    <3> QED BY <1>2, <2>2, <3>1 DEF n
  <2> QED BY <2>1, <2>2
<1>5. \A i \in 1..m : C[i] = A[i]
  BY <1>3
<1>6. \A i \in (m + 1)..(m + n + 1) : C[i] = B[i - m]
  BY <1>3
<1> HIDE DEF C
<1>7. S \subseteq C[1]
  <2>1. CASE m = 0
    <3>1. C[1] = B[1]
      BY <1>3, <1>6, <2>1
    <3> QED BY <1>1, <1>2, <2>1, <3>1 DEF m
  <2>2. CASE m # 0
    <3>1. 1 \in 1..m
      BY <1>3, <2>2
    <3> QED BY <1>1, <1>5, <3>1
  <2> QED BY <2>1, <2>2
<1>8. C[m + n + 1] \subseteq U
  <2>1. m + n + 1 \in (m + 1)..(m + n + 1) /\ (m + n + 1) - m = n + 1
    BY <1>3
  <2>2. C[m + n + 1] = B[n + 1]
    BY <1>6, <2>1
  <2> QED BY <1>2, <2>2 DEF n
<1>9. ASSUME NEW i \in 1..(m + n) PROVE Leads(c, (p \o q)[i], C[i], C[i + 1])
  <2>1. CASE i < m
    <3>1. i \in 1..m /\ i + 1 \in 1..m
      BY <1>3, <2>1
    <3> QED BY <1>1, <1>3, <1>5, <3>1 DEF m
  <2>2. CASE i = m
    <3>1. i \in 1..m /\ i + 1 \in (m + 1)..(m + n + 1) /\ (i + 1) - m = 1
      BY <1>3, <2>2
    <3>2. Leads(c, (p \o q)[i], A[i], A[i + 1])
      BY <1>1, <1>3, <3>1 DEF m
    <3>3. A[i + 1] \subseteq B[1] /\ C[i] = A[i] /\ C[i + 1] = B[1]
      BY <1>1, <1>2, <1>5, <1>6, <2>2, <3>1 DEF m
    <3> QED BY <3>2, <3>3, LeadsWeaken
  <2>3. CASE i > m
    <3>1. /\ i \in (m + 1)..(m + n) /\ i \in (m + 1)..(m + n + 1)
          /\ i + 1 \in (m + 1)..(m + n + 1) /\ (i + 1) - m = (i - m) + 1
      BY <1>3, <2>3
    <3>2. i - m \in 1..n /\ (p \o q)[i] = q[i - m]
      BY <1>3, <3>1
    <3>3. C[i] = B[i - m] /\ C[i + 1] = B[(i - m) + 1]
      BY <1>6, <3>1
    <3>4. Leads(c, q[i - m], B[i - m], B[(i - m) + 1])
      BY <1>2, <3>2 DEF n
    <3> QED BY <3>2, <3>3, <3>4
  <2> QED BY <1>3, <2>1, <2>2, <2>3
<1>10. Len(p \o q) = m + n /\ Len(p \o q) + 1 = m + n + 1
  BY <1>3
<1> HIDE DEF Leads
<1>11. \A i \in 1..Len(p \o q) : Leads(c, (p \o q)[i], C[i], C[i + 1])
  BY <1>9, <1>10
<1> QED BY <1>4, <1>7, <1>8, <1>10, <1>11 DEF Runs

\* A list whose instructions all keep S keeps S.
LEMMA RunsSkip ==
  ASSUME NEW c, NEW X, NEW q \in Seq(X), NEW S \in SUBSET Machine,
         \A x \in X : Leads(c, x, S, S)
  PROVE  Runs(c, q, S, S)
<1> DEFINE A == [i \in 1..(Len(q) + 1) |-> S]
<1>1. /\ A \in [1..(Len(q) + 1) -> SUBSET Machine]
      /\ \A i \in 1..(Len(q) + 1) : A[i] = S
  OBVIOUS
<1> HIDE DEF A
<1>2. /\ 1 \in 1..(Len(q) + 1) /\ Len(q) + 1 \in 1..(Len(q) + 1)
      /\ \A i \in 1..Len(q) : i \in 1..(Len(q) + 1) /\ i + 1 \in 1..(Len(q) + 1) /\ q[i] \in X
  OBVIOUS
<1>3. \A i \in 1..Len(q) : Leads(c, q[i], A[i], A[i + 1])
  BY <1>1, <1>2
<1>4. S \subseteq A[1] /\ A[Len(q) + 1] \subseteq S
  BY <1>1, <1>2
<1> QED BY <1>1, <1>3, <1>4 DEF Runs

\* What every instruction of a list keeps may be added to both ends.
LEMMA RunsFrame ==
  ASSUME NEW c, NEW X, NEW q \in Seq(X), NEW S, NEW T, NEW I, Runs(c, q, S, T),
         \A x \in X : Leads("none", x, I, I)
  PROVE  Runs(c, q, S \intersect I, T \intersect I)
<1>1. PICK A \in [1..(Len(q) + 1) -> SUBSET Machine] :
        /\ S \subseteq A[1] /\ A[Len(q) + 1] \subseteq T
        /\ \A i \in 1..Len(q) : Leads(c, q[i], A[i], A[i + 1])
  BY DEF Runs
<1> DEFINE B == [i \in 1..(Len(q) + 1) |-> A[i] \intersect I]
<1>2. /\ B \in [1..(Len(q) + 1) -> SUBSET Machine]
      /\ \A i \in 1..(Len(q) + 1) : B[i] = A[i] \intersect I
  BY <1>1
<1> HIDE DEF B
<1>3. /\ 1 \in 1..(Len(q) + 1) /\ Len(q) + 1 \in 1..(Len(q) + 1)
      /\ \A i \in 1..Len(q) : i \in 1..(Len(q) + 1) /\ i + 1 \in 1..(Len(q) + 1) /\ q[i] \in X
  OBVIOUS
<1>4. ASSUME NEW i \in 1..Len(q) PROVE Leads(c, q[i], B[i], B[i + 1])
  <2>1. Leads(c, q[i], A[i], A[i + 1]) /\ Leads("none", q[i], I, I)
    BY <1>1, <1>3
  <2>2. B[i] = A[i] \intersect I /\ B[i + 1] = A[i + 1] \intersect I
    BY <1>2, <1>3
  <2> QED BY <2>1, <2>2 DEF Leads
<1>5. S \intersect I \subseteq B[1] /\ B[Len(q) + 1] \subseteq T \intersect I
  BY <1>1, <1>2, <1>3
<1> QED BY <1>2, <1>4, <1>5 DEF Runs

\* Executing the first instruction leaves the rest of the run.
LEMMA RunsHead ==
  ASSUME NEW c, NEW X, NEW q \in Seq(X), q # <<>>, NEW S, NEW T, Runs(c, q, S, T), NEW s \in S
  PROVE  /\ Admits(c, Head(q), s)
         /\ \E U : After(Head(q), s) \in U /\ Runs(c, Tail(q), U, T)
<1>1. PICK A \in [1..(Len(q) + 1) -> SUBSET Machine] :
        /\ S \subseteq A[1] /\ A[Len(q) + 1] \subseteq T
        /\ \A i \in 1..Len(q) : Leads(c, q[i], A[i], A[i + 1])
  BY DEF Runs
<1>2. /\ Len(q) \in Nat \ {0} /\ 1 \in 1..Len(q) /\ Head(q) = q[1]
      /\ Len(Tail(q)) = Len(q) - 1
      /\ \A i \in 1..(Len(q) - 1) : Tail(q)[i] = q[i + 1]
  OBVIOUS
<1> DEFINE B == [i \in 1..(Len(Tail(q)) + 1) |-> A[i + 1]]
<1>3. \A i \in 1..(Len(Tail(q)) + 1) : i + 1 \in 1..(Len(q) + 1)
  BY <1>2
<1>4. /\ B \in [1..(Len(Tail(q)) + 1) -> SUBSET Machine]
      /\ \A i \in 1..(Len(Tail(q)) + 1) : B[i] = A[i + 1]
  BY <1>1, <1>3
<1> HIDE DEF B
<1>5. Leads(c, Head(q), A[1], A[2])
  BY <1>1, <1>2
<1>6. Admits(c, Head(q), s) /\ After(Head(q), s) \in A[2]
  BY <1>1, <1>5 DEF Leads
<1>7. /\ 1 \in 1..(Len(Tail(q)) + 1) /\ Len(Tail(q)) + 1 \in 1..(Len(Tail(q)) + 1)
      /\ (Len(Tail(q)) + 1) + 1 = Len(q) + 1
  BY <1>2
<1>8. A[2] \subseteq B[1] /\ B[Len(Tail(q)) + 1] \subseteq T
  BY <1>1, <1>4, <1>7
<1>9. ASSUME NEW i \in 1..Len(Tail(q)) PROVE Leads(c, Tail(q)[i], B[i], B[i + 1])
  <2>1. /\ i \in 1..(Len(Tail(q)) + 1) /\ i + 1 \in 1..(Len(Tail(q)) + 1)
        /\ i + 1 \in 1..Len(q) /\ Tail(q)[i] = q[i + 1]
    BY <1>2
  <2>2. Leads(c, q[i + 1], A[i + 1], A[(i + 1) + 1])
    BY <1>1, <2>1
  <2> QED BY <1>4, <2>1, <2>2
<1>10. Runs(c, Tail(q), A[2], T)
  BY <1>4, <1>8, <1>9 DEF Runs
<1> QED BY <1>6, <1>10

LEMMA RunsEnd ==
  ASSUME NEW c, NEW S, NEW T, Runs(c, <<>>, S, T)
  PROVE  S \subseteq T
<1>1. Len(<<>>) = 0 /\ Len(<<>>) + 1 = 1
  OBVIOUS
<1> QED BY <1>1 DEF Runs

\* The program depends on the call and on its referrer alone.
LEMMA RunsSame ==
  ASSUME UNCHANGED <<req, referrer>>, NEW c, NEW q, NEW S, NEW T
  PROVE  Runs(c, q, S, T)' <=> Runs(c, q, S, T)
<1>1. \A x, l : LedgerAfter(x, l)' = LedgerAfter(x, l)
  BY DEF LedgerAfter, closesDebt, closesDeposit
<1>2. \A x : touchedFarms(x)' = touchedFarms(x) /\ touchedReserves(x)' = touchedReserves(x)
  BY DEF touchedFarms, touchedReserves
<1>3. \A x, v : VMAfter(x, v)' = VMAfter(x, v)
  BY <1>2 DEF VMAfter
<1>4. \A x, s : After(x, s)' = After(x, s)
  BY <1>1, <1>3 DEF After
<1>5. \A x, l, v : /\ AccountsReady(x, l)' <=> AccountsReady(x, l)
                   /\ SolFunded(x, v)' <=> SolFunded(x, v)
                   /\ Refreshed(x, l, v)' <=> Refreshed(x, l, v)
                   /\ PositionHeld(x, l)' <=> PositionHeld(x, l)
  BY <1>2 DEF AccountsReady, SolFunded, Refreshed, PositionHeld
<1>6. \A x, s : Admits(c, x, s)' <=> Admits(c, x, s)
  BY <1>5 DEF Admits, UserReady, ReferralReady, PositionsListed
<1>7. \A x, U, V : Leads(c, x, U, V)' <=> Leads(c, x, U, V)
  BY <1>4, <1>6 DEF Leads
<1> QED BY <1>7 DEF Runs, Machine

LEMMA RunsNext ==
  ASSUME UNCHANGED <<req, referrer>>, NEW c, NEW S, NEW T
  PROVE  /\ Runs(c, queue, S, T)' <=> Runs(c, queue', S, T)
         /\ Runs(c, lendingTxn, S, T)' <=> Runs(c, lendingTxn', S, T)
<1>1. \A q : Runs(c, q, S, T)' <=> Runs(c, q, S, T)
  BY RunsSame
<1>2. Runs(c, queue, S, T)' <=> Runs(c, queue', S, T)
  BY <1>1
<1> QED BY <1>1, <1>2

-----------------------------------------------------------------------------
(***************************************************************************)
(* The transaction in flight: until it commits the chain differs from what *)
(* the build has seen by token accounts only, and what is still queued is  *)
(* the rest of a run of the whole transaction.                             *)
(***************************************************************************)
Agrees(l) ==
  /\ l \in Chain
  /\ l = [known EXCEPT !.atas = l.atas, !.colAtas = l.colAtas]
  /\ known.atas \subseteq l.atas /\ known.colAtas \subseteq l.colAtas

PreTxnDone(l) ==
  \A i \in 1..Len(preTxnIxs) :
    /\ preTxnIxs[i].op = "createAta" => preTxnIxs[i].res \in l.atas
    /\ preTxnIxs[i].op = "createColAta" => preTxnIxs[i].res \in l.colAtas

Started(l) ==
  \A c, T : Runs(c, lendingTxn, {<<l, NewVM>>}, T) =>
              \E S : <<ledger, vm>> \in S /\ Runs(c, queue, S, T)

FlightSound ==
  /\ pc # "initialize" /\ status # "committed" => Agrees(chain)
  /\ status = "lending" => Started(chain)
  /\ status = "lending" /\ preOutcome # "failed" => PreTxnDone(chain)
  /\ status = "committed" => \E l : Agrees(l) /\ Started(l)

LEMMA AgreesSelf == ASSUME IInv, known = chain PROVE Agrees(chain)
BY DEF IInv, StateSound, Agrees, Chain

LEMMA StartedNow ==
  ASSUME UNCHANGED <<req, referrer, lists>>, queue' = lendingTxn, vm' = NewVM,
         NEW l, ledger' = l
  PROVE  Started(l)'
<1>1. lendingTxn' = lendingTxn
  BY DEF lendingTxn, lists
<1>2. NewVM' = NewVM
  BY DEF NewVM
<1>3. PICK S : S = {<<l, NewVM>>}
  OBVIOUS
<1>4. S = {<<l, NewVM'>>} /\ <<ledger', vm'>> \in S
  BY <1>2, <1>3
<1>5. ASSUME NEW c, NEW T, Runs(c, lendingTxn, S, T)'
      PROVE  \E U : <<ledger', vm'>> \in U /\ Runs(c, queue, U, T)'
  <2>1. Runs(c, lendingTxn', S, T)
    BY <1>5, RunsNext
  <2>2. Runs(c, queue', S, T)
    BY <1>1, <2>1
  <2>3. Runs(c, queue, S, T)'
    BY <2>2, RunsNext
  <2> QED BY <1>4, <2>3
<1> QED BY <1>4, <1>5 DEF Started

LEMMA StartedStep ==
  ASSUME WrappedSol, ExecuteIx, NEW l, Started(l)
  PROVE  Started(l)'
<1> DEFINE ix == Head(queue)
<1>1. /\ UNCHANGED <<req, referrer, lists>> /\ status = "lending" /\ queue # <<>>
      /\ ledger' = LedgerAfter(ix, ledger) /\ vm' = VMAfter(ix, vm) /\ queue' = Tail(queue)
  BY DEF ExecuteIx, vars, loaded
<1>2. queue \in Seq(ListedInstruction)
  BY DEF WrappedSol, SendCore, SendSound
<1>3. lendingTxn' = lendingTxn /\ NewVM' = NewVM
  BY <1>1 DEF lendingTxn, lists, NewVM
<1>4. <<ledger', vm'>> = After(ix, <<ledger, vm>>)
  BY <1>1 DEF After
<1> HIDE DEF ix
<1>5. PICK S : S = {<<l, NewVM>>}
  OBVIOUS
<1>6. S = {<<l, NewVM'>>}
  BY <1>3, <1>5
<1>7. ASSUME NEW c, NEW T, Runs(c, lendingTxn, S, T)'
      PROVE  \E U : <<ledger', vm'>> \in U /\ Runs(c, queue, U, T)'
  <2>1. Runs(c, lendingTxn', S, T)
    BY <1>1, <1>7, RunsNext
  <2>2. Runs(c, lendingTxn, {<<l, NewVM>>}, T)
    BY <1>3, <1>5, <2>1
  <2>3. PICK V : <<ledger, vm>> \in V /\ Runs(c, queue, V, T)
    BY <2>2 DEF Started
  <2>4. PICK U : After(ix, <<ledger, vm>>) \in U /\ Runs(c, Tail(queue), U, T)
    BY <1>1, <1>2, <2>3, RunsHead DEF ix
  <2>5. Runs(c, queue', U, T) /\ <<ledger', vm'>> \in U
    BY <1>1, <1>4, <2>4
  <2>6. Runs(c, queue, U, T)'
    BY <1>1, <2>5, RunsNext
  <2> QED BY <2>5, <2>6
<1> QED BY <1>6, <1>7 DEF Started

LEMMA StartedSame ==
  ASSUME UNCHANGED <<req, referrer, lists, queue, ledger, vm>>, NEW l, Started(l)
  PROVE  Started(l)'
<1>1. lendingTxn' = lendingTxn /\ NewVM' = NewVM
  BY DEF lendingTxn, lists, NewVM
<1>2. PICK S : S = {<<l, NewVM>>}
  OBVIOUS
<1>3. S = {<<l, NewVM'>>}
  BY <1>1, <1>2
<1>4. ASSUME NEW c, NEW T, Runs(c, lendingTxn, S, T)'
      PROVE  \E U : <<ledger', vm'>> \in U /\ Runs(c, queue, U, T)'
  <2>1. Runs(c, lendingTxn', S, T)
    BY <1>4, RunsNext
  <2>2. Runs(c, lendingTxn, {<<l, NewVM>>}, T)
    BY <1>1, <1>2, <2>1
  <2>3. PICK V : <<ledger, vm>> \in V /\ Runs(c, queue, V, T)
    BY <2>2 DEF Started
  <2>4. Runs(c, queue, V, T)'
    BY <2>3, RunsNext
  <2> QED BY <2>3, <2>4
<1> QED BY <1>3, <1>4 DEF Started

LEMMA FlightGetTransactions ==
  ASSUME WrappedSol, GetTransactions
  PROVE  FlightSound'
<1>1. /\ UNCHANGED <<req, referrer, known, chain, pc, lists>> /\ pc = "built" /\ status = "building"
      /\ vm' = vm /\ queue' = lendingTxn /\ ledger' = chain
      /\ status' = IF preTxnIxs = <<>> THEN "lending" ELSE "pre"
  BY DEF GetTransactions, vars, loaded
<1>2. IInv /\ known = chain /\ vm = NewVM
  BY <1>1 DEF WrappedSol, SendCore, SendSound, RunSound
<1>3. Agrees(chain)
  BY <1>2, AgreesSelf
<1>4. Agrees(chain)'
  BY <1>1, <1>3 DEF Agrees
<1>5. PICK l : l = chain
  OBVIOUS
<1>6. Started(l)'
  BY <1>1, <1>2, <1>5, StartedNow
<1>7. Started(chain)'
  BY <1>1, <1>5, <1>6 DEF Started
<1>8. status' = "lending" => PreTxnDone(chain)'
  BY <1>1 DEF PreTxnDone, lists
<1> QED BY <1>1, <1>4, <1>7, <1>8 DEF FlightSound

LEMMA FlightSendPreTxn ==
  ASSUME WrappedSol, SendPreTxn
  PROVE  FlightSound'
<1>1. /\ UNCHANGED <<req, referrer, known, pc, lists>> /\ status = "pre" /\ status' = "lending"
      /\ vm' = vm /\ queue' = queue /\ ledger' = chain'
  BY DEF SendPreTxn
<1>2. IInv /\ known = chain /\ vm = NewVM /\ queue = lendingTxn /\ SendCore
  BY <1>1 DEF WrappedSol, SendCore, SendSound, RunSound
<1>3. Agrees(chain')
  <2>1. /\ chain' \in Chain /\ chain.atas \subseteq chain'.atas
        /\ chain' = [chain EXCEPT !.atas = chain'.atas, !.colAtas = chain'.colAtas]
    BY <1>2, PreTxnCreates
  <2>2. chain.colAtas \subseteq chain'.colAtas
    <3>1. chain \in Chain
      BY <1>2 DEF IInv, StateSound
    <3> QED BY <3>1 DEF SendPreTxn, Chain
  <2> QED BY <1>2, <2>1, <2>2 DEF Agrees
<1>4. Agrees(chain)'
  BY <1>1, <1>3 DEF Agrees
<1>5. PICK l : l = chain'
  OBVIOUS
<1>6. Started(l)'
  BY <1>1, <1>2, <1>5, StartedNow
<1>7. Started(chain)'
  BY <1>1, <1>5, <1>6 DEF Started
<1>8. preOutcome' # "failed" => PreTxnDone(chain)'
  <2> SUFFICES ASSUME preOutcome' # "failed", NEW i \in 1..Len(preTxnIxs)
               PROVE  /\ preTxnIxs[i].op = "createAta" => preTxnIxs[i].res \in chain'.atas
                      /\ preTxnIxs[i].op = "createColAta" => preTxnIxs[i].res \in chain'.colAtas
    BY <1>1 DEF PreTxnDone, lists
  <2> DEFINE created(op) == {ix.res : ix \in {preTxnIxs[j] : j \in {j \in 1..Len(preTxnIxs) :
                                                preTxnIxs[j].op = op}}}
  <2>1. chain' = [chain EXCEPT !.atas = @ \union created("createAta"),
                               !.colAtas = @ \union created("createColAta")]
    BY DEF SendPreTxn
  <2>2. \A op : preTxnIxs[i].op = op => preTxnIxs[i].res \in created(op)
    OBVIOUS
  <2> HIDE DEF created
  <2>3. chain \in Chain
    BY <1>2 DEF IInv, StateSound
  <2>4. /\ chain'.atas = chain.atas \union created("createAta")
        /\ chain'.colAtas = chain.colAtas \union created("createColAta")
    BY <2>1, <2>3 DEF Chain
  <2> QED BY <2>2, <2>4
<1> QED BY <1>1, <1>4, <1>7, <1>8 DEF FlightSound

LEMMA FlightBuild == ASSUME WrappedSol, Build PROVE FlightSound'
<1>1. /\ status = "building" /\ status' = "building" /\ Next
  BY DEF Build, sendVars
<1>2. SendCore'
  BY BuildSound DEF WrappedSol
<1>3. pc' # "initialize" => known' = chain' /\ IInv'
  BY <1>1, <1>2 DEF SendCore, SendSound
<1>4. pc' # "initialize" => Agrees(chain)'
  BY <1>3 DEF IInv, StateSound, Agrees, Chain
<1> QED BY <1>1, <1>4 DEF FlightSound

LEMMA FlightStep == WrappedSol /\ FlightSound /\ [SendNext]_allVars => FlightSound'
<1> SUFFICES ASSUME WrappedSol, FlightSound, [SendNext]_allVars PROVE FlightSound'
  OBVIOUS
<1>1. CASE UNCHANGED allVars \/ Reject \/ Drop \/ ExecuteIx
  <2>1. /\ UNCHANGED <<req, referrer, chain, known, lists, pc, preOutcome, preTxnIxs>>
        /\ status' = "committed" => UNCHANGED allVars
        /\ status' = "lending" => status = "lending" /\ (ExecuteIx \/ UNCHANGED allVars)
        /\ status = "committed" => status' = "committed"
    BY <1>1 DEF allVars, vars, loaded, sendVars, lists, Reject, Drop, ExecuteIx
  <2>2. \A l : Agrees(l)' <=> Agrees(l)
    BY <2>1 DEF Agrees
  <2>3. \A l : PreTxnDone(l)' <=> PreTxnDone(l)
    BY <2>1 DEF PreTxnDone
  <2>4. ASSUME NEW l, Started(l), ExecuteIx \/ UNCHANGED allVars PROVE Started(l)'
    <3>1. CASE ExecuteIx
      BY <2>4, <3>1, StartedStep
    <3>2. CASE UNCHANGED allVars
      <4>1. UNCHANGED <<req, referrer, lists, queue, ledger, vm>>
        BY <3>2 DEF allVars, vars, loaded, sendVars
      <4> QED BY <2>4, <4>1, StartedSame
    <3> QED BY <2>4, <3>1, <3>2
  <2>5. PICK l : l = chain
    OBVIOUS
  <2>6. status' = "lending" => Started(l)'
    BY <2>1, <2>4, <2>5 DEF FlightSound
  <2>7. status' = "lending" => Started(chain)'
    BY <2>1, <2>5, <2>6 DEF Started
  <2>8. status' # "committed" /\ pc' # "initialize" => Agrees(chain)'
    <3>1. status' # "committed" /\ pc' # "initialize" => Agrees(chain)
      BY <2>1 DEF FlightSound
    <3> QED BY <2>1, <3>1 DEF Agrees
  <2>9. status' = "lending" /\ preOutcome' # "failed" => PreTxnDone(chain)'
    BY <2>1 DEF FlightSound, PreTxnDone
  <2>10. status' = "committed" => \E m : Agrees(m)' /\ Started(m)'
    <3> SUFFICES ASSUME status' = "committed" PROVE \E m : Agrees(m)' /\ Started(m)'
      OBVIOUS
    <3>1. UNCHANGED allVars /\ status = "committed"
      BY <2>1 DEF allVars, sendVars
    <3>2. PICK m : Agrees(m) /\ Started(m)
      BY <3>1 DEF FlightSound
    <3> QED BY <2>2, <2>4, <3>1, <3>2
  <2> QED BY <2>7, <2>8, <2>9, <2>10 DEF FlightSound
<1>2. CASE Commit
  <2>1. /\ UNCHANGED <<req, referrer, known, lists, queue, vm, ledger>>
        /\ status = "lending" /\ status' = "committed"
    BY <1>2 DEF Commit
  <2>2. pc = "built"
    BY <2>1 DEF WrappedSol, SendCore, SendSound
  <2>3. PICK l : l = chain
    OBVIOUS
  <2>4. Agrees(l) /\ Started(l)
    BY <2>1, <2>2, <2>3 DEF FlightSound
  <2>5. Agrees(l)' /\ Started(l)'
    <3>1. Agrees(l)'
      BY <2>1, <2>4 DEF Agrees
    <3> QED BY <2>1, <2>4, <3>1, StartedSame
  <2> QED BY <2>1, <2>5 DEF FlightSound
<1>3. CASE Retry
  BY <1>3 DEF Retry, FlightSound
<1> QED BY <1>1, <1>2, <1>3, FlightBuild, FlightGetTransactions, FlightSendPreTxn DEF SendNext

-----------------------------------------------------------------------------
(***************************************************************************)
(* What each step of the build adds to the lists.                          *)
(***************************************************************************)
Made(ops) == {x \in ListedInstruction : x.op \in ops}

LEMMA MadeFits ==
  /\ \A ops : Made(ops) \subseteq ListedInstruction
  /\ SupportInstruction \subseteq ListedInstruction /\ SetupInstruction \subseteq ListedInstruction
  /\ LendingInstruction \subseteq ListedInstruction /\ CleanupInstruction \subseteq ListedInstruction
BY SupportFits DEF Made, ListedInstruction

LEMMA MadeMore ==
  ASSUME NEW ops, NEW more, ops \subseteq more, NEW p \in Seq(Made(ops))
  PROVE  p \in Seq(Made(more))
<1>1. Made(ops) \subseteq Made(more)
  BY DEF Made
<1> QED BY <1>1, SeqSubset

LEMMA ShortSeq == \A X, x : <<>> \in Seq(X) /\ (x \in X => <<x>> \in Seq(X))
OBVIOUS

LEMMA RefreshReservesMade ==
  ASSUME NEW S \in SUBSET Reserve
  PROVE  /\ Ix("refreshReserves", NoReserve, S) \in Made({"refreshReserves"})
         /\ RefreshReserves(S) \in Seq(Made({"refreshReserves"}))
<1>1. Ix("refreshReserves", NoReserve, S) \in SupportInstruction
  BY PlainIx DEF SupportOp, LendingOp, AccountOp, PositionOp, IxOp, PositionList
<1>2. Ix("refreshReserves", NoReserve, S).op = "refreshReserves"
  BY DEF Ix
<1>3. Ix("refreshReserves", NoReserve, S) \in Made({"refreshReserves"})
  BY <1>1, <1>2, MadeFits DEF Made
<1>4. RefreshReserves(S) = <<>> \/ RefreshReserves(S) = <<Ix("refreshReserves", NoReserve, S)>>
  BY DEF RefreshReserves
<1> HIDE DEF Ix
<1> QED BY <1>3, <1>4, ShortSeq

LEMMA RefreshFarmsMade ==
  ASSUME NEW S, NEW mode \in Mode
  PROVE  RefreshFarms(S, mode) \in Seq(Made({"refreshFarms"}))
<1> DEFINE farmed == S \intersect FarmsOf(mode)
           x == [Ix("refreshFarms", NoReserve, farmed) EXCEPT !.how = mode]
<1>1. farmed \in SUBSET Reserve
  BY ReserveAssumption DEF FarmsOf
<1>2. x \in SupportInstruction /\ x.op = "refreshFarms"
  BY <1>1 DEF Ix, SupportInstruction, OwnInstruction, Instruction, How, GroupId, IxOp, SupportOp,
              LendingOp, AccountOp, PositionOp
<1>3. x \in Made({"refreshFarms"})
  BY <1>2, MadeFits DEF Made
<1> HIDE DEF x
<1>4. RefreshFarms(S, mode) = <<>> \/ RefreshFarms(S, mode) = <<x>>
  BY DEF RefreshFarms, x
<1> QED BY <1>3, <1>4, ShortSeq

LEMMA FarmRefreshMade == ASSUME IInv PROVE farmRefreshIxs \in Seq(Made({"refreshFarms"}))
<1>1. \A S, mode : mode \in Mode => RefreshFarms(S, mode) \in Seq(Made({"refreshFarms"}))
  BY RefreshFarmsMade
<1>2. \A S, U : RefreshFarms(S, "coll") \o RefreshFarms(U, "debt") \in Seq(Made({"refreshFarms"}))
  BY <1>1, Concatenated DEF Mode
<1> QED BY <1>1, <1>2 DEF farmRefreshIxs, Mode

LEMMA PositionMade ==
  ASSUME IInv, NEW skip \in BOOLEAN, NEW g \in GroupId
  PROVE  /\ PositionAccounts("refreshObligation", 0, skip) \in Made({"refreshObligation"})
         /\ RefreshObligation(skip) \in Seq(Made({"refreshObligation"}))
         /\ PositionAccounts("requestElevationGroup", g, skip) \in Made({"requestElevationGroup"})
         /\ RequestElevation(g, skip) \in Seq(Made({"requestElevationGroup"}))
<1>1. /\ RefreshObligation(skip) = <<PositionAccounts("refreshObligation", 0, skip)>>
      /\ RequestElevation(g, skip) = <<PositionAccounts("requestElevationGroup", g, skip)>>
  BY DEF RefreshObligation, RequestElevation
<1>2. /\ RefreshObligation(skip) \in Seq(SupportInstruction)
      /\ RequestElevation(g, skip) \in Seq(SupportInstruction)
  BY PositionSeqs
<1>3. \A x, X : <<x>> \in Seq(X) => x \in X
  <2> SUFFICES ASSUME NEW x, NEW X, <<x>> \in Seq(X) PROVE x \in X
    OBVIOUS
  <2>1. 1 \in 1..Len(<<x>>) /\ <<x>>[1] = x
    OBVIOUS
  <2> QED BY <2>1, ElementOfSeq
<1>4. /\ PositionAccounts("refreshObligation", 0, skip) \in SupportInstruction
      /\ PositionAccounts("requestElevationGroup", g, skip) \in SupportInstruction
  BY <1>1, <1>2, <1>3
<1>5. \A op, h : PositionAccounts(op, h, skip).op = op
  BY DEF PositionAccounts, Ix
<1>6. /\ PositionAccounts("refreshObligation", 0, skip) \in Made({"refreshObligation"})
      /\ PositionAccounts("requestElevationGroup", g, skip) \in Made({"requestElevationGroup"})
  BY <1>4, <1>5, MadeFits DEF Made
<1> HIDE DEF PositionAccounts
<1> QED BY <1>1, <1>6

LEMMA PlainMade ==
  ASSUME NEW op \in SupportOp \ (PositionList \union {"initFarm"}), NEW D \in SUBSET Reserve
  PROVE  /\ Ix(op, NoReserve, D) \in Made({op})
         /\ <<Ix(op, NoReserve, D)>> \in Seq(Made({op}))
<1>1. Ix(op, NoReserve, D) \in SupportInstruction
  BY PlainIx
<1>2. Ix(op, NoReserve, D).op = op
  BY DEF Ix
<1>3. Ix(op, NoReserve, D) \in Made({op})
  BY <1>1, <1>2, MadeFits DEF Made
<1> QED BY <1>3

AtaOps == {"createAta", "createColAta", "transferLamports", "syncNative"}
RefreshOps == {"refreshReserves", "refreshObligation"}
SwitchOps == RefreshOps \union {"requestElevationGroup"}

\* A step adds a to the front and b to the back of the setup list, and so on.
Growth(A, B, C) ==
  \E a \in Seq(Made(A)), b \in Seq(Made(B)), m \in Seq(Made(B)), c \in Seq(Made(C)),
     f \in Seq(Made({"refreshFarms"})) :
    /\ setupIxs' = (a \o setupIxs) \o b
    /\ inBetweenIxs' = inBetweenIxs \o m
    /\ cleanupIxs' = cleanupIxs \o c
    /\ refreshFarmsCleanupTxnIxs' = refreshFarmsCleanupTxnIxs \o f

LEMMA NothingAdded ==
  \A s \in Seq(Instruction) : \A t : s \o <<>> = s /\ <<>> \o s = s /\ (<<>> \o s) \o t = s \o t
BY ConcatAssociative

LEMMA GrowthFromParts ==
  ASSUME IInv, NEW A, NEW B, NEW C,
         \/ UNCHANGED setupIxs
         \/ \E b \in Seq(Made(B)) : setupIxs' = setupIxs \o b
         \/ \E a \in Seq(Made(A)) : setupIxs' = a \o setupIxs,
         \/ UNCHANGED inBetweenIxs
         \/ \E m \in Seq(Made(B)) : inBetweenIxs' = inBetweenIxs \o m,
         \/ UNCHANGED cleanupIxs
         \/ \E c \in Seq(Made(C)) : cleanupIxs' = cleanupIxs \o c,
         \/ UNCHANGED refreshFarmsCleanupTxnIxs
         \/ \E f \in Seq(Made({"refreshFarms"})) :
              refreshFarmsCleanupTxnIxs' = refreshFarmsCleanupTxnIxs \o f
  PROVE  Growth(A, B, C)
<1>1. /\ setupIxs \in Seq(Instruction) /\ inBetweenIxs \in Seq(Instruction)
      /\ cleanupIxs \in Seq(Instruction) /\ refreshFarmsCleanupTxnIxs \in Seq(Instruction)
  BY ListsAreInstructions
<1>2. \A X : <<>> \in Seq(X)
  OBVIOUS
<1>3. \A a \in Seq(Made(A)) : (a \o setupIxs) \o <<>> = a \o setupIxs
  <2> TAKE a \in Seq(Made(A))
  <2>1. Made(A) \subseteq Instruction
    BY MadeFits, OwnIsInstruction DEF ListedInstruction
  <2>2. a \in Seq(Instruction)
    BY <2>1, SeqSubset
  <2>3. a \o setupIxs \in Seq(Instruction)
    BY <1>1, <2>2, Concatenated
  <2> HIDE DEF Made
  <2> QED BY <2>3, NothingAdded
<1>4. \E a \in Seq(Made(A)), b \in Seq(Made(B)) : setupIxs' = (a \o setupIxs) \o b
  <2>1. setupIxs = (<<>> \o setupIxs) \o <<>>
    BY <1>1, NothingAdded
  <2>2. \A b : setupIxs \o b = (<<>> \o setupIxs) \o b
    BY <1>1, NothingAdded
  <2>3. CASE UNCHANGED setupIxs
    <3>1. setupIxs' = (<<>> \o setupIxs) \o <<>>
      BY <2>1, <2>3
    <3> QED BY <1>2, <3>1
  <2>4. CASE \E b \in Seq(Made(B)) : setupIxs' = setupIxs \o b
    <3>1. PICK b \in Seq(Made(B)) : setupIxs' = setupIxs \o b
      BY <2>4
    <3>2. setupIxs' = (<<>> \o setupIxs) \o b
      BY <2>2, <3>1
    <3> QED BY <1>2, <3>2
  <2>5. CASE \E a \in Seq(Made(A)) : setupIxs' = a \o setupIxs
    <3>1. PICK a \in Seq(Made(A)) : setupIxs' = a \o setupIxs
      BY <2>5
    <3>2. setupIxs' = (a \o setupIxs) \o <<>>
      BY <1>3, <3>1
    <3> QED BY <1>2, <3>2
  <2> QED BY <2>3, <2>4, <2>5
<1>5. /\ \E m \in Seq(Made(B)) : inBetweenIxs' = inBetweenIxs \o m
      /\ \E c \in Seq(Made(C)) : cleanupIxs' = cleanupIxs \o c
      /\ \E f \in Seq(Made({"refreshFarms"})) :
           refreshFarmsCleanupTxnIxs' = refreshFarmsCleanupTxnIxs \o f
  <2>1. /\ inBetweenIxs \o <<>> = inBetweenIxs /\ cleanupIxs \o <<>> = cleanupIxs
        /\ refreshFarmsCleanupTxnIxs \o <<>> = refreshFarmsCleanupTxnIxs
    BY <1>1, NothingAdded
  <2>2. \E m \in Seq(Made(B)) : inBetweenIxs' = inBetweenIxs \o m
    BY <1>2, <2>1
  <2>3. \E c \in Seq(Made(C)) : cleanupIxs' = cleanupIxs \o c
    BY <1>2, <2>1
  <2>4. \E f \in Seq(Made({"refreshFarms"})) :
          refreshFarmsCleanupTxnIxs' = refreshFarmsCleanupTxnIxs \o f
    BY <1>2, <2>1
  <2> QED BY <2>2, <2>3, <2>4
<1> QED BY <1>4, <1>5, Zenon DEF Growth

-----------------------------------------------------------------------------
(***************************************************************************)
(* The growth of the lists, step by step.                                  *)
(***************************************************************************)
LEMMA PushGrows ==
  ASSUME IInv, NEW A, NEW B, NEW C, NEW ixs \in Seq(Made(B)), PushSupport(ixs),
         UNCHANGED <<cleanupIxs, refreshFarmsCleanupTxnIxs>>
  PROVE  Growth(A, B, C)
<1>1. \/ UNCHANGED setupIxs
      \/ \E b \in Seq(Made(B)) : setupIxs' = setupIxs \o b
  BY DEF PushSupport
<1>2. \/ UNCHANGED inBetweenIxs
      \/ \E m \in Seq(Made(B)) : inBetweenIxs' = inBetweenIxs \o m
  BY DEF PushSupport
<1> QED BY <1>1, <1>2, GrowthFromParts

LEMMA NothingGrows ==
  ASSUME IInv, UNCHANGED <<setupIxs, inBetweenIxs, cleanupIxs, refreshFarmsCleanupTxnIxs>>,
         NEW A, NEW B, NEW C
  PROVE  Growth(A, B, C)
BY GrowthFromParts

LEMMA AccountsGrow ==
  ASSUME IInv
  PROVE  /\ AddComputeBudgetIxn => Growth({}, {"computeBudget"}, {})
         /\ AddInitUserMetadataIxs => Growth({}, {"initUserMetadata"}, {})
         /\ AddInitObligationIxs => Growth({}, {"initObligation"}, {})
         /\ AddInitReferrerTokenStateIxs => Growth({"initReferrerTokenState"}, {}, {})
<1> DEFINE missing == ({req.reserve, req.outflow} \ {NoReserve}) \ chain.tokenStates
           budget == Ix("computeBudget", NoReserve, {})
           metadata == Ix("initUserMetadata", NoReserve, {})
           obligation == Ix("initObligation", NoReserve, {})
           states == Ix("initReferrerTokenState", NoReserve, missing)
<1>1. missing \in SUBSET Reserve /\ {} \in SUBSET Reserve
  BY PassReserves
<1>2. {"computeBudget", "initUserMetadata", "initObligation", "initReferrerTokenState"}
        \subseteq SupportOp \ (PositionList \union {"initFarm"})
  BY DEF SupportOp, LendingOp, AccountOp, PositionOp, IxOp, PositionList
<1>3. /\ <<budget>> \in Seq(Made({"computeBudget"}))
      /\ <<metadata>> \in Seq(Made({"initUserMetadata"}))
      /\ <<obligation>> \in Seq(Made({"initObligation"}))
      /\ <<states>> \in Seq(Made({"initReferrerTokenState"}))
  <2> HIDE DEF missing
  <2> QED BY <1>1, <1>2, PlainMade
<1>4. \A x : Append(setupIxs, x) = setupIxs \o <<x>>
  BY ListsAreInstructions
<1> HIDE DEF missing, budget, metadata, obligation, states
<1>5. ASSUME AddComputeBudgetIxn PROVE Growth({}, {"computeBudget"}, {})
  <2>1. /\ setupIxs' = setupIxs \o <<budget>> \/ UNCHANGED setupIxs
        /\ UNCHANGED <<inBetweenIxs, cleanupIxs, refreshFarmsCleanupTxnIxs>>
    BY <1>4, <1>5 DEF AddComputeBudgetIxn, budget
  <2> QED BY <1>3, <2>1, GrowthFromParts
<1>6. ASSUME AddInitUserMetadataIxs PROVE Growth({}, {"initUserMetadata"}, {})
  <2>1. /\ setupIxs' = setupIxs \o <<metadata>> \/ UNCHANGED setupIxs
        /\ UNCHANGED <<inBetweenIxs, cleanupIxs, refreshFarmsCleanupTxnIxs>>
    BY <1>4, <1>6 DEF AddInitUserMetadataIxs, OnlySetup, metadata
  <2> QED BY <1>3, <2>1, GrowthFromParts
<1>7. ASSUME AddInitObligationIxs PROVE Growth({}, {"initObligation"}, {})
  <2>1. /\ setupIxs' = setupIxs \o <<obligation>> \/ UNCHANGED setupIxs
        /\ UNCHANGED <<inBetweenIxs, cleanupIxs, refreshFarmsCleanupTxnIxs>>
    BY <1>4, <1>7 DEF AddInitObligationIxs, OnlySetup, obligation
  <2> QED BY <1>3, <2>1, GrowthFromParts
<1>8. ASSUME AddInitReferrerTokenStateIxs PROVE Growth({"initReferrerTokenState"}, {}, {})
  <2>1. /\ setupIxs' = <<states>> \o setupIxs \/ UNCHANGED setupIxs
        /\ UNCHANGED <<inBetweenIxs, cleanupIxs, refreshFarmsCleanupTxnIxs>>
    BY <1>8 DEF AddInitReferrerTokenStateIxs, OnlySetup, states, missing
  <2> QED BY <1>3, <2>1, GrowthFromParts
<1> QED BY <1>5, <1>6, <1>7, <1>8

LEMMA CreateMade ==
  ASSUME NEW op \in {"createAta", "createColAta"}, NEW existing, NEW r \in Reserve
  PROVE  CreateIfMissing(op, existing, r) \in Seq(Made(AtaOps))
<1>1. Ix(op, r, {}) \in SetupInstruction
  BY AccountIx
<1>2. Ix(op, r, {}).op \in AtaOps
  BY DEF Ix, AtaOps
<1>3. Ix(op, r, {}) \in Made(AtaOps)
  BY <1>1, <1>2 DEF Made, ListedInstruction
<1>4. \/ CreateIfMissing(op, existing, r) = <<>>
      \/ CreateIfMissing(op, existing, r) = <<Ix(op, r, {})>>
  BY DEF CreateIfMissing
<1> HIDE DEF Ix
<1> QED BY <1>3, <1>4, ShortSeq

LEMMA WsolMade ==
  ASSUME SolReserve \in Reserve
  PROVE  wsolPreIxs \in Seq(Made(AtaOps)) /\ wsolPostIxs \in Seq(Made({"closeAta"}))
<1> DEFINE pays == CASE ~wsolExists /\ sendAction -> "rentAndAmount"
                     [] ~wsolExists /\ ~sendAction -> "rent"
                     [] wsolExists /\ sendAction -> "amount"
                     [] OTHER -> "none"
           pay == IxHow("transferLamports", SolReserve, pays)
           sync == Ix("syncNative", SolReserve, {})
           shut == Ix("closeAta", SolReserve, {})
           tail == IF ~wsolExists \/ sendAction THEN <<sync>> ELSE <<>>
           made == CreateIfMissing("createAta", chain.atas, SolReserve)
<1>1. pays \in How
  BY DEF How
<1>2. wsolPreIxs = (<<pay>> \o made) \o tail
  BY DEF wsolPreIxs
<1>3. pay \in SetupInstruction /\ sync \in SetupInstruction /\ shut \in CleanupInstruction
  <2> HIDE DEF pays
  <2> QED BY <1>1, TransferIx, AccountIx, CloseIx
<1>4. pay.op = "transferLamports" /\ sync.op = "syncNative" /\ shut.op = "closeAta"
  BY DEF IxHow, Ix
<1> HIDE DEF pays, pay, sync, shut
<1>5. pay \in Made(AtaOps) /\ sync \in Made(AtaOps) /\ shut \in Made({"closeAta"})
  BY <1>3, <1>4 DEF Made, ListedInstruction, AtaOps
<1>6. made \in Seq(Made(AtaOps))
  BY CreateMade
<1>7. tail = <<>> \/ tail = <<sync>>
  OBVIOUS
<1>8. tail \in Seq(Made(AtaOps)) /\ <<pay>> \in Seq(Made(AtaOps))
  BY <1>5, <1>7, ShortSeq
<1>9. wsolPostIxs = <<>> \/ wsolPostIxs = <<shut>>
  BY DEF wsolPostIxs, shut
<1>10. wsolPostIxs \in Seq(Made({"closeAta"}))
  BY <1>5, <1>9, ShortSeq
<1> HIDE DEF tail, made
<1>11. <<pay>> \o made \in Seq(Made(AtaOps))
  BY <1>6, <1>8, Concatenated
<1>12. (<<pay>> \o made) \o tail \in Seq(Made(AtaOps))
  BY <1>8, <1>11, Concatenated
<1> QED BY <1>2, <1>10, <1>12

LEMMA AtaMade == ASSUME IInv PROVE ataSetupIxs \in Seq(Made(AtaOps))
<1>1. \A op, existing, r :
        op \in {"createAta", "createColAta"} /\ r \in Reserve =>
          CreateIfMissing(op, existing, r) \in Seq(Made(AtaOps))
  BY CreateMade
<1>2. \A r \in Reserve :
        CreateIfMissing("createColAta", chain.colAtas, r)
        \o CreateIfMissing("createAta", chain.atas, r) \in Seq(Made(AtaOps))
  BY <1>1, Concatenated
<1>3. <<>> \in Seq(Made(AtaOps))
  OBVIOUS
<1>4. req.reserve \in Reserve
      /\ (supportAction \in TwoTokenAction \union {"liquidate"} => req.outflow \in Reserve)
  BY PassReserves
<1> DEFINE S == Seq(Made(AtaOps))
           two == CreateIfMissing("createColAta", chain.colAtas, req.outflow)
                  \o CreateIfMissing("createAta", chain.atas, req.outflow)
           mine == CreateIfMissing("createAta", chain.atas, req.reserve)
           other == CreateIfMissing("createAta", chain.atas, req.outflow)
           col == CreateIfMissing("createColAta", chain.colAtas, req.reserve)
<1>5. /\ supportAction = "liquidate" => two \in S
      /\ supportAction \in TwoTokenAction => other \in S
      /\ mine \in S /\ col \in S /\ <<>> \in S
  <2> HIDE DEF Made
  <2> QED BY <1>1, <1>2, <1>3, <1>4 DEF TwoTokenAction
<1>6. \/ supportAction = "liquidate" /\ ataSetupIxs = two
      \/ supportAction \in TwoTokenAction /\ ataSetupIxs = other
      \/ ataSetupIxs \in {mine, col, <<>>}
  <2> HIDE DEF S
  <2> DEFINE tw == two
             mi == mine
             ot == other
             co == col
  <2>1. ataSetupIxs =
          CASE supportAction \in {"withdraw", "borrow", "redeem"} /\ mint # SolReserve
                    /\ positions # POSITION_LIMIT -> mi
            [] supportAction = "liquidate" /\ ~(positions = POSITION_LIMIT /\ mint = SolReserve) ->
                 tw
            [] \/ supportAction = "depositAndBorrow"
               \/ supportAction = "repayAndWithdraw" /\ secondaryMint # SolReserve -> ot
            [] supportAction = "mint" /\ ~(positions = POSITION_LIMIT /\ mint = SolReserve) -> co
            [] OTHER -> <<>>
    BY DEF ataSetupIxs
  <2> HIDE DEF tw, mi, ot, co
  <2>2. \/ supportAction = "liquidate" /\ ataSetupIxs = tw
        \/ supportAction \in TwoTokenAction /\ ataSetupIxs = ot
        \/ ataSetupIxs \in {mi, co, <<>>}
    BY <2>1 DEF TwoTokenAction
  <2> QED BY <2>2 DEF tw, mi, ot, co
<1> HIDE DEF S, two, mine, other, col
<1>7. ataSetupIxs \in S
  BY <1>5, <1>6
<1> QED BY <1>7 DEF S

LEMMA AtaGrows == ASSUME IInv, AddAtaIxs PROVE Growth(AtaOps, {}, {"closeAta"})
<1> DEFINE pre == IF touchesSol THEN wsolPreIxs ELSE <<>>
           post == IF touchesSol THEN wsolPostIxs ELSE <<>>
           front == ataSetupIxs \o pre
<1>1. touchesSol => SolReserve \in Reserve
  BY PassReserves, ReserveAssumption DEF touchesSol
<1>2. pre \in Seq(Made(AtaOps)) /\ post \in Seq(Made({"closeAta"}))
  <2>1. CASE touchesSol
    BY <1>1, <2>1, WsolMade
  <2>2. CASE ~touchesSol
    BY <2>2
  <2> QED BY <2>1, <2>2
<1>3. /\ setupIxs' = front \o setupIxs \/ UNCHANGED setupIxs
      /\ cleanupIxs' = cleanupIxs \o post \/ UNCHANGED cleanupIxs
      /\ UNCHANGED <<inBetweenIxs, refreshFarmsCleanupTxnIxs>>
  BY DEF AddAtaIxs
<1> HIDE DEF pre, post
<1>4. front \in Seq(Made(AtaOps))
  BY <1>2, AtaMade, Concatenated
<1> HIDE DEF front
<1> QED BY <1>2, <1>3, <1>4, GrowthFromParts

LEMMA OthersGrow ==
  ASSUME IInv, AddRefreshOtherReserves PROVE Growth({}, {"refreshReserves"}, {})
<1>1. RefreshReserves(allReservesExcludingCurrent) \in Seq(Made({"refreshReserves"}))
  BY PassReserves, RefreshReservesMade
<1>2. /\ \/ PushSupport(RefreshReserves(allReservesExcludingCurrent))
         \/ UNCHANGED <<setupIxs, inBetweenIxs>>
      /\ UNCHANGED <<cleanupIxs, refreshFarmsCleanupTxnIxs>>
  BY DEF AddRefreshOtherReserves, OnlySupport
<1> QED BY <1>1, <1>2, PushGrows, NothingGrows

\* The farm states a pass creates.
InitFarmsFor(m) ==
  LET S == {r \in Reserve : <<r, m>> \in farmStatesNeeded \ chain.farms}
  IN  IF S = {} THEN <<>> ELSE <<[Ix("initFarm", NoReserve, S) EXCEPT !.how = m]>>

LEMMA InitFarmsPushed ==
  ASSUME AddInitObligationForFarms
  PROVE  PushSupport(IF phase = "setup" THEN InitFarmsFor("coll") \o InitFarmsFor("debt")
                     ELSE <<>>)
BY DEF AddInitObligationForFarms, InitFarmsFor

LEMMA InitFarmsMade == \A m \in Mode : InitFarmsFor(m) \in Seq(Made({"initFarm"}))
<1> TAKE m \in Mode
<1> DEFINE S == {r \in Reserve : <<r, m>> \in farmStatesNeeded \ chain.farms}
           x == [Ix("initFarm", NoReserve, S) EXCEPT !.how = m]
<1>1. S \in SUBSET Reserve
  OBVIOUS
<1>2. InitFarmsFor(m) = <<>> \/ InitFarmsFor(m) = <<x>>
  BY DEF InitFarmsFor
<1>3. x.op = "initFarm"
  BY DEF Ix
<1> HIDE DEF S
<1>4. x \in SupportInstruction
  BY <1>1, InitFarmIx
<1> HIDE DEF x
<1>5. x \in Made({"initFarm"})
  BY <1>3, <1>4, MadeFits DEF Made
<1> QED BY <1>2, <1>5, ShortSeq

LEMMA InitFarmsGrow ==
  ASSUME IInv, AddInitObligationForFarms PROVE Growth({}, {"initFarm"}, {})
<1> DEFINE block == IF phase = "setup" THEN InitFarmsFor("coll") \o InitFarmsFor("debt") ELSE <<>>
<1>1. InitFarmsFor("coll") \in Seq(Made({"initFarm"})) /\ InitFarmsFor("debt") \in Seq(Made({"initFarm"}))
  BY InitFarmsMade DEF Mode
<1>2. block \in Seq(Made({"initFarm"}))
  <2> HIDE DEF Made
  <2> QED BY <1>1, Concatenated
<1>3. PushSupport(block)
  BY InitFarmsPushed
<1> HIDE DEF block
<1>4. UNCHANGED <<cleanupIxs, refreshFarmsCleanupTxnIxs>>
  BY DEF AddInitObligationForFarms, OnlySupport
<1> QED BY <1>2, <1>3, <1>4, PushGrows

LEMMA CurrentMade ==
  ASSUME IInv, NEW skip \in BOOLEAN
  PROVE  RefreshReserves(currentReserves) \o RefreshObligation(skip) \in Seq(Made(RefreshOps))
<1>1. /\ {"refreshReserves"} \subseteq RefreshOps /\ {"refreshObligation"} \subseteq RefreshOps
      /\ 0 \in GroupId
  BY DEF RefreshOps, GroupId
<1>2. /\ RefreshReserves(currentReserves) \in Seq(Made({"refreshReserves"}))
      /\ RefreshObligation(skip) \in Seq(Made({"refreshObligation"}))
  BY <1>1, PassReserves, RefreshReservesMade, PositionMade
<1>3. /\ RefreshReserves(currentReserves) \in Seq(Made(RefreshOps))
      /\ RefreshObligation(skip) \in Seq(Made(RefreshOps))
  BY <1>1, <1>2, MadeMore
<1> HIDE DEF Made
<1> QED BY <1>3, Concatenated

LEMMA CurrentGrows == ASSUME IInv, AddRefreshCurrent PROVE Growth({}, RefreshOps, {})
<1> DEFINE skip == /\ supportAction = "repayAndWithdraw"
                   /\ phase = "inBetween" /\ req.closing
           block == RefreshReserves(currentReserves) \o RefreshObligation(skip)
<1>1. skip \in BOOLEAN
  OBVIOUS
<1>2. PushSupport(block) /\ UNCHANGED <<cleanupIxs, refreshFarmsCleanupTxnIxs>>
  BY DEF AddRefreshCurrent, OnlySupport
<1> HIDE DEF skip
<1>3. block \in Seq(Made(RefreshOps))
  BY <1>1, CurrentMade
<1> HIDE DEF block
<1> QED BY <1>2, <1>3, PushGrows

LEMMA FarmsGrow == ASSUME IInv, AddRefreshFarms PROVE Growth({}, {"refreshFarms"}, {})
<1>1. farmRefreshIxs \in Seq(Made({"refreshFarms"}))
  BY FarmRefreshMade
<1>2. /\ setupIxs' = setupIxs \o farmRefreshIxs \/ UNCHANGED setupIxs
      /\ inBetweenIxs' = inBetweenIxs \o farmRefreshIxs \/ UNCHANGED inBetweenIxs
      /\ UNCHANGED cleanupIxs
      /\ \/ refreshFarmsCleanupTxnIxs' = refreshFarmsCleanupTxnIxs \o farmRefreshIxs
         \/ UNCHANGED refreshFarmsCleanupTxnIxs
  BY DEF AddRefreshFarms
<1> HIDE DEF Made
<1> QED BY <1>1, <1>2, GrowthFromParts

\* The steps of the support passes whose pieces are of one kind.
LEMMA PassGrows ==
  ASSUME IInv
  PROVE  /\ AddScopeRefreshIxs => Growth({}, {}, {})
         /\ AddAtaIxs => Growth(AtaOps, {}, {"closeAta"})
         /\ AddRefreshOtherReserves => Growth({}, {"refreshReserves"}, {})
         /\ AddInitObligationForFarms => Growth({}, {"initFarm"}, {})
         /\ AddRefreshCurrent => Growth({}, RefreshOps, {})
         /\ AddRefreshFarms => Growth({}, {"refreshFarms"}, {})
<1>1. AddScopeRefreshIxs => Growth({}, {}, {})
  BY NothingGrows DEF AddScopeRefreshIxs
<1> QED BY <1>1, AtaGrows, OthersGrow, InitFarmsGrow, CurrentGrows, FarmsGrow

\* Every lending step but the two that end the build leaves the lists around.
LEMMA LendingGrows ==
  ASSUME IInv, AddLendingIx, ~AddRefreshObligation, ~AddWithdrawReferrerFees
  PROVE  UNCHANGED <<setupIxs, inBetweenIxs, cleanupIxs, refreshFarmsCleanupTxnIxs, preTxnIxs>>
BY DEF AddLendingIx, AddDepositIx, AddDepositReserveLiquidityIx, AddRedeemReserveCollateralIx,
       AddDepositObligationCollateralIx, AddWithdrawIx, AddBorrowIx, AddRepayIx, AddLiquidateIx,
       AddPlainIx, AddDebtIx, AddDepositAndBorrowIx, AddRepayAndWithdrawIxs, OnlyLending

-----------------------------------------------------------------------------
(***************************************************************************)
(* The group of the obligation while the transaction runs: only a request  *)
(* for a group changes it.                                                 *)
(***************************************************************************)
LEMMA AfterTyped ==
  ASSUME IInv, NEW x \in ListedInstruction, NEW s \in Machine
  PROVE  After(x, s) \in Machine
<1>1. s[1] \in Chain /\ s[2] \in VMType
  BY DEF Machine
<1>2. x \in Instruction /\ req \in Request
  BY OwnIsInstruction DEF ListedInstruction, IInv, StateSound
<1>3. LedgerAfter(x, s[1]) \in Chain
  BY <1>1, LedgerAfterTyped
<1>4. VMAfter(x, s[2]) \in VMType
  BY <1>1, <1>2, VMEffect
<1> QED BY <1>3, <1>4 DEF After, Machine

QuietOp == IxOp \ {"requestElevationGroup"}

\* The states in which the group is one of Q.
GI(Q) == {s \in Machine : s[1].group \in Q}

\* A list that takes the obligation from the groups of P to those of Q.
Moves(q, P, Q) == Runs("none", q, GI(P), GI(Q))

LEMMA QuietLeads ==
  ASSUME IInv, NEW Q, NEW x \in Made(QuietOp)
  PROVE  Leads("none", x, GI(Q), GI(Q))
<1> SUFFICES ASSUME NEW s \in GI(Q)
             PROVE  Admits("none", x, s) /\ After(x, s) \in GI(Q)
  BY DEF Leads
<1>1. x \in ListedInstruction /\ x.op # "requestElevationGroup"
  BY DEF Made, QuietOp
<1>2. s \in Machine /\ s[1] \in Chain /\ s[1].group \in Q
  BY DEF GI, Machine
<1>3. After(x, s) \in Machine
  BY <1>1, <1>2, AfterTyped
<1>4. LedgerAfter(x, s[1]).group = s[1].group
  BY <1>1, <1>2 DEF LedgerAfter, Chain
<1>5. After(x, s)[1] = LedgerAfter(x, s[1])
  BY DEF After
<1>6. Admits("none", x, s)
  BY DEF Admits
<1> QED BY <1>2, <1>3, <1>4, <1>5, <1>6 DEF GI

LEMMA QuietMoves ==
  ASSUME IInv, NEW Q, NEW q \in Seq(Made(QuietOp))
  PROVE  Moves(q, Q, Q)
<1>1. \A x \in Made(QuietOp) : Leads("none", x, GI(Q), GI(Q))
  BY QuietLeads
<1>2. GI(Q) \in SUBSET Machine
  BY DEF GI
<1> QED BY <1>1, <1>2, RunsSkip DEF Moves

LEMMA AskMoves ==
  ASSUME IInv, NEW P, NEW Q, NEW g \in GroupId, g \in Q, NEW skip \in BOOLEAN
  PROVE  Moves(RequestElevation(g, skip), P, Q)
<1> DEFINE x == PositionAccounts("requestElevationGroup", g, skip)
<1>1. x \in ListedInstruction
  BY PositionMade DEF Made
<1>2. x.op = "requestElevationGroup" /\ x.grp = g
  BY DEF PositionAccounts, Ix
<1>3. RequestElevation(g, skip) = <<x>>
  BY DEF RequestElevation
<1> HIDE DEF x
<1>4. ASSUME NEW s \in GI(P) PROVE Admits("none", x, s) /\ After(x, s) \in GI(Q)
  <2>1. s \in Machine /\ s[1] \in Chain
    BY DEF GI, Machine
  <2>2. After(x, s) \in Machine
    BY <1>1, <2>1, AfterTyped
  <2>3. LedgerAfter(x, s[1]).group = g
    BY <1>2, <2>1 DEF LedgerAfter, Chain
  <2>4. After(x, s)[1] = LedgerAfter(x, s[1]) /\ Admits("none", x, s)
    BY DEF After, Admits
  <2> QED BY <2>2, <2>3, <2>4 DEF GI
<1>5. Leads("none", x, GI(P), GI(Q))
  BY <1>4 DEF Leads
<1>6. GI(P) \in SUBSET Machine /\ GI(Q) \in SUBSET Machine
  BY DEF GI
<1>7. Runs("none", <<x>>, GI(P), GI(Q))
  BY <1>5, <1>6, RunsOne
<1> QED BY <1>3, <1>7 DEF Moves

LEMMA MovesConcat ==
  ASSUME NEW p \in Seq(ListedInstruction), NEW q \in Seq(ListedInstruction), NEW P, NEW Q, NEW R,
         Moves(p, P, Q), Moves(q, Q, R)
  PROVE  Moves(p \o q, P, R)
BY RunsConcat DEF Moves

LEMMA QuietListed ==
  /\ \A q \in Seq(Made(QuietOp)) : q \in Seq(ListedInstruction)
  /\ \A ops, q : ops \subseteq QuietOp /\ q \in Seq(Made(ops)) => q \in Seq(Made(QuietOp))
<1>1. Made(QuietOp) \subseteq ListedInstruction
  BY DEF Made
<1> QED BY <1>1, SeqSubset, MadeMore

LEMMA AroundMoves ==
  ASSUME IInv, NEW a \in Seq(Made(QuietOp)), NEW q \in Seq(ListedInstruction),
         NEW b \in Seq(Made(QuietOp)), NEW P, NEW Q, Moves(q, P, Q)
  PROVE  Moves((a \o q) \o b, P, Q)
<1>1. a \in Seq(ListedInstruction) /\ b \in Seq(ListedInstruction)
  BY QuietListed
<1>2. Moves(a, P, P) /\ Moves(b, Q, Q)
  BY QuietMoves
<1>3. Moves(a \o q, P, Q)
  BY <1>1, <1>2, MovesConcat
<1>4. a \o q \in Seq(ListedInstruction)
  BY <1>1, Concatenated
<1> QED BY <1>1, <1>2, <1>3, <1>4, MovesConcat

LEMMA BehindMoves ==
  ASSUME IInv, NEW q \in Seq(ListedInstruction), NEW b \in Seq(Made(QuietOp)),
         NEW P, NEW Q, Moves(q, P, Q)
  PROVE  Moves(q \o b, P, Q)
<1>1. b \in Seq(ListedInstruction)
  BY QuietListed
<1>2. Moves(b, Q, Q)
  BY QuietMoves
<1> QED BY <1>1, <1>2, MovesConcat

\* A switch of the group, and the leaving of one in the cleanup.
LEMMA SwitchMoves ==
  ASSUME IInv, NEW g \in GroupId, NEW P, NEW Q, g \in Q
  PROVE  /\ Moves(SwitchGroup(g), P, Q)
         /\ SwitchGroup(g) \in Seq(ListedInstruction)
<1> DEFINE others == RefreshReserves(allReservesExcludingCurrent)
           current == RefreshReserves(currentReserves)
<1>1. others \in Seq(Made({"refreshReserves"})) /\ current \in Seq(Made({"refreshReserves"}))
  BY PassReserves, RefreshReservesMade
<1>2. RefreshObligation(FALSE) \in Seq(Made({"refreshObligation"}))
  BY PositionMade
<1>3. {"refreshReserves"} \subseteq QuietOp /\ {"refreshObligation"} \subseteq QuietOp
  BY DEF QuietOp, IxOp
<1>4. /\ others \in Seq(Made(QuietOp)) /\ current \in Seq(Made(QuietOp))
      /\ RefreshObligation(FALSE) \in Seq(Made(QuietOp))
  BY <1>1, <1>2, <1>3, QuietListed
<1>5. Moves(RequestElevation(g, FALSE), P, Q)
  BY AskMoves
<1>6. RequestElevation(g, FALSE) \in Seq(ListedInstruction)
  <2>1. RequestElevation(g, FALSE) \in Seq(Made({"requestElevationGroup"}))
    BY PositionMade
  <2> QED BY <2>1, MadeFits, SeqSubset
<1>7. SwitchGroup(g) = RequestElevation(g, FALSE) \o others \o current \o RefreshObligation(FALSE)
  BY DEF SwitchGroup
<1> HIDE DEF others, current
<1>8. /\ Moves(RequestElevation(g, FALSE) \o others, P, Q)
      /\ RequestElevation(g, FALSE) \o others \in Seq(ListedInstruction)
  BY <1>4, <1>5, <1>6, BehindMoves, QuietListed, Concatenated
<1>9. /\ Moves(RequestElevation(g, FALSE) \o others \o current, P, Q)
      /\ RequestElevation(g, FALSE) \o others \o current \in Seq(ListedInstruction)
  BY <1>4, <1>8, BehindMoves, QuietListed, Concatenated
<1> QED BY <1>4, <1>7, <1>9, BehindMoves, QuietListed, Concatenated

LEMMA LeaveMoves ==
  ASSUME IInv, NEW g \in GroupId, NEW P, NEW q \in Seq(Made(QuietOp))
  PROVE  Moves(q \o RefreshReserves(allReservesExcludingCurrent) \o RefreshObligation(TRUE)
                 \o RequestElevation(g, TRUE), P, {g})
<1> DEFINE others == RefreshReserves(allReservesExcludingCurrent)
<1>1. others \in Seq(Made({"refreshReserves"}))
  BY PassReserves, RefreshReservesMade
<1>2. RefreshObligation(TRUE) \in Seq(Made({"refreshObligation"}))
  BY PositionMade
<1>3. {"refreshReserves"} \subseteq QuietOp /\ {"refreshObligation"} \subseteq QuietOp
  BY DEF QuietOp, IxOp
<1>4. others \in Seq(Made(QuietOp)) /\ RefreshObligation(TRUE) \in Seq(Made(QuietOp))
  BY <1>1, <1>2, <1>3, QuietListed
<1> HIDE DEF others
<1>5. q \o others \o RefreshObligation(TRUE) \in Seq(Made(QuietOp))
  <2> HIDE DEF Made
  <2>1. q \o others \in Seq(Made(QuietOp))
    BY <1>4, Concatenated
  <2> QED BY <1>4, <2>1, Concatenated
<1>6. Moves(q \o others \o RefreshObligation(TRUE), P, P)
  BY <1>5, QuietMoves
<1>7. RequestElevation(g, TRUE) \in Seq(ListedInstruction)
  <2>1. RequestElevation(g, TRUE) \in Seq(Made({"requestElevationGroup"}))
    BY PositionMade
  <2> QED BY <2>1, MadeFits, SeqSubset
<1>8. Moves(RequestElevation(g, TRUE), P, {g})
  BY AskMoves
<1>9. q \o others \o RefreshObligation(TRUE) \in Seq(ListedInstruction)
  BY <1>5, QuietListed
<1>10. Moves((q \o others \o RefreshObligation(TRUE)) \o RequestElevation(g, TRUE), P, {g})
  BY <1>6, <1>7, <1>8, <1>9, MovesConcat
<1> QED BY <1>10 DEF others

-----------------------------------------------------------------------------
(***************************************************************************)
(* The groups each list of a build goes through.                           *)
(***************************************************************************)
PastElevation == pc \in {"farms", "lending", "splice", "built"} \/ phase = "inBetween"
PastSecond == phase = "inBetween" /\ pc \in {"farms", "splice", "built"}

Elevating == req.elevate /\ req.action \in {"deposit", "borrow", "repay", "repayAndWithdraw",
                                            "depositAndBorrow"}
Overrides == req.elevate /\ req.override # NoOverride /\ req.action \in {"deposit", "borrow"}
Repays == req.elevate /\ req.action \in {"repay", "repayAndWithdraw"}
Borrows == req.elevate /\ req.action = "depositAndBorrow"

\* The cleanup leaves the group.
Leaves ==
  Repays /\ req.level >= 1 /\ Cardinality(known.borrows) = 1 /\ known.group # 0

\* The groups as good as any the deposited and the borrowed reserve share.
BestReached ==
  {g \in GroupId : \A h \in commonElevationGroups(req.reserve, req.outflow) :
                     g # 0 /\ GroupLtv[h] <= GroupLtv[g]}

setupGroups ==
  IF (Overrides /\ PastElevation) \/ (req.action = "requestElevationGroup" /\ pc = "built")
  THEN {req.override}
  ELSE IF req.elevate /\ req.override = NoOverride /\ req.action = "borrow" THEN GroupId
  ELSE {known.group}

betweenGroups == IF Borrows /\ PastSecond THEN BestReached ELSE {known.group}

GroupBuilt ==
  pc # "thrown" =>
    /\ Moves(setupIxs, {known.group}, setupGroups)
    /\ Moves(inBetweenIxs, {known.group}, betweenGroups)
    /\ ~Borrows => inBetweenIxs \in Seq(Made(QuietOp))
    /\ Leaves /\ PastElevation => Moves(cleanupIxs, {known.group}, {0})
    /\ ~(Leaves /\ PastElevation) => cleanupIxs \in Seq(Made(QuietOp))
    /\ refreshFarmsCleanupTxnIxs \in Seq(Made({"refreshFarms"}))
    /\ Repays /\ PastElevation => req.reserve \in known.borrows
    /\ pc = "elevation" => req.elevate

LEMMA MovesSame ==
  ASSUME UNCHANGED <<req, referrer>>, NEW q, NEW P, NEW Q
  PROVE  Moves(q, P, Q)' <=> Moves(q, P, Q)
<1>1. PICK S, T : S = GI(P) /\ T = GI(Q)
  OBVIOUS
<1>2. Runs("none", q, S, T)' <=> Runs("none", q, S, T)
  BY RunsSame
<1> QED BY <1>1, <1>2 DEF Moves, GI, Machine

LEMMA MadeSame == ASSUME UNCHANGED <<req, known>>, NEW ops PROVE Made(ops)' = Made(ops)
BY SameListed DEF Made

\* What a step has to establish, before the step.
LEMMA GroupPrimed ==
  ASSUME UNCHANGED <<req, referrer, known>>,
         pc' # "thrown" =>
           /\ Moves(setupIxs', {known.group}, setupGroups')
           /\ Moves(inBetweenIxs', {known.group}, betweenGroups')
           /\ ~Borrows => inBetweenIxs' \in Seq(Made(QuietOp))
           /\ Leaves /\ PastElevation' => Moves(cleanupIxs', {known.group}, {0})
           /\ ~(Leaves /\ PastElevation') => cleanupIxs' \in Seq(Made(QuietOp))
           /\ refreshFarmsCleanupTxnIxs' \in Seq(Made({"refreshFarms"}))
           /\ Repays /\ PastElevation' => req.reserve \in known.borrows
           /\ pc' = "elevation" => req.elevate
  PROVE  GroupBuilt'
<1> SUFFICES ASSUME pc' # "thrown" PROVE GroupBuilt'
  BY DEF GroupBuilt
<1>1. Leaves' = Leaves /\ Repays' = Repays /\ Borrows' = Borrows
  BY DEF Leaves, Repays, Borrows
<1>2. PICK k, z : k = {known.group} /\ z = {0}
  OBVIOUS
<1>3. k = {known'.group}
  BY <1>2
<1>4. PICK s, b, P, Q, c : s = setupIxs' /\ b = inBetweenIxs' /\ P = setupGroups' /\ Q = betweenGroups'
                           /\ c = cleanupIxs'
  OBVIOUS
<1>5. Moves(s, k, P)' /\ Moves(b, k, Q)'
  BY <1>2, <1>4, MovesSame
<1>6. Moves(setupIxs, {known.group}, setupGroups)' /\ Moves(inBetweenIxs, {known.group}, betweenGroups)'
  BY <1>3, <1>4, <1>5
<1>7. Leaves /\ PastElevation' => Moves(c, k, z)'
  BY <1>2, <1>4, MovesSame
<1>8. Leaves /\ PastElevation' => Moves(cleanupIxs, {known.group}, {0})'
  BY <1>2, <1>3, <1>4, <1>7
<1>9. Made(QuietOp)' = Made(QuietOp) /\ Made({"refreshFarms"})' = Made({"refreshFarms"})
  BY MadeSame
<1>10. /\ ~(Leaves /\ PastElevation)' => (cleanupIxs \in Seq(Made(QuietOp)))'
       /\ ~Borrows' => (inBetweenIxs \in Seq(Made(QuietOp)))'
       /\ (refreshFarmsCleanupTxnIxs \in Seq(Made({"refreshFarms"})))'
  BY <1>1, <1>9
<1>11. (Repays /\ PastElevation => req.reserve \in known.borrows)'
  BY <1>1
<1> QED BY <1>1, <1>6, <1>8, <1>10, <1>11 DEF GroupBuilt

\* Before anything is built.
NothingBuilt ==
  /\ IInv /\ phase = "setup"
  /\ setupIxs = <<>> /\ inBetweenIxs = <<>> /\ cleanupIxs = <<>>
  /\ refreshFarmsCleanupTxnIxs = <<>>
  /\ \/ pc \in {"initialize", "budget", "thrown"}
     \/ pc = "lending" /\ req.action = "withdrawReferrerFees"

LEMMA GroupEmpty == NothingBuilt => GroupBuilt
<1> SUFFICES ASSUME NothingBuilt, pc # "thrown" PROVE GroupBuilt
  BY DEF GroupBuilt
<1> USE DEF NothingBuilt
<1>1. \A X : <<>> \in Seq(X)
  OBVIOUS
<1>2. \A Q : Moves(<<>>, Q, Q)
  BY <1>1, QuietMoves
<1>3. Moves(<<>>, {known.group}, {known.group})
  BY <1>2
<1>4. known.group \in GroupId
  BY DEF IInv, StateSound, Chain
<1>5. Moves(<<>>, {known.group}, GroupId)
  <2>1. Moves(<<>>, GroupId, GroupId)
    BY <1>2
  <2>2. GI({known.group}) \subseteq GI(GroupId)
    BY <1>4 DEF GI
  <2> QED BY <2>1, <2>2, RunsWeaken DEF Moves
<1>6. setupGroups = {known.group} \/ setupGroups = GroupId
  BY DEF setupGroups, Overrides, PastElevation
<1>7. ~(Leaves /\ PastElevation) /\ ~(Repays /\ PastElevation) /\ betweenGroups = {known.group}
  BY DEF Leaves, Repays, PastElevation, PastSecond, betweenGroups
<1> QED BY <1>1, <1>3, <1>5, <1>6, <1>7 DEF GroupBuilt

LEMMA GroupEmptyNext == NothingBuilt' => GroupBuilt'
BY GroupEmpty, PTL

LEMMA ListsListed ==
  ASSUME IInv
  PROVE  /\ setupIxs \in Seq(ListedInstruction) /\ inBetweenIxs \in Seq(ListedInstruction)
         /\ lendingIxs \in Seq(ListedInstruction) /\ cleanupIxs \in Seq(ListedInstruction)
         /\ refreshFarmsCleanupTxnIxs \in Seq(ListedInstruction)
BY SupportFits, SeqSubset DEF IInv, ListsSound, ListedInstruction

\* Pieces that ask for no group.
LEMMA GroupGrown ==
  ASSUME IInv, GroupBuilt, pc # "thrown", UNCHANGED <<req, referrer, known>>,
         Growth(QuietOp, QuietOp, QuietOp),
         Elevating => (PastElevation' <=> PastElevation),
         Borrows => (PastSecond' <=> PastSecond),
         req.action = "requestElevationGroup" => pc # "built" /\ pc' # "built",
         pc' = "elevation" => req.elevate
  PROVE  GroupBuilt'
<1>1. PICK a \in Seq(Made(QuietOp)), b \in Seq(Made(QuietOp)), m \in Seq(Made(QuietOp)),
           c \in Seq(Made(QuietOp)), f \in Seq(Made({"refreshFarms"})) :
        /\ setupIxs' = (a \o setupIxs) \o b
        /\ inBetweenIxs' = inBetweenIxs \o m
        /\ cleanupIxs' = cleanupIxs \o c
        /\ refreshFarmsCleanupTxnIxs' = refreshFarmsCleanupTxnIxs \o f
  BY Zenon DEF Growth
<1>2. /\ setupIxs \in Seq(ListedInstruction) /\ inBetweenIxs \in Seq(ListedInstruction)
      /\ cleanupIxs \in Seq(ListedInstruction)
  BY ListsListed
<1>3. setupGroups' = setupGroups /\ betweenGroups' = betweenGroups
  <2>1. /\ Overrides' = Overrides /\ Borrows' = Borrows
        /\ Overrides => (PastElevation' <=> PastElevation)
    BY DEF Elevating, Overrides, Borrows
  <2>2. setupGroups' = setupGroups
    BY <2>1 DEF setupGroups
  <2>3. betweenGroups' = betweenGroups
    BY <2>1 DEF betweenGroups, BestReached, commonElevationGroups
  <2> QED BY <2>2, <2>3
<1>4. /\ Leaves => (PastElevation' <=> PastElevation)
      /\ Repays => (PastElevation' <=> PastElevation)
  BY DEF Leaves, Repays, Elevating
<1>5. Moves((a \o setupIxs) \o b, {known.group}, setupGroups)
  BY <1>2, AroundMoves DEF GroupBuilt
<1>6. Moves(inBetweenIxs \o m, {known.group}, betweenGroups)
  BY <1>2, BehindMoves DEF GroupBuilt
<1>7. Leaves /\ PastElevation => Moves(cleanupIxs \o c, {known.group}, {0})
  BY <1>2, BehindMoves DEF GroupBuilt
<1>8. /\ ~(Leaves /\ PastElevation) => cleanupIxs \o c \in Seq(Made(QuietOp))
      /\ ~Borrows => inBetweenIxs \o m \in Seq(Made(QuietOp))
      /\ refreshFarmsCleanupTxnIxs \o f \in Seq(Made({"refreshFarms"}))
  <2> HIDE DEF Made
  <2>1. ~(Leaves /\ PastElevation) => cleanupIxs \o c \in Seq(Made(QuietOp))
    BY Concatenated DEF GroupBuilt
  <2>2. ~Borrows => inBetweenIxs \o m \in Seq(Made(QuietOp))
    BY Concatenated DEF GroupBuilt
  <2>3. refreshFarmsCleanupTxnIxs \o f \in Seq(Made({"refreshFarms"}))
    BY Concatenated DEF GroupBuilt
  <2> QED BY <2>1, <2>2, <2>3
<1>9. Repays /\ PastElevation => req.reserve \in known.borrows
  BY DEF GroupBuilt
<1> HIDE DEF Made
<1>10. /\ Moves(setupIxs', {known.group}, setupGroups')
       /\ Moves(inBetweenIxs', {known.group}, betweenGroups')
  BY <1>1, <1>3, <1>5, <1>6
<1>11. /\ Leaves /\ PastElevation' => Moves(cleanupIxs', {known.group}, {0})
       /\ ~(Leaves /\ PastElevation') => cleanupIxs' \in Seq(Made(QuietOp))
       /\ ~Borrows => inBetweenIxs' \in Seq(Made(QuietOp))
       /\ refreshFarmsCleanupTxnIxs' \in Seq(Made({"refreshFarms"}))
  BY <1>1, <1>4, <1>7, <1>8, Zenon
<1> QED BY <1>4, <1>9, <1>10, <1>11, GroupPrimed

LEMMA QuietGrowth ==
  ASSUME NEW A, NEW B, NEW C, A \subseteq QuietOp, B \subseteq QuietOp, C \subseteq QuietOp,
         Growth(A, B, C)
  PROVE  Growth(QuietOp, QuietOp, QuietOp)
<1>1. PICK a \in Seq(Made(A)), b \in Seq(Made(B)), m \in Seq(Made(B)),
           c \in Seq(Made(C)), f \in Seq(Made({"refreshFarms"})) :
        /\ setupIxs' = (a \o setupIxs) \o b
        /\ inBetweenIxs' = inBetweenIxs \o m
        /\ cleanupIxs' = cleanupIxs \o c
        /\ refreshFarmsCleanupTxnIxs' = refreshFarmsCleanupTxnIxs \o f
  BY Zenon DEF Growth
<1>2. a \in Seq(Made(QuietOp)) /\ b \in Seq(Made(QuietOp)) /\ m \in Seq(Made(QuietOp))
      /\ c \in Seq(Made(QuietOp))
  BY MadeMore
<1> QED BY <1>1, <1>2, Zenon DEF Growth

\* Every step of a pass but the one for the elevation group.
LEMMA GroupPass ==
  ASSUME IInv, ShapeSound, GroupBuilt, UNCHANGED <<req, referrer, known>>,
         \/ AddComputeBudgetIxn \/ AddInitUserMetadataIxs \/ AddInitObligationIxs
         \/ AddInitReferrerTokenStateIxs \/ AddScopeRefreshIxs \/ AddAtaIxs
         \/ AddRefreshOtherReserves \/ AddInitObligationForFarms \/ AddRefreshCurrent
         \/ AddRefreshFarms
  PROVE  GroupBuilt'
<1>1. Growth(QuietOp, QuietOp, QuietOp)
  <2>1. /\ {} \subseteq QuietOp /\ {"computeBudget"} \subseteq QuietOp
        /\ {"initUserMetadata"} \subseteq QuietOp
        /\ {"initObligation"} \subseteq QuietOp /\ {"initReferrerTokenState"} \subseteq QuietOp
        /\ AtaOps \subseteq QuietOp /\ {"closeAta"} \subseteq QuietOp
        /\ {"refreshReserves"} \subseteq QuietOp /\ {"initFarm"} \subseteq QuietOp
        /\ RefreshOps \subseteq QuietOp /\ {"refreshFarms"} \subseteq QuietOp
    BY DEF QuietOp, IxOp, AtaOps, RefreshOps
  <2>2. CASE AddComputeBudgetIxn
    BY <2>1, <2>2, AccountsGrow, QuietGrowth
  <2>3. CASE AddInitUserMetadataIxs
    BY <2>1, <2>3, AccountsGrow, QuietGrowth
  <2>4. CASE AddInitObligationIxs
    BY <2>1, <2>4, AccountsGrow, QuietGrowth
  <2>5. CASE AddInitReferrerTokenStateIxs
    BY <2>1, <2>5, AccountsGrow, QuietGrowth
  <2>6. CASE AddScopeRefreshIxs
    BY <2>1, <2>6, PassGrows, QuietGrowth
  <2>7. CASE AddAtaIxs
    BY <2>1, <2>7, PassGrows, QuietGrowth
  <2>8. CASE AddRefreshOtherReserves
    BY <2>1, <2>8, PassGrows, QuietGrowth
  <2>9. CASE AddInitObligationForFarms
    BY <2>1, <2>9, PassGrows, QuietGrowth
  <2>10. CASE AddRefreshCurrent
    BY <2>1, <2>10, PassGrows, QuietGrowth
  <2>11. CASE AddRefreshFarms
    BY <2>1, <2>11, PassGrows, QuietGrowth
  <2> QED BY <2>2, <2>3, <2>4, <2>5, <2>6, <2>7, <2>8, <2>9, <2>10, <2>11
<1>2. phase' = phase /\ phase \in {"setup", "inBetween"}
  BY DEF AddComputeBudgetIxn, AddInitUserMetadataIxs, AddInitObligationIxs,
         AddInitReferrerTokenStateIxs, AddScopeRefreshIxs, AddAtaIxs, AddRefreshOtherReserves,
         AddInitObligationForFarms, AddRefreshCurrent, AddRefreshFarms, OnlySetup, OnlySupport,
         IInv, StateSound
<1>3. CASE pc' = "thrown"
  BY <1>3 DEF GroupBuilt
<1>4. CASE pc' # "thrown"
  <2>1. \/ pc = "budget" /\ pc' = IF req.action \in ObligationOnly THEN "lending" ELSE "scope"
        \/ pc = "scope" /\ pc' \in {"ata", "metadata"}
        \/ pc = "metadata" /\ pc' = "referrer"
        \/ pc = "referrer" /\ pc' = "initObligation"
        \/ pc = "initObligation" /\ pc' = "ata"
        \/ pc = "ata" /\ pc' = IF req.action \in {"mint", "redeem"} THEN "lending" ELSE "others"
        \/ pc = "others" /\ pc' = "initFarms"
        \/ pc = "initFarms" /\ pc' = "current"
        \/ pc = "current" /\ pc' = IF req.elevate THEN "elevation" ELSE "farms"
        \/ pc = "farms" /\ pc' = IF phase = "setup" THEN "lending" ELSE "splice"
    BY <1>2, <1>4 DEF AddComputeBudgetIxn, AddInitUserMetadataIxs, AddInitObligationIxs,
       AddInitReferrerTokenStateIxs, AddScopeRefreshIxs, AddAtaIxs, AddRefreshOtherReserves,
       AddInitObligationForFarms, AddRefreshCurrent, AddRefreshFarms, Throw
  <2>2. pc # "thrown" /\ (pc' = "elevation" => req.elevate)
        /\ (req.action = "requestElevationGroup" => pc # "built" /\ pc' # "built")
    BY <2>1
  <2>3. Elevating => (PastElevation' <=> PastElevation)
    BY <1>2, <2>1 DEF Elevating, PastElevation, ObligationOnly
  <2>4. Borrows => (PastSecond' <=> PastSecond)
    BY <1>2, <2>1 DEF Borrows, PastSecond, ObligationOnly
  <2> QED BY <1>1, <2>2, <2>3, <2>4, GroupGrown
<1> QED BY <1>3, <1>4

\* The elevation part.  The lists it has not to do with stay.
LEMMA ElevationPast ==
  ASSUME IInv, ShapeSound, GroupBuilt, AddRequestElevation
  PROVE  /\ pc = "elevation" /\ req.elevate /\ UNCHANGED <<loaded, phase, refreshFarmsCleanupTxnIxs>>
         /\ phase \in {"setup", "inBetween"} /\ (phase = "inBetween" => twoToken)
         /\ pc' \in {"farms", "thrown"} /\ pc # "thrown"
         /\ PastElevation <=> phase = "inBetween"
         /\ pc' # "thrown" => PastElevation' /\ (PastSecond' <=> phase = "inBetween")
         /\ ~PastSecond
<1>1. pc = "elevation" /\ UNCHANGED <<loaded, phase, refreshFarmsCleanupTxnIxs>>
  BY DEF AddRequestElevation, OnlyElevation
<1>2. pc' \in {"farms", "thrown"}
  <2>1. ASSUME NEW g, ElevationFor(g) PROVE pc' \in {"farms", "thrown"}
    BY <2>1 DEF ElevationFor, Throw
  <2>2. CASE RequestGroupOnBorrow
    BY <2>1, <2>2 DEF RequestGroupOnBorrow, Throw
  <2>3. CASE RequestGroupOnRepay \/ RequestGroupOnDeposit \/ NoGroupRequest
    BY <2>3 DEF RequestGroupOnRepay, RequestGroupOnDeposit, NoGroupRequest, Throw
  <2> QED BY <2>2, <2>3 DEF AddRequestElevation
<1>3. phase \in {"setup", "inBetween"} /\ (phase = "inBetween" => twoToken) /\ req.elevate
  BY <1>1 DEF IInv, StateSound, ShapeSound, GroupBuilt
<1> QED BY <1>1, <1>2, <1>3 DEF PastElevation, PastSecond

LEMMA GroupOnRepay ==
  ASSUME IInv, ShapeSound, GroupBuilt, AddRequestElevation, RequestGroupOnRepay
  PROVE  GroupBuilt'
<1>1. /\ pc = "elevation" /\ req.elevate /\ UNCHANGED <<req, referrer, known>>
      /\ UNCHANGED <<phase, refreshFarmsCleanupTxnIxs, setupIxs, inBetweenIxs>>
      /\ phase \in {"setup", "inBetween"} /\ (phase = "inBetween" => twoToken)
      /\ pc # "thrown" /\ (PastElevation <=> phase = "inBetween")
      /\ pc' # "thrown" => PastElevation' /\ (PastSecond' <=> phase = "inBetween")
      /\ ~PastSecond
  BY ElevationPast DEF loaded, RequestGroupOnRepay
<1>2. phase = "setup" /\ req.action \in {"repay", "repayAndWithdraw"}
  BY <1>1 DEF RequestGroupOnRepay, supportAction, twoToken, TwoTokenAction
<1>3. SUFFICES ASSUME pc' # "thrown" PROVE GroupBuilt'
  BY DEF GroupBuilt
<1>4. ~PastElevation /\ PastElevation' /\ ~PastSecond' /\ pc' # "elevation" /\ ~Borrows
  BY <1>1, <1>2, <1>3, ElevationPast DEF Borrows
<1>5. req.override = NoOverride /\ 0 \in GroupId
  BY <1>2 DEF IInv, CallSound, GroupId
<1>6. setupGroups' = {known.group} /\ setupGroups = {known.group}
      /\ betweenGroups' = {known.group} /\ betweenGroups = {known.group}
  BY <1>1, <1>2, <1>4 DEF setupGroups, betweenGroups, Overrides
<1>7. /\ Moves(setupIxs', {known.group}, setupGroups')
      /\ Moves(inBetweenIxs', {known.group}, betweenGroups')
      /\ inBetweenIxs' \in Seq(Made(QuietOp))
      /\ refreshFarmsCleanupTxnIxs' \in Seq(Made({"refreshFarms"}))
      /\ cleanupIxs \in Seq(Made(QuietOp))
  BY <1>1, <1>4, <1>6 DEF GroupBuilt
<1>8. req.reserve \in known.borrows
  BY <1>3 DEF RequestGroupOnRepay, Throw
<1>9. Leaves <=> req.level >= 1 /\ Cardinality(known.borrows) = 1 /\ known.group # 0
  BY <1>1, <1>2 DEF Leaves, Repays
<1>10. CASE Leaves
  <2>1. cleanupIxs' = cleanupIxs \o RefreshReserves(allReservesExcludingCurrent)
                      \o RefreshObligation(TRUE) \o RequestElevation(0, TRUE)
    BY <1>5, <1>8, <1>9, <1>10 DEF RequestGroupOnRepay
  <2>2. Moves(cleanupIxs \o RefreshReserves(allReservesExcludingCurrent)
              \o RefreshObligation(TRUE) \o RequestElevation(0, TRUE), {known.group}, {0})
    BY <1>5, <1>7, LeaveMoves
  <2>3. Moves(cleanupIxs', {known.group}, {0})
    BY <2>1, <2>2
  <2> QED BY <1>1, <1>4, <1>7, <1>8, <1>10, <2>3, GroupPrimed
<1>11. CASE ~Leaves
  <2>1. UNCHANGED cleanupIxs
    BY <1>8, <1>9, <1>11 DEF RequestGroupOnRepay
  <2> QED BY <1>1, <1>4, <1>7, <1>8, <1>11, <2>1, GroupPrimed
<1> QED BY <1>10, <1>11

\* A switch appended to a list, or no switch because the group is the one held.
LEMMA ElevationForMoves ==
  ASSUME IInv, NEW g \in GroupId, NEW q \in Seq(ListedInstruction), NEW Q,
         Moves(q, {known.group}, {known.group}), g \in Q, NEW t,
         t = q \o SwitchGroup(g) \/ (t = q /\ ~isNewGroup(g))
  PROVE  Moves(t, {known.group}, Q)
<1>1. CASE t = q \o SwitchGroup(g)
  <2>1. Moves(SwitchGroup(g), {known.group}, Q) /\ SwitchGroup(g) \in Seq(ListedInstruction)
    BY SwitchMoves
  <2> QED BY <1>1, <2>1, MovesConcat
<1>2. CASE t = q /\ ~isNewGroup(g)
  <2>1. known.group \in Q
    BY <1>2 DEF isNewGroup
  <2>2. GI({known.group}) \subseteq GI(Q)
    BY <2>1 DEF GI
  <2>3. Runs("none", t, GI({known.group}), GI({known.group}))
    BY <1>2 DEF Moves
  <2>4. PICK S, T : S = GI({known.group}) /\ T = GI(Q)
    OBVIOUS
  <2>5. Runs("none", t, S, S) /\ S \subseteq T
    BY <2>2, <2>3, <2>4
  <2>6. Runs("none", t, S, T)
    BY <2>5, RunsWeaken
  <2> QED BY <2>4, <2>6 DEF Moves
<1> QED BY <1>1, <1>2

\* What the switch does to the lists.
LEMMA ElevationForLists ==
  ASSUME NEW g, ElevationFor(g), pc' # "thrown"
  PROVE  \/ g # NoOverride /\ isNewGroup(g) /\ PushSupport(SwitchGroup(g))
         \/ (g = NoOverride \/ ~isNewGroup(g)) /\ UNCHANGED <<setupIxs, inBetweenIxs>>
BY DEF ElevationFor

LEMMA GroupOnDeposit ==
  ASSUME IInv, ShapeSound, GroupBuilt, AddRequestElevation, RequestGroupOnDeposit
  PROVE  GroupBuilt'
<1>1. /\ pc = "elevation" /\ req.elevate /\ UNCHANGED <<req, referrer, known>>
      /\ UNCHANGED <<phase, refreshFarmsCleanupTxnIxs, cleanupIxs>>
      /\ phase \in {"setup", "inBetween"} /\ (phase = "inBetween" => twoToken)
      /\ pc # "thrown" /\ (PastElevation <=> phase = "inBetween")
      /\ pc' # "thrown" => PastElevation' /\ (PastSecond' <=> phase = "inBetween")
      /\ ~PastSecond /\ pc' # "elevation"
  BY ElevationPast DEF loaded, RequestGroupOnDeposit
<1>2. SUFFICES ASSUME pc' # "thrown" PROVE GroupBuilt'
  BY DEF GroupBuilt
<1>3. phase = "setup" /\ req.action \in {"deposit", "depositAndBorrow"}
      /\ (twoToken <=> req.action = "depositAndBorrow")
  BY <1>1 DEF RequestGroupOnDeposit, supportAction, twoToken, TwoTokenAction
<1>4. /\ ~PastElevation /\ PastElevation' /\ ~PastSecond' /\ ~Leaves /\ ~Repays
      /\ Overrides <=> req.override # NoOverride /\ ~twoToken
  BY <1>1, <1>2, <1>3, ElevationPast DEF Leaves, Repays, Overrides
<1>5. /\ setupGroups = {known.group} /\ betweenGroups = {known.group} /\ betweenGroups' = {known.group}
      /\ setupGroups' = IF Overrides THEN {req.override} ELSE {known.group}
  BY <1>1, <1>3, <1>4 DEF setupGroups, betweenGroups, Overrides
<1>6. /\ Moves(setupIxs, {known.group}, {known.group})
      /\ Moves(inBetweenIxs, {known.group}, {known.group})
      /\ ~Borrows => inBetweenIxs \in Seq(Made(QuietOp))
      /\ refreshFarmsCleanupTxnIxs \in Seq(Made({"refreshFarms"}))
      /\ cleanupIxs \in Seq(Made(QuietOp))
  BY <1>1, <1>4, <1>5 DEF GroupBuilt
<1>7. UNCHANGED inBetweenIxs
  BY <1>3 DEF RequestGroupOnDeposit, PushSupport
<1>8. Moves(setupIxs', {known.group}, setupGroups')
  <2>1. CASE Overrides
    <3>1. req.override \in GroupId /\ setupIxs \in Seq(ListedInstruction)
      BY <1>4, <2>1, ListsListed DEF IInv, StateSound, Request
    <3>2. \/ setupIxs' = setupIxs \o SwitchGroup(req.override)
          \/ setupIxs' = setupIxs /\ ~isNewGroup(req.override)
      BY <1>3, <1>4, <2>1 DEF RequestGroupOnDeposit, PushSupport
    <3>3. Moves(setupIxs', {known.group}, {req.override})
      BY <1>6, <3>1, <3>2, ElevationForMoves
    <3> QED BY <1>5, <2>1, <3>3
  <2>2. CASE ~Overrides
    <3>1. UNCHANGED setupIxs
      BY <1>4, <2>2 DEF RequestGroupOnDeposit
    <3> QED BY <1>5, <1>6, <2>2, <3>1
  <2> QED BY <2>1, <2>2
<1>9. Moves(inBetweenIxs', {known.group}, betweenGroups')
  BY <1>5, <1>6, <1>7
<1> QED BY <1>1, <1>4, <1>6, <1>7, <1>8, <1>9, GroupPrimed

LEMMA GroupOnBorrow ==
  ASSUME IInv, ShapeSound, GroupBuilt, AddRequestElevation, RequestGroupOnBorrow,
         supportAction = "borrow"
  PROVE  GroupBuilt'
<1>1. /\ pc = "elevation" /\ req.elevate /\ UNCHANGED <<req, referrer, known>>
      /\ UNCHANGED <<phase, refreshFarmsCleanupTxnIxs, cleanupIxs>>
      /\ phase \in {"setup", "inBetween"} /\ (phase = "inBetween" => twoToken)
      /\ pc # "thrown" /\ (PastElevation <=> phase = "inBetween")
      /\ pc' # "thrown" => PastElevation' /\ (PastSecond' <=> phase = "inBetween")
      /\ ~PastSecond /\ pc' # "elevation"
  BY ElevationPast DEF loaded, RequestGroupOnBorrow
<1>2. SUFFICES ASSUME pc' # "thrown" PROVE GroupBuilt'
  BY DEF GroupBuilt
<1>3. phase = "setup" /\ req.action = "borrow"
  BY <1>1 DEF supportAction, twoToken, TwoTokenAction
<1>4. /\ ~PastElevation /\ PastElevation' /\ ~PastSecond' /\ ~Leaves /\ ~Repays /\ ~Borrows
      /\ Overrides <=> req.override # NoOverride
  BY <1>1, <1>2, <1>3, ElevationPast DEF Leaves, Repays, Overrides, Borrows
<1>5. /\ betweenGroups = {known.group} /\ betweenGroups' = {known.group}
      /\ setupGroups' = IF Overrides THEN {req.override} ELSE GroupId
      /\ setupGroups = IF Overrides THEN {known.group} ELSE GroupId
  BY <1>1, <1>3, <1>4 DEF setupGroups, betweenGroups, Overrides
<1>6. /\ Moves(setupIxs, {known.group}, setupGroups)
      /\ Moves(inBetweenIxs, {known.group}, {known.group})
      /\ inBetweenIxs \in Seq(Made(QuietOp))
      /\ refreshFarmsCleanupTxnIxs \in Seq(Made({"refreshFarms"}))
      /\ cleanupIxs \in Seq(Made(QuietOp))
  BY <1>1, <1>4, <1>5 DEF GroupBuilt
<1>7. setupIxs \in Seq(ListedInstruction)
  BY ListsListed
<1>8. PICK g \in GroupId \union {NoOverride} :
        /\ Overrides => g = req.override
        /\ ElevationFor(g)
  <2>1. CASE Overrides
    <3>1. ElevationFor(req.override) /\ req.override \in GroupId
      BY <1>4, <2>1 DEF RequestGroupOnBorrow, IInv, StateSound, Request
    <3> QED BY <3>1
  <2>2. CASE ~Overrides
    <3>0. PICK coll \in known.deposits :
            \E g \in bestGroups(commonElevationGroups(coll, req.reserve)) : ElevationFor(g)
      BY <1>2, <1>4, <2>2 DEF RequestGroupOnBorrow, Throw
    <3>1. PICK g \in bestGroups(commonElevationGroups(coll, req.reserve)) : ElevationFor(g)
      BY <3>0
    <3>2. known.deposits \subseteq Reserve
      BY DEF IInv, StateSound, Chain
    <3>3. g \in GroupId \union {NoOverride}
      BY <3>2, BestGroupIsId
    <3> QED BY <2>2, <3>1, <3>3
  <2> QED BY <2>1, <2>2
<1>9. UNCHANGED inBetweenIxs
  BY <1>2, <1>3, <1>8, ElevationForLists DEF PushSupport
<1>10. \/ g # NoOverride /\ isNewGroup(g) /\ setupIxs' = setupIxs \o SwitchGroup(g)
       \/ (g = NoOverride \/ ~isNewGroup(g)) /\ setupIxs' = setupIxs
  BY <1>2, <1>3, <1>8, ElevationForLists DEF PushSupport
<1>11. Moves(setupIxs', {known.group}, setupGroups')
  <2>1. CASE Overrides
    <3>1. g \in GroupId /\ g \in {req.override}
      BY <1>4, <1>8, <2>1 DEF NoOverride
    <3>2. Moves(setupIxs, {known.group}, {known.group})
      BY <1>5, <1>6, <2>1
    <3>3. Moves(setupIxs', {known.group}, {req.override})
      <4>1. \/ setupIxs' = setupIxs \o SwitchGroup(g)
            \/ setupIxs' = setupIxs /\ ~isNewGroup(g)
        BY <1>4, <1>8, <1>10, <2>1
      <4> QED BY <1>7, <3>1, <3>2, <4>1, ElevationForMoves
    <3> QED BY <1>5, <2>1, <3>3
  <2>2. CASE ~Overrides
    <3>1. Moves(setupIxs, {known.group}, GroupId)
      BY <1>5, <1>6, <2>2
    <3>2. CASE setupIxs' = setupIxs
      BY <1>5, <2>2, <3>1, <3>2
    <3>3. CASE setupIxs' # setupIxs
      <4>1. g \in GroupId /\ setupIxs' = setupIxs \o SwitchGroup(g)
        BY <1>8, <1>10, <3>3
      <4>2. Moves(SwitchGroup(g), GroupId, GroupId) /\ SwitchGroup(g) \in Seq(ListedInstruction)
        BY <4>1, SwitchMoves
      <4>3. Moves(setupIxs \o SwitchGroup(g), {known.group}, GroupId)
        BY <1>7, <3>1, <4>2, MovesConcat
      <4> QED BY <1>5, <2>2, <4>1, <4>3
    <3> QED BY <3>2, <3>3
  <2> QED BY <2>1, <2>2
<1>12. Moves(inBetweenIxs', {known.group}, betweenGroups')
  BY <1>5, <1>6, <1>9
<1> QED BY <1>1, <1>4, <1>6, <1>9, <1>11, <1>12, GroupPrimed

\* The group of a two-token borrow is of maximal LTV among the common ones.
LEMMA BestIsReached ==
  ASSUME IInv, req.action \in TwoTokenAction,
         NEW g \in bestGroups(commonElevationGroups(req.reserve, req.outflow))
  PROVE  IF g = NoOverride THEN BestReached = GroupId ELSE g \in BestReached
<1> DEFINE common == commonElevationGroups(req.reserve, req.outflow)
<1>1. req.reserve \in Reserve
  BY PassReserves
<1>2. common \subseteq Group /\ Group \subseteq Nat \ {0}
  BY <1>1, GroupAssumption DEF commonElevationGroups
<1> HIDE DEF common
<1>3. CASE common = {}
  <2>1. g = NoOverride
    BY <1>3 DEF bestGroups, common
  <2> QED BY <1>3, <2>1 DEF BestReached, common
<1>4. CASE common # {}
  <2>1. g \in common /\ \A h \in common : GroupLtv[h] <= GroupLtv[g]
    BY <1>4 DEF bestGroups, common
  <2>2. g \in Nat \ {0} /\ g \in GroupId /\ g # NoOverride
    BY <1>2, <2>1 DEF GroupId, NoOverride
  <2> QED BY <2>1, <2>2 DEF BestReached, common
<1> QED BY <1>3, <1>4

LEMMA GroupOnDepositAndBorrow ==
  ASSUME IInv, ShapeSound, GroupBuilt, AddRequestElevation, RequestGroupOnBorrow,
         supportAction = "depositAndBorrow"
  PROVE  GroupBuilt'
<1>1. /\ pc = "elevation" /\ req.elevate /\ UNCHANGED <<req, referrer, known>>
      /\ UNCHANGED <<phase, refreshFarmsCleanupTxnIxs, cleanupIxs>>
      /\ phase \in {"setup", "inBetween"}
      /\ pc # "thrown" /\ (PastElevation <=> phase = "inBetween")
      /\ pc' # "thrown" => PastElevation' /\ (PastSecond' <=> phase = "inBetween")
      /\ ~PastSecond /\ pc' # "elevation"
  BY ElevationPast DEF loaded, RequestGroupOnBorrow
<1>2. SUFFICES ASSUME pc' # "thrown" PROVE GroupBuilt'
  BY DEF GroupBuilt
<1>3. phase = "inBetween" /\ req.action = "depositAndBorrow"
  BY <1>1 DEF supportAction, twoToken, TwoTokenAction
<1>4. PastElevation /\ PastElevation' /\ PastSecond' /\ ~Leaves /\ ~Repays /\ Borrows /\ ~Overrides
  BY <1>1, <1>2, <1>3, ElevationPast DEF Leaves, Repays, Overrides, Borrows
<1>5. /\ betweenGroups = {known.group} /\ betweenGroups' = BestReached
      /\ setupGroups' = {known.group} /\ setupGroups = {known.group}
  <2>1. betweenGroups' = BestReached'
    BY <1>1, <1>3, <1>4 DEF betweenGroups, Borrows
  <2>2. BestReached' = BestReached
    BY <1>1 DEF BestReached, commonElevationGroups
  <2> QED BY <1>1, <1>3, <1>4, <2>1, <2>2 DEF setupGroups, betweenGroups, Overrides
<1>6. /\ Moves(setupIxs, {known.group}, {known.group})
      /\ Moves(inBetweenIxs, {known.group}, {known.group})
      /\ refreshFarmsCleanupTxnIxs \in Seq(Made({"refreshFarms"}))
      /\ cleanupIxs \in Seq(Made(QuietOp))
  BY <1>1, <1>4, <1>5 DEF GroupBuilt
<1>7. inBetweenIxs \in Seq(ListedInstruction)
  BY ListsListed
<1>8. PICK g \in bestGroups(commonElevationGroups(req.reserve, req.outflow)) : ElevationFor(g)
  <2>1. req.override = NoOverride
    BY <1>3 DEF IInv, CallSound
  <2> QED BY <1>2, <1>3, <2>1 DEF RequestGroupOnBorrow, Throw
<1>9. g \in GroupId \union {NoOverride}
  BY <1>8, BestGroupIsId, PassReserves
<1>10. IF g = NoOverride THEN BestReached = GroupId ELSE g \in BestReached
  BY <1>3, <1>8, BestIsReached DEF TwoTokenAction
<1>11. UNCHANGED setupIxs
  BY <1>2, <1>3, <1>8, ElevationForLists DEF PushSupport
<1>12. \/ g # NoOverride /\ isNewGroup(g) /\ inBetweenIxs' = inBetweenIxs \o SwitchGroup(g)
       \/ (g = NoOverride \/ ~isNewGroup(g)) /\ inBetweenIxs' = inBetweenIxs
  BY <1>2, <1>3, <1>8, ElevationForLists DEF PushSupport
<1>13. Moves(inBetweenIxs', {known.group}, betweenGroups')
  <2>1. CASE g = NoOverride
    <3>1. inBetweenIxs' = inBetweenIxs /\ known.group \in BestReached
      BY <1>10, <1>12, <2>1 DEF IInv, StateSound, Chain
    <3>2. GI({known.group}) \subseteq GI(BestReached)
      BY <3>1 DEF GI
    <3>3. PICK S, T : S = GI({known.group}) /\ T = GI(BestReached)
      OBVIOUS
    <3>4. Runs("none", inBetweenIxs, S, S) /\ S \subseteq T
      BY <1>6, <3>2, <3>3 DEF Moves
    <3>5. Runs("none", inBetweenIxs, S, T)
      BY <3>4, RunsWeaken
    <3> QED BY <1>5, <3>1, <3>3, <3>5 DEF Moves
  <2>2. CASE g # NoOverride
    <3>1. g \in GroupId /\ g \in BestReached
      BY <1>9, <1>10, <2>2
    <3>2. \/ inBetweenIxs' = inBetweenIxs \o SwitchGroup(g)
          \/ inBetweenIxs' = inBetweenIxs /\ ~isNewGroup(g)
      BY <1>12, <2>2
    <3>3. Moves(inBetweenIxs', {known.group}, BestReached)
      BY <1>6, <1>7, <3>1, <3>2, ElevationForMoves
    <3> QED BY <1>5, <3>3
  <2> QED BY <2>1, <2>2
<1>14. Moves(setupIxs', {known.group}, setupGroups')
  BY <1>5, <1>6, <1>11
<1> QED BY <1>1, <1>4, <1>6, <1>13, <1>14, GroupPrimed

LEMMA GroupElevation ==
  ASSUME IInv, ShapeSound, GroupBuilt, AddRequestElevation
  PROVE  GroupBuilt'
<1>1. CASE RequestGroupOnBorrow
  <2>1. supportAction \in {"borrow", "depositAndBorrow"}
    BY <1>1 DEF RequestGroupOnBorrow
  <2> QED BY <1>1, <2>1, GroupOnBorrow, GroupOnDepositAndBorrow
<1>2. CASE NoGroupRequest
  <2>1. /\ pc = "elevation" /\ UNCHANGED <<req, referrer, known, phase>> /\ pc' = "farms"
        /\ phase \in {"setup", "inBetween"} /\ pc # "thrown"
        /\ UNCHANGED <<setupIxs, inBetweenIxs, cleanupIxs, refreshFarmsCleanupTxnIxs>>
    BY <1>2, ElevationPast DEF loaded, NoGroupRequest
  <2>2. Growth(QuietOp, QuietOp, QuietOp)
    BY <2>1, NothingGrows
  <2>3. Elevating => phase = "inBetween"
    BY <1>2, <2>1 DEF NoGroupRequest, Elevating, supportAction, twoToken, TwoTokenAction
  <2>4. ~Borrows
    BY <1>2, <2>1 DEF NoGroupRequest, Borrows, supportAction, twoToken, TwoTokenAction
  <2>5. Elevating => (PastElevation' <=> PastElevation)
    BY <2>1, <2>3 DEF PastElevation
  <2> QED BY <2>1, <2>2, <2>4, <2>5, GroupGrown
<1> QED BY <1>1, <1>2, GroupOnRepay, GroupOnDeposit DEF AddRequestElevation

LEMMA GroupRefreshObligation ==
  ASSUME IInv, ShapeSound, GroupBuilt, AddRefreshObligation
  PROVE  GroupBuilt'
<1> DEFINE farms == RefreshFarms(depositReserves, "coll") \o RefreshFarms(borrowReserves, "debt")
           all == RefreshReserves(depositReserves \union borrowReserves)
           request == IF req.action = "refreshObligation" THEN <<>>
                      ELSE RequestElevation(req.override, FALSE)
           quiet == setupIxs \o all \o farms \o RefreshObligation(FALSE)
<1>1. /\ pc = "lending" /\ pc' = "built" /\ req.action \in ObligationOnly
      /\ UNCHANGED <<req, referrer, known, phase, inBetweenIxs, cleanupIxs>>
      /\ setupIxs' = quiet \o request
      /\ refreshFarmsCleanupTxnIxs' = refreshFarmsCleanupTxnIxs \o farms
  BY DEF AddRefreshObligation, loaded
<1>2. ~Overrides /\ ~Leaves /\ ~Repays /\ ~Borrows
  BY <1>1 DEF ObligationOnly, Overrides, Leaves, Repays, Borrows
<1>3. /\ betweenGroups = {known.group} /\ betweenGroups' = {known.group}
      /\ setupGroups = {known.group}
      /\ setupGroups' = IF req.action = "requestElevationGroup" THEN {req.override}
                        ELSE {known.group}
  BY <1>1, <1>2 DEF betweenGroups, setupGroups, ObligationOnly, Overrides, Borrows
<1>4. farms \in Seq(Made({"refreshFarms"}))
  <2>1. /\ RefreshFarms(depositReserves, "coll") \in Seq(Made({"refreshFarms"}))
        /\ RefreshFarms(borrowReserves, "debt") \in Seq(Made({"refreshFarms"}))
    BY RefreshFarmsMade DEF Mode
  <2> HIDE DEF Made
  <2> QED BY <2>1, Concatenated
<1>5. all \in Seq(Made({"refreshReserves"}))
  BY RefreshReservesMade DEF IInv, StateSound
<1>6. RefreshObligation(FALSE) \in Seq(Made({"refreshObligation"})) /\ 0 \in GroupId
  BY PositionMade DEF GroupId
<1> HIDE DEF farms, all
<1>7. /\ all \in Seq(Made(QuietOp)) /\ farms \in Seq(Made(QuietOp))
      /\ RefreshObligation(FALSE) \in Seq(Made(QuietOp))
  <2>1. /\ {"refreshReserves"} \subseteq QuietOp /\ {"refreshObligation"} \subseteq QuietOp
        /\ {"refreshFarms"} \subseteq QuietOp
    BY DEF QuietOp, IxOp
  <2> QED BY <1>4, <1>5, <1>6, <2>1, QuietListed
<1>8. setupIxs \in Seq(ListedInstruction) /\ Moves(setupIxs, {known.group}, {known.group})
  BY <1>1, <1>3, ListsListed DEF GroupBuilt
<1>9. /\ Moves(setupIxs \o all, {known.group}, {known.group})
      /\ setupIxs \o all \in Seq(ListedInstruction)
  BY <1>7, <1>8, BehindMoves, QuietListed, Concatenated
<1>10. /\ Moves(setupIxs \o all \o farms, {known.group}, {known.group})
       /\ setupIxs \o all \o farms \in Seq(ListedInstruction)
  BY <1>7, <1>9, BehindMoves, QuietListed, Concatenated
<1>11. /\ Moves(quiet, {known.group}, {known.group})
       /\ quiet \in Seq(ListedInstruction)
  BY <1>7, <1>10, BehindMoves, QuietListed, Concatenated
<1> HIDE DEF quiet
<1>12. Moves(setupIxs', {known.group}, setupGroups')
  <2>1. CASE req.action = "requestElevationGroup"
    <3>1. req.override \in GroupId
      BY <2>1 DEF IInv, StateSound, CallSound, Request
    <3>2. RequestElevation(req.override, FALSE) \in Seq(ListedInstruction)
      <4>1. RequestElevation(req.override, FALSE) \in Seq(Made({"requestElevationGroup"}))
        BY <3>1, PositionMade
      <4> QED BY <4>1, MadeFits, SeqSubset
    <3>3. Moves(RequestElevation(req.override, FALSE), {known.group}, {req.override})
      BY <3>1, AskMoves
    <3>4. Moves(quiet \o RequestElevation(req.override, FALSE), {known.group}, {req.override})
      BY <1>11, <3>2, <3>3, MovesConcat
    <3>5. setupIxs' = quiet \o RequestElevation(req.override, FALSE)
      BY <1>1, <2>1
    <3> QED BY <1>3, <2>1, <3>4, <3>5
  <2>2. CASE req.action # "requestElevationGroup"
    <3>1. setupIxs' = quiet \o <<>>
      BY <1>1, <2>2 DEF ObligationOnly
    <3>2. \A X : <<>> \in Seq(X)
      OBVIOUS
    <3>3. Moves(quiet \o <<>>, {known.group}, {known.group})
      BY <1>11, <3>2, BehindMoves
    <3> QED BY <1>3, <2>2, <3>1, <3>3
  <2> QED BY <2>1, <2>2
<1>13. refreshFarmsCleanupTxnIxs' \in Seq(Made({"refreshFarms"}))
  <2> HIDE DEF Made
  <2>1. refreshFarmsCleanupTxnIxs \o farms \in Seq(Made({"refreshFarms"}))
    BY <1>1, <1>4, Concatenated DEF GroupBuilt
  <2> QED BY <1>1, <2>1
<1>14. /\ Moves(inBetweenIxs', {known.group}, betweenGroups')
       /\ inBetweenIxs' \in Seq(Made(QuietOp)) /\ cleanupIxs' \in Seq(Made(QuietOp))
  BY <1>1, <1>2, <1>3 DEF GroupBuilt
<1> QED BY <1>1, <1>2, <1>12, <1>13, <1>14, GroupPrimed

LEMMA GroupLending ==
  ASSUME IInv, ShapeSound, GroupBuilt, AddLendingIx
  PROVE  GroupBuilt'
<1>1. pc = "lending" /\ phase = "setup" /\ UNCHANGED <<req, referrer, known>>
  BY DEF AddLendingIx, AddDepositIx, AddDepositReserveLiquidityIx, AddRedeemReserveCollateralIx,
     AddDepositObligationCollateralIx, AddWithdrawIx, AddBorrowIx, AddRepayIx, AddLiquidateIx,
     AddPlainIx, AddDebtIx, AddDepositAndBorrowIx, AddRepayAndWithdrawIxs, AddRefreshObligation,
     AddWithdrawReferrerFees, OnlyLending, loaded, ShapeSound, Lent, IInv, StateSound
<1>2. CASE AddWithdrawReferrerFees
  <2>1. /\ setupIxs' = setupIxs \o RefreshReserves({req.reserve}) /\ pc' = "built"
        /\ req.action = "withdrawReferrerFees"
        /\ UNCHANGED <<inBetweenIxs, cleanupIxs, refreshFarmsCleanupTxnIxs>>
    BY <1>2 DEF AddWithdrawReferrerFees
  <2>2. RefreshReserves({req.reserve}) \in Seq(Made({"refreshReserves"}))
    BY PassReserves, RefreshReservesMade
  <2>3. {"refreshReserves"} \subseteq QuietOp
    BY DEF QuietOp, IxOp
  <2>4. RefreshReserves({req.reserve}) \in Seq(Made(QuietOp))
    BY <2>2, <2>3, QuietListed
  <2>5. Growth(QuietOp, QuietOp, QuietOp)
    <3> HIDE DEF Made
    <3> QED BY <2>1, <2>4, GrowthFromParts
  <2>6. ~Elevating /\ ~Borrows
    BY <2>1 DEF Elevating, Borrows
  <2> QED BY <1>1, <2>1, <2>5, <2>6, GroupGrown
<1>3. CASE ~AddWithdrawReferrerFees /\ ~AddRefreshObligation
  <2>1. UNCHANGED <<setupIxs, inBetweenIxs, cleanupIxs, refreshFarmsCleanupTxnIxs>>
    BY <1>3, LendingGrows
  <2>2. \/ pc' = "splice" /\ phase' = "setup"
        \/ pc' = "ata" /\ phase' = "inBetween"
        \/ pc' = "thrown"
    BY <1>1, <1>3 DEF AddLendingIx, AddDepositIx, AddDepositReserveLiquidityIx,
       AddRedeemReserveCollateralIx, AddDepositObligationCollateralIx, AddWithdrawIx, AddBorrowIx,
       AddRepayIx, AddLiquidateIx, AddPlainIx, AddDebtIx, AddDepositAndBorrowIx,
       AddRepayAndWithdrawIxs, Throw
  <2>3. CASE pc' = "thrown"
    BY <2>3 DEF GroupBuilt
  <2>4. CASE pc' # "thrown"
    <3>1. PastElevation /\ PastElevation' /\ ~PastSecond /\ ~PastSecond'
      BY <1>1, <2>2, <2>4 DEF PastElevation, PastSecond
    <3>2. Growth(QuietOp, QuietOp, QuietOp)
      BY <2>1, NothingGrows
    <3> QED BY <1>1, <2>2, <2>4, <3>1, <3>2, GroupGrown
  <2> QED BY <2>3, <2>4
<1> QED BY <1>2, <1>3, GroupRefreshObligation

LEMMA GroupSplice ==
  ASSUME IInv, ShapeSound, GroupBuilt, AddRefreshFarmsCleanupTxnIxsToCleanupIxs
  PROVE  GroupBuilt'
<1>1. /\ pc = "splice" /\ pc' = "built"
      /\ UNCHANGED <<req, referrer, known, phase, setupIxs, inBetweenIxs, refreshFarmsCleanupTxnIxs>>
      /\ cleanupIxs' = refreshFarmsCleanupTxnIxs \o cleanupIxs
  BY DEF AddRefreshFarmsCleanupTxnIxsToCleanupIxs, splicedCleanup, loaded
<1>2. PastElevation /\ PastElevation' /\ (PastSecond' <=> PastSecond)
  BY <1>1 DEF PastElevation, PastSecond
<1>3. req.action # "requestElevationGroup"
  BY <1>1 DEF ShapeSound, ObligationOnly
<1>4. setupGroups' = setupGroups
  BY <1>1, <1>2, <1>3 DEF setupGroups, Overrides
<1>5. betweenGroups' = betweenGroups
  <2>1. BestReached' = BestReached /\ Borrows' = Borrows
    BY <1>1 DEF BestReached, commonElevationGroups, Borrows
  <2> QED BY <1>1, <1>2, <2>1 DEF betweenGroups
<1>6. refreshFarmsCleanupTxnIxs \in Seq(Made({"refreshFarms"}))
  BY <1>1 DEF GroupBuilt
<1>7. refreshFarmsCleanupTxnIxs \in Seq(Made(QuietOp))
  <2>1. {"refreshFarms"} \subseteq QuietOp
    BY DEF QuietOp, IxOp
  <2> QED BY <1>6, <2>1, QuietListed
<1>8. Leaves => Moves(refreshFarmsCleanupTxnIxs \o cleanupIxs, {known.group}, {0})
  <2> SUFFICES ASSUME Leaves
               PROVE  Moves(refreshFarmsCleanupTxnIxs \o cleanupIxs, {known.group}, {0})
    OBVIOUS
  <2>1. Moves(cleanupIxs, {known.group}, {0})
    BY <1>1, <1>2 DEF GroupBuilt
  <2>2. Moves(refreshFarmsCleanupTxnIxs, {known.group}, {known.group})
    BY <1>7, QuietMoves
  <2>3. cleanupIxs \in Seq(ListedInstruction) /\ refreshFarmsCleanupTxnIxs \in Seq(ListedInstruction)
    BY ListsListed
  <2> QED BY <2>1, <2>2, <2>3, MovesConcat
<1>9. ~Leaves => refreshFarmsCleanupTxnIxs \o cleanupIxs \in Seq(Made(QuietOp))
  <2> SUFFICES ASSUME ~Leaves
               PROVE  refreshFarmsCleanupTxnIxs \o cleanupIxs \in Seq(Made(QuietOp))
    OBVIOUS
  <2>1. cleanupIxs \in Seq(Made(QuietOp))
    BY <1>1 DEF GroupBuilt
  <2> HIDE DEF Made
  <2> QED BY <1>7, <2>1, Concatenated
<1>10. /\ Moves(setupIxs', {known.group}, setupGroups')
       /\ Moves(inBetweenIxs', {known.group}, betweenGroups')
       /\ ~Borrows => inBetweenIxs' \in Seq(Made(QuietOp))
       /\ Repays => req.reserve \in known.borrows
  BY <1>1, <1>2, <1>4, <1>5 DEF GroupBuilt
<1>11. /\ Leaves /\ PastElevation' => Moves(cleanupIxs', {known.group}, {0})
       /\ ~(Leaves /\ PastElevation') => cleanupIxs' \in Seq(Made(QuietOp))
  BY <1>1, <1>2, <1>8, <1>9
<1> QED BY <1>1, <1>2, <1>6, <1>10, <1>11, GroupPrimed

LEMMA GroupStep == ASSUME IInv, ShapeSound, GroupBuilt, Next, IInv' PROVE GroupBuilt'
<1>1. CASE Initialize
  <2>1. /\ phase = "setup" /\ UNCHANGED <<phase, lists>> /\ Unbuilt
        /\ pc' \in {"budget", "thrown"} \/ (pc' = "lending" /\ req'.action = "withdrawReferrerFees")
    BY <1>1 DEF Initialize, IInv, StateSound, ReserveListsSound, ShapeSound
  <2>2. NothingBuilt'
    BY <2>1 DEF NothingBuilt, Unbuilt, lists
  <2> QED BY <2>2, GroupEmptyNext
<1>2. CASE ~Initialize
  <2>1. UNCHANGED <<req, referrer, known>>
    BY <1>2, StepKeeps DEF loaded
  <2> QED BY <1>2, <2>1, GroupPass, GroupElevation, GroupLending, GroupSplice DEF Next
<1> QED BY <1>1, <1>2

LEMMA GroupSendStep == WrappedSol /\ GroupBuilt /\ [SendNext]_allVars => GroupBuilt'
<1> SUFFICES ASSUME WrappedSol, GroupBuilt, [SendNext]_allVars PROVE GroupBuilt'
  OBVIOUS
<1>1. SendCore /\ IInv /\ ShapeSound
  BY DEF WrappedSol, SendCore
<1>2. CASE Build
  <2>1. Next /\ IInv'
    BY <1>1, <1>2, NextSound DEF Build
  <2> QED BY <1>1, <2>1, GroupStep
<1>3. CASE Retry
  <2>1. SendCore'
    BY <1>1, <1>3, RetrySound
  <2>2. NothingBuilt'
    BY <1>3, <2>1 DEF Retry, SendCore, NothingBuilt
  <2> QED BY <2>2, GroupEmptyNext
<1>4. CASE ~Build /\ ~Retry
  <2>1. UNCHANGED <<req, referrer, known, pc, phase, lists>>
    BY <1>4 DEF SendNext, GetTransactions, SendPreTxn, ExecuteIx, Reject, Commit, Drop, vars,
       loaded, allVars
  <2>2. UNCHANGED <<setupIxs, inBetweenIxs, cleanupIxs, refreshFarmsCleanupTxnIxs>>
    BY <2>1 DEF lists
  <2>3. PastElevation' = PastElevation /\ PastSecond' = PastSecond /\ Overrides' = Overrides
        /\ Borrows' = Borrows
    BY <2>1 DEF PastElevation, PastSecond, Overrides, Borrows
  <2>4. setupGroups' = setupGroups
    BY <2>1, <2>3 DEF setupGroups
  <2>5. betweenGroups' = betweenGroups
    BY <2>1, <2>3 DEF betweenGroups, BestReached, commonElevationGroups
  <2>6. pc' # "thrown" =>
          /\ Moves(setupIxs', {known.group}, setupGroups')
          /\ Moves(inBetweenIxs', {known.group}, betweenGroups')
          /\ ~Borrows => inBetweenIxs' \in Seq(Made(QuietOp))
          /\ Leaves /\ PastElevation' => Moves(cleanupIxs', {known.group}, {0})
          /\ ~(Leaves /\ PastElevation') => cleanupIxs' \in Seq(Made(QuietOp))
          /\ refreshFarmsCleanupTxnIxs' \in Seq(Made({"refreshFarms"}))
          /\ Repays /\ PastElevation' => req.reserve \in known.borrows
          /\ pc' = "elevation" => req.elevate
    BY <2>1, <2>2, <2>3, <2>4, <2>5 DEF GroupBuilt
  <2> QED BY <2>1, <2>6, GroupPrimed
<1> QED BY <1>2, <1>3, <1>4

\* The groups the whole transaction ends in.
txnGroups == IF Leaves THEN {0} ELSE IF Borrows THEN BestReached ELSE setupGroups

LEMMA LendingMoves ==
  ASSUME IInv, NEW x \in LendingInstruction, NEW Q
  PROVE  Moves(<<x>>, Q, Q) /\ <<x>> \in Seq(ListedInstruction)
<1>1. x \in ListedInstruction /\ x.op \in QuietOp
  BY DEF ListedInstruction, LendingInstruction, LendingOp, PositionOp, QuietOp, IxOp
<1>2. x \in Made(QuietOp)
  BY <1>1 DEF Made
<1>3. <<x>> \in Seq(Made(QuietOp)) /\ <<x>> \in Seq(ListedInstruction)
  BY <1>1, <1>2, ShortSeq
<1> QED BY <1>3, QuietMoves

LEMMA TxnMoves ==
  ASSUME IInv, ShapeSound, GroupBuilt, pc = "built"
  PROVE  Moves(lendingTxn, {known.group}, txnGroups)
<1>1. PastElevation /\ MadeAsAsked /\ (twoToken => phase = "inBetween")
  BY DEF PastElevation, ShapeSound, Lent
<1>2. /\ setupIxs \in Seq(ListedInstruction) /\ inBetweenIxs \in Seq(ListedInstruction)
      /\ lendingIxs \in Seq(ListedInstruction) /\ cleanupIxs \in Seq(ListedInstruction)
  BY ListsListed
<1>3. \A P, Q : (Leaves => P = {known.group} /\ Q = {0}) /\ (~Leaves => P = Q)
                => Moves(cleanupIxs, P, Q)
  <2> SUFFICES ASSUME NEW P, NEW Q, Leaves => P = {known.group} /\ Q = {0}, ~Leaves => P = Q
               PROVE  Moves(cleanupIxs, P, Q)
    OBVIOUS
  <2>1. CASE Leaves
    BY <1>1, <2>1 DEF GroupBuilt
  <2>2. CASE ~Leaves
    <3>1. cleanupIxs \in Seq(Made(QuietOp))
      BY <1>1, <2>2 DEF GroupBuilt
    <3>2. Moves(cleanupIxs, P, P)
      BY <3>1, QuietMoves
    <3> QED BY <2>2, <3>2
  <2> QED BY <2>1, <2>2
<1>4. Leaves => ~Borrows /\ setupGroups = {known.group}
  BY DEF Leaves, Repays, Borrows, setupGroups, Overrides
<1>5. CASE twoToken
  <2> DEFINE one == lendingIxs[1]
             two == lendingIxs[2]
             head == <<one>> \o inBetweenIxs
             mid == head \o <<two>>
             B == IF Borrows THEN BestReached ELSE {known.group}
  <2>1. Len(lendingIxs) = 2
    BY <1>1, <1>5 DEF MadeAsAsked
  <2>2. one \in LendingInstruction /\ two \in LendingInstruction
    <3>1. 1 \in 1..Len(lendingIxs) /\ 2 \in 1..Len(lendingIxs)
      BY <2>1
    <3> QED BY <3>1, ElementOfSeq DEF IInv, ListsSound
  <2>3. setupGroups = {known.group} /\ (Borrows => txnGroups = BestReached)
        /\ (~Leaves => txnGroups = B) /\ betweenGroups = B
    BY <1>1, <1>4, <1>5 DEF setupGroups, Overrides, twoToken, TwoTokenAction, betweenGroups,
       PastSecond, txnGroups
  <2>4. Moves(setupIxs, {known.group}, {known.group}) /\ Moves(inBetweenIxs, {known.group}, B)
    BY <2>3 DEF GroupBuilt
  <2>5. lendingTxn = setupIxs \o mid \o cleanupIxs
    BY <2>1 DEF lendingTxn
  <2> HIDE DEF one, two
  <2>6. /\ Moves(<<one>>, {known.group}, {known.group}) /\ Moves(<<two>>, B, B)
        /\ <<one>> \in Seq(ListedInstruction) /\ <<two>> \in Seq(ListedInstruction)
    BY <2>2, LendingMoves
  <2>7. Leaves => B = {known.group} /\ txnGroups = {0}
    BY <1>4 DEF txnGroups
  <2> HIDE DEF B
  <2>8. Moves(head, {known.group}, B) /\ head \in Seq(ListedInstruction)
    BY <1>2, <2>4, <2>6, MovesConcat, Concatenated
  <2> HIDE DEF head
  <2>9. Moves(mid, {known.group}, B) /\ mid \in Seq(ListedInstruction)
    BY <2>6, <2>8, MovesConcat, Concatenated
  <2> HIDE DEF mid
  <2>10. Moves(setupIxs \o mid, {known.group}, B) /\ setupIxs \o mid \in Seq(ListedInstruction)
    BY <1>2, <2>4, <2>9, MovesConcat, Concatenated
  <2>11. Moves(cleanupIxs, B, txnGroups)
    BY <1>3, <2>3, <2>7
  <2> QED BY <1>2, <2>5, <2>10, <2>11, MovesConcat
<1>6. CASE ~twoToken
  <2>1. Len(lendingIxs) # 2 /\ ~Borrows
    BY <1>1, <1>6 DEF MadeAsAsked, Borrows, twoToken, TwoTokenAction
  <2>2. lendingTxn = setupIxs \o lendingIxs \o cleanupIxs
    BY <2>1 DEF lendingTxn
  <2>3. lendingIxs \in Seq(Made(QuietOp))
    <3>1. LendingInstruction \subseteq Made(QuietOp)
      BY MadeFits DEF Made, LendingInstruction, LendingOp, PositionOp, QuietOp, IxOp
    <3> QED BY <3>1, SeqSubset DEF IInv, ListsSound
  <2>4. Moves(setupIxs, {known.group}, setupGroups)
    BY DEF GroupBuilt
  <2>5. Moves(setupIxs \o lendingIxs, {known.group}, setupGroups)
        /\ setupIxs \o lendingIxs \in Seq(ListedInstruction)
    BY <1>2, <2>3, <2>4, BehindMoves, Concatenated
  <2>6. (Leaves => txnGroups = {0}) /\ (~Leaves => txnGroups = setupGroups)
    BY <2>1 DEF txnGroups
  <2>7. Moves(cleanupIxs, setupGroups, txnGroups)
    BY <1>3, <1>4, <2>6
  <2> QED BY <1>2, <2>2, <2>5, <2>7, MovesConcat
<1> QED BY <1>5, <1>6

LEMMA CommittedGroup ==
  ASSUME WrappedSol, FlightSound, GroupBuilt, status = "committed"
  PROVE  chain.group \in txnGroups /\ pc = "built"
<1>1. IInv /\ ShapeSound /\ pc = "built" /\ chain = ledger /\ queue = <<>>
  BY DEF WrappedSol, SendCore, SendSound, RunSound
<1>2. PICK l : Agrees(l) /\ Started(l)
  BY DEF FlightSound
<1>3. PICK S, U, T : S = GI({known.group}) /\ U = {<<l, NewVM>>} /\ T = GI(txnGroups)
  OBVIOUS
<1>4. Runs("none", lendingTxn, S, T)
  BY <1>1, <1>3, TxnMoves DEF Moves
<1>5. l \in Chain /\ l.group = known.group
  <2>1. known \in Chain
    BY <1>1 DEF IInv, StateSound
  <2> QED BY <1>2, <2>1 DEF Agrees, Chain
<1>6. U \subseteq S
  BY <1>3, <1>5, NewVMTyped DEF GI, Machine
<1>7. Runs("none", lendingTxn, U, T)
  BY <1>4, <1>6, RunsWeaken
<1>8. PICK V : <<ledger, vm>> \in V /\ Runs("none", queue, V, T)
  BY <1>2, <1>3, <1>7 DEF Started
<1>9. V \subseteq T
  BY <1>1, <1>8, RunsEnd
<1>10. <<ledger, vm>> \in GI(txnGroups)
  BY <1>3, <1>8, <1>9
<1> QED BY <1>1, <1>10 DEF GI

\* A committed transaction has the group it was built for: of all the lists
\* only the requests for a group change it, and each list is known to go from
\* the group of the loaded obligation to the one asked for, whatever refreshes
\* are put around the request.
THEOREM GroupAlwaysReached == SendSpec => []GroupReached
<1>1. SendInit => WrappedSol /\ FlightSound /\ GroupBuilt
  <2> SUFFICES ASSUME SendInit PROVE WrappedSol /\ FlightSound /\ GroupBuilt
    OBVIOUS
  <2>1. WrappedSol
    BY SolSendInit
  <2>2. FlightSound
    BY DEF SendInit, Init, FlightSound
  <2>3. NothingBuilt
    BY <2>1 DEF SendInit, Init, NothingBuilt, WrappedSol, SendCore
  <2> QED BY <2>1, <2>2, <2>3, GroupEmpty
<1>2. WrappedSol /\ FlightSound /\ GroupBuilt => GroupReached
  <2> SUFFICES ASSUME WrappedSol, FlightSound, GroupBuilt, status = "committed"
               PROVE  GroupReached
    BY DEF GroupReached
  <2>1. chain.group \in txnGroups /\ pc = "built" /\ PastElevation
    BY CommittedGroup DEF PastElevation
  <2>2. req.action = "requestElevationGroup" => chain.group = req.override
    BY <2>1 DEF txnGroups, Leaves, Repays, Borrows, setupGroups
  <2>3. req.elevate /\ req.override # NoOverride /\ req.action \in {"deposit", "borrow"} =>
          chain.group = req.override
    BY <2>1 DEF txnGroups, Leaves, Repays, Borrows, setupGroups, Overrides
  <2>4. ASSUME Repays, req.level = 3, known.group # 0
        PROVE  known.borrows = {req.reserve} <=> chain.group = 0
    <3>1. req.reserve \in known.borrows /\ IsFiniteSet(known.borrows)
      <4>1. known.borrows \subseteq Reserve
        BY DEF WrappedSol, SendCore, IInv, StateSound, Chain
      <4> QED BY <2>1, <2>4, <4>1, ReserveAssumption, FS_Subset DEF GroupBuilt
    <3>2. Cardinality(known.borrows) = 1 <=> known.borrows = {req.reserve}
      <4>1. Cardinality({req.reserve}) = 1
        BY FS_Singleton
      <4>2. Cardinality(known.borrows) = 1 => \E x : known.borrows = {x}
        BY <3>1, FS_Singleton
      <4> QED BY <3>1, <4>1, <4>2
    <3>3. Leaves <=> Cardinality(known.borrows) = 1
      BY <2>4 DEF Leaves
    <3>4. ~Borrows /\ setupGroups = {known.group}
      BY <2>4 DEF Repays, Borrows, setupGroups, Overrides
    <3> QED BY <2>1, <2>4, <3>2, <3>3, <3>4 DEF txnGroups
  <2>5. ASSUME Borrows,
               NEW g \in GroupsOf[req.reserve] \intersect GroupsOf[req.outflow],
               GroupDebt[g] = req.outflow
        PROVE  chain.group # 0 /\ GroupLtv[g] <= GroupLtv[chain.group]
    BY <2>1, <2>5 DEF txnGroups, Leaves, Repays, Borrows, BestReached, commonElevationGroups
  <2> QED BY <2>2, <2>3, <2>4, <2>5 DEF GroupReached, Repays, Borrows
<1> QED BY <1>1, <1>2, SolSendInit, WrappedSolInvariance, FlightStep, GroupSendStep, PTL
        DEF SendSpec

=============================================================================
