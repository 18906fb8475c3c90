------------------------- MODULE KaminoServedProofs -------------------------
(***************************************************************************)
(* The transaction of a request that makes sense is accepted by the        *)
(* lending program from its first instruction to its last.                 *)
(*                                                                         *)
(* The program's checks are taken one concern at a time (Alike, Ignored),  *)
(* and each has a plan which says, for every step of the build, from where *)
(* to where each list runs: referral and user (KindsBuilt, ReferralBuilt,  *)
(* UserBuilt), token accounts (MoneyBuilt), positions (StandBuilt,         *)
(* DepsBuilt), the actions without a support pass (SoloBuilt). PlannedTxn  *)
(* puts them together.                                                     *)
(***************************************************************************)
EXTENDS KaminoActionProofs

-----------------------------------------------------------------------------
(***************************************************************************)
(* The checks one concern at a time. Two states are alike for a concern if *)
(* its checks cannot tell them apart, and the instructions it ignores      *)
(* neither meet its checks nor change what they look at.                   *)
(***************************************************************************)
Alike(c, s, t) ==
  /\ c = "referral" => s[1].referrer = t[1].referrer /\ s[1].tokenStates = t[1].tokenStates
  /\ c = "user" => /\ s[1].metadata = t[1].metadata /\ s[1].obligation = t[1].obligation
                   /\ s[1].farms = t[1].farms
  /\ c = "money" => /\ s[1].atas = t[1].atas /\ s[1].colAtas = t[1].colAtas
                    /\ s[2].unsynced = t[2].unsynced /\ s[2].funded = t[2].funded
  /\ c = "position" => /\ s[1].deposits = t[1].deposits /\ s[1].borrows = t[1].borrows
                       /\ s[1].group = t[1].group
                       /\ s[2].fresh = t[2].fresh /\ s[2].obligation = t[2].obligation
                       /\ s[2].farmFresh = t[2].farmFresh /\ s[2].farmOwed = t[2].farmOwed

Closed(c, S) ==
  S \subseteq Machine /\ \A s \in S, t \in Machine : Alike(c, s, t) => t \in S

Ignored(c) ==
  IxOp \ (CASE c = "referral" -> {"initUserMetadata", "initReferrerTokenState", "borrow"}
            [] c = "user" -> {"initUserMetadata", "initObligation", "initFarm", "refreshFarms",
                              "refreshObligation", "requestElevationGroup"}
            [] c = "money" -> AccountOp \union LendingOp
            [] c = "position" -> PositionOp \union
                 {"refreshReserves", "refreshObligation", "requestElevationGroup", "refreshFarms",
                  "withdrawReferrerFees"})

LEMMA IgnoredAlike ==
  ASSUME NEW c \in Concern, NEW x \in Made(Ignored(c)), NEW s \in Machine
  PROVE  Admits(c, x, s) /\ Alike(c, s, After(x, s))
<1> DEFINE l == s[1]
           v == s[2]
           m == LedgerAfter(x, l)
           w == VMAfter(x, v)
<1>1. x.op \in Ignored(c) /\ l \in Chain /\ v \in VMType
  BY DEF Made, Machine
<1>2. After(x, s)[1] = m /\ After(x, s)[2] = w
  BY DEF After
<1> HIDE DEF l, v
<1>3. CASE c = "referral"
  <2>1. x.op \notin {"initUserMetadata", "initReferrerTokenState", "borrow"}
    BY <1>1, <1>3 DEF Ignored
  <2>2. m.referrer = l.referrer /\ m.tokenStates = l.tokenStates
    BY <1>1, <2>1 DEF LedgerAfter, Chain
  <2> HIDE DEF m
  <2> QED BY <1>2, <1>3, <2>1, <2>2 DEF l, Admits, Alike, ReferralReady
<1>4. CASE c = "user"
  <2>1. x.op \notin {"initUserMetadata", "initObligation", "initFarm", "refreshFarms",
                     "refreshObligation", "requestElevationGroup"}
    BY <1>1, <1>4 DEF Ignored
  <2>2. m.metadata = l.metadata /\ m.obligation = l.obligation /\ m.farms = l.farms
    BY <1>1, <2>1 DEF LedgerAfter, Chain
  <2> HIDE DEF m
  <2> QED BY <1>2, <1>4, <2>1, <2>2 DEF l, Admits, Alike, UserReady
<1>5. CASE c = "money"
  <2>1. x.op \notin AccountOp \union LendingOp
    BY <1>1, <1>5 DEF Ignored
  <2>2. m.atas = l.atas /\ m.colAtas = l.colAtas
    BY <1>1, <2>1 DEF LedgerAfter, Chain, AccountOp, LendingOp, PositionOp
  <2>3. w.unsynced = v.unsynced /\ w.funded = v.funded
    BY <1>1, <2>1 DEF VMAfter, VMType, AccountOp, LendingOp, PositionOp
  <2>4. AccountsReady(x, l) /\ SolFunded(x, v)
    BY <2>1 DEF AccountsReady, SolFunded, AccountOp, LendingOp, PositionOp
  <2> HIDE DEF m, w
  <2> QED BY <1>2, <1>5, <2>2, <2>3, <2>4 DEF l, v, Admits, Alike
<1>6. CASE c = "position"
  <2>1. x.op \notin PositionOp \union
                 {"refreshReserves", "refreshObligation", "requestElevationGroup", "refreshFarms",
                  "withdrawReferrerFees"}
    BY <1>1, <1>6 DEF Ignored
  <2>2. m.deposits = l.deposits /\ m.borrows = l.borrows /\ m.group = l.group
    BY <1>1, <2>1 DEF LedgerAfter, Chain, PositionOp
  <2>3. /\ w.fresh = v.fresh /\ w.obligation = v.obligation /\ w.farmFresh = v.farmFresh
        /\ w.farmOwed = v.farmOwed
    BY <1>1, <2>1 DEF VMAfter, VMType, PositionOp
  <2>4. PositionsListed(x, l) /\ Refreshed(x, l, v) /\ PositionHeld(x, l)
    BY <2>1 DEF PositionsListed, Refreshed, PositionHeld, PositionOp
  <2> HIDE DEF m, w
  <2> QED BY <1>2, <1>6, <2>2, <2>3, <2>4 DEF l, v, Admits, Alike
<1> QED BY <1>3, <1>4, <1>5, <1>6 DEF Concern

LEMMA IgnoredLeads ==
  ASSUME IInv, NEW c \in Concern, NEW x \in Made(Ignored(c)), NEW S, Closed(c, S)
  PROVE  Leads(c, x, S, S)
<1> SUFFICES ASSUME NEW s \in S PROVE Admits(c, x, s) /\ After(x, s) \in S
  BY DEF Leads
<1>1. s \in Machine /\ x \in ListedInstruction
  BY DEF Closed, Made
<1>2. After(x, s) \in Machine
  BY <1>1, AfterTyped
<1>3. Admits(c, x, s) /\ Alike(c, s, After(x, s))
  BY <1>1, IgnoredAlike
<1> QED BY <1>2, <1>3 DEF Closed

LEMMA IgnoredRuns ==
  ASSUME IInv, NEW c \in Concern, NEW q \in Seq(Made(Ignored(c))), NEW S, Closed(c, S)
  PROVE  Runs(c, q, S, S)
<1>1. \A x \in Made(Ignored(c)) : Leads(c, x, S, S)
  BY IgnoredLeads
<1>2. S \in SUBSET Machine
  BY DEF Closed
<1> QED BY <1>1, <1>2, RunsSkip

\* A list put between two others.
LEMMA RunsAround ==
  ASSUME NEW c, NEW a \in Seq(ListedInstruction), NEW q \in Seq(ListedInstruction),
         NEW b \in Seq(ListedInstruction), NEW O, NEW P, NEW Q, NEW R,
         Runs(c, a, O, P), Runs(c, q, P, Q), Runs(c, b, Q, R)
  PROVE  Runs(c, (a \o q) \o b, O, R) /\ (a \o q) \o b \in Seq(ListedInstruction)
<1>1. Runs(c, a \o q, O, Q)
  BY RunsConcat
<1>2. a \o q \in Seq(ListedInstruction)
  BY Concatenated
<1>3. (a \o q) \o b \in Seq(ListedInstruction)
  BY <1>2, Concatenated
<1>4. Runs(c, (a \o q) \o b, O, R)
  BY <1>1, <1>2, RunsConcat
<1> QED BY <1>3, <1>4

LEMMA MadeListed == \A ops, q : q \in Seq(Made(ops)) => q \in Seq(ListedInstruction)
<1> SUFFICES ASSUME NEW ops, NEW q \in Seq(Made(ops)) PROVE q \in Seq(ListedInstruction)
  OBVIOUS
<1>1. Made(ops) \subseteq ListedInstruction
  BY DEF Made
<1> QED BY <1>1, SeqSubset

-----------------------------------------------------------------------------
(***************************************************************************)
(* What the request and the loaded obligation have to be for every check   *)
(* of the program to be passed, the token accounts aside.                  *)
(***************************************************************************)
Sensible ==
  /\ Compatible(req, known) /\ PositionsHeld(known) /\ FlagsTruthful(known)
  /\ ~farmAddedLater(known) /\ ~nearlyFull(known) /\ ~emptiedBeforeGroupRequest(known)
  /\ ~repaidIsDeposit(known) /\ ~listedBeforePreload(known)

\* The calls that have the accounts of the user and of the obligation made.
asksAccounts ==
  req.action \notin ObligationOnly \union {"mint", "redeem", "withdrawReferrerFees"}

BetweenOps == SwitchOps \union {"refreshFarms"}

\* One step of a build after the first: what it adds to which list.
LEMMA StepParts ==
  ASSUME IInv, ShapeSound, GroupBuilt, Next, ~Initialize, pc' # "thrown"
  PROVE  /\ pc \notin {"initialize", "thrown", "built"} /\ UNCHANGED <<req, referrer, known, positions>>
         /\ phase \in {"setup", "inBetween"}
         /\ \/ AddComputeBudgetIxn /\ pc = "budget" /\ phase = "setup" /\ phase' = phase
               /\ pc' = IF req.action \in ObligationOnly THEN "lending" ELSE "scope"
            \/ AddScopeRefreshIxs /\ pc = "scope" /\ phase = "setup" /\ phase' = phase
               /\ pc' = (IF req.action \in {"mint", "redeem"} THEN "ata" ELSE "metadata")
            \/ AddInitUserMetadataIxs /\ pc = "metadata" /\ phase = "setup" /\ phase' = phase
               /\ pc' = "referrer"
            \/ AddInitReferrerTokenStateIxs /\ pc = "referrer" /\ phase = "setup" /\ phase' = phase
               /\ pc' = "initObligation"
            \/ AddInitObligationIxs /\ pc = "initObligation" /\ phase = "setup" /\ phase' = phase
               /\ pc' = "ata"
            \/ AddAtaIxs /\ pc = "ata" /\ phase' = phase
               /\ pc' = IF req.action \in {"mint", "redeem"} THEN "lending" ELSE "others"
            \/ AddRefreshOtherReserves /\ pc = "others" /\ phase' = phase /\ pc' = "initFarms"
            \/ AddInitObligationForFarms /\ pc = "initFarms" /\ phase' = phase /\ pc' = "current"
            \/ AddRefreshCurrent /\ pc = "current" /\ phase' = phase
               /\ pc' = IF req.elevate THEN "elevation" ELSE "farms"
            \/ AddRequestElevation /\ pc = "elevation" /\ phase' = phase /\ pc' = "farms"
            \/ AddRefreshFarms /\ pc = "farms" /\ phase' = phase
               /\ pc' = IF phase = "setup" THEN "lending" ELSE "splice"
            \/ AddLendingIx /\ pc = "lending" /\ phase = "setup"
               /\ \/ AddRefreshObligation /\ phase' = phase /\ pc' = "built"
                  \/ AddWithdrawReferrerFees /\ phase' = phase /\ pc' = "built"
                  \/ /\ ~AddRefreshObligation /\ ~AddWithdrawReferrerFees
                     /\ req.action \notin ObligationOnly \union {"withdrawReferrerFees"}
                     /\ IF twoToken THEN pc' = "ata" /\ phase' = "inBetween"
                        ELSE pc' = "splice" /\ phase' = "setup"
            \/ AddRefreshFarmsCleanupTxnIxsToCleanupIxs /\ pc = "splice" /\ phase' = phase
               /\ pc' = "built"
<1>1. pc \notin {"initialize", "thrown", "built"} /\ UNCHANGED <<req, referrer, known, positions>>
  <2>1. UNCHANGED loaded /\ pc \notin {"initialize", "thrown"}
    BY StepKeeps
  <2>2. pc # "built"
    BY DEF Next, Initialize, AddComputeBudgetIxn, AddScopeRefreshIxs, AddInitUserMetadataIxs,
       AddInitReferrerTokenStateIxs, AddInitObligationIxs, AddAtaIxs, AddRefreshOtherReserves,
       AddInitObligationForFarms, AddRefreshCurrent, AddRequestElevation, AddRefreshFarms,
       AddLendingIx, AddDepositIx, AddDepositReserveLiquidityIx, AddRedeemReserveCollateralIx,
       AddDepositObligationCollateralIx, AddWithdrawIx, AddBorrowIx, AddRepayIx, AddLiquidateIx,
       AddPlainIx, AddDebtIx, AddDepositAndBorrowIx, AddRepayAndWithdrawIxs, AddRefreshObligation,
       AddWithdrawReferrerFees, AddRefreshFarmsCleanupTxnIxsToCleanupIxs
  <2> QED BY <2>1, <2>2 DEF loaded
<1>2. /\ phase \in {"setup", "inBetween"}
      /\ phase = "inBetween" => pc \in {"ata", "others", "initFarms", "current", "elevation",
                                         "farms", "splice", "built", "thrown"}
  BY DEF IInv, StateSound, ShapeSound
<1>3. CASE AddComputeBudgetIxn \/ AddScopeRefreshIxs \/ AddInitUserMetadataIxs
           \/ AddInitReferrerTokenStateIxs \/ AddInitObligationIxs
  BY <1>1, <1>2, <1>3 DEF AddComputeBudgetIxn, AddScopeRefreshIxs, AddInitUserMetadataIxs,
     AddInitReferrerTokenStateIxs, AddInitObligationIxs, OnlySetup
<1>4. CASE AddAtaIxs \/ AddRefreshOtherReserves \/ AddInitObligationForFarms \/ AddRefreshCurrent
  BY <1>1, <1>2, <1>4 DEF AddAtaIxs, AddRefreshOtherReserves, AddInitObligationForFarms,
     AddRefreshCurrent, OnlySupport, Throw
<1>5. CASE AddRequestElevation
  <2>1. pc = "elevation" /\ UNCHANGED phase /\ pc' = "farms"
    BY <1>5, ElevationPast
  <2> QED BY <1>1, <1>2, <1>5, <2>1
<1>6. CASE AddRefreshFarms \/ AddRefreshFarmsCleanupTxnIxsToCleanupIxs
  BY <1>1, <1>2, <1>6 DEF AddRefreshFarms, AddRefreshFarmsCleanupTxnIxsToCleanupIxs
<1>7. CASE AddLendingIx
  <2>1. CASE AddRefreshObligation \/ AddWithdrawReferrerFees
    BY <1>1, <1>2, <1>7, <2>1 DEF AddRefreshObligation, AddWithdrawReferrerFees
  <2>2. CASE AddDepositIx \/ AddDepositReserveLiquidityIx \/ AddRedeemReserveCollateralIx
             \/ AddDepositObligationCollateralIx \/ AddWithdrawIx
    BY <1>1, <1>2, <1>7, <2>2 DEF AddDepositIx, AddDepositReserveLiquidityIx,
       AddRedeemReserveCollateralIx, AddDepositObligationCollateralIx, AddWithdrawIx, AddPlainIx,
       twoToken, TwoTokenAction, ObligationOnly, AddRefreshObligation, AddWithdrawReferrerFees
  <2>3. CASE AddBorrowIx \/ AddRepayIx \/ AddLiquidateIx
    BY <1>1, <1>2, <1>7, <2>3 DEF AddBorrowIx, AddRepayIx, AddLiquidateIx, AddDebtIx, Throw,
       twoToken, TwoTokenAction, ObligationOnly, AddRefreshObligation, AddWithdrawReferrerFees
  <2>4. CASE AddDepositAndBorrowIx \/ AddRepayAndWithdrawIxs
    BY <1>1, <1>2, <1>7, <2>4 DEF AddDepositAndBorrowIx, AddRepayAndWithdrawIxs,
       twoToken, TwoTokenAction, ObligationOnly, AddRefreshObligation, AddWithdrawReferrerFees
  <2> QED BY <1>7, <2>1, <2>2, <2>3, <2>4 DEF AddLendingIx
<1> QED BY <1>3, <1>4, <1>5, <1>6, <1>7 DEF Next

LEMMA GrowthMore ==
  ASSUME NEW A, NEW B, NEW C, NEW D, NEW E, NEW F, A \subseteq D, B \subseteq E, C \subseteq F,
         Growth(A, B, C)
  PROVE  Growth(D, E, F)
<1>1. PICK a \in Seq(Made(A)), b \in Seq(Made(B)), m \in Seq(Made(B)),
           c \in Seq(Made(C)), f \in Seq(Made({"refreshFarms"})) :
        /\ setupIxs' = (a \o setupIxs) \o b
        /\ inBetweenIxs' = inBetweenIxs \o m
        /\ cleanupIxs' = cleanupIxs \o c
        /\ refreshFarmsCleanupTxnIxs' = refreshFarmsCleanupTxnIxs \o f
  BY Zenon DEF Growth
<1>2. a \in Seq(Made(D)) /\ b \in Seq(Made(E)) /\ m \in Seq(Made(E)) /\ c \in Seq(Made(F))
  BY MadeMore
<1> QED BY <1>1, <1>2, Zenon DEF Growth

LEMMA SwitchMade ==
  ASSUME IInv, NEW g \in GroupId
  PROVE  SwitchGroup(g) \in Seq(Made(SwitchOps))
<1>1. /\ RefreshReserves(allReservesExcludingCurrent) \in Seq(Made({"refreshReserves"}))
      /\ RefreshReserves(currentReserves) \in Seq(Made({"refreshReserves"}))
  BY PassReserves, RefreshReservesMade
<1>2. /\ RefreshObligation(FALSE) \in Seq(Made({"refreshObligation"}))
      /\ RequestElevation(g, FALSE) \in Seq(Made({"requestElevationGroup"}))
  BY PositionMade
<1>3. /\ RefreshReserves(allReservesExcludingCurrent) \in Seq(Made(SwitchOps))
      /\ RefreshReserves(currentReserves) \in Seq(Made(SwitchOps))
      /\ RefreshObligation(FALSE) \in Seq(Made(SwitchOps))
      /\ RequestElevation(g, FALSE) \in Seq(Made(SwitchOps))
  BY <1>1, <1>2, MadeMore DEF SwitchOps, RefreshOps
<1> HIDE DEF Made
<1>4. RequestElevation(g, FALSE) \o RefreshReserves(allReservesExcludingCurrent)
        \in Seq(Made(SwitchOps))
  BY <1>3, Concatenated
<1>5. RequestElevation(g, FALSE) \o RefreshReserves(allReservesExcludingCurrent)
        \o RefreshReserves(currentReserves) \in Seq(Made(SwitchOps))
  BY <1>3, <1>4, Concatenated
<1>6. RequestElevation(g, FALSE) \o RefreshReserves(allReservesExcludingCurrent)
        \o RefreshReserves(currentReserves) \o RefreshObligation(FALSE) \in Seq(Made(SwitchOps))
  BY <1>3, <1>5, Concatenated
<1> QED BY <1>6 DEF SwitchGroup

\* What leaving the group pushes to the cleanup.
leaving ==
  RefreshReserves(allReservesExcludingCurrent) \o RefreshObligation(TRUE) \o RequestElevation(0, TRUE)

LEMMA LeavingMade == ASSUME IInv PROVE leaving \in Seq(Made(SwitchOps))
<1>1. RefreshReserves(allReservesExcludingCurrent) \in Seq(Made({"refreshReserves"}))
  BY PassReserves, RefreshReservesMade
<1>2. /\ RefreshObligation(TRUE) \in Seq(Made({"refreshObligation"}))
      /\ RequestElevation(0, TRUE) \in Seq(Made({"requestElevationGroup"}))
  BY PositionMade DEF GroupId
<1>3. /\ RefreshReserves(allReservesExcludingCurrent) \in Seq(Made(SwitchOps))
      /\ RefreshObligation(TRUE) \in Seq(Made(SwitchOps))
      /\ RequestElevation(0, TRUE) \in Seq(Made(SwitchOps))
  BY <1>1, <1>2, MadeMore DEF SwitchOps, RefreshOps
<1> HIDE DEF Made
<1>4. RefreshReserves(allReservesExcludingCurrent) \o RefreshObligation(TRUE)
        \in Seq(Made(SwitchOps))
  BY <1>3, Concatenated
<1> QED BY <1>3, <1>4, Concatenated DEF leaving

LEMMA ListedAssociate ==
  ASSUME NEW s \in Seq(ListedInstruction), NEW t \in Seq(ListedInstruction),
         NEW u \in Seq(ListedInstruction)
  PROVE  (s \o t) \o u = s \o (t \o u)
BY ConcatAssociative

\* The elevation part switches the group, leaves it in the cleanup, or does nothing.
LEMMA ElevationParts ==
  ASSUME IInv, ShapeSound, GroupBuilt, AddRequestElevation, pc' # "thrown"
  PROVE  /\ UNCHANGED <<loaded, reserveLists, refreshFarmsCleanupTxnIxs, lendingIxs, phase>>
         /\ \/ UNCHANGED <<setupIxs, inBetweenIxs, cleanupIxs, potentialGroup>>
            \/ /\ UNCHANGED <<setupIxs, inBetweenIxs, potentialGroup>>
               /\ cleanupIxs' = cleanupIxs \o leaving
               /\ Leaves /\ phase = "setup" /\ req.reserve \in known.borrows
            \/ \E g \in GroupId :
                 /\ isNewGroup(g) /\ PushSupport(SwitchGroup(g)) /\ UNCHANGED cleanupIxs
                 /\ supportAction \in {"deposit", "borrow", "depositAndBorrow"}
                 /\ supportAction = "borrow" => potentialGroup' = g
                 /\ supportAction # "borrow" => UNCHANGED potentialGroup
                 /\ g = 0 => req.override = 0
         /\ Leaves /\ phase = "setup" => cleanupIxs' = cleanupIxs \o leaving
<1>1. /\ pc = "elevation" /\ req.elevate /\ phase \in {"setup", "inBetween"}
      /\ (phase = "inBetween" => twoToken)
      /\ UNCHANGED <<loaded, reserveLists, refreshFarmsCleanupTxnIxs, lendingIxs, phase>>
  BY ElevationPast DEF AddRequestElevation, OnlyElevation
<1>2. CASE RequestGroupOnRepay
  <2>1. phase = "setup" /\ req.action \in {"repay", "repayAndWithdraw"} /\ req.override = NoOverride
    BY <1>1, <1>2 DEF RequestGroupOnRepay, supportAction, twoToken, TwoTokenAction, IInv, CallSound
  <2>2. req.reserve \in known.borrows /\ UNCHANGED <<setupIxs, inBetweenIxs, potentialGroup>>
    BY <1>2 DEF RequestGroupOnRepay, Throw
  <2>3. Leaves <=> req.level >= 1 /\ Cardinality(known.borrows) = 1 /\ known.group # 0
    BY <1>1, <2>1 DEF Leaves, Repays
  <2>4. CASE Leaves
    <3>1. cleanupIxs' = cleanupIxs \o RefreshReserves(allReservesExcludingCurrent)
                        \o RefreshObligation(TRUE) \o RequestElevation(0, TRUE)
      BY <1>2, <2>1, <2>2, <2>3, <2>4 DEF RequestGroupOnRepay
    <3>2. PICK a, b, d : a = RefreshReserves(allReservesExcludingCurrent) /\ b = RefreshObligation(TRUE)
                         /\ d = RequestElevation(0, TRUE)
      OBVIOUS
    <3>3. /\ cleanupIxs \in Seq(ListedInstruction) /\ a \in Seq(ListedInstruction)
          /\ b \in Seq(ListedInstruction) /\ d \in Seq(ListedInstruction)
      <4>1. a \in Seq(Made({"refreshReserves"}))
        BY <3>2, PassReserves, RefreshReservesMade
      <4>2. /\ b \in Seq(Made({"refreshObligation"})) /\ d \in Seq(Made({"requestElevationGroup"}))
        BY <3>2, PositionMade DEF GroupId
      <4> QED BY <4>1, <4>2, MadeListed, ListsListed
    <3>4. ((cleanupIxs \o a) \o b) \o d = cleanupIxs \o ((a \o b) \o d)
      <4>1. PICK c : c = cleanupIxs
        OBVIOUS
      <4>2. c \in Seq(ListedInstruction) /\ a \in Seq(ListedInstruction)
        BY <3>3, <4>1
      <4>3. b \in Seq(ListedInstruction) /\ d \in Seq(ListedInstruction)
        BY <3>3
      <4>4. a \o b \in Seq(ListedInstruction)
        BY <4>2, <4>3, Concatenated
      <4>5. (c \o a) \o b = c \o (a \o b)
        BY <4>2, <4>3, ListedAssociate
      <4>6. PICK ab : ab = a \o b
        OBVIOUS
      <4>7. (c \o ab) \o d = c \o (ab \o d)
        BY <4>2, <4>3, <4>4, <4>6, ListedAssociate
      <4>8. ((c \o a) \o b) \o d = (c \o ab) \o d
        BY <4>5, <4>6, Zenon
      <4> QED BY <4>1, <4>6, <4>7, <4>8, Zenon
    <3>5. cleanupIxs' = cleanupIxs \o leaving
      BY <3>1, <3>2, <3>4 DEF leaving
    <3> QED BY <1>1, <2>1, <2>2, <2>4, <3>5
  <2>5. CASE ~Leaves
    <3>1. UNCHANGED cleanupIxs
      BY <1>2, <2>2, <2>3, <2>5 DEF RequestGroupOnRepay
    <3> QED BY <1>1, <2>2, <2>5, <3>1
  <2> QED BY <2>4, <2>5
<1>3. ASSUME NEW g, ElevationFor(g), g \in GroupId \union {NoOverride}, UNCHANGED cleanupIxs,
             supportAction \in {"depositAndBorrow", "borrow"}, g = 0 => req.override = 0
      PROVE  \/ UNCHANGED <<setupIxs, inBetweenIxs, cleanupIxs, potentialGroup>>
             \/ \E h \in GroupId :
                  /\ isNewGroup(h) /\ PushSupport(SwitchGroup(h)) /\ UNCHANGED cleanupIxs
                  /\ supportAction \in {"deposit", "borrow", "depositAndBorrow"}
                  /\ supportAction = "borrow" => potentialGroup' = h
                  /\ supportAction # "borrow" => UNCHANGED potentialGroup
                  /\ h = 0 => req.override = 0
  <2>1. CASE g # NoOverride /\ isNewGroup(g)
    <3>1. g \in GroupId /\ isNewGroup(g) /\ PushSupport(SwitchGroup(g))
      BY <1>3, <2>1 DEF ElevationFor
    <3>2. potentialGroup' = IF supportAction = "borrow" THEN g ELSE potentialGroup
      BY <1>3, <2>1 DEF ElevationFor, Throw
    <3> QED BY <1>3, <3>1, <3>2
  <2>2. CASE ~(g # NoOverride /\ isNewGroup(g))
    <3>1. UNCHANGED <<setupIxs, inBetweenIxs, potentialGroup>>
      BY <1>3, <2>2 DEF ElevationFor
    <3> QED BY <1>3, <3>1
  <2> QED BY <2>1, <2>2
<1>4. CASE RequestGroupOnBorrow
  <2>1. ~Leaves \/ phase # "setup"
    <3>1. supportAction \in {"depositAndBorrow", "borrow"}
      BY <1>4 DEF RequestGroupOnBorrow
    <3> QED BY <1>1, <3>1 DEF supportAction, twoToken, TwoTokenAction, Leaves, Repays
  <2>2. supportAction \in {"depositAndBorrow", "borrow"} /\ UNCHANGED cleanupIxs
    BY <1>4 DEF RequestGroupOnBorrow
  <2>3. CASE req.override # NoOverride /\ supportAction = "borrow"
    <3>1. ElevationFor(req.override) /\ req.override \in GroupId
      BY <1>4, <2>3 DEF RequestGroupOnBorrow, IInv, StateSound, Request
    <3> QED BY <1>1, <1>3, <2>1, <2>2, <3>1
  <2>4. CASE ~(req.override # NoOverride /\ supportAction = "borrow")
    <3> DEFINE debt == IF supportAction = "borrow" THEN req.reserve ELSE req.outflow
               colls == IF supportAction = "borrow" THEN known.deposits ELSE {req.reserve}
    <3>1. PICK coll \in colls : \E g \in bestGroups(commonElevationGroups(coll, debt)) :
                                  ElevationFor(g)
      BY <1>4, <2>4 DEF RequestGroupOnBorrow, Throw
    <3>2. coll \in Reserve
      <4>1. known.deposits \subseteq Reserve /\ req.reserve \in Reserve
        BY DEF IInv, StateSound, Chain, Request
      <4> QED BY <4>1
    <3>3. PICK g \in bestGroups(commonElevationGroups(coll, debt)) : ElevationFor(g)
      BY <3>1
    <3>4. g \in Group \union {NoOverride}
      BY <3>2, <3>3, GroupAssumption DEF bestGroups, commonElevationGroups
    <3>5. g \in GroupId \union {NoOverride} /\ g # 0
      BY <3>4, GroupAssumption DEF GroupId, NoOverride
    <3> QED BY <1>1, <1>3, <2>1, <2>2, <3>3, <3>5
  <2> QED BY <2>3, <2>4
<1>5. CASE RequestGroupOnDeposit
  <2>1. ~Leaves \/ phase # "setup"
    <3>1. supportAction = "deposit"
      BY <1>5 DEF RequestGroupOnDeposit
    <3> QED BY <1>1, <3>1 DEF supportAction, twoToken, TwoTokenAction, Leaves, Repays
  <2>2. supportAction = "deposit" /\ UNCHANGED <<potentialGroup, cleanupIxs>>
    BY <1>5 DEF RequestGroupOnDeposit
  <2>3. CASE req.override # NoOverride /\ ~twoToken /\ isNewGroup(req.override)
    <3>1. PushSupport(SwitchGroup(req.override)) /\ req.override \in GroupId
      BY <1>5, <2>3 DEF RequestGroupOnDeposit, IInv, StateSound, Request
    <3>2. \E g \in GroupId :
            /\ isNewGroup(g) /\ PushSupport(SwitchGroup(g)) /\ UNCHANGED cleanupIxs
            /\ supportAction \in {"deposit", "borrow", "depositAndBorrow"}
            /\ supportAction = "borrow" => potentialGroup' = g
            /\ supportAction # "borrow" => UNCHANGED potentialGroup
            /\ g = 0 => req.override = 0
      BY <2>2, <2>3, <3>1
    <3> QED BY <1>1, <2>1, <3>2
  <2>4. CASE ~(req.override # NoOverride /\ ~twoToken /\ isNewGroup(req.override))
    BY <1>1, <1>5, <2>1, <2>2, <2>4 DEF RequestGroupOnDeposit
  <2> QED BY <2>3, <2>4
<1>6. CASE NoGroupRequest
  <2>1. ~Leaves \/ phase # "setup"
    BY <1>1, <1>6 DEF NoGroupRequest, supportAction, twoToken, TwoTokenAction, Leaves, Repays
  <2> QED BY <1>1, <1>6, <2>1 DEF NoGroupRequest
<1> QED BY <1>2, <1>4, <1>5, <1>6 DEF AddRequestElevation

-----------------------------------------------------------------------------
(***************************************************************************)
(* The positions and what is refreshed, as the checks of the program see   *)
(* them, and what each kind of instruction makes of them.                  *)
(***************************************************************************)
Standing(D, B, G, F, ob, FF, FO) ==
  {s \in Machine : /\ s[1].deposits = D /\ s[1].borrows = B /\ s[1].group \in G
                   /\ F \subseteq s[2].fresh /\ (ob => s[2].obligation)
                   /\ FF \subseteq s[2].farmFresh /\ s[2].farmOwed \subseteq FO}

LEMMA StandingClosed ==
  ASSUME NEW D, NEW B, NEW G, NEW F, NEW ob, NEW FF, NEW FO
  PROVE  /\ Closed("position", Standing(D, B, G, F, ob, FF, FO))
         /\ Standing(D, B, G, F, ob, FF, FO) \in SUBSET Machine
BY DEF Closed, Alike, Standing

LEMMA RefreshReservesStands ==
  ASSUME IInv, NEW S \in SUBSET Reserve,
         NEW D, NEW B, NEW G, NEW F, NEW ob, NEW FF, NEW FO
  PROVE  Runs("position", RefreshReserves(S), Standing(D, B, G, F, ob, FF, FO),
              Standing(D, B, G, F \union S, ob, FF, FO))
<1> DEFINE x == Ix("refreshReserves", NoReserve, S)
           P == Standing(D, B, G, F, ob, FF, FO)
           Q == Standing(D, B, G, F \union S, ob, FF, FO)
<1>1. x \in ListedInstruction
  BY RefreshReservesMade DEF Made
<1>2. x.op = "refreshReserves" /\ x.deps = S
  BY DEF Ix
<1>3. P \in SUBSET Machine /\ Q \in SUBSET Machine
  BY StandingClosed
<1>4. CASE S = {}
  <2>1. RefreshReserves(S) = <<>> /\ F \union S = F
    BY <1>4 DEF RefreshReserves
  <2> QED BY <1>3, <2>1, RunsNothing
<1>5. CASE S # {}
  <2>1. RefreshReserves(S) = <<x>>
    BY <1>5 DEF RefreshReserves
  <2> HIDE DEF x
  <2>2. ASSUME NEW s \in P PROVE Admits("position", x, s) /\ After(x, s) \in Q
    <3>1. s \in Machine /\ s[1] \in Chain /\ s[2] \in VMType
      BY DEF Standing, Machine
    <3>2. After(x, s) \in Machine
      BY <1>1, <3>1, AfterTyped
    <3>3. LedgerAfter(x, s[1]) = s[1]
      BY <1>2 DEF LedgerAfter
    <3>4. VMAfter(x, s[2]) = [s[2] EXCEPT !.fresh = @ \union S]
      BY <1>2 DEF VMAfter, PositionOp
    <3>5. /\ VMAfter(x, s[2]).fresh = s[2].fresh \union S
          /\ VMAfter(x, s[2]).obligation = s[2].obligation
          /\ VMAfter(x, s[2]).farmFresh = s[2].farmFresh
          /\ VMAfter(x, s[2]).farmOwed = s[2].farmOwed
      BY <3>1, <3>4 DEF VMType
    <3>6. Admits("position", x, s)
      BY <1>2 DEF Admits, PositionsListed, Refreshed, PositionHeld, PositionOp
    <3>7. After(x, s)[1] = s[1] /\ After(x, s)[2] = VMAfter(x, s[2])
      BY <3>3 DEF After
    <3> QED BY <3>2, <3>5, <3>6, <3>7 DEF Standing
  <2>3. Leads("position", x, P, Q)
    BY <2>2 DEF Leads
  <2> HIDE DEF P, Q
  <2>4. Runs("position", <<x>>, P, Q)
    BY <1>3, <2>3, RunsOne
  <2> QED BY <2>1, <2>4 DEF P, Q
<1> QED BY <1>4, <1>5

\* A refresh of the obligation lists the positions, all refreshed.
LEMMA RefreshObligationStands ==
  ASSUME IInv, NEW skip \in BOOLEAN,
         NEW D, NEW B, NEW G, NEW F, NEW ob, NEW FF, NEW FO,
         AdditionalDepositReservesList = D,
         (IF skip THEN {} ELSE borrowReserves \ preLoadedBorrowReservesSameTx) = B,
         D \union B \subseteq F
  PROVE  Runs("position", RefreshObligation(skip), Standing(D, B, G, F, ob, FF, FO),
              Standing(D, B, G, F, TRUE, FF, FO))
<1> DEFINE x == PositionAccounts("refreshObligation", 0, skip)
           P == Standing(D, B, G, F, ob, FF, FO)
           Q == Standing(D, B, G, F, TRUE, FF, FO)
<1>1. x \in ListedInstruction
  BY PositionMade DEF Made, GroupId
<1>2. x.op = "refreshObligation" /\ x.deps = D /\ x.bors = B
  BY DEF PositionAccounts, Ix
<1>3. P \in SUBSET Machine /\ Q \in SUBSET Machine
  BY StandingClosed
<1>4. RefreshObligation(skip) = <<x>>
  BY DEF RefreshObligation
<1> HIDE DEF x
<1>5. ASSUME NEW s \in P PROVE Admits("position", x, s) /\ After(x, s) \in Q
  <2>1. s \in Machine /\ s[1] \in Chain /\ s[2] \in VMType
    BY DEF Standing, Machine
  <2>2. After(x, s) \in Machine
    BY <1>1, <2>1, AfterTyped
  <2>3. LedgerAfter(x, s[1]) = s[1]
    BY <1>2 DEF LedgerAfter
  <2>4. VMAfter(x, s[2]) = [s[2] EXCEPT !.obligation = TRUE]
    BY <1>2 DEF VMAfter, PositionOp
  <2>5. /\ VMAfter(x, s[2]).fresh = s[2].fresh
        /\ VMAfter(x, s[2]).obligation = TRUE
        /\ VMAfter(x, s[2]).farmFresh = s[2].farmFresh
        /\ VMAfter(x, s[2]).farmOwed = s[2].farmOwed
    BY <2>1, <2>4 DEF VMType
  <2>6. s[1].deposits = D /\ s[1].borrows = B /\ F \subseteq s[2].fresh
    BY DEF Standing
  <2>7. Admits("position", x, s)
    BY <1>2, <2>6 DEF Admits, PositionsListed, Refreshed, PositionHeld, PositionOp
  <2>8. After(x, s)[1] = s[1] /\ After(x, s)[2] = VMAfter(x, s[2])
    BY <2>3 DEF After
  <2> QED BY <2>2, <2>5, <2>7, <2>8 DEF Standing
<1>6. Leads("position", x, P, Q)
  BY <1>5 DEF Leads
<1> HIDE DEF P, Q
<1>7. Runs("position", <<x>>, P, Q)
  BY <1>3, <1>6, RunsOne
<1> QED BY <1>4, <1>7 DEF P, Q

\* A request for another group, the positions listed, undoes the refreshes.
LEMMA RequestElevationStands ==
  ASSUME IInv, NEW skip \in BOOLEAN, NEW g \in GroupId,
         NEW D, NEW B, NEW G, NEW F, NEW FF, NEW FO,
         AdditionalDepositReservesList = D,
         (IF skip THEN {} ELSE borrowReserves \ preLoadedBorrowReservesSameTx) = B,
         g \notin G
  PROVE  Runs("position", RequestElevation(g, skip), Standing(D, B, G, F, TRUE, FF, FO),
              Standing(D, B, {g}, {}, FALSE, FF, FO))
<1> DEFINE x == PositionAccounts("requestElevationGroup", g, skip)
           P == Standing(D, B, G, F, TRUE, FF, FO)
           Q == Standing(D, B, {g}, {}, FALSE, FF, FO)
<1>1. x \in ListedInstruction
  BY PositionMade DEF Made
<1>2. x.op = "requestElevationGroup" /\ x.deps = D /\ x.bors = B /\ x.grp = g
  BY DEF PositionAccounts, Ix
<1>3. P \in SUBSET Machine /\ Q \in SUBSET Machine
  BY StandingClosed
<1>4. RequestElevation(g, skip) = <<x>>
  BY DEF RequestElevation
<1> HIDE DEF x
<1>5. ASSUME NEW s \in P PROVE Admits("position", x, s) /\ After(x, s) \in Q
  <2>1. s \in Machine /\ s[1] \in Chain /\ s[2] \in VMType
    BY DEF Standing, Machine
  <2>2. After(x, s) \in Machine
    BY <1>1, <2>1, AfterTyped
  <2>3. LedgerAfter(x, s[1]) = [s[1] EXCEPT !.group = g]
    BY <1>2 DEF LedgerAfter
  <2>4. VMAfter(x, s[2]) = [s[2] EXCEPT !.fresh = {}, !.obligation = FALSE]
    BY <1>2 DEF VMAfter, PositionOp
  <2>5. /\ VMAfter(x, s[2]).farmFresh = s[2].farmFresh
        /\ VMAfter(x, s[2]).farmOwed = s[2].farmOwed
        /\ LedgerAfter(x, s[1]).deposits = s[1].deposits
        /\ LedgerAfter(x, s[1]).borrows = s[1].borrows
        /\ LedgerAfter(x, s[1]).group = g
    BY <2>1, <2>3, <2>4 DEF VMType, Chain
  <2>6. /\ s[1].deposits = D /\ s[1].borrows = B /\ F \subseteq s[2].fresh /\ s[2].obligation
        /\ s[1].group \in G /\ FF \subseteq s[2].farmFresh /\ s[2].farmOwed \subseteq FO
    BY DEF Standing
  <2>7. Admits("position", x, s)
    BY <1>2, <2>6 DEF Admits, PositionsListed, Refreshed, PositionHeld, PositionOp
  <2>8. After(x, s)[1] = LedgerAfter(x, s[1]) /\ After(x, s)[2] = VMAfter(x, s[2])
    BY DEF After
  <2> QED BY <2>2, <2>5, <2>6, <2>7, <2>8 DEF Standing
<1>6. Leads("position", x, P, Q)
  BY <1>5 DEF Leads
<1> HIDE DEF P, Q
<1>7. Runs("position", <<x>>, P, Q)
  BY <1>3, <1>6, RunsOne
<1> QED BY <1>4, <1>7 DEF P, Q

\* The farms a run of refreshes covers.
FarmsAt(S, mode) == (S \intersect FarmsOf(mode)) \X {mode}

LEMMA RefreshFarmsStands ==
  ASSUME IInv, NEW S, NEW mode \in Mode,
         NEW D, NEW B, NEW G, NEW F, NEW ob, NEW FF, NEW FO
  PROVE  Runs("position", RefreshFarms(S, mode), Standing(D, B, G, F, ob, FF, FO),
              Standing(D, B, G, F, ob, FF \union FarmsAt(S, mode), FO \ FarmsAt(S, mode)))
<1> DEFINE farmed == S \intersect FarmsOf(mode)
           x == [Ix("refreshFarms", NoReserve, farmed) EXCEPT !.how = mode]
           X == FarmsAt(S, mode)
           P == Standing(D, B, G, F, ob, FF, FO)
           Q == Standing(D, B, G, F, ob, FF \union X, FO \ X)
<1>1. P \in SUBSET Machine /\ Q \in SUBSET Machine
  BY StandingClosed
<1>2. x.op = "refreshFarms" /\ x.deps \X {x.how} = X
  BY DEF Ix, FarmsAt
<1>3. CASE farmed = {}
  <2>1. RefreshFarms(S, mode) = <<>> /\ X = {}
    BY <1>3 DEF RefreshFarms, FarmsAt
  <2>2. P = Q
    BY <2>1
  <2> QED BY <1>1, <2>1, <2>2, RunsNothing
<1>4. CASE farmed # {}
  <2>1. RefreshFarms(S, mode) = <<x>>
    BY <1>4 DEF RefreshFarms
  <2>2. x \in ListedInstruction
    <3>1. 1 \in 1..Len(<<x>>) /\ <<x>>[1] = x
      OBVIOUS
    <3>2. <<x>> \in Seq(Made({"refreshFarms"}))
      BY <2>1, RefreshFarmsMade
    <3>3. x \in Made({"refreshFarms"})
      BY <3>1, <3>2, ElementOfSeq
    <3> QED BY <3>3 DEF Made
  <2> HIDE DEF x, X
  <2>3. ASSUME NEW s \in P PROVE Admits("position", x, s) /\ After(x, s) \in Q
    <3>1. s \in Machine /\ s[1] \in Chain /\ s[2] \in VMType
      BY DEF Standing, Machine
    <3>2. After(x, s) \in Machine
      BY <2>2, <3>1, AfterTyped
    <3>3. LedgerAfter(x, s[1]) = s[1]
      BY <1>2 DEF LedgerAfter
    <3>4. VMAfter(x, s[2]) = [s[2] EXCEPT !.farmFresh = @ \union X, !.farmOwed = @ \ X]
      BY <1>2 DEF VMAfter, PositionOp
    <3>5. /\ VMAfter(x, s[2]).fresh = s[2].fresh
          /\ VMAfter(x, s[2]).obligation = s[2].obligation
          /\ VMAfter(x, s[2]).farmFresh = s[2].farmFresh \union X
          /\ VMAfter(x, s[2]).farmOwed = s[2].farmOwed \ X
      BY <3>1, <3>4 DEF VMType
    <3>6. Admits("position", x, s)
      BY <1>2 DEF Admits, PositionsListed, Refreshed, PositionHeld, PositionOp
    <3>7. After(x, s)[1] = s[1] /\ After(x, s)[2] = VMAfter(x, s[2])
      BY <3>3 DEF After
    <3> QED BY <3>2, <3>5, <3>6, <3>7 DEF Standing
  <2>4. Leads("position", x, P, Q)
    BY <2>3 DEF Leads
  <2> HIDE DEF P, Q
  <2>5. Runs("position", <<x>>, P, Q)
    BY <1>1, <2>4, RunsOne
  <2> QED BY <2>1, <2>5 DEF P, Q, X
<1> QED BY <1>3, <1>4

\* The positions after a lending instruction.
depositsAfter(x, D) ==
  CASE x.op \in {"deposit", "depositCollateral"} -> D \union {x.res}
    [] x.op = "withdraw" -> D \ closesDeposit(x.res)
    [] x.op = "liquidate" -> D \ closesDeposit(req.outflow)
    [] OTHER -> D
borrowsAfter(x, B) ==
  CASE x.op = "borrow" -> B \union {x.res}
    [] x.op \in {"repay", "liquidate"} -> B \ closesDebt
    [] OTHER -> B

\* Everything an instruction touches is refreshed, and what it reduces is held.
LEMMA LendingStands ==
  ASSUME IInv, NEW x \in ListedInstruction, x.op \in PositionOp,
         NEW D, NEW B, NEW G, NEW F, NEW FF,
         touchedReserves(x) \subseteq F, touchedFarms(x) \subseteq FF,
         x.op \in {"borrow", "repay", "liquidate"} => (x.deps = D \/ G \subseteq {0}),
         PositionHeld(x, [deposits |-> D, borrows |-> B])
  PROVE  Leads("position", x, Standing(D, B, G, F, TRUE, FF, {}),
               Standing(depositsAfter(x, D), borrowsAfter(x, B), G, {}, FALSE, {}, touchedFarms(x)))
<1> DEFINE P == Standing(D, B, G, F, TRUE, FF, {})
           Q == Standing(depositsAfter(x, D), borrowsAfter(x, B), G, {}, FALSE, {}, touchedFarms(x))
<1>1. ASSUME NEW s \in P PROVE Admits("position", x, s) /\ After(x, s) \in Q
  <2>1. s \in Machine /\ s[1] \in Chain /\ s[2] \in VMType
    BY DEF Standing, Machine
  <2>2. After(x, s) \in Machine
    BY <2>1, AfterTyped
  <2>3. /\ s[1].deposits = D /\ s[1].borrows = B /\ F \subseteq s[2].fresh /\ s[2].obligation
        /\ s[1].group \in G /\ FF \subseteq s[2].farmFresh /\ s[2].farmOwed \subseteq {}
    BY DEF Standing
  <2>4. PositionHeld(x, s[1])
    BY <2>3 DEF PositionHeld
  <2>5. Refreshed(x, s[1], s[2])
    BY <2>3 DEF Refreshed, PositionOp
  <2>6. PositionsListed(x, s[1])
    BY <2>3 DEF PositionsListed, PositionOp
  <2>7. Admits("position", x, s)
    BY <2>4, <2>5, <2>6 DEF Admits
  <2>8. /\ LedgerAfter(x, s[1]).deposits = depositsAfter(x, s[1].deposits)
        /\ LedgerAfter(x, s[1]).borrows = borrowsAfter(x, s[1].borrows)
        /\ LedgerAfter(x, s[1]).group = s[1].group
    <3>1. CASE x.op \in {"deposit", "depositCollateral"}
      BY <2>1, <3>1 DEF LedgerAfter, depositsAfter, borrowsAfter, Chain
    <3>2. CASE x.op = "borrow"
      BY <2>1, <3>2 DEF LedgerAfter, depositsAfter, borrowsAfter, Chain
    <3>3. CASE x.op = "repay"
      BY <2>1, <3>3 DEF LedgerAfter, depositsAfter, borrowsAfter, Chain
    <3>4. CASE x.op = "withdraw"
      BY <2>1, <3>4 DEF LedgerAfter, depositsAfter, borrowsAfter, Chain
    <3>5. CASE x.op = "liquidate"
      BY <2>1, <3>5 DEF LedgerAfter, depositsAfter, borrowsAfter, Chain
    <3> QED BY <3>1, <3>2, <3>3, <3>4, <3>5 DEF PositionOp
  <2>9. VMAfter(x, s[2]).farmOwed = touchedFarms(x)
    <3>1. VMAfter(x, s[2]) =
            [s[2] EXCEPT !.fresh = {}, !.obligation = FALSE, !.farmFresh = {},
                         !.farmOwed = touchedFarms(x),
                         !.funded = @ /\ ~(/\ x.op \in {"deposit", "repay", "liquidate"}
                                           /\ x.res = SolReserve /\ ~overfunded)]
      BY DEF VMAfter, PositionOp
    <3> QED BY <2>1, <3>1 DEF VMType
  <2>10. After(x, s)[1] = LedgerAfter(x, s[1]) /\ After(x, s)[2] = VMAfter(x, s[2])
    BY DEF After
  <2> QED BY <2>2, <2>3, <2>7, <2>8, <2>9, <2>10 DEF Standing
<1> QED BY <1>1 DEF Leads

\* Fewer demands are met too.
LEMMA StandingLess ==
  ASSUME NEW D, NEW B, NEW G, NEW F, NEW ob, NEW FF, NEW FO,
         NEW H, NEW E, NEW oc, NEW EE, NEW EO,
         G \subseteq H, E \subseteq F, oc => ob, EE \subseteq FF, FO \subseteq EO
  PROVE  Standing(D, B, G, F, ob, FF, FO) \subseteq Standing(D, B, H, E, oc, EE, EO)
BY DEF Standing

\* A switch of the group, with what it made stale refreshed again.
LEMMA SwitchStands ==
  ASSUME IInv, NEW g \in GroupId, NEW D, NEW B, NEW G, NEW F, NEW FF, NEW FO,
         AdditionalDepositReservesList = D, borrowReserves \ preLoadedBorrowReservesSameTx = B,
         g \notin G,
         NEW E, E = allReservesExcludingCurrent \union currentReserves, D \union B \subseteq E
  PROVE  Runs("position", SwitchGroup(g), Standing(D, B, G, F, TRUE, FF, FO),
              Standing(D, B, {g}, E, TRUE, FF, FO))
<1> DEFINE P == Standing(D, B, G, F, TRUE, FF, FO)
           Q == Standing(D, B, {g}, {}, FALSE, FF, FO)
           R == Standing(D, B, {g}, allReservesExcludingCurrent, FALSE, FF, FO)
           S == Standing(D, B, {g}, E, FALSE, FF, FO)
           T == Standing(D, B, {g}, E, TRUE, FF, FO)
           ask == RequestElevation(g, FALSE)
           others == RefreshReserves(allReservesExcludingCurrent)
           current == RefreshReserves(currentReserves)
           obl == RefreshObligation(FALSE)
<1>1. Runs("position", ask, P, Q)
  BY RequestElevationStands
<1>2. Runs("position", others, Q, R)
  <2>1. Runs("position", others, Standing(D, B, {g}, {}, FALSE, FF, FO),
             Standing(D, B, {g}, {} \union allReservesExcludingCurrent, FALSE, FF, FO))
    BY PassReserves, RefreshReservesStands
  <2>2. {} \union allReservesExcludingCurrent = allReservesExcludingCurrent
    OBVIOUS
  <2> QED BY <2>1, <2>2
<1>3. Runs("position", current, R, S)
  BY PassReserves, RefreshReservesStands
<1>4. Runs("position", obl, S, T)
  BY RefreshObligationStands
<1>5. /\ ask \in Seq(ListedInstruction) /\ others \in Seq(ListedInstruction)
      /\ current \in Seq(ListedInstruction) /\ obl \in Seq(ListedInstruction)
  <2>1. others \in Seq(Made({"refreshReserves"})) /\ current \in Seq(Made({"refreshReserves"}))
    BY PassReserves, RefreshReservesMade
  <2>2. ask \in Seq(Made({"requestElevationGroup"})) /\ obl \in Seq(Made({"refreshObligation"}))
    BY PositionMade
  <2> HIDE DEF ask, others, current, obl
  <2> QED BY <2>1, <2>2, MadeListed
<1>6. SwitchGroup(g) = ((ask \o others) \o current) \o obl
  BY DEF SwitchGroup
<1> HIDE DEF P, Q, R, S, T, ask, others, current, obl
<1>7. Runs("position", ask \o others, P, R) /\ ask \o others \in Seq(ListedInstruction)
  BY <1>1, <1>2, <1>5, RunsConcat, Concatenated
<1>8. /\ Runs("position", (ask \o others) \o current, P, S)
      /\ (ask \o others) \o current \in Seq(ListedInstruction)
  BY <1>3, <1>5, <1>7, RunsConcat, Concatenated
<1>9. Runs("position", ((ask \o others) \o current) \o obl, P, T)
  BY <1>4, <1>5, <1>8, RunsConcat
<1> QED BY <1>6, <1>9 DEF P, T

\* The refresh of the current reserves and of the obligation.
LEMMA CurrentStands ==
  ASSUME IInv, NEW skip \in BOOLEAN, NEW D, NEW B, NEW G, NEW F, NEW ob, NEW FF, NEW FO,
         AdditionalDepositReservesList = D,
         (IF skip THEN {} ELSE borrowReserves \ preLoadedBorrowReservesSameTx) = B,
         D \union B \subseteq F \union currentReserves
  PROVE  Runs("position", RefreshReserves(currentReserves) \o RefreshObligation(skip),
              Standing(D, B, G, F, ob, FF, FO),
              Standing(D, B, G, F \union currentReserves, TRUE, FF, FO))
<1> DEFINE P == Standing(D, B, G, F, ob, FF, FO)
           Q == Standing(D, B, G, F \union currentReserves, ob, FF, FO)
           R == Standing(D, B, G, F \union currentReserves, TRUE, FF, FO)
           current == RefreshReserves(currentReserves)
           obl == RefreshObligation(skip)
<1>1. Runs("position", current, P, Q)
  BY PassReserves, RefreshReservesStands
<1>2. Runs("position", obl, Q, R)
  BY RefreshObligationStands
<1>3. current \in Seq(ListedInstruction) /\ obl \in Seq(ListedInstruction)
  <2>1. current \in Seq(Made({"refreshReserves"}))
    BY PassReserves, RefreshReservesMade
  <2>2. obl \in Seq(Made({"refreshObligation"}))
    BY PositionMade DEF GroupId
  <2> HIDE DEF current, obl
  <2> QED BY <2>1, <2>2, MadeListed
<1> HIDE DEF P, Q, R, current, obl
<1>4. Runs("position", current \o obl, P, R)
  BY <1>1, <1>2, <1>3, RunsConcat
<1> QED BY <1>4 DEF P, R, current, obl

\* The leaving of the group in the cleanup, when nothing is owed any more.
LEMMA LeavingStands ==
  ASSUME IInv, NEW D, NEW G, NEW FF,
         AdditionalDepositReservesList = D, D \subseteq allReservesExcludingCurrent, 0 \notin G
  PROVE  Runs("position", leaving, Standing(D, {}, G, {}, FALSE, FF, {}),
              Standing(D, {}, {0}, {}, FALSE, FF, {}))
<1> DEFINE F == allReservesExcludingCurrent
           P == Standing(D, {}, G, {}, FALSE, FF, {})
           Q == Standing(D, {}, G, F, FALSE, FF, {})
           R == Standing(D, {}, G, F, TRUE, FF, {})
           S == Standing(D, {}, {0}, {}, FALSE, FF, {})
           ask == RequestElevation(0, TRUE)
           others == RefreshReserves(allReservesExcludingCurrent)
           obl == RefreshObligation(TRUE)
<1>1. Runs("position", others, P, Q)
  <2>1. Runs("position", others, Standing(D, {}, G, {}, FALSE, FF, {}),
             Standing(D, {}, G, {} \union F, FALSE, FF, {}))
    BY PassReserves, RefreshReservesStands
  <2>2. {} \union F = F
    OBVIOUS
  <2> QED BY <2>1, <2>2
<1>2. Runs("position", obl, Q, R)
  BY RefreshObligationStands
<1>3. Runs("position", ask, R, S)
  BY RequestElevationStands DEF GroupId
<1>4. /\ ask \in Seq(ListedInstruction) /\ others \in Seq(ListedInstruction)
      /\ obl \in Seq(ListedInstruction)
  <2>1. others \in Seq(Made({"refreshReserves"}))
    BY PassReserves, RefreshReservesMade
  <2>2. ask \in Seq(Made({"requestElevationGroup"})) /\ obl \in Seq(Made({"refreshObligation"}))
    BY PositionMade DEF GroupId
  <2> HIDE DEF ask, others, obl
  <2> QED BY <2>1, <2>2, MadeListed
<1>5. leaving = (others \o obl) \o ask
  BY DEF leaving
<1> HIDE DEF F, P, Q, R, S, ask, others, obl
<1>6. Runs("position", others \o obl, P, R) /\ others \o obl \in Seq(ListedInstruction)
  BY <1>1, <1>2, <1>4, RunsConcat, Concatenated
<1>7. Runs("position", (others \o obl) \o ask, P, S)
  BY <1>3, <1>4, <1>6, RunsConcat
<1> QED BY <1>5, <1>7 DEF P, S

-----------------------------------------------------------------------------
(***************************************************************************)
(* What the aliased reserve lists hold at each step of the two passes.     *)
(***************************************************************************)
passDeposits ==
  IF req.action = "depositAndBorrow" /\ known.deposits = {} THEN {req.reserve} ELSE known.deposits
preDeposits ==
  IF \/ twoToken /\ ~known.obligation
     \/ req.action = "depositAndBorrow" /\ req.reserve \notin known.deposits
  THEN {req.reserve} ELSE {}
preBorrows ==
  IF req.action = "repayAndWithdraw" /\ known.obligation /\ req.level >= 2 THEN {req.reserve} ELSE {}

ValuesBuilt ==
  pc \notin {"initialize", "thrown"} /\ req.action # "withdrawReferrerFees" =>
    /\ borrowReserves = known.borrows
    /\ phase = "setup" =>
         /\ depositReserves = known.deposits
         /\ preLoadedDepositReservesSameTx = {} /\ preLoadedBorrowReservesSameTx = {}
    /\ phase = "inBetween" /\ pc \in {"ata", "others"} =>
         /\ depositReserves = passDeposits
         /\ preLoadedDepositReservesSameTx = {} /\ preLoadedBorrowReservesSameTx = {}
    /\ phase = "inBetween" /\ pc \in {"initFarms", "current"} =>
         /\ depositReserves = passDeposits
         /\ preLoadedDepositReservesSameTx = preDeposits
         /\ preLoadedBorrowReservesSameTx = preBorrows
    /\ phase = "inBetween" /\ pc \in {"elevation", "farms", "splice", "built"} =>
         /\ depositReserves = passDeposits \union preDeposits
         /\ preLoadedDepositReservesSameTx = preDeposits
         /\ preLoadedBorrowReservesSameTx = preBorrows

LEMMA ValuesStep ==
  ASSUME IInv, ShapeSound, GroupBuilt, ValuesBuilt, Next, ~Initialize
  PROVE  ValuesBuilt'
<1> SUFFICES ASSUME pc' # "thrown", req'.action # "withdrawReferrerFees" PROVE ValuesBuilt'
  BY DEF ValuesBuilt
<1>1. /\ pc \notin {"initialize", "thrown", "built"} /\ phase \in {"setup", "inBetween"}
      /\ req' = req /\ known' = known
  BY StepParts
<1>2. /\ passDeposits' = passDeposits /\ preDeposits' = preDeposits /\ preBorrows' = preBorrows
  BY <1>1 DEF passDeposits, preDeposits, preBorrows, twoToken
<1>3. /\ borrowReserves = known.borrows
      /\ phase = "setup" =>
           /\ depositReserves = known.deposits
           /\ preLoadedDepositReservesSameTx = {} /\ preLoadedBorrowReservesSameTx = {}
  BY <1>1 DEF ValuesBuilt
<1>4. CASE UNCHANGED <<reserveLists, phase>> /\ (phase = "setup" \/ pc \notin {"others", "current"})
  <2>1. \/ phase = "setup"
        \/ pc = "ata" /\ pc' = "others"
        \/ pc = "initFarms" /\ pc' = "current"
        \/ pc \in {"elevation", "farms", "splice"} /\ pc' \in {"farms", "splice", "built"}
    <3>1. pc = "ata" /\ phase = "inBetween" => pc' = "others"
      BY StepParts DEF ShapeSound, twoToken, TwoTokenAction
    <3>2. pc = "initFarms" => pc' = "current"
      BY StepParts
    <3>3. phase = "inBetween" /\ pc \in {"elevation", "farms", "splice"} =>
            pc' \in {"farms", "splice", "built"}
      BY StepParts
    <3>4. phase = "inBetween" => pc \in {"ata", "others", "initFarms", "current", "elevation", "farms", "splice"}
      BY <1>1 DEF ShapeSound
    <3> QED BY <1>1, <1>4, <3>1, <3>2, <3>3, <3>4
  <2>2. ValuesBuilt
    OBVIOUS
  <2>3. UNCHANGED <<depositReserves, borrowReserves, preLoadedDepositReservesSameTx,
                    preLoadedBorrowReservesSameTx>>
    BY <1>4 DEF reserveLists
  <2>4. CASE phase = "setup"
    BY <1>1, <1>3, <1>4, <2>3, <2>4 DEF ValuesBuilt
  <2>5. CASE phase = "inBetween"
    BY <1>1, <1>2, <1>3, <1>4, <2>1, <2>3, <2>5 DEF ValuesBuilt
  <2> QED BY <1>1, <2>4, <2>5
<1>5. CASE AddComputeBudgetIxn \/ AddScopeRefreshIxs \/ AddInitUserMetadataIxs
           \/ AddInitReferrerTokenStateIxs \/ AddInitObligationIxs \/ AddAtaIxs
  <2>1. UNCHANGED <<reserveLists, phase>> /\ pc \notin {"others", "current"}
    BY <1>5 DEF AddComputeBudgetIxn, AddScopeRefreshIxs, AddInitUserMetadataIxs,
       AddInitReferrerTokenStateIxs, AddInitObligationIxs, AddAtaIxs, OnlySetup
  <2> QED BY <1>4, <2>1
<1>6. CASE AddInitObligationForFarms \/ AddRequestElevation \/ AddRefreshFarms
           \/ AddRefreshObligation \/ AddRefreshFarmsCleanupTxnIxsToCleanupIxs
  <2>1. UNCHANGED <<reserveLists, phase>> /\ pc \notin {"others", "current"}
    BY <1>6 DEF AddInitObligationForFarms, AddRequestElevation, AddRefreshFarms,
       AddRefreshObligation, AddRefreshFarmsCleanupTxnIxsToCleanupIxs, OnlySupport, OnlyElevation
  <2> QED BY <1>4, <2>1
<1>7. CASE AddRefreshOtherReserves
  <2>1. pc = "others" /\ pc' = "initFarms" /\ UNCHANGED <<phase, depositReserves, borrowReserves>>
    BY <1>7, StepParts DEF AddRefreshOtherReserves, OnlySupport, Throw
  <2>2. /\ preLoadedDepositReservesSameTx' =
               IF \/ supportAction \in TwoTokenAction /\ ~known.obligation
                  \/ supportAction = "depositAndBorrow" /\ req.reserve \notin known.deposits
               THEN preLoadedDepositReservesSameTx \union {req.reserve}
               ELSE preLoadedDepositReservesSameTx
        /\ preLoadedBorrowReservesSameTx' =
               IF supportAction = "repayAndWithdraw" /\ known.obligation /\ req.level >= 2
               THEN preLoadedBorrowReservesSameTx \union {req.reserve}
               ELSE preLoadedBorrowReservesSameTx
    BY <1>7, <2>1 DEF AddRefreshOtherReserves, Throw
  <2>3. CASE phase = "setup"
    <3>1. supportAction \notin TwoTokenAction
      BY <2>3 DEF supportAction, twoToken, TwoTokenAction
    <3>2. supportAction # "depositAndBorrow" /\ supportAction # "repayAndWithdraw"
      BY <3>1 DEF TwoTokenAction
    <3>3. UNCHANGED reserveLists
      BY <2>1, <2>2, <3>1, <3>2 DEF reserveLists
    <3> QED BY <1>4, <2>1, <2>3, <3>3
  <2>4. CASE phase = "inBetween"
    <3>1. supportAction = req.action /\ twoToken
      BY <2>4 DEF supportAction, ShapeSound
    <3>2. /\ depositReserves = passDeposits
          /\ preLoadedDepositReservesSameTx = {} /\ preLoadedBorrowReservesSameTx = {}
      BY <1>1, <2>1, <2>4 DEF ValuesBuilt
    <3>3. preLoadedDepositReservesSameTx' = preDeposits
      BY <2>2, <3>1, <3>2 DEF preDeposits, twoToken
    <3>4. preLoadedBorrowReservesSameTx' = preBorrows
      BY <2>2, <3>1, <3>2 DEF preBorrows
    <3> QED BY <1>1, <1>2, <1>3, <2>1, <2>4, <3>2, <3>3, <3>4 DEF ValuesBuilt
  <2> QED BY <1>1, <2>3, <2>4
<1>8. CASE AddRefreshCurrent
  <2>1. /\ pc = "current" /\ pc' \in {"elevation", "farms"}
        /\ UNCHANGED <<phase, borrowReserves, preLoadedDepositReservesSameTx,
                       preLoadedBorrowReservesSameTx>>
        /\ depositReserves' = depositReserves \union preLoadedDepositReservesSameTx
    BY <1>8 DEF AddRefreshCurrent, OnlySupport, AdditionalDepositReservesList
  <2>2. CASE phase = "setup"
    BY <1>1, <1>3, <2>1, <2>2 DEF ValuesBuilt
  <2>3. CASE phase = "inBetween"
    BY <1>1, <1>2, <1>3, <2>1, <2>3 DEF ValuesBuilt
  <2> QED BY <1>1, <2>2, <2>3
<1>9. CASE AddLendingIx /\ ~AddRefreshObligation
  <2>1. phase = "setup" /\ pc = "lending" /\ ~AddWithdrawReferrerFees
    <3>1. pc = "lending"
      BY <1>9 DEF AddLendingIx, AddDepositIx, AddDepositReserveLiquidityIx,
         AddRedeemReserveCollateralIx, AddDepositObligationCollateralIx, AddWithdrawIx, AddBorrowIx,
         AddRepayIx, AddLiquidateIx, AddPlainIx, AddDebtIx, AddDepositAndBorrowIx,
         AddRepayAndWithdrawIxs, AddRefreshObligation, AddWithdrawReferrerFees
    <3> QED BY <1>1, <3>1 DEF AddWithdrawReferrerFees, ShapeSound
  <2>2. UNCHANGED <<borrowReserves, preLoadedDepositReservesSameTx, preLoadedBorrowReservesSameTx>>
    BY <1>9, <2>1 DEF AddLendingIx, AddDepositIx, AddDepositReserveLiquidityIx,
       AddRedeemReserveCollateralIx, AddDepositObligationCollateralIx, AddWithdrawIx, AddBorrowIx,
       AddRepayIx, AddLiquidateIx, AddPlainIx, AddDebtIx, AddDepositAndBorrowIx,
       AddRepayAndWithdrawIxs, OnlyLending
  <2>3. AdditionalDepositReservesList = known.deposits
    BY <1>3, <2>1 DEF AdditionalDepositReservesList
  <2>4. CASE twoToken
    <3>1. pc' = "ata" /\ phase' = "inBetween"
      BY <1>9, <2>1, <2>4, StepParts
    <3>2. AddDepositAndBorrowIx \/ AddRepayAndWithdrawIxs
      BY <1>9, <2>1, <2>4 DEF AddLendingIx, AddDepositIx, AddDepositReserveLiquidityIx,
         AddRedeemReserveCollateralIx, AddDepositObligationCollateralIx, AddWithdrawIx, AddBorrowIx,
         AddRepayIx, AddLiquidateIx, AddPlainIx, AddDebtIx, twoToken, TwoTokenAction
    <3>3. depositReserves' = passDeposits
      <4>1. CASE AddDepositAndBorrowIx
        BY <2>3, <4>1 DEF AddDepositAndBorrowIx, passDeposits
      <4>2. CASE AddRepayAndWithdrawIxs
        BY <2>3, <4>2 DEF AddRepayAndWithdrawIxs, passDeposits
      <4> QED BY <3>2, <4>1, <4>2
    <3> QED BY <1>1, <1>2, <1>3, <2>1, <2>2, <3>1, <3>3 DEF ValuesBuilt
  <2>5. CASE ~twoToken
    <3>1. pc' = "splice" /\ phase' = "setup"
      BY <1>9, <2>1, <2>5, StepParts
    <3>2. depositReserves' = known.deposits
      <4>1. depositReserves = known.deposits
        BY <1>3, <2>1
      <4> QED BY <1>9, <2>1, <2>3, <2>5, <4>1 DEF AddLendingIx, AddDepositIx,
         AddDepositReserveLiquidityIx, AddRedeemReserveCollateralIx,
         AddDepositObligationCollateralIx, AddWithdrawIx, AddBorrowIx, AddRepayIx, AddLiquidateIx,
         AddPlainIx, AddDebtIx, AddDepositAndBorrowIx, AddRepayAndWithdrawIxs, twoToken,
         TwoTokenAction
    <3> QED BY <1>1, <1>3, <2>1, <2>2, <3>1, <3>2 DEF ValuesBuilt
  <2> QED BY <2>4, <2>5
<1> QED BY <1>5, <1>6, <1>7, <1>8, <1>9 DEF Next

-----------------------------------------------------------------------------
(***************************************************************************)
(* What kinds of instruction a step puts where.                            *)
(***************************************************************************)
LEMMA ElevationGrows ==
  ASSUME IInv, ShapeSound, GroupBuilt, AddRequestElevation, pc' # "thrown"
  PROVE  Growth({}, SwitchOps, SwitchOps)
<1>1. refreshFarmsCleanupTxnIxs' = refreshFarmsCleanupTxnIxs
  BY ElevationParts
<1>2. CASE UNCHANGED <<setupIxs, inBetweenIxs, cleanupIxs, potentialGroup>>
  BY <1>1, <1>2, NothingGrows
<1>3. CASE UNCHANGED <<setupIxs, inBetweenIxs>> /\ cleanupIxs' = cleanupIxs \o leaving
  <2>1. leaving \in Seq(Made(SwitchOps))
    BY LeavingMade
  <2>2. \E c \in Seq(Made(SwitchOps)) : cleanupIxs' = cleanupIxs \o c
    BY <1>3, <2>1
  <2> QED BY <1>1, <1>3, <2>2, GrowthFromParts
<1>4. CASE \E g \in GroupId : PushSupport(SwitchGroup(g)) /\ UNCHANGED cleanupIxs
  <2>1. PICK g \in GroupId : PushSupport(SwitchGroup(g)) /\ UNCHANGED cleanupIxs
    BY <1>4
  <2>2. SwitchGroup(g) \in Seq(Made(SwitchOps))
    BY SwitchMade
  <2> QED BY <1>1, <2>1, <2>2, PushGrows
<1>5. \/ UNCHANGED <<setupIxs, inBetweenIxs, cleanupIxs, potentialGroup>>
      \/ UNCHANGED <<setupIxs, inBetweenIxs>> /\ cleanupIxs' = cleanupIxs \o leaving
      \/ \E g \in GroupId : PushSupport(SwitchGroup(g)) /\ UNCHANGED cleanupIxs
  BY ElevationParts
<1> QED BY <1>2, <1>3, <1>4, <1>5

frontOps ==
  CASE pc = "referrer" -> {"initReferrerTokenState"} [] pc = "ata" -> AtaOps [] OTHER -> {}
backOps ==
  CASE pc = "budget" -> {"computeBudget"}
    [] pc = "metadata" -> {"initUserMetadata"}
    [] pc = "initObligation" -> {"initObligation"}
    [] pc = "others" -> {"refreshReserves"}
    [] pc = "initFarms" -> {"initFarm"}
    [] pc = "current" -> RefreshOps
    [] pc = "elevation" -> SwitchOps
    [] pc = "farms" -> {"refreshFarms"}
    [] OTHER -> {}
closeOps ==
  CASE pc = "ata" -> {"closeAta"} [] pc = "elevation" -> SwitchOps [] OTHER -> {}

\* A step that adds to the lists in passing.
Passing ==
  /\ Next /\ ~Initialize /\ pc' # "thrown" /\ ~AddRefreshObligation /\ ~AddWithdrawReferrerFees
  /\ ~AddRefreshFarmsCleanupTxnIxsToCleanupIxs

LEMMA PassingGrows ==
  ASSUME IInv, ShapeSound, GroupBuilt, Passing
  PROVE  Growth(frontOps, backOps, closeOps)
<1>1. CASE AddComputeBudgetIxn \/ AddInitUserMetadataIxs \/ AddInitObligationIxs
           \/ AddInitReferrerTokenStateIxs \/ AddScopeRefreshIxs
  <2>1. CASE AddComputeBudgetIxn
    <3>1. pc = "budget"
      BY <2>1 DEF AddComputeBudgetIxn
    <3> QED BY <2>1, <3>1, AccountsGrow DEF frontOps, backOps, closeOps
  <2>2. CASE AddInitUserMetadataIxs
    <3>1. pc = "metadata"
      BY <2>2 DEF AddInitUserMetadataIxs
    <3> QED BY <2>2, <3>1, AccountsGrow DEF frontOps, backOps, closeOps
  <2>3. CASE AddInitObligationIxs
    <3>1. pc = "initObligation"
      BY <2>3 DEF AddInitObligationIxs
    <3> QED BY <2>3, <3>1, AccountsGrow DEF frontOps, backOps, closeOps
  <2>4. CASE AddInitReferrerTokenStateIxs
    <3>1. pc = "referrer"
      BY <2>4 DEF AddInitReferrerTokenStateIxs
    <3> QED BY <2>4, <3>1, AccountsGrow DEF frontOps, backOps, closeOps
  <2>5. CASE AddScopeRefreshIxs
    <3>1. pc = "scope"
      BY <2>5 DEF AddScopeRefreshIxs
    <3> QED BY <2>5, <3>1, PassGrows DEF frontOps, backOps, closeOps
  <2> QED BY <1>1, <2>1, <2>2, <2>3, <2>4, <2>5
<1>2. CASE AddAtaIxs
  <2>1. pc = "ata"
    BY <1>2 DEF AddAtaIxs
  <2> QED BY <1>2, <2>1, PassGrows DEF frontOps, backOps, closeOps
<1>3. CASE AddRefreshOtherReserves
  <2>1. pc = "others"
    BY <1>3 DEF AddRefreshOtherReserves
  <2> QED BY <1>3, <2>1, PassGrows DEF frontOps, backOps, closeOps
<1>4. CASE AddInitObligationForFarms
  <2>1. pc = "initFarms"
    BY <1>4 DEF AddInitObligationForFarms
  <2> QED BY <1>4, <2>1, PassGrows DEF frontOps, backOps, closeOps
<1>5. CASE AddRefreshCurrent
  <2>1. pc = "current"
    BY <1>5 DEF AddRefreshCurrent
  <2> QED BY <1>5, <2>1, PassGrows DEF frontOps, backOps, closeOps
<1>6. CASE AddRefreshFarms
  <2>1. pc = "farms"
    BY <1>6 DEF AddRefreshFarms
  <2> QED BY <1>6, <2>1, PassGrows DEF frontOps, backOps, closeOps
<1>7. CASE AddRequestElevation
  <2>1. pc = "elevation" /\ pc' # "thrown"
    BY <1>7 DEF AddRequestElevation, Passing
  <2> QED BY <1>7, <2>1, ElevationGrows DEF frontOps, backOps, closeOps
<1>8. CASE AddLendingIx
  BY <1>8, LendingGrows, NothingGrows DEF Passing
<1> QED BY <1>1, <1>2, <1>3, <1>4, <1>5, <1>6, <1>7, <1>8 DEF Next, Passing

\* The list in between gets refreshes and group requests only.
LEMMA PassingBetween ==
  ASSUME IInv, ShapeSound, GroupBuilt, Passing
  PROVE  \E m \in Seq(Made(BetweenOps)) : inBetweenIxs' = inBetweenIxs \o m
<1>1. inBetweenIxs \o <<>> = inBetweenIxs /\ \A X : <<>> \in Seq(X)
  BY ListsAreInstructions, NothingAdded
<1>2. CASE UNCHANGED inBetweenIxs
  BY <1>1, <1>2
<1>3. CASE backOps \subseteq BetweenOps
  <2>1. \E m \in Seq(Made(backOps)) : inBetweenIxs' = inBetweenIxs \o m
    BY PassingGrows, Zenon DEF Growth
  <2> QED BY <1>3, <2>1, MadeMore
<1>4. CASE pc \in {"others", "current", "elevation", "farms"}
  BY <1>3, <1>4 DEF backOps, BetweenOps, SwitchOps, RefreshOps
<1>5. CASE AddInitObligationForFarms
  <2>1. PushSupport(IF phase = "setup" THEN InitFarmsFor("coll") \o InitFarmsFor("debt") ELSE <<>>)
    BY <1>5, InitFarmsPushed
  <2>2. UNCHANGED inBetweenIxs
    BY <1>1, <2>1 DEF PushSupport
  <2> QED BY <1>2, <2>2
<1>6. CASE AddComputeBudgetIxn \/ AddScopeRefreshIxs \/ AddInitUserMetadataIxs
           \/ AddInitReferrerTokenStateIxs \/ AddInitObligationIxs \/ AddAtaIxs
  <2>1. UNCHANGED inBetweenIxs
    BY <1>6 DEF AddComputeBudgetIxn, AddScopeRefreshIxs, AddInitUserMetadataIxs,
       AddInitReferrerTokenStateIxs, AddInitObligationIxs, AddAtaIxs, OnlySetup
  <2> QED BY <1>2, <2>1
<1>7. CASE AddLendingIx
  BY <1>2, <1>7, LendingGrows DEF Passing
<1>8. CASE AddRefreshOtherReserves \/ AddRefreshCurrent \/ AddRequestElevation \/ AddRefreshFarms
  BY <1>4, <1>8 DEF AddRefreshOtherReserves, AddRefreshCurrent, AddRequestElevation, AddRefreshFarms
<1> QED BY <1>5, <1>6, <1>7, <1>8 DEF Next, Passing

-----------------------------------------------------------------------------
(***************************************************************************)
(* The kinds of instruction in each list, by step of the build.            *)
(***************************************************************************)
InitOps == {"initUserMetadata", "initReferrerTokenState", "initObligation", "initFarm"}

\* The calls built by support passes around a lending instruction.
passes == req.action \notin ObligationOnly \union {"withdrawReferrerFees"}

Underway == passes /\ pc \notin {"initialize", "thrown"}

CloseOps == BetweenOps \union {"closeAta"}

beforeAta == {"budget", "scope", "metadata", "referrer", "initObligation", "ata"}

setOps(p, ph) ==
  IF ~asksAccounts
  THEN IF p \in {"budget", "scope", "ata"} THEN {"computeBudget"} ELSE AtaOps \union {"computeBudget"}
  ELSE IF p \in {"budget", "scope", "metadata", "referrer"}
  THEN {"computeBudget", "initUserMetadata"}
  ELSE IF p \in {"initObligation", "ata"} /\ ph = "setup"
  THEN {"computeBudget"} \union (InitOps \ {"initFarm"})
  ELSE {"computeBudget"} \union InitOps \union AtaOps \union BetweenOps

KindsPlan(p, ph, s, b, c, f) ==
  /\ s \in Seq(Made(setOps(p, ph)))
  /\ b \in Seq(Made(BetweenOps))
  /\ c \in Seq(Made(CloseOps))
  /\ f \in Seq(Made({"refreshFarms"}))
  /\ p \in beforeAta /\ ph = "setup" => c = <<>>
  /\ ~asksAccounts => /\ f = <<>> /\ c \in Seq(Made({"closeAta"}))
                      /\ p \in {"budget", "scope", "ata", "lending", "splice", "built"}

KindsBuilt ==
  Underway => KindsPlan(pc, phase, setupIxs, inBetweenIxs, cleanupIxs, refreshFarmsCleanupTxnIxs)

LEMMA KindsSame ==
  ASSUME UNCHANGED <<req, known>>, NEW p, NEW ph, NEW s, NEW b, NEW c, NEW f
  PROVE  KindsPlan(p, ph, s, b, c, f)' <=> KindsPlan(p, ph, s, b, c, f)
<1>1. asksAccounts' = asksAccounts
  BY DEF asksAccounts
<1>2. PICK X, Y : X = setOps(p, ph) /\ Y = BetweenOps
  OBVIOUS
<1>3. setOps(p, ph)' = X
  BY <1>1, <1>2 DEF setOps
<1>4. Made(X)' = Made(X)
  BY MadeSame
<1>5. Made(setOps(p, ph))' = Made(setOps(p, ph))
  BY <1>2, <1>3, <1>4
<1>6. /\ Made(BetweenOps)' = Made(BetweenOps) /\ Made(CloseOps)' = Made(CloseOps)
      /\ Made({"refreshFarms"})' = Made({"refreshFarms"}) /\ Made({"closeAta"})' = Made({"closeAta"})
  BY MadeSame
<1> QED BY <1>1, <1>5, <1>6 DEF KindsPlan

LEMMA KindsPrimed ==
  ASSUME UNCHANGED <<req, known>>,
         Underway' => KindsPlan(pc', phase', setupIxs', inBetweenIxs', cleanupIxs',
                                refreshFarmsCleanupTxnIxs')
  PROVE  KindsBuilt'
<1> SUFFICES ASSUME Underway' PROVE KindsPlan(pc, phase, setupIxs, inBetweenIxs, cleanupIxs,
                                              refreshFarmsCleanupTxnIxs)'
  BY DEF KindsBuilt
<1>1. PICK p, ph, s, b, c, f : /\ p = pc' /\ ph = phase' /\ s = setupIxs' /\ b = inBetweenIxs'
                               /\ c = cleanupIxs' /\ f = refreshFarmsCleanupTxnIxs'
  OBVIOUS
<1>2. KindsPlan(p, ph, s, b, c, f)'
  BY <1>1, KindsSame
<1> QED BY <1>1, <1>2

\* A step of a pass and the step it leads to.
LEMMA PassingParts ==
  ASSUME IInv, ShapeSound, GroupBuilt, Passing, passes
  PROVE  \/ pc = "budget" /\ phase = "setup" /\ pc' = "scope" /\ phase' = "setup"
         \/ pc = "scope" /\ phase = "setup" /\ phase' = "setup"
            /\ pc' = IF req.action \in {"mint", "redeem"} THEN "ata" ELSE "metadata"
         \/ pc = "metadata" /\ phase = "setup" /\ pc' = "referrer" /\ phase' = "setup"
         \/ pc = "referrer" /\ phase = "setup" /\ pc' = "initObligation" /\ phase' = "setup"
         \/ pc = "initObligation" /\ phase = "setup" /\ pc' = "ata" /\ phase' = "setup"
         \/ pc = "ata" /\ phase' = phase
            /\ pc' = IF req.action \in {"mint", "redeem"} THEN "lending" ELSE "others"
         \/ pc = "others" /\ phase' = phase /\ pc' = "initFarms"
         \/ pc = "initFarms" /\ phase' = phase /\ pc' = "current"
         \/ pc = "current" /\ phase' = phase /\ pc' = IF req.elevate THEN "elevation" ELSE "farms"
         \/ pc = "elevation" /\ phase' = phase /\ pc' = "farms"
         \/ pc = "farms" /\ phase' = phase /\ pc' = IF phase = "setup" THEN "lending" ELSE "splice"
         \/ pc = "lending" /\ phase = "setup"
            /\ IF twoToken THEN pc' = "ata" /\ phase' = "inBetween"
               ELSE pc' = "splice" /\ phase' = "setup"
<1>1. Next /\ ~Initialize /\ pc' # "thrown" /\ ~AddRefreshObligation /\ ~AddWithdrawReferrerFees
      /\ ~AddRefreshFarmsCleanupTxnIxsToCleanupIxs
  BY DEF Passing
<1>2. req.action \notin ObligationOnly
  BY DEF passes
<1> HIDE DEF Passing
<1> QED BY <1>1, <1>2, StepParts

LEMMA SetOpsGrow ==
  ASSUME IInv, ShapeSound, GroupBuilt, Passing, passes,
         ~asksAccounts => pc \in {"budget", "scope", "ata", "lending", "splice", "built"}
  PROVE  /\ frontOps \subseteq setOps(pc, phase)' /\ backOps \subseteq setOps(pc, phase)'
         /\ setOps(pc, phase) \subseteq setOps(pc, phase)'
         /\ ~asksAccounts => pc' \in {"budget", "scope", "ata", "lending", "splice", "built"}
         /\ pc' \in beforeAta /\ phase' = "setup" =>
              pc \in beforeAta \ {"ata"} /\ phase = "setup"
         /\ pc = "ata" => closeOps = {"closeAta"}
         /\ pc # "ata" => closeOps \subseteq SwitchOps
         /\ pc \notin {"ata", "elevation"} => closeOps = {}
<1>1. req' = req
  BY StepParts DEF Passing
<1>2. asksAccounts' = asksAccounts
  BY <1>1 DEF asksAccounts
<1>3. asksAccounts <=> req.action \notin {"mint", "redeem"}
  BY DEF passes, asksAccounts
<1>4. ~asksAccounts => ~twoToken
  BY <1>3 DEF twoToken, TwoTokenAction
<1>5. frontOps \subseteq setOps(pc, phase)' /\ backOps \subseteq setOps(pc, phase)'
  BY <1>2, <1>3, <1>4, PassingParts DEF frontOps, backOps, setOps, InitOps, BetweenOps, SwitchOps,
     RefreshOps
<1>6. setOps(pc, phase) \subseteq setOps(pc, phase)'
  BY <1>2, <1>3, <1>4, PassingParts DEF setOps, InitOps
<1>7. ~asksAccounts => pc' \in {"budget", "scope", "ata", "lending", "splice", "built"}
  BY <1>3, <1>4, PassingParts
<1>8. pc' \in beforeAta /\ phase' = "setup" => pc \in beforeAta \ {"ata"} /\ phase = "setup"
  BY PassingParts DEF beforeAta
<1>9. /\ pc = "ata" => closeOps = {"closeAta"}
      /\ pc # "ata" => closeOps \subseteq SwitchOps
      /\ pc \notin {"ata", "elevation"} => closeOps = {}
  BY DEF closeOps
<1> QED BY <1>5, <1>6, <1>7, <1>8, <1>9

LEMMA KindsStep ==
  ASSUME IInv, ShapeSound, GroupBuilt, KindsBuilt, Next, ~Initialize
  PROVE  KindsBuilt'
<1> SUFFICES ASSUME Underway' PROVE KindsBuilt'
  BY DEF KindsBuilt
<1>1. /\ pc \notin {"initialize", "thrown", "built"} /\ UNCHANGED <<req, referrer, known, positions>>
      /\ pc' # "thrown"
  BY StepParts DEF Underway
<1>2. passes
  BY <1>1 DEF Underway, passes
<1>3. KindsPlan(pc, phase, setupIxs, inBetweenIxs, cleanupIxs, refreshFarmsCleanupTxnIxs)
  BY <1>1, <1>2 DEF KindsBuilt, Underway
<1>4. ~AddRefreshObligation /\ ~AddWithdrawReferrerFees
  BY <1>2 DEF passes, AddRefreshObligation, AddWithdrawReferrerFees
<1>5. CASE AddRefreshFarmsCleanupTxnIxsToCleanupIxs
  <2>1. /\ pc = "splice" /\ pc' = "built" /\ UNCHANGED phase
        /\ cleanupIxs' = refreshFarmsCleanupTxnIxs \o cleanupIxs
        /\ UNCHANGED <<setupIxs, inBetweenIxs, refreshFarmsCleanupTxnIxs>>
    BY <1>5 DEF AddRefreshFarmsCleanupTxnIxsToCleanupIxs, splicedCleanup
  <2>2. setOps(pc', phase') = setOps(pc, phase)
    BY <2>1 DEF setOps
  <2>3. cleanupIxs' \in Seq(Made(CloseOps))
    <3>1. refreshFarmsCleanupTxnIxs \in Seq(Made(CloseOps)) /\ cleanupIxs \in Seq(Made(CloseOps))
      BY <1>3, MadeMore DEF KindsPlan, CloseOps, BetweenOps
    <3> HIDE DEF Made
    <3>2. refreshFarmsCleanupTxnIxs \o cleanupIxs \in Seq(Made(CloseOps))
      BY <3>1, Concatenated
    <3> QED BY <2>1, <3>2
  <2>4. ~asksAccounts => cleanupIxs' \in Seq(Made({"closeAta"}))
    <3> SUFFICES ASSUME ~asksAccounts PROVE cleanupIxs' \in Seq(Made({"closeAta"}))
      OBVIOUS
    <3>1. refreshFarmsCleanupTxnIxs = <<>> /\ cleanupIxs \in Seq(Made({"closeAta"}))
      BY <1>3 DEF KindsPlan
    <3> HIDE DEF Made
    <3>2. refreshFarmsCleanupTxnIxs \in Seq(Made({"closeAta"}))
      BY <3>1, ShortSeq
    <3>3. refreshFarmsCleanupTxnIxs \o cleanupIxs \in Seq(Made({"closeAta"}))
      BY <3>1, <3>2, Concatenated
    <3> QED BY <2>1, <3>3
  <2>5. KindsPlan(pc', phase', setupIxs', inBetweenIxs', cleanupIxs', refreshFarmsCleanupTxnIxs')
    BY <1>3, <2>1, <2>2, <2>3, <2>4 DEF KindsPlan, beforeAta
  <2> QED BY <1>1, <2>5, KindsPrimed
<1>6. CASE ~AddRefreshFarmsCleanupTxnIxsToCleanupIxs
  <2>1. Passing
    BY <1>1, <1>4, <1>6 DEF Passing
  <2> DEFINE ops == setOps(pc', phase')
  <2>2. /\ frontOps \subseteq ops /\ backOps \subseteq ops /\ setOps(pc, phase) \subseteq ops
        /\ ~asksAccounts => pc' \in {"budget", "scope", "ata", "lending", "splice", "built"}
        /\ pc' \in beforeAta /\ phase' = "setup" =>
             pc \in beforeAta \ {"ata"} /\ phase = "setup"
        /\ pc = "ata" => closeOps = {"closeAta"}
        /\ pc # "ata" => closeOps \subseteq SwitchOps
        /\ pc \notin {"ata", "elevation"} => closeOps = {}
    <3>1. setOps(pc, phase)' = ops
      <4>1. asksAccounts' = asksAccounts
        BY <1>1 DEF asksAccounts
      <4> QED BY <4>1 DEF setOps
    <3> QED BY <1>2, <1>3, <2>1, <3>1, SetOpsGrow DEF KindsPlan
  <2> HIDE DEF ops
  <2>3. PICK a \in Seq(Made(frontOps)), b \in Seq(Made(backOps)), m \in Seq(Made(backOps)),
             c \in Seq(Made(closeOps)), f \in Seq(Made({"refreshFarms"})) :
          /\ setupIxs' = (a \o setupIxs) \o b
          /\ inBetweenIxs' = inBetweenIxs \o m
          /\ cleanupIxs' = cleanupIxs \o c
          /\ refreshFarmsCleanupTxnIxs' = refreshFarmsCleanupTxnIxs \o f
    BY <2>1, PassingGrows, Zenon DEF Growth
  <2>4. setupIxs' \in Seq(Made(ops))
    <3>1. a \in Seq(Made(ops)) /\ b \in Seq(Made(ops)) /\ setupIxs \in Seq(Made(ops))
      BY <1>3, <2>2, MadeMore DEF KindsPlan
    <3> HIDE DEF Made
    <3>2. a \o setupIxs \in Seq(Made(ops))
      BY <3>1, Concatenated
    <3>3. (a \o setupIxs) \o b \in Seq(Made(ops))
      BY <3>1, <3>2, Concatenated
    <3> QED BY <2>3, <3>3
  <2>5. inBetweenIxs' \in Seq(Made(BetweenOps))
    <3>1. PICK n \in Seq(Made(BetweenOps)) : inBetweenIxs' = inBetweenIxs \o n
      BY <2>1, PassingBetween
    <3>2. inBetweenIxs \in Seq(Made(BetweenOps))
      BY <1>3 DEF KindsPlan
    <3> HIDE DEF Made
    <3>3. inBetweenIxs \o n \in Seq(Made(BetweenOps))
      BY <3>1, <3>2, Concatenated
    <3> QED BY <3>1, <3>3
  <2>6. cleanupIxs' \in Seq(Made(CloseOps))
    <3>1. closeOps \subseteq CloseOps
      BY <2>2 DEF CloseOps, BetweenOps
    <3>2. c \in Seq(Made(CloseOps)) /\ cleanupIxs \in Seq(Made(CloseOps))
      BY <1>3, <3>1, MadeMore DEF KindsPlan
    <3> HIDE DEF Made
    <3>3. cleanupIxs \o c \in Seq(Made(CloseOps))
      BY <3>2, Concatenated
    <3> QED BY <2>3, <3>3
  <2>7. refreshFarmsCleanupTxnIxs' \in Seq(Made({"refreshFarms"}))
    <3>1. refreshFarmsCleanupTxnIxs \in Seq(Made({"refreshFarms"}))
      BY <1>3 DEF KindsPlan
    <3> HIDE DEF Made
    <3>2. refreshFarmsCleanupTxnIxs \o f \in Seq(Made({"refreshFarms"}))
      BY <3>1, Concatenated
    <3> QED BY <2>3, <3>2
  <2>8. \A X, q : X = {} /\ q \in Seq(Made(X)) => q = <<>>
    BY DEF Made
  <2>9. cleanupIxs \o <<>> = cleanupIxs /\ refreshFarmsCleanupTxnIxs \o <<>> = refreshFarmsCleanupTxnIxs
    BY ListsAreInstructions, NothingAdded
  <2>10. pc' \in beforeAta /\ phase' = "setup" => cleanupIxs' = <<>>
    <3> SUFFICES ASSUME pc' \in beforeAta, phase' = "setup" PROVE cleanupIxs' = <<>>
      OBVIOUS
    <3>1. pc \in beforeAta \ {"ata"} /\ phase = "setup"
      BY <2>2
    <3>2. closeOps = {} /\ cleanupIxs = <<>>
      BY <1>3, <2>2, <3>1 DEF beforeAta, KindsPlan
    <3>3. c = <<>>
      BY <2>8, <3>2
    <3> QED BY <2>3, <2>9, <3>2, <3>3
  <2>11. ASSUME ~asksAccounts
         PROVE  refreshFarmsCleanupTxnIxs' = <<>> /\ cleanupIxs' \in Seq(Made({"closeAta"}))
    <3>1. /\ refreshFarmsCleanupTxnIxs = <<>> /\ cleanupIxs \in Seq(Made({"closeAta"}))
          /\ pc \in {"budget", "scope", "ata", "lending", "splice", "built"}
      BY <1>3, <2>11 DEF KindsPlan
    <3>2. c \in Seq(Made({"closeAta"}))
      BY <2>2, <3>1, MadeMore
    <3>3. cleanupIxs' \in Seq(Made({"closeAta"}))
      <4> HIDE DEF Made
      <4>1. cleanupIxs \o c \in Seq(Made({"closeAta"}))
        BY <3>1, <3>2, Concatenated
      <4> QED BY <2>3, <4>1
    <3>4. UNCHANGED refreshFarmsCleanupTxnIxs
      <4>1. pc \in {"budget", "scope", "ata", "lending"}
        BY <1>2, <2>1, <3>1, PassingParts
      <4>2. AddComputeBudgetIxn \/ AddScopeRefreshIxs \/ AddAtaIxs \/ AddLendingIx
        BY <2>1, <4>1 DEF Passing, Next, AddInitUserMetadataIxs, AddInitReferrerTokenStateIxs,
           AddInitObligationIxs, AddRefreshOtherReserves, AddInitObligationForFarms,
           AddRefreshCurrent, AddRequestElevation, AddRefreshFarms
      <4>3. CASE AddLendingIx
        BY <2>1, <4>3, LendingGrows DEF Passing
      <4> QED BY <4>2, <4>3 DEF AddComputeBudgetIxn, AddScopeRefreshIxs, AddAtaIxs
    <3> QED BY <3>1, <3>3, <3>4
  <2>12. KindsPlan(pc', phase', setupIxs', inBetweenIxs', cleanupIxs', refreshFarmsCleanupTxnIxs')
    BY <2>2, <2>4, <2>5, <2>6, <2>7, <2>10, <2>11 DEF KindsPlan, ops
  <2> QED BY <1>1, <2>12, KindsPrimed
<1> QED BY <1>5, <1>6

\* The first step of a build.
LEMMA KindsEmpty ==
  ASSUME setupIxs = <<>>, inBetweenIxs = <<>>, cleanupIxs = <<>>, refreshFarmsCleanupTxnIxs = <<>>,
         pc \in {"initialize", "budget", "thrown"} \/ ~passes
  PROVE  KindsBuilt
<1>1. \A X : <<>> \in Seq(X)
  BY ShortSeq
<1>2. pc = "budget" => KindsPlan(pc, phase, setupIxs, inBetweenIxs, cleanupIxs,
                                 refreshFarmsCleanupTxnIxs)
  BY <1>1 DEF KindsPlan
<1> QED BY <1>2 DEF KindsBuilt, Underway

-----------------------------------------------------------------------------
(***************************************************************************)
(* Token states of a referrer: made in front, needed by the borrow.        *)
(***************************************************************************)
tokenNeed == {req.reserve, req.outflow} \ {NoReserve}

TokStart == {s \in Machine : /\ s[1].tokenStates = known.tokenStates
                             /\ s[1].referrer => referrer}
TokReady == {s \in Machine : /\ s[1].referrer => referrer
                             /\ referrer => tokenNeed \subseteq s[1].tokenStates}

afterReferrer == pc \notin {"budget", "scope", "metadata", "referrer"}

ReferralPlan(s) == Runs("referral", s, TokStart, TokReady)

ReferralBuilt ==
  Underway /\ asksAccounts =>
    /\ known.referrer => referrer
    /\ afterReferrer => ReferralPlan(setupIxs)

LEMMA ReferralSame ==
  ASSUME UNCHANGED <<req, referrer, known>>, NEW s
  PROVE  ReferralPlan(s)' <=> ReferralPlan(s)
<1>1. PICK S, T : S = TokStart /\ T = TokReady
  OBVIOUS
<1>2. TokStart' = S /\ TokReady' = T
  BY <1>1 DEF TokStart, TokReady, Machine, tokenNeed
<1>3. Runs("referral", s, S, T)' <=> Runs("referral", s, S, T)
  BY RunsSame
<1> QED BY <1>1, <1>2, <1>3 DEF ReferralPlan

LEMMA ReferralPrimed ==
  ASSUME UNCHANGED <<req, referrer, known>>,
         Underway' /\ asksAccounts =>
           /\ known.referrer => referrer
           /\ afterReferrer' => ReferralPlan(setupIxs')
  PROVE  ReferralBuilt'
<1>1. asksAccounts' = asksAccounts
  BY DEF asksAccounts
<1>2. PICK s : s = setupIxs'
  OBVIOUS
<1>3. ReferralPlan(s)' <=> ReferralPlan(s)
  BY ReferralSame
<1>4. ReferralPlan(setupIxs)' <=> ReferralPlan(setupIxs')
  BY <1>2, <1>3
<1> QED BY <1>1, <1>4 DEF ReferralBuilt

LEMMA TokKept ==
  ASSUME IInv, NEW x \in ListedInstruction, x.op # "initReferrerTokenState"
  PROVE  /\ Leads("referral", x, TokReady, TokReady)
         /\ x.op # "borrow" => Leads("referral", x, TokStart, TokStart)
<1>1. x.op = "borrow" => x.res \in tokenNeed
  <2> SUFFICES ASSUME x.op = "borrow" PROVE x.res \in tokenNeed
    OBVIOUS
  <2>1. x \in OwnInstruction
    BY DEF ListedInstruction, SetupInstruction, SupportInstruction, CleanupInstruction,
       LendingInstruction
  <2>2. <<x.op, x.res>> \in ownChanges
    BY <2>1 DEF OwnInstruction, PositionOp
  <2>3. req.reserve \in Reserve /\ req.action \in TwoTokenAction => req.outflow \in Reserve
    BY DEF IInv, StateSound, Request, CallSound
  <2>4. x.res = req.reserve \/ (req.action = "depositAndBorrow" /\ x.res = req.outflow)
    BY <2>2 DEF ownChanges
  <2>5. req.reserve \in Reserve
    BY DEF IInv, StateSound, Request
  <2> QED BY <2>3, <2>4, <2>5, ReserveAssumption DEF tokenNeed, TwoTokenAction
<1>2. ASSUME NEW s \in Machine
      PROVE  /\ After(x, s) \in Machine
             /\ After(x, s)[1].tokenStates = s[1].tokenStates
             /\ After(x, s)[1].referrer \in {referrer, s[1].referrer}
  <2>1. After(x, s) \in Machine
    BY AfterTyped
  <2>2. s[1] \in Chain
    BY DEF Machine
  <2>3. PICK l : l = s[1]
    OBVIOUS
  <2>4. /\ LedgerAfter(x, l).tokenStates = l.tokenStates
        /\ LedgerAfter(x, l).referrer \in {referrer, l.referrer}
    BY <2>2, <2>3 DEF LedgerAfter, Chain
  <2>5. After(x, s)[1] = LedgerAfter(x, l)
    BY <2>3 DEF After
  <2> QED BY <2>1, <2>3, <2>4, <2>5
<1>3. ASSUME NEW s \in TokReady PROVE Admits("referral", x, s) /\ After(x, s) \in TokReady
  <2>1. s \in Machine /\ (s[1].referrer => referrer) /\ (referrer => tokenNeed \subseteq s[1].tokenStates)
    BY DEF TokReady
  <2>2. ReferralReady(x, s[1])
    BY <1>1, <2>1 DEF ReferralReady
  <2>3. Admits("referral", x, s)
    BY <2>2 DEF Admits
  <2>4. After(x, s) \in TokReady
    BY <1>2, <2>1, Zenon DEF TokReady
  <2> QED BY <2>3, <2>4
<1>4. ASSUME NEW s \in TokStart, x.op # "borrow"
      PROVE  Admits("referral", x, s) /\ After(x, s) \in TokStart
  <2>1. s \in Machine /\ (s[1].referrer => referrer) /\ s[1].tokenStates = known.tokenStates
    BY DEF TokStart
  <2>2. ReferralReady(x, s[1])
    BY <1>4 DEF ReferralReady
  <2>3. Admits("referral", x, s)
    BY <2>2 DEF Admits
  <2>4. After(x, s) \in TokStart
    BY <1>2, <2>1, Zenon DEF TokStart
  <2> QED BY <2>3, <2>4
<1> QED BY <1>3, <1>4 DEF Leads

\* The block of token states put in front.
LEMMA TokMade ==
  ASSUME IInv, known = chain, NEW x \in ListedInstruction, x.op = "initReferrerTokenState",
         x.deps = tokenNeed \ chain.tokenStates
  PROVE  Leads("referral", x, TokStart, TokReady)
<1> SUFFICES ASSUME NEW s \in TokStart PROVE Admits("referral", x, s) /\ After(x, s) \in TokReady
  BY DEF Leads
<1>1. s \in Machine /\ (s[1].referrer => referrer) /\ s[1].tokenStates = known.tokenStates
  BY DEF TokStart
<1>2. s[1] \in Chain /\ After(x, s) \in Machine
  BY <1>1, AfterTyped DEF Machine
<1>3. PICK l : l = s[1]
  OBVIOUS
<1>4. LedgerAfter(x, l) = [l EXCEPT !.tokenStates = @ \union x.deps]
  BY DEF LedgerAfter
<1>5. LedgerAfter(x, l).tokenStates = l.tokenStates \union x.deps
      /\ LedgerAfter(x, l).referrer = l.referrer
  BY <1>2, <1>3, <1>4 DEF Chain
<1>6. After(x, s)[1] = LedgerAfter(x, l)
  BY <1>3 DEF After
<1>7. ReferralReady(x, s[1])
  BY <1>1 DEF ReferralReady
<1>8. Admits("referral", x, s)
  BY <1>7 DEF Admits
<1> QED BY <1>1, <1>2, <1>3, <1>5, <1>6, <1>8 DEF TokReady

\* No set-up instruction borrows, and none but the block makes token states.
LEMMA SetupReferral ==
  ASSUME IInv, NEW ops, "initReferrerTokenState" \notin ops, "borrow" \notin ops,
         NEW q \in Seq(Made(ops))
  PROVE  Runs("referral", q, TokReady, TokReady) /\ Runs("referral", q, TokStart, TokStart)
<1>1. \A x \in Made(ops) : /\ Leads("referral", x, TokReady, TokReady)
                           /\ Leads("referral", x, TokStart, TokStart)
  BY TokKept DEF Made
<1>2. TokReady \in SUBSET Machine /\ TokStart \in SUBSET Machine
  BY DEF TokReady, TokStart
<1> HIDE DEF Made, TokReady, TokStart
<1>3. Runs("referral", q, TokReady, TokReady)
  BY <1>1, <1>2, RunsSkip
<1>4. Runs("referral", q, TokStart, TokStart)
  BY <1>1, <1>2, RunsSkip
<1> QED BY <1>3, <1>4

LEMMA ReferralBlock ==
  ASSUME IInv, KindsBuilt, Underway, asksAccounts, known = chain, AddInitReferrerTokenStateIxs,
         known.referrer => referrer
  PROVE  ReferralPlan(setupIxs')
<1> DEFINE missing == ({req.reserve, req.outflow} \ {NoReserve}) \ chain.tokenStates
           x == Ix("initReferrerTokenState", NoReserve, missing)
<1>1. setupIxs \in Seq(Made({"computeBudget", "initUserMetadata"}))
  <2>1. pc = "referrer"
    BY DEF AddInitReferrerTokenStateIxs
  <2> QED BY <2>1 DEF KindsBuilt, KindsPlan, setOps
<1>2. Runs("referral", setupIxs, TokReady, TokReady) /\ Runs("referral", setupIxs, TokStart, TokStart)
  BY <1>1, SetupReferral
<1>3. missing = tokenNeed \ chain.tokenStates
  BY DEF tokenNeed
<1>4. CASE referrer /\ missing # {}
  <2>1. setupIxs' = <<x>> \o setupIxs
    BY <1>4 DEF AddInitReferrerTokenStateIxs
  <2>2. missing \in SUBSET Reserve
    BY DEF IInv, StateSound, Request
  <2>3. x \in Made({"initReferrerTokenState"})
    <3>1. "initReferrerTokenState" \in SupportOp \ (PositionList \union {"initFarm"})
      BY DEF SupportOp, LendingOp, PositionOp, AccountOp, IxOp, PositionList
    <3> HIDE DEF missing
    <3> QED BY <2>2, <3>1, PlainMade
  <2>4. x.op = "initReferrerTokenState" /\ x.deps = missing
    BY DEF Ix
  <2>5. x \in ListedInstruction
    BY <2>3 DEF Made
  <2> HIDE DEF x, missing
  <2>6. Leads("referral", x, TokStart, TokReady)
    BY <1>3, <2>4, <2>5, TokMade
  <2>7. Runs("referral", <<x>>, TokStart, TokReady)
    BY <2>6, RunsOne DEF TokStart, TokReady
  <2>8. <<x>> \in Seq(ListedInstruction) /\ setupIxs \in Seq(ListedInstruction)
    BY <2>5, ShortSeq, ListsListed
  <2>9. Runs("referral", <<x>> \o setupIxs, TokStart, TokReady)
    BY <1>2, <2>7, <2>8, RunsConcat
  <2> QED BY <2>1, <2>9 DEF ReferralPlan
<1>5. CASE ~(referrer /\ missing # {})
  <2>1. setupIxs' = setupIxs
    BY <1>5 DEF AddInitReferrerTokenStateIxs
  <2>2. TokStart \subseteq TokReady
    <3> SUFFICES ASSUME NEW s \in TokStart PROVE s \in TokReady
      OBVIOUS
    <3>1. s \in Machine /\ (s[1].referrer => referrer) /\ s[1].tokenStates = known.tokenStates
      BY DEF TokStart
    <3> QED BY <1>3, <1>5, <3>1 DEF TokReady
  <2> QED BY <1>2, <2>1, <2>2, RunsWeaken DEF ReferralPlan
<1> QED BY <1>4, <1>5

LEMMA ReferralStep ==
  ASSUME IInv, ShapeSound, GroupBuilt, KindsBuilt, ReferralBuilt, Next, ~Initialize, known = chain
  PROVE  ReferralBuilt'
<1> SUFFICES ASSUME Underway', asksAccounts PROVE ReferralBuilt'
  <2>1. asksAccounts' = asksAccounts
    BY StepKeeps DEF asksAccounts, loaded
  <2> QED BY <2>1 DEF ReferralBuilt
<1>1. /\ pc \notin {"initialize", "thrown", "built"} /\ UNCHANGED <<req, referrer, known, positions>>
      /\ pc' # "thrown"
  BY StepParts DEF Underway
<1>2. passes /\ Underway
  BY <1>1 DEF Underway, passes
<1>3. known.referrer => referrer
  BY <1>2 DEF ReferralBuilt
<1>4. ~AddRefreshObligation /\ ~AddWithdrawReferrerFees
  BY <1>2 DEF passes, AddRefreshObligation, AddWithdrawReferrerFees
<1>5. ASSUME afterReferrer' PROVE ReferralPlan(setupIxs')
  <2>1. CASE AddInitReferrerTokenStateIxs
    BY <1>2, <1>3, <2>1, ReferralBlock
  <2>2. CASE AddRefreshFarmsCleanupTxnIxsToCleanupIxs
    BY <1>2, <2>2 DEF AddRefreshFarmsCleanupTxnIxsToCleanupIxs, ReferralBuilt, afterReferrer
  <2>3. CASE ~AddInitReferrerTokenStateIxs /\ ~AddRefreshFarmsCleanupTxnIxsToCleanupIxs
    <3>1. Passing
      BY <1>1, <1>4, <2>3 DEF Passing
    <3>2. pc # "referrer"
      BY <1>1, <1>4, <2>3, <3>1, StepParts DEF Passing, AddComputeBudgetIxn, AddScopeRefreshIxs,
         AddInitUserMetadataIxs, AddInitObligationIxs, AddAtaIxs, AddRefreshOtherReserves,
         AddInitObligationForFarms, AddRefreshCurrent, AddRequestElevation, AddRefreshFarms
    <3>3. afterReferrer /\ pc \notin {"budget", "metadata", "scope"}
      BY <1>2, <1>5, <3>1, <3>2, PassingParts DEF afterReferrer, asksAccounts
    <3>4. ReferralPlan(setupIxs)
      BY <1>2, <3>3 DEF ReferralBuilt
    <3>5. PICK a \in Seq(Made(frontOps)), b \in Seq(Made(backOps)) :
            setupIxs' = (a \o setupIxs) \o b
      BY <3>1, PassingGrows, Zenon DEF Growth
    <3>6. /\ "initReferrerTokenState" \notin frontOps /\ "borrow" \notin frontOps
          /\ "initReferrerTokenState" \notin backOps /\ "borrow" \notin backOps
      BY <3>2 DEF frontOps, backOps, AtaOps, SwitchOps, RefreshOps
    <3>7. Runs("referral", a, TokStart, TokStart) /\ Runs("referral", b, TokReady, TokReady)
      BY <3>6, SetupReferral
    <3>8. /\ a \in Seq(ListedInstruction) /\ b \in Seq(ListedInstruction)
          /\ setupIxs \in Seq(ListedInstruction)
      BY MadeListed, ListsListed
    <3>9. Runs("referral", (a \o setupIxs) \o b, TokStart, TokReady)
      BY <3>4, <3>7, <3>8, RunsAround DEF ReferralPlan
    <3> QED BY <3>5, <3>9 DEF ReferralPlan
  <2> QED BY <2>1, <2>2, <2>3
<1> QED BY <1>1, <1>3, <1>5, ReferralPrimed

-----------------------------------------------------------------------------
(***************************************************************************)
(* The accounts of the user: metadata, obligation and farm states are made *)
(* in this order, each once, before the first instruction that needs it.   *)
(***************************************************************************)
UserAt(m, o, F) ==
  {s \in Machine : s[1].metadata = m /\ s[1].obligation = o /\ s[1].farms = F}

userFarms ==
  (IF req.action \in {"depositAndBorrow", "depositCollateral", "withdraw", "deposit"}
   THEN {<<req.reserve, "coll">>, <<req.outflow, "debt">>}
   ELSE {<<req.reserve, "debt">>, <<req.outflow, "coll">>})
  \intersect Farms

metaMade == known.metadata \/ req.metadata
userStart == UserAt(known.metadata, known.obligation, known.farms)
userEnd == UserAt(metaMade, TRUE, known.farms \union userFarms)

userStage(p, ph) ==
  IF ph = "setup" /\ p \in {"budget", "scope", "metadata"} THEN userStart
  ELSE IF ph = "setup" /\ p \in {"referrer", "initObligation"}
  THEN UserAt(metaMade, known.obligation, known.farms)
  ELSE IF ph = "setup" /\ p \in {"ata", "others", "initFarms"}
  THEN UserAt(metaMade, TRUE, known.farms)
  ELSE userEnd

\* What needs no more than what the passes have made.
UserKept ==
  {x \in ListedInstruction :
     /\ x.op \notin {"initUserMetadata", "initObligation", "initFarm"}
     /\ x.op = "refreshFarms" => x.deps \X {x.how} \subseteq userFarms}

UserPlan(p, ph, s, b, c, f) ==
  /\ Runs("user", s, userStart, userStage(p, ph))
  /\ b \in Seq(UserKept) /\ c \in Seq(UserKept) /\ f \in Seq(UserKept)

UserBuilt ==
  Underway /\ asksAccounts /\ Sensible =>
    UserPlan(pc, phase, setupIxs, inBetweenIxs, cleanupIxs, refreshFarmsCleanupTxnIxs)

LEMMA SensibleSame ==
  ASSUME UNCHANGED <<req, known>> PROVE Sensible' <=> Sensible
<1>1. Compatible(req, known)' <=> Compatible(req, known)
  BY DEF Compatible
<1>2. /\ PositionsHeld(known)' <=> PositionsHeld(known)
      /\ FlagsTruthful(known)' <=> FlagsTruthful(known)
  BY DEF PositionsHeld, FlagsTruthful, repaid, withdrawn, deposited
<1>3. /\ farmAddedLater(known)' <=> farmAddedLater(known)
      /\ nearlyFull(known)' <=> nearlyFull(known)
      /\ emptiedBeforeGroupRequest(known)' <=> emptiedBeforeGroupRequest(known)
      /\ repaidIsDeposit(known)' <=> repaidIsDeposit(known)
      /\ listedBeforePreload(known)' <=> listedBeforePreload(known)
  BY DEF farmAddedLater, nearlyFull, emptiedBeforeGroupRequest, repaidIsDeposit,
     listedBeforePreload
<1> QED BY <1>1, <1>2, <1>3 DEF Sensible

LEMMA UserSame ==
  ASSUME UNCHANGED <<req, referrer, known>>, NEW p, NEW ph, NEW s, NEW b, NEW c, NEW f
  PROVE  UserPlan(p, ph, s, b, c, f)' <=> UserPlan(p, ph, s, b, c, f)
<1>1. userFarms' = userFarms /\ metaMade' = metaMade
  BY DEF userFarms, metaMade
<1>2. userStart' = userStart /\ userEnd' = userEnd
  BY <1>1 DEF userStart, userEnd, UserAt, Machine
<1>3. userStage(p, ph)' = userStage(p, ph)
  BY <1>1, <1>2 DEF userStage, UserAt, Machine
<1>4. UserKept' = UserKept
  BY <1>1, SameListed DEF UserKept
<1>5. PICK S, T : S = userStart /\ T = userStage(p, ph)
  OBVIOUS
<1>6. Runs("user", s, S, T)' <=> Runs("user", s, S, T)
  BY RunsSame
<1> QED BY <1>2, <1>3, <1>4, <1>5, <1>6 DEF UserPlan

LEMMA UserPrimed ==
  ASSUME UNCHANGED <<req, referrer, known>>,
         Underway' /\ asksAccounts /\ Sensible =>
           UserPlan(pc', phase', setupIxs', inBetweenIxs', cleanupIxs', refreshFarmsCleanupTxnIxs')
  PROVE  UserBuilt'
<1> SUFFICES ASSUME Underway', asksAccounts', Sensible'
             PROVE  UserPlan(pc, phase, setupIxs, inBetweenIxs, cleanupIxs, refreshFarmsCleanupTxnIxs)'
  BY DEF UserBuilt
<1>1. asksAccounts /\ Sensible
  BY SensibleSame DEF asksAccounts
<1>2. PICK p, ph, s, b, c, f : /\ p = pc' /\ ph = phase' /\ s = setupIxs' /\ b = inBetweenIxs'
                               /\ c = cleanupIxs' /\ f = refreshFarmsCleanupTxnIxs'
  OBVIOUS
<1>3. UserPlan(p, ph, s, b, c, f)'
  BY <1>1, <1>2, UserSame
<1> QED BY <1>2, <1>3

LEMMA UserAtClosed ==
  ASSUME NEW m, NEW o, NEW F
  PROVE  Closed("user", UserAt(m, o, F)) /\ UserAt(m, o, F) \in SUBSET Machine
BY DEF Closed, Alike, UserAt

LEMMA KeptLeads ==
  ASSUME IInv, NEW x \in UserKept, NEW m, NEW F, userFarms \subseteq F
  PROVE  Leads("user", x, UserAt(m, TRUE, F), UserAt(m, TRUE, F))
<1> SUFFICES ASSUME NEW s \in UserAt(m, TRUE, F)
             PROVE  Admits("user", x, s) /\ After(x, s) \in UserAt(m, TRUE, F)
  BY DEF Leads
<1>1. /\ s \in Machine /\ s[1].metadata = m /\ s[1].obligation = TRUE /\ s[1].farms = F
      /\ s[1] \in Chain
  BY DEF UserAt, Machine
<1>2. /\ x \in ListedInstruction
      /\ x.op \notin {"initUserMetadata", "initObligation", "initFarm"}
      /\ x.op = "refreshFarms" => x.deps \X {x.how} \subseteq userFarms
  BY DEF UserKept
<1>3. After(x, s) \in Machine
  BY <1>1, <1>2, AfterTyped
<1>4. PICK l : l = s[1]
  OBVIOUS
<1>5. /\ LedgerAfter(x, l).metadata = l.metadata /\ LedgerAfter(x, l).obligation = l.obligation
      /\ LedgerAfter(x, l).farms = l.farms
  BY <1>1, <1>2, <1>4 DEF LedgerAfter, Chain
<1>6. After(x, s)[1] = LedgerAfter(x, l)
  BY <1>4 DEF After
<1>7. UserReady(x, s[1])
  <2>1. x.op = "refreshFarms" => \A r \in x.deps : <<r, x.how>> \in s[1].farms
    BY <1>1, <1>2
  <2> QED BY <1>1, <1>2, <2>1 DEF UserReady
<1>8. Admits("user", x, s)
  BY <1>7 DEF Admits
<1> QED BY <1>1, <1>3, <1>4, <1>5, <1>6, <1>8 DEF UserAt

LEMMA KeptRuns ==
  ASSUME IInv, NEW q \in Seq(UserKept)
  PROVE  Runs("user", q, userEnd, userEnd)
<1>1. \A x \in UserKept : Leads("user", x, userEnd, userEnd)
  BY KeptLeads DEF userEnd
<1>2. userEnd \in SUBSET Machine
  BY DEF userEnd, UserAt
<1> HIDE DEF UserKept, userEnd
<1> QED BY <1>1, <1>2, RunsSkip

LEMMA MetadataMade ==
  ASSUME IInv, NEW o, NEW F, NEW x \in ListedInstruction, x.op = "initUserMetadata"
  PROVE  Leads("user", x, UserAt(FALSE, o, F), UserAt(TRUE, o, F))
<1> SUFFICES ASSUME NEW s \in UserAt(FALSE, o, F)
             PROVE  Admits("user", x, s) /\ After(x, s) \in UserAt(TRUE, o, F)
  BY DEF Leads
<1>1. /\ s \in Machine /\ s[1].metadata = FALSE /\ s[1].obligation = o /\ s[1].farms = F
      /\ s[1] \in Chain
  BY DEF UserAt, Machine
<1>2. After(x, s) \in Machine
  BY <1>1, AfterTyped
<1>3. PICK l : l = s[1]
  OBVIOUS
<1>4. LedgerAfter(x, l) = [l EXCEPT !.metadata = TRUE, !.referrer = referrer]
  BY DEF LedgerAfter
<1>5. /\ LedgerAfter(x, l).metadata = TRUE /\ LedgerAfter(x, l).obligation = l.obligation
      /\ LedgerAfter(x, l).farms = l.farms
  BY <1>1, <1>3, <1>4 DEF Chain
<1>6. After(x, s)[1] = LedgerAfter(x, l)
  BY <1>3 DEF After
<1>7. Admits("user", x, s)
  BY <1>1 DEF Admits, UserReady
<1> QED BY <1>1, <1>2, <1>3, <1>5, <1>6, <1>7 DEF UserAt

LEMMA ObligationMade ==
  ASSUME IInv, NEW F, NEW x \in ListedInstruction, x.op = "initObligation"
  PROVE  Leads("user", x, UserAt(TRUE, FALSE, F), UserAt(TRUE, TRUE, F))
<1> SUFFICES ASSUME NEW s \in UserAt(TRUE, FALSE, F)
             PROVE  Admits("user", x, s) /\ After(x, s) \in UserAt(TRUE, TRUE, F)
  BY DEF Leads
<1>1. /\ s \in Machine /\ s[1].metadata = TRUE /\ s[1].obligation = FALSE /\ s[1].farms = F
      /\ s[1] \in Chain
  BY DEF UserAt, Machine
<1>2. After(x, s) \in Machine
  BY <1>1, AfterTyped
<1>3. PICK l : l = s[1]
  OBVIOUS
<1>4. LedgerAfter(x, l) = [l EXCEPT !.obligation = TRUE]
  BY DEF LedgerAfter
<1>5. /\ LedgerAfter(x, l).metadata = l.metadata /\ LedgerAfter(x, l).obligation = TRUE
      /\ LedgerAfter(x, l).farms = l.farms
  BY <1>1, <1>3, <1>4 DEF Chain
<1>6. After(x, s)[1] = LedgerAfter(x, l)
  BY <1>3 DEF After
<1>7. Admits("user", x, s)
  BY <1>1 DEF Admits, UserReady
<1> QED BY <1>1, <1>2, <1>3, <1>5, <1>6, <1>7 DEF UserAt

LEMMA FarmStateMade ==
  ASSUME IInv, NEW m, NEW F, NEW x \in ListedInstruction, x.op = "initFarm",
         \A r \in x.deps : <<r, x.how>> \notin F
  PROVE  Leads("user", x, UserAt(m, TRUE, F), UserAt(m, TRUE, F \union (x.deps \X {x.how})))
<1> SUFFICES ASSUME NEW s \in UserAt(m, TRUE, F)
             PROVE  /\ Admits("user", x, s)
                    /\ After(x, s) \in UserAt(m, TRUE, F \union (x.deps \X {x.how}))
  BY DEF Leads
<1>1. /\ s \in Machine /\ s[1].metadata = m /\ s[1].obligation = TRUE /\ s[1].farms = F
      /\ s[1] \in Chain
  BY DEF UserAt, Machine
<1>2. After(x, s) \in Machine
  BY <1>1, AfterTyped
<1>3. PICK l : l = s[1]
  OBVIOUS
<1>4. LedgerAfter(x, l) = [l EXCEPT !.farms = @ \union (x.deps \X {x.how})]
  BY DEF LedgerAfter
<1>5. /\ LedgerAfter(x, l).metadata = l.metadata /\ LedgerAfter(x, l).obligation = l.obligation
      /\ LedgerAfter(x, l).farms = l.farms \union (x.deps \X {x.how})
  BY <1>1, <1>3, <1>4 DEF Chain
<1>6. After(x, s)[1] = LedgerAfter(x, l)
  BY <1>3 DEF After
<1>7. Admits("user", x, s)
  BY <1>1 DEF Admits, UserReady
<1> QED BY <1>1, <1>2, <1>3, <1>5, <1>6, <1>7 DEF UserAt

LEMMA NeededFarms ==
  ASSUME IInv, phase = "setup", asksAccounts
  PROVE  farmStatesNeeded = userFarms
<1>1. supportAction = IF req.action = "depositAndBorrow" THEN "deposit"
                      ELSE IF req.action = "repayAndWithdraw" THEN "repay" ELSE req.action
  BY DEF supportAction, twoToken, TwoTokenAction
<1> QED BY <1>1 DEF farmStatesNeeded, userFarms

LEMMA InitFarmsRun ==
  ASSUME IInv, NEW mode \in Mode, NEW m, NEW F,
         NEW S, S = {r \in Reserve : <<r, mode>> \in farmStatesNeeded \ chain.farms},
         \A r \in S : <<r, mode>> \notin F
  PROVE  Runs("user", InitFarmsFor(mode), UserAt(m, TRUE, F), UserAt(m, TRUE, F \union (S \X {mode})))
<1> DEFINE x == [Ix("initFarm", NoReserve, S) EXCEPT !.how = mode]
<1>1. CASE S = {}
  <2>1. InitFarmsFor(mode) = <<>> /\ F \union (S \X {mode}) = F
    BY <1>1 DEF InitFarmsFor
  <2> QED BY <2>1, RunsNothing, UserAtClosed
<1>2. CASE S # {}
  <2>1. InitFarmsFor(mode) = <<x>>
    BY <1>2 DEF InitFarmsFor
  <2>2. x.op = "initFarm" /\ x.deps = S /\ x.how = mode
    BY DEF Ix
  <2>3. x \in ListedInstruction
    <3>1. 1 \in 1..Len(<<x>>) /\ <<x>>[1] = x
      OBVIOUS
    <3>2. <<x>> \in Seq(Made({"initFarm"}))
      BY <2>1, InitFarmsMade
    <3>3. x \in Made({"initFarm"})
      BY <3>1, <3>2, ElementOfSeq
    <3> QED BY <3>3 DEF Made
  <2> HIDE DEF x
  <2>4. Leads("user", x, UserAt(m, TRUE, F), UserAt(m, TRUE, F \union (x.deps \X {x.how})))
    BY <2>2, <2>3, FarmStateMade
  <2>5. Leads("user", x, UserAt(m, TRUE, F), UserAt(m, TRUE, F \union (S \X {mode})))
    BY <2>2, <2>4
  <2>6. Runs("user", <<x>>, UserAt(m, TRUE, F), UserAt(m, TRUE, F \union (S \X {mode})))
    BY <2>5, RunsOne, UserAtClosed
  <2> QED BY <2>1, <2>6
<1> QED BY <1>1, <1>2

LEMMA InitFarmsDone ==
  ASSUME IInv, known = chain, phase = "setup", asksAccounts, NEW m
  PROVE  Runs("user", InitFarmsFor("coll") \o InitFarmsFor("debt"), UserAt(m, TRUE, known.farms),
              UserAt(m, TRUE, known.farms \union userFarms))
<1> DEFINE C == {r \in Reserve : <<r, "coll">> \in farmStatesNeeded \ chain.farms}
           D == {r \in Reserve : <<r, "debt">> \in farmStatesNeeded \ chain.farms}
           F == known.farms \union (C \X {"coll"})
<1>1. "coll" \in Mode /\ "debt" \in Mode
  BY DEF Mode
<1>2. \A r \in C : <<r, "coll">> \notin known.farms
  OBVIOUS
<1>3. \A r \in D : <<r, "debt">> \notin F
  OBVIOUS
<1>4. F \union (D \X {"debt"}) = known.farms \union userFarms
  <2>1. farmStatesNeeded = userFarms
    BY NeededFarms
  <2>2. userFarms \subseteq Farms
    BY DEF userFarms
  <2>3. Farms \subseteq (Reserve \X {"coll"}) \union (Reserve \X {"debt"})
    BY ReserveAssumption DEF Farms
  <2> HIDE DEF F
  <2>4. ASSUME NEW y \in userFarms PROVE y \in F \union (D \X {"debt"})
    <3>1. PICK r \in Reserve, k \in {"coll", "debt"} : y = <<r, k>>
      BY <2>2, <2>3, <2>4
    <3>2. CASE y \in chain.farms
      BY <3>2 DEF F
    <3>3. CASE y \notin chain.farms /\ k = "coll"
      BY <2>1, <2>4, <3>1, <3>3 DEF F
    <3>4. CASE y \notin chain.farms /\ k = "debt"
      BY <2>1, <2>4, <3>1, <3>4
    <3> QED BY <3>1, <3>2, <3>3, <3>4
  <2>5. F \union (D \X {"debt"}) \subseteq known.farms \union userFarms
    BY <2>1 DEF F
  <2>6. known.farms \subseteq F
    BY DEF F
  <2> QED BY <2>4, <2>5, <2>6
<1> HIDE DEF C, D, F
<1>5. Runs("user", InitFarmsFor("coll"), UserAt(m, TRUE, known.farms), UserAt(m, TRUE, F))
  BY <1>1, <1>2, InitFarmsRun DEF C, F
<1>6. Runs("user", InitFarmsFor("debt"), UserAt(m, TRUE, F), UserAt(m, TRUE, F \union (D \X {"debt"})))
  BY <1>1, <1>3, InitFarmsRun DEF D
<1>7. /\ InitFarmsFor("coll") \in Seq(ListedInstruction)
      /\ InitFarmsFor("debt") \in Seq(ListedInstruction)
  BY <1>1, InitFarmsMade, MadeListed
<1> QED BY <1>4, <1>5, <1>6, <1>7, RunsConcat

LEMMA FarmsAtOne ==
  ASSUME NEW r, NEW mode \in Mode
  PROVE  FarmsAt({r}, mode) = {<<r, mode>>} \intersect Farms
BY DEF FarmsAt, FarmsOf, Farms, Mode

LEMMA RefreshFarmsKept ==
  ASSUME NEW S, NEW mode \in Mode, FarmsAt(S, mode) \subseteq userFarms
  PROVE  RefreshFarms(S, mode) \in Seq(UserKept)
<1> DEFINE farmed == S \intersect FarmsOf(mode)
           x == [Ix("refreshFarms", NoReserve, farmed) EXCEPT !.how = mode]
<1>1. CASE farmed = {}
  <2>1. RefreshFarms(S, mode) = <<>>
    BY <1>1 DEF RefreshFarms
  <2> QED BY <2>1, ShortSeq
<1>2. CASE farmed # {}
  <2>1. RefreshFarms(S, mode) = <<x>>
    BY <1>2 DEF RefreshFarms
  <2>2. x.op = "refreshFarms" /\ x.deps = farmed /\ x.how = mode
    BY DEF Ix
  <2>3. x \in ListedInstruction
    <3>1. 1 \in 1..Len(<<x>>) /\ <<x>>[1] = x
      OBVIOUS
    <3>2. <<x>> \in Seq(Made({"refreshFarms"}))
      BY <2>1, RefreshFarmsMade
    <3>3. x \in Made({"refreshFarms"})
      BY <3>1, <3>2, ElementOfSeq
    <3> QED BY <3>3 DEF Made
  <2>4. x \in UserKept
    BY <2>2, <2>3 DEF UserKept, FarmsAt
  <2> HIDE DEF x
  <2> QED BY <2>1, <2>4, ShortSeq
<1> QED BY <1>1, <1>2

\* A pass repeats refreshes of farms only, and switches groups in between.
LEMMA PassingLists ==
  ASSUME IInv, ShapeSound, GroupBuilt, Passing, pc # "farms"
  PROVE  /\ \E m \in Seq(Made(SwitchOps)) : inBetweenIxs' = inBetweenIxs \o m
         /\ UNCHANGED refreshFarmsCleanupTxnIxs
<1>1. inBetweenIxs \o <<>> = inBetweenIxs /\ \A X : <<>> \in Seq(X)
  BY ListsAreInstructions, NothingAdded
<1>2. CASE UNCHANGED inBetweenIxs /\ UNCHANGED refreshFarmsCleanupTxnIxs
  BY <1>1, <1>2
<1>3. CASE backOps \subseteq SwitchOps /\ UNCHANGED refreshFarmsCleanupTxnIxs
  <2>1. \E m \in Seq(Made(backOps)) : inBetweenIxs' = inBetweenIxs \o m
    BY PassingGrows, Zenon DEF Growth
  <2> QED BY <1>3, <2>1, MadeMore
<1>4. CASE AddInitObligationForFarms
  <2>1. PushSupport(IF phase = "setup" THEN InitFarmsFor("coll") \o InitFarmsFor("debt") ELSE <<>>)
    BY <1>4, InitFarmsPushed
  <2>2. UNCHANGED inBetweenIxs
    BY <1>1, <2>1 DEF PushSupport
  <2>3. UNCHANGED refreshFarmsCleanupTxnIxs
    BY <1>4 DEF AddInitObligationForFarms, OnlySupport
  <2> QED BY <1>2, <2>2, <2>3
<1>5. CASE AddComputeBudgetIxn \/ AddScopeRefreshIxs \/ AddInitUserMetadataIxs
           \/ AddInitReferrerTokenStateIxs \/ AddInitObligationIxs \/ AddAtaIxs
  <2>1. UNCHANGED inBetweenIxs /\ UNCHANGED refreshFarmsCleanupTxnIxs
    BY <1>5 DEF AddComputeBudgetIxn, AddScopeRefreshIxs, AddInitUserMetadataIxs,
       AddInitReferrerTokenStateIxs, AddInitObligationIxs, AddAtaIxs, OnlySetup
  <2> QED BY <1>2, <2>1
<1>6. CASE AddLendingIx
  BY <1>2, <1>6, LendingGrows DEF Passing
<1>7. CASE AddRefreshOtherReserves \/ AddRefreshCurrent \/ AddRequestElevation
  <2>1. pc \in {"others", "current", "elevation"}
    BY <1>7 DEF AddRefreshOtherReserves, AddRefreshCurrent, AddRequestElevation
  <2>2. backOps \subseteq SwitchOps
    BY <2>1 DEF backOps, SwitchOps, RefreshOps
  <2>3. UNCHANGED refreshFarmsCleanupTxnIxs
    BY <1>7 DEF AddRefreshOtherReserves, AddRefreshCurrent, AddRequestElevation, OnlySupport,
       OnlyElevation
  <2> QED BY <1>3, <2>2, <2>3
<1>8. CASE AddRefreshFarms
  BY <1>8 DEF AddRefreshFarms
<1> QED BY <1>4, <1>5, <1>6, <1>7, <1>8 DEF Next, Passing

\* The farms a pass refreshes are those the call has made.
LEMMA FarmRefreshKept ==
  ASSUME IInv, asksAccounts, phase = "inBetween" => twoToken
  PROVE  farmRefreshIxs \in Seq(UserKept)
<1>1. "coll" \in Mode /\ "debt" \in Mode
  BY DEF Mode
<1>2. \A r : /\ FarmsAt({r}, "coll") = {<<r, "coll">>} \intersect Farms
             /\ FarmsAt({r}, "debt") = {<<r, "debt">>} \intersect Farms
  BY <1>1, FarmsAtOne
<1>3. supportAction = IF phase = "inBetween" \/ req.action \notin TwoTokenAction THEN req.action
                      ELSE IF req.action = "depositAndBorrow" THEN "deposit" ELSE "repay"
  BY DEF supportAction, twoToken
<1>4. CASE phase = "inBetween"
  <2>1. req.action \in TwoTokenAction
    BY <1>4 DEF twoToken
  <2>2. CASE req.action = "depositAndBorrow"
    <3>1. FarmsAt({req.outflow}, "debt") \subseteq userFarms
      BY <1>2, <2>2 DEF userFarms
    <3>2. farmRefreshIxs = RefreshFarms({req.outflow}, "debt")
      BY <1>3, <1>4, <2>2 DEF farmRefreshIxs
    <3> QED BY <1>1, <3>1, <3>2, RefreshFarmsKept
  <2>3. CASE req.action = "repayAndWithdraw"
    <3>1. FarmsAt({req.outflow}, "coll") \subseteq userFarms
      BY <1>2, <2>3 DEF userFarms
    <3>2. farmRefreshIxs = RefreshFarms({req.outflow}, "coll")
      BY <1>3, <1>4, <2>3 DEF farmRefreshIxs
    <3> QED BY <1>1, <3>1, <3>2, RefreshFarmsKept
  <2> QED BY <2>1, <2>2, <2>3 DEF TwoTokenAction
<1>5. CASE phase # "inBetween"
  <2>0. phase = "setup"
    BY <1>5 DEF IInv, StateSound
  <2>1. CASE req.action = "liquidate"
    <3>1. supportAction = "liquidate"
      BY <1>3, <2>1 DEF TwoTokenAction
    <3>2. farmRefreshIxs = RefreshFarms({req.outflow}, "coll") \o RefreshFarms({req.reserve}, "debt")
      BY <1>5, <2>0, <3>1 DEF farmRefreshIxs
    <3>3. /\ FarmsAt({req.outflow}, "coll") \subseteq userFarms
          /\ FarmsAt({req.reserve}, "debt") \subseteq userFarms
      BY <1>2, <2>1 DEF userFarms
    <3>4. /\ RefreshFarms({req.outflow}, "coll") \in Seq(UserKept)
          /\ RefreshFarms({req.reserve}, "debt") \in Seq(UserKept)
      BY <1>1, <3>3, RefreshFarmsKept
    <3> HIDE DEF UserKept
    <3> QED BY <3>2, <3>4, Concatenated
  <2>2. CASE supportAction \in {"depositCollateral", "withdraw", "deposit"}
    <3>1. farmRefreshIxs = RefreshFarms({req.reserve}, "coll")
      BY <1>5, <2>0, <2>2 DEF farmRefreshIxs
    <3>2. FarmsAt({req.reserve}, "coll") \subseteq userFarms
      BY <1>2, <1>3, <1>5, <2>2 DEF userFarms, TwoTokenAction
    <3> QED BY <1>1, <3>1, <3>2, RefreshFarmsKept
  <2>3. CASE req.action # "liquidate" /\ supportAction \notin {"depositCollateral", "withdraw", "deposit"}
    <3>1. supportAction # "liquidate"
      BY <1>3, <2>3
    <3>2. farmRefreshIxs = RefreshFarms({req.reserve}, "debt")
      BY <1>5, <2>0, <2>3, <3>1 DEF farmRefreshIxs
    <3>3. req.action \notin {"depositAndBorrow", "depositCollateral", "withdraw", "deposit"}
      BY <1>3, <1>5, <2>3 DEF TwoTokenAction
    <3>4. FarmsAt({req.reserve}, "debt") \subseteq userFarms
      BY <1>2, <3>3 DEF userFarms
    <3> QED BY <1>1, <3>2, <3>4, RefreshFarmsKept
  <2> QED BY <2>1, <2>2, <2>3
<1> QED BY <1>4, <1>5

\* The setup list makes the accounts stage by stage.
LEMMA UserAppends ==
  ASSUME IInv, NEW S, NEW T, NEW q \in Seq(ListedInstruction), NEW t,
         Runs("user", setupIxs, userStart, S),
         t = setupIxs \o q, Runs("user", q, S, T)
  PROVE  Runs("user", t, userStart, T)
<1>1. setupIxs \in Seq(ListedInstruction)
  BY ListsListed
<1> QED BY <1>1, RunsConcat

LEMMA AppendAsConcat ==
  ASSUME IInv, NEW x \in ListedInstruction
  PROVE  Append(setupIxs, x) = setupIxs \o <<x>>
<1>1. setupIxs \in Seq(ListedInstruction)
  BY ListsListed
<1> QED BY <1>1

LEMMA UserMetadata ==
  ASSUME IInv, asksAccounts, known = chain, AddInitUserMetadataIxs,
         Runs("user", setupIxs, userStart, userStart)
  PROVE  Runs("user", setupIxs', userStart, UserAt(metaMade, known.obligation, known.farms))
<1> DEFINE x == Ix("initUserMetadata", NoReserve, {})
<1>1. known.metadata \in BOOLEAN /\ req.metadata \in BOOLEAN
  BY DEF IInv, StateSound, Chain, Request
<1>2. CASE ~chain.metadata /\ req.metadata
  <2>1. setupIxs' = Append(setupIxs, x)
    BY <1>2 DEF AddInitUserMetadataIxs
  <2>2. x \in Made({"initUserMetadata"})
    <3>1. "initUserMetadata" \in SupportOp \ (PositionList \union {"initFarm"})
      BY DEF SupportOp, LendingOp, PositionOp, AccountOp, IxOp, PositionList
    <3> QED BY <3>1, PlainMade
  <2>3. x \in ListedInstruction /\ x.op = "initUserMetadata"
    BY <2>2 DEF Made
  <2> HIDE DEF x
  <2>4. metaMade = TRUE /\ known.metadata = FALSE
    BY <1>1, <1>2 DEF metaMade
  <2>5. userStart = UserAt(FALSE, known.obligation, known.farms)
    BY <2>4 DEF userStart
  <2>6. Leads("user", x, UserAt(FALSE, known.obligation, known.farms),
              UserAt(TRUE, known.obligation, known.farms))
    BY <2>3, MetadataMade
  <2>7. Runs("user", <<x>>, UserAt(FALSE, known.obligation, known.farms),
             UserAt(TRUE, known.obligation, known.farms))
    BY <2>6, RunsOne, UserAtClosed
  <2>8. Runs("user", <<x>>, userStart, UserAt(metaMade, known.obligation, known.farms))
    BY <2>4, <2>5, <2>7
  <2>9. <<x>> \in Seq(ListedInstruction) /\ setupIxs' = setupIxs \o <<x>>
    BY <2>1, <2>3, AppendAsConcat, ShortSeq
  <2> QED BY <2>8, <2>9, UserAppends
<1>3. CASE ~(~chain.metadata /\ req.metadata)
  <2>1. setupIxs' = setupIxs
    BY <1>3 DEF AddInitUserMetadataIxs
  <2>2. metaMade = known.metadata
    BY <1>1, <1>3 DEF metaMade
  <2> QED BY <2>1, <2>2 DEF userStart
<1> QED BY <1>2, <1>3

LEMMA UserObligation ==
  ASSUME IInv, asksAccounts, Sensible, AddInitObligationIxs,
         Runs("user", setupIxs, userStart, UserAt(metaMade, known.obligation, known.farms))
  PROVE  Runs("user", setupIxs', userStart, UserAt(metaMade, TRUE, known.farms))
<1> DEFINE x == Ix("initObligation", NoReserve, {})
<1>1. known.obligation \in BOOLEAN
  BY DEF IInv, StateSound, Chain
<1>2. CASE ~known.obligation
  <2>1. setupIxs' = Append(setupIxs, x)
    BY <1>2 DEF AddInitObligationIxs
  <2>2. x \in Made({"initObligation"})
    <3>1. "initObligation" \in SupportOp \ (PositionList \union {"initFarm"})
      BY DEF SupportOp, LendingOp, PositionOp, AccountOp, IxOp, PositionList
    <3> QED BY <3>1, PlainMade
  <2>3. x \in ListedInstruction /\ x.op = "initObligation"
    BY <2>2 DEF Made
  <2> HIDE DEF x
  <2>4. metaMade = TRUE
    <3>1. known.deposits = {} /\ known.borrows = {}
      BY <1>2 DEF Sensible, Compatible
    <3>2. deposited
      <4>1. ~repaid /\ withdrawn = {} /\ req.action # "borrow"
        BY <3>1 DEF Sensible, PositionsHeld
      <4>2. req.action \in ActionType
        BY DEF IInv, StateSound, Request
      <4>3. req.action \notin {"repay", "repayAndWithdraw", "liquidate", "borrow", "withdraw"}
        BY <4>1 DEF repaid, withdrawn
      <4> QED BY <4>2, <4>3 DEF deposited, ActionType, asksAccounts, TwoTokenAction, ObligationOnly
    <3>3. known.metadata \/ req.metadata
      BY <1>2, <3>2 DEF Sensible, PositionsHeld
    <3>4. known.metadata \in BOOLEAN /\ req.metadata \in BOOLEAN
      BY DEF IInv, StateSound, Chain, Request
    <3> QED BY <3>3, <3>4 DEF metaMade
  <2>5. known.obligation = FALSE
    BY <1>1, <1>2
  <2>6. Leads("user", x, UserAt(TRUE, FALSE, known.farms), UserAt(TRUE, TRUE, known.farms))
    BY <2>3, ObligationMade
  <2>7. Runs("user", <<x>>, UserAt(TRUE, FALSE, known.farms), UserAt(TRUE, TRUE, known.farms))
    BY <2>6, RunsOne, UserAtClosed
  <2>8. Runs("user", <<x>>, UserAt(metaMade, known.obligation, known.farms),
             UserAt(metaMade, TRUE, known.farms))
    BY <2>4, <2>5, <2>7
  <2>9. <<x>> \in Seq(ListedInstruction) /\ setupIxs' = setupIxs \o <<x>>
    BY <2>1, <2>3, AppendAsConcat, ShortSeq
  <2> QED BY <2>8, <2>9, UserAppends
<1>3. CASE known.obligation
  <2>1. setupIxs' = setupIxs /\ known.obligation = TRUE
    BY <1>1, <1>3 DEF AddInitObligationIxs
  <2> QED BY <2>1
<1> QED BY <1>2, <1>3

LEMMA UserFarms ==
  ASSUME IInv, asksAccounts, known = chain, AddInitObligationForFarms, phase = "setup",
         Runs("user", setupIxs, userStart, UserAt(metaMade, TRUE, known.farms))
  PROVE  Runs("user", setupIxs', userStart, userEnd)
<1> DEFINE q == InitFarmsFor("coll") \o InitFarmsFor("debt")
<1>1. setupIxs' = setupIxs \o q
  BY InitFarmsPushed DEF PushSupport
<1>2. Runs("user", q, UserAt(metaMade, TRUE, known.farms), userEnd)
  BY InitFarmsDone DEF userEnd
<1>3. q \in Seq(ListedInstruction)
  <2>1. "coll" \in Mode /\ "debt" \in Mode
    BY DEF Mode
  <2>2. /\ InitFarmsFor("coll") \in Seq(ListedInstruction)
        /\ InitFarmsFor("debt") \in Seq(ListedInstruction)
    BY <2>1, InitFarmsMade, MadeListed
  <2> QED BY <2>2, Concatenated
<1> HIDE DEF q
<1> QED BY <1>1, <1>2, <1>3, UserAppends

\* A step whose pieces have nothing to do with the accounts of the user.
LEMMA UserPassedBy ==
  ASSUME IInv, ShapeSound, GroupBuilt, Passing, NEW m, NEW o, NEW F,
         frontOps \subseteq Ignored("user"), backOps \subseteq Ignored("user"),
         Runs("user", setupIxs, userStart, UserAt(m, o, F))
  PROVE  Runs("user", setupIxs', userStart, UserAt(m, o, F))
<1>1. PICK a \in Seq(Made(frontOps)), b \in Seq(Made(backOps)) :
        setupIxs' = (a \o setupIxs) \o b
  BY PassingGrows, Zenon DEF Growth
<1>2. a \in Seq(Made(Ignored("user"))) /\ b \in Seq(Made(Ignored("user")))
  BY <1>1, MadeMore
<1>3. Closed("user", userStart) /\ Closed("user", UserAt(m, o, F)) /\ "user" \in Concern
  BY UserAtClosed DEF userStart, Concern
<1>4. Runs("user", a, userStart, userStart) /\ Runs("user", b, UserAt(m, o, F), UserAt(m, o, F))
  BY <1>2, <1>3, IgnoredRuns
<1>5. /\ a \in Seq(ListedInstruction) /\ b \in Seq(ListedInstruction)
      /\ setupIxs \in Seq(ListedInstruction)
  BY <1>1, MadeListed, ListsListed
<1>6. Runs("user", (a \o setupIxs) \o b, userStart, UserAt(m, o, F))
  BY <1>4, <1>5, RunsAround
<1> QED BY <1>1, <1>6

LEMMA UserSetup ==
  ASSUME IInv, ShapeSound, GroupBuilt, Passing, passes, asksAccounts, Sensible, known = chain,
         Runs("user", setupIxs, userStart, userStage(pc, phase))
  PROVE  Runs("user", setupIxs', userStart, userStage(pc', phase'))
<1>1. req.action \notin {"mint", "redeem"}
  BY DEF asksAccounts
<1>2. phase \in {"setup", "inBetween"}
  BY DEF IInv, StateSound
<1>3. frontOps \subseteq Ignored("user")
  BY DEF frontOps, Ignored, IxOp, AtaOps
<1>4. phase = "inBetween" => pc \in {"ata", "others", "initFarms", "current", "elevation",
                                     "farms", "splice", "built", "thrown"}
  BY DEF ShapeSound
<1>5. userEnd = UserAt(metaMade, TRUE, known.farms \union userFarms)
      /\ userStart = UserAt(known.metadata, known.obligation, known.farms)
  BY DEF userEnd, userStart
<1>6. CASE pc \in {"budget", "scope"}
  <2>1. userStage(pc, phase) = userStart /\ userStage(pc', phase') = userStart
    BY <1>1, <1>6, PassingParts DEF userStage
  <2>2. backOps \subseteq Ignored("user")
    BY <1>6 DEF backOps, Ignored, IxOp
  <2> QED BY <1>3, <1>5, <2>1, <2>2, UserPassedBy
<1>7. CASE pc = "metadata"
  <2>1. AddInitUserMetadataIxs /\ userStage(pc, phase) = userStart
        /\ userStage(pc', phase') = UserAt(metaMade, known.obligation, known.farms)
    <3>1. phase = "setup" /\ pc' = "referrer" /\ phase' = "setup"
      BY <1>7, PassingParts
    <3>2. AddInitUserMetadataIxs
      BY <1>7, StepParts DEF Passing
    <3> QED BY <1>7, <3>1, <3>2 DEF userStage
  <2> QED BY <2>1, UserMetadata
<1>8. CASE pc = "referrer"
  <2> DEFINE S == UserAt(metaMade, known.obligation, known.farms)
  <2>1. userStage(pc, phase) = S /\ userStage(pc', phase') = S
    BY <1>8, PassingParts DEF userStage
  <2>2. backOps \subseteq Ignored("user")
    BY <1>8 DEF backOps
  <2> QED BY <1>3, <2>1, <2>2, UserPassedBy
<1>9. CASE pc = "initObligation"
  <2>1. AddInitObligationIxs
        /\ userStage(pc, phase) = UserAt(metaMade, known.obligation, known.farms)
        /\ userStage(pc', phase') = UserAt(metaMade, TRUE, known.farms)
    <3>1. phase = "setup" /\ pc' = "ata" /\ phase' = "setup"
      BY <1>9, PassingParts
    <3>2. AddInitObligationIxs
      BY <1>9, StepParts DEF Passing
    <3> QED BY <1>9, <3>1, <3>2 DEF userStage
  <2> QED BY <2>1, UserObligation
<1>10. CASE pc \in {"ata", "others"}
  <2> DEFINE S == UserAt(metaMade, TRUE, known.farms)
  <2>1. \/ userStage(pc, phase) = S /\ userStage(pc', phase') = S
        \/ userStage(pc, phase) = userEnd /\ userStage(pc', phase') = userEnd
    BY <1>1, <1>2, <1>10, PassingParts DEF userStage
  <2>2. backOps \subseteq Ignored("user")
    BY <1>10 DEF backOps, Ignored, IxOp
  <2>3. CASE userStage(pc, phase) = S /\ userStage(pc', phase') = S
    BY <1>3, <2>2, <2>3, UserPassedBy
  <2>4. CASE userStage(pc, phase) = userEnd /\ userStage(pc', phase') = userEnd
    BY <1>3, <1>5, <2>2, <2>4, UserPassedBy
  <2> QED BY <2>1, <2>3, <2>4
<1>11. CASE pc = "initFarms"
  <2>1. AddInitObligationForFarms /\ phase' = phase /\ pc' = "current"
    BY <1>11, StepParts DEF Passing
  <2>2. userStage(pc', phase') = userEnd
    BY <2>1 DEF userStage
  <2>3. CASE phase = "setup"
    <3>1. userStage(pc, phase) = UserAt(metaMade, TRUE, known.farms)
      BY <1>11, <2>3 DEF userStage
    <3> QED BY <2>1, <2>2, <2>3, <3>1, UserFarms
  <2>4. CASE phase = "inBetween"
    <3>1. userStage(pc, phase) = userEnd
      BY <2>4 DEF userStage
    <3>2. setupIxs' = setupIxs
      BY <2>1, <2>4, InitFarmsPushed DEF PushSupport
    <3> QED BY <2>2, <3>1, <3>2
  <2> QED BY <1>2, <2>3, <2>4
<1>12. CASE pc = "lending"
  <2>1. userStage(pc, phase) = userEnd /\ userStage(pc', phase') = userEnd
    BY <1>4, <1>12, PassingParts DEF userStage
  <2>2. backOps \subseteq Ignored("user")
    BY <1>12 DEF backOps
  <2> QED BY <1>3, <1>5, <2>1, <2>2, UserPassedBy
<1>13. CASE pc \in {"current", "elevation", "farms"}
  <2>1. userStage(pc, phase) = userEnd /\ userStage(pc', phase') = userEnd
    BY <1>13, PassingParts DEF userStage
  <2>2. \E b \in Seq(UserKept) : setupIxs' = setupIxs \o b
    <3>1. CASE pc \in {"current", "elevation"}
      <4>1. frontOps = {} /\ backOps \subseteq SwitchOps
        BY <3>1 DEF frontOps, backOps, SwitchOps
      <4>2. PICK a \in Seq(Made(frontOps)), b \in Seq(Made(backOps)) :
              setupIxs' = (a \o setupIxs) \o b
        BY PassingGrows, Zenon DEF Growth
      <4>3. a = <<>>
        BY <4>1, <4>2 DEF Made
      <4>4. b \in Seq(Made(SwitchOps))
        BY <4>1, <4>2, MadeMore
      <4>5. Made(SwitchOps) \subseteq UserKept
        BY DEF Made, UserKept, SwitchOps, RefreshOps
      <4>6. b \in Seq(UserKept)
        BY <4>4, <4>5, SeqSubset
      <4>7. (a \o setupIxs) \o b = setupIxs \o b
        BY <4>3, ListsAreInstructions, NothingAdded
      <4> QED BY <4>2, <4>6, <4>7
    <3>2. CASE pc = "farms"
      <4>1. AddRefreshFarms
        BY <3>2, StepParts DEF Passing
      <4>2. farmRefreshIxs \in Seq(UserKept) /\ <<>> \in Seq(UserKept)
        BY FarmRefreshKept, ShortSeq DEF ShapeSound
      <4>3. setupIxs' = setupIxs \o farmRefreshIxs \/ setupIxs' = setupIxs
        BY <4>1 DEF AddRefreshFarms
      <4>4. setupIxs \o <<>> = setupIxs
        BY ListsAreInstructions, NothingAdded
      <4> QED BY <4>2, <4>3, <4>4
    <3> QED BY <1>13, <3>1, <3>2
  <2>3. PICK b \in Seq(UserKept) : setupIxs' = setupIxs \o b
    BY <2>2
  <2>4. Runs("user", b, userEnd, userEnd)
    BY <2>3, KeptRuns
  <2>5. b \in Seq(ListedInstruction)
    <3>1. UserKept \subseteq ListedInstruction
      BY DEF UserKept
    <3> QED BY <2>3, <3>1, SeqSubset
  <2> QED BY <2>1, <2>3, <2>4, <2>5, UserAppends
<1> QED BY <1>6, <1>7, <1>8, <1>9, <1>10, <1>11, <1>12, <1>13, PassingParts

LEMMA UserStep ==
  ASSUME IInv, ShapeSound, GroupBuilt, KindsBuilt, UserBuilt, Next, ~Initialize, known = chain
  PROVE  UserBuilt'
<1> SUFFICES ASSUME Underway', asksAccounts, Sensible PROVE UserBuilt'
  <2>1. asksAccounts' = asksAccounts
    BY StepKeeps DEF asksAccounts, loaded
  <2>2. UNCHANGED <<req, known>>
    BY StepKeeps DEF loaded
  <2>3. Sensible' <=> Sensible
    BY <2>2, SensibleSame
  <2> QED BY <2>1, <2>3 DEF UserBuilt
<1>1. /\ pc \notin {"initialize", "thrown", "built"} /\ UNCHANGED <<req, referrer, known, positions>>
      /\ pc' # "thrown"
  BY StepParts DEF Underway
<1>2. passes /\ Underway
  BY <1>1 DEF Underway, passes
<1>3. UserPlan(pc, phase, setupIxs, inBetweenIxs, cleanupIxs, refreshFarmsCleanupTxnIxs)
  BY <1>2 DEF UserBuilt
<1>4. ~AddRefreshObligation /\ ~AddWithdrawReferrerFees
  BY <1>2 DEF passes, AddRefreshObligation, AddWithdrawReferrerFees
<1>5. CASE AddRefreshFarmsCleanupTxnIxsToCleanupIxs
  <2>1. /\ pc = "splice" /\ pc' = "built" /\ UNCHANGED phase
        /\ cleanupIxs' = refreshFarmsCleanupTxnIxs \o cleanupIxs
        /\ UNCHANGED <<setupIxs, inBetweenIxs, refreshFarmsCleanupTxnIxs>>
    BY <1>5 DEF AddRefreshFarmsCleanupTxnIxsToCleanupIxs, splicedCleanup
  <2>2. userStage(pc', phase') = userStage(pc, phase)
    BY <2>1 DEF userStage
  <2>3. cleanupIxs' \in Seq(UserKept)
    <3>1. refreshFarmsCleanupTxnIxs \in Seq(UserKept) /\ cleanupIxs \in Seq(UserKept)
      BY <1>3 DEF UserPlan
    <3> HIDE DEF UserKept
    <3>2. refreshFarmsCleanupTxnIxs \o cleanupIxs \in Seq(UserKept)
      BY <3>1, Concatenated
    <3> QED BY <2>1, <3>2
  <2>4. UserPlan(pc', phase', setupIxs', inBetweenIxs', cleanupIxs', refreshFarmsCleanupTxnIxs')
    BY <1>3, <2>1, <2>2, <2>3 DEF UserPlan
  <2> QED BY <1>1, <2>4, UserPrimed
<1>6. CASE ~AddRefreshFarmsCleanupTxnIxsToCleanupIxs
  <2>1. Passing
    BY <1>1, <1>4, <1>6 DEF Passing
  <2>2. Runs("user", setupIxs', userStart, userStage(pc', phase'))
    BY <1>2, <1>3, <2>1, UserSetup DEF UserPlan
  <2>3. inBetweenIxs \in Seq(UserKept) /\ cleanupIxs \in Seq(UserKept)
        /\ refreshFarmsCleanupTxnIxs \in Seq(UserKept)
    BY <1>3 DEF UserPlan
  <2>4. \A q : q \in Seq(Made(SwitchOps \union {"closeAta"})) => q \in Seq(UserKept)
    <3>1. Made(SwitchOps \union {"closeAta"}) \subseteq UserKept
      BY DEF Made, UserKept, SwitchOps, RefreshOps
    <3> QED BY <3>1, SeqSubset
  <2>5. cleanupIxs' \in Seq(UserKept)
    <3>1. PICK c \in Seq(Made(closeOps)) : cleanupIxs' = cleanupIxs \o c
      BY <2>1, PassingGrows, Zenon DEF Growth
    <3>2. c \in Seq(Made(SwitchOps \union {"closeAta"}))
      BY <3>1, MadeMore DEF closeOps
    <3>3. c \in Seq(UserKept)
      BY <2>4, <3>2
    <3> HIDE DEF UserKept
    <3>4. cleanupIxs \o c \in Seq(UserKept)
      BY <2>3, <3>3, Concatenated
    <3> QED BY <3>1, <3>4
  <2>6. inBetweenIxs' \in Seq(UserKept) /\ refreshFarmsCleanupTxnIxs' \in Seq(UserKept)
    <3>1. CASE pc = "farms"
      <4>1. AddRefreshFarms
        BY <1>4, <2>1, <3>1, StepParts DEF Passing
      <4>2. farmRefreshIxs \in Seq(UserKept)
        BY FarmRefreshKept DEF ShapeSound
      <4>3. /\ inBetweenIxs' = inBetweenIxs \o farmRefreshIxs \/ inBetweenIxs' = inBetweenIxs
            /\ \/ refreshFarmsCleanupTxnIxs' = refreshFarmsCleanupTxnIxs \o farmRefreshIxs
               \/ refreshFarmsCleanupTxnIxs' = refreshFarmsCleanupTxnIxs
        BY <4>1 DEF AddRefreshFarms
      <4> HIDE DEF UserKept
      <4>4. /\ inBetweenIxs \o farmRefreshIxs \in Seq(UserKept)
            /\ refreshFarmsCleanupTxnIxs \o farmRefreshIxs \in Seq(UserKept)
        BY <2>3, <4>2, Concatenated
      <4> QED BY <2>3, <4>3, <4>4
    <3>2. CASE pc # "farms"
      <4>1. PICK m \in Seq(Made(SwitchOps)) : inBetweenIxs' = inBetweenIxs \o m
        BY <2>1, <3>2, PassingLists
      <4>2. m \in Seq(Made(SwitchOps \union {"closeAta"}))
        BY <4>1, MadeMore
      <4>3. m \in Seq(UserKept)
        BY <2>4, <4>2
      <4>4. UNCHANGED refreshFarmsCleanupTxnIxs
        BY <2>1, <3>2, PassingLists
      <4> HIDE DEF UserKept
      <4>5. inBetweenIxs \o m \in Seq(UserKept)
        BY <2>3, <4>3, Concatenated
      <4> QED BY <2>3, <4>1, <4>4, <4>5
    <3> QED BY <3>1, <3>2
  <2>7. UserPlan(pc', phase', setupIxs', inBetweenIxs', cleanupIxs', refreshFarmsCleanupTxnIxs')
    BY <2>2, <2>5, <2>6 DEF UserPlan
  <2> QED BY <1>1, <2>7, UserPrimed
<1> QED BY <1>5, <1>6

-----------------------------------------------------------------------------
(***************************************************************************)
(* Token accounts: made in front of the setup list or by the preceding     *)
(* transaction, and the one of wrapped SOL funded before it is sent from.  *)
(***************************************************************************)
Holding(A, C, un, fu) ==
  {s \in Machine : /\ A \subseteq s[1].atas /\ C \subseteq s[1].colAtas
                   /\ un => s[2].unsynced
                   /\ fu => s[2].funded}

LEMMA HoldingClosed ==
  ASSUME NEW A, NEW C, NEW un, NEW fu
  PROVE  Closed("money", Holding(A, C, un, fu)) /\ Holding(A, C, un, fu) \in SUBSET Machine
BY DEF Closed, Alike, Holding

LEMMA CreateLeads ==
  ASSUME IInv, NEW x \in ListedInstruction, NEW A, NEW C, NEW un, NEW fu
  PROVE  /\ x.op = "createAta" =>
              Leads("money", x, Holding(A, C, un, fu), Holding(A \union {x.res}, C, un, fu))
         /\ x.op = "createColAta" =>
              Leads("money", x, Holding(A, C, un, fu), Holding(A, C \union {x.res}, un, fu))
<1> SUFFICES ASSUME NEW s \in Holding(A, C, un, fu), x.op \in {"createAta", "createColAta"}
             PROVE  /\ Admits("money", x, s)
                    /\ x.op = "createAta" => After(x, s) \in Holding(A \union {x.res}, C, un, fu)
                    /\ x.op = "createColAta" => After(x, s) \in Holding(A, C \union {x.res}, un, fu)
  BY DEF Leads
<1>1. /\ s \in Machine /\ s[1] \in Chain /\ s[2] \in VMType
      /\ A \subseteq s[1].atas /\ C \subseteq s[1].colAtas
      /\ (un => s[2].unsynced) /\ (fu => s[2].funded)
  BY DEF Holding, Machine
<1>2. After(x, s) \in Machine
  BY <1>1, AfterTyped
<1>3. VMAfter(x, s[2]) = s[2]
  BY DEF VMAfter, PositionOp
<1>4. /\ x.op = "createAta" => LedgerAfter(x, s[1]) = [s[1] EXCEPT !.atas = @ \union {x.res}]
      /\ x.op = "createColAta" =>
           LedgerAfter(x, s[1]) = [s[1] EXCEPT !.colAtas = @ \union {x.res}]
  BY DEF LedgerAfter
<1>5. /\ x.op = "createAta" => /\ LedgerAfter(x, s[1]).atas = s[1].atas \union {x.res}
                               /\ LedgerAfter(x, s[1]).colAtas = s[1].colAtas
      /\ x.op = "createColAta" => /\ LedgerAfter(x, s[1]).atas = s[1].atas
                                  /\ LedgerAfter(x, s[1]).colAtas = s[1].colAtas \union {x.res}
  BY <1>1, <1>4 DEF Chain
<1>6. Admits("money", x, s)
  BY DEF Admits, AccountsReady, SolFunded
<1>7. After(x, s)[1] = LedgerAfter(x, s[1]) /\ After(x, s)[2] = s[2]
  BY <1>3 DEF After
<1> QED BY <1>1, <1>2, <1>5, <1>6, <1>7 DEF Holding

LEMMA CreateHolds ==
  ASSUME IInv, NEW r \in Reserve, NEW A, NEW C, NEW un, NEW fu
  PROVE  /\ chain.atas \subseteq A =>
              Runs("money", CreateIfMissing("createAta", chain.atas, r),
                   Holding(A, C, un, fu), Holding(A \union {r}, C, un, fu))
         /\ chain.colAtas \subseteq C =>
              Runs("money", CreateIfMissing("createColAta", chain.colAtas, r),
                   Holding(A, C, un, fu), Holding(A, C \union {r}, un, fu))
<1> DEFINE x == Ix("createAta", r, {})
           y == Ix("createColAta", r, {})
<1>1. x \in ListedInstruction /\ y \in ListedInstruction
  BY AccountIx DEF ListedInstruction
<1>2. x.op = "createAta" /\ x.res = r /\ y.op = "createColAta" /\ y.res = r
  BY DEF Ix
<1>3. \/ r \in chain.atas /\ CreateIfMissing("createAta", chain.atas, r) = <<>>
      \/ CreateIfMissing("createAta", chain.atas, r) = <<x>>
  BY DEF CreateIfMissing
<1>4. \/ r \in chain.colAtas /\ CreateIfMissing("createColAta", chain.colAtas, r) = <<>>
      \/ CreateIfMissing("createColAta", chain.colAtas, r) = <<y>>
  BY DEF CreateIfMissing
<1> HIDE DEF x, y
<1>5. Leads("money", x, Holding(A, C, un, fu), Holding(A \union {r}, C, un, fu))
  BY <1>1, <1>2, CreateLeads
<1>6. Leads("money", y, Holding(A, C, un, fu), Holding(A, C \union {r}, un, fu))
  BY <1>1, <1>2, CreateLeads
<1>7. Runs("money", <<x>>, Holding(A, C, un, fu), Holding(A \union {r}, C, un, fu))
  BY <1>5, RunsOne, HoldingClosed
<1>8. Runs("money", <<y>>, Holding(A, C, un, fu), Holding(A, C \union {r}, un, fu))
  BY <1>6, RunsOne, HoldingClosed
<1>9. chain.atas \subseteq A /\ r \in chain.atas => A \union {r} = A
  OBVIOUS
<1>10. chain.colAtas \subseteq C /\ r \in chain.colAtas => C \union {r} = C
  OBVIOUS
<1>11. Runs("money", <<>>, Holding(A, C, un, fu), Holding(A, C, un, fu))
  BY RunsNothing, HoldingClosed
<1>12. chain.atas \subseteq A => Runs("money", CreateIfMissing("createAta", chain.atas, r),
                                      Holding(A, C, un, fu), Holding(A \union {r}, C, un, fu))
  BY <1>3, <1>7, <1>9, <1>11
<1>13. chain.colAtas \subseteq C => Runs("money", CreateIfMissing("createColAta", chain.colAtas, r),
                                         Holding(A, C, un, fu), Holding(A, C \union {r}, un, fu))
  BY <1>4, <1>8, <1>10, <1>11
<1> QED BY <1>12, <1>13

LEMMA TransferLeads ==
  ASSUME IInv, NEW x \in ListedInstruction, x.op = "transferLamports", NEW A, NEW C, NEW un,
         un => x.how \in {"amount", "rentAndAmount"}
  PROVE  Leads("money", x, Holding(A, C, FALSE, FALSE), Holding(A, C, un, FALSE))
<1> SUFFICES ASSUME NEW s \in Holding(A, C, FALSE, FALSE)
             PROVE  Admits("money", x, s) /\ After(x, s) \in Holding(A, C, un, FALSE)
  BY DEF Leads
<1>1. /\ s \in Machine /\ s[1] \in Chain /\ s[2] \in VMType
      /\ A \subseteq s[1].atas /\ C \subseteq s[1].colAtas
  BY DEF Holding, Machine
<1>2. After(x, s) \in Machine
  BY <1>1, AfterTyped
<1>3. LedgerAfter(x, s[1]) = s[1]
  BY DEF LedgerAfter
<1>4. VMAfter(x, s[2]) = [s[2] EXCEPT !.unsynced = x.how \in {"amount", "rentAndAmount"}]
  BY DEF VMAfter, PositionOp
<1>5. VMAfter(x, s[2]).unsynced = (x.how \in {"amount", "rentAndAmount"})
  BY <1>1, <1>4 DEF VMType
<1>6. Admits("money", x, s)
  BY DEF Admits, AccountsReady, SolFunded
<1>7. After(x, s)[1] = s[1] /\ After(x, s)[2] = VMAfter(x, s[2])
  BY <1>3 DEF After
<1>8. un => After(x, s)[2].unsynced
  BY <1>5, <1>7
<1> QED BY <1>1, <1>2, <1>6, <1>7, <1>8 DEF Holding

LEMMA SyncLeads ==
  ASSUME IInv, NEW x \in ListedInstruction, x.op = "syncNative", NEW A, NEW C, NEW un,
         x.res \in A
  PROVE  Leads("money", x, Holding(A, C, un, FALSE), Holding(A, C, FALSE, un))
<1> SUFFICES ASSUME NEW s \in Holding(A, C, un, FALSE)
             PROVE  Admits("money", x, s) /\ After(x, s) \in Holding(A, C, FALSE, un)
  BY DEF Leads
<1>1. /\ s \in Machine /\ s[1] \in Chain /\ s[2] \in VMType
      /\ A \subseteq s[1].atas /\ C \subseteq s[1].colAtas /\ (un => s[2].unsynced)
  BY DEF Holding, Machine
<1>2. After(x, s) \in Machine
  BY <1>1, AfterTyped
<1>3. LedgerAfter(x, s[1]) = s[1]
  BY DEF LedgerAfter
<1>4. VMAfter(x, s[2]) = [s[2] EXCEPT !.funded = @ \/ s[2].unsynced, !.unsynced = FALSE]
  BY DEF VMAfter, PositionOp
<1>5. VMAfter(x, s[2]).funded = (s[2].funded \/ s[2].unsynced)
  BY <1>1, <1>4 DEF VMType
<1>6. Admits("money", x, s)
  BY <1>1 DEF Admits, AccountsReady, SolFunded
<1>7. After(x, s)[1] = s[1] /\ After(x, s)[2] = VMAfter(x, s[2])
  BY <1>3 DEF After
<1>8. un => After(x, s)[2].funded
  BY <1>1, <1>5, <1>7
<1> QED BY <1>1, <1>2, <1>6, <1>7, <1>8 DEF Holding

\* The account of wrapped SOL exists afterwards, funded by a call that sends from it.
LEMMA WsolHolds ==
  ASSUME IInv, SolReserve \in Reserve, NEW A, NEW C, chain.atas \subseteq A
  PROVE  Runs("money", wsolPreIxs, Holding(A, C, FALSE, FALSE),
              Holding(A \union {SolReserve}, C, FALSE, sendAction))
<1> DEFINE pays == CASE ~wsolExists /\ sendAction -> "rentAndAmount"
                     [] ~wsolExists /\ ~sendAction -> "rent"
                     [] wsolExists /\ sendAction -> "amount"
                     [] OTHER -> "none"
           pay == IxHow("transferLamports", SolReserve, pays)
           sync == Ix("syncNative", SolReserve, {})
           tail == IF ~wsolExists \/ sendAction THEN <<sync>> ELSE <<>>
           made == CreateIfMissing("createAta", chain.atas, SolReserve)
           P == Holding(A, C, FALSE, FALSE)
           Q == Holding(A, C, sendAction, FALSE)
           R == Holding(A \union {SolReserve}, C, sendAction, FALSE)
           T == Holding(A \union {SolReserve}, C, FALSE, sendAction)
<1>1. pays \in How /\ (sendAction => pays \in {"amount", "rentAndAmount"})
  BY DEF How
<1>2. wsolPreIxs = (<<pay>> \o made) \o tail
  BY DEF wsolPreIxs
<1>3. pay \in ListedInstruction /\ sync \in ListedInstruction
  <2> HIDE DEF pays
  <2> QED BY <1>1, TransferIx, AccountIx DEF ListedInstruction
<1>4. pay.op = "transferLamports" /\ pay.how = pays
      /\ sync.op = "syncNative" /\ sync.res = SolReserve
  BY DEF IxHow, Ix
<1> HIDE DEF pays, pay, sync
<1>5. Leads("money", pay, P, Q)
  BY <1>1, <1>3, <1>4, TransferLeads
<1>6. Runs("money", made, Q, R)
  BY CreateHolds
<1>7. Leads("money", sync, R, T)
  BY <1>3, <1>4, SyncLeads
<1>8. P \in SUBSET Machine /\ Q \in SUBSET Machine /\ R \in SUBSET Machine /\ T \in SUBSET Machine
  BY HoldingClosed
<1>9. ~(~wsolExists \/ sendAction) => R = T
  BY DEF Holding
<1>10. \/ tail = <<sync>>
       \/ tail = <<>> /\ ~(~wsolExists \/ sendAction)
  OBVIOUS
<1>11. made \in Seq(ListedInstruction)
  BY CreateMade, MadeListed
<1> HIDE DEF P, Q, R, T, made, tail
<1>12. Runs("money", <<pay>>, P, Q)
  BY <1>5, <1>8, RunsOne
<1>13. Runs("money", tail, R, T)
  <2>1. Runs("money", <<sync>>, R, T)
    BY <1>7, <1>8, RunsOne
  <2>2. Runs("money", <<>>, R, R)
    BY <1>8, RunsNothing
  <2> QED BY <1>9, <1>10, <2>1, <2>2
<1>14. <<pay>> \in Seq(ListedInstruction) /\ tail \in Seq(ListedInstruction)
  BY <1>3, <1>10, ShortSeq
<1>15. Runs("money", (<<pay>> \o made) \o tail, P, T)
  BY <1>6, <1>11, <1>12, <1>13, <1>14, RunsAround
<1> QED BY <1>2, <1>15 DEF P, T

\* What the preceding transaction has created.
Done(q, l) ==
  \A i \in 1..Len(q) :
    /\ q[i].op = "createAta" => q[i].res \in l.atas
    /\ q[i].op = "createColAta" => q[i].res \in l.colAtas

LEMMA DoneParts ==
  ASSUME NEW X, NEW p \in Seq(X), NEW q \in Seq(X), NEW l, Done(p \o q, l)
  PROVE  Done(p, l) /\ Done(q, l)
<1>1. /\ Len(p) \in Nat /\ Len(q) \in Nat /\ Len(p \o q) = Len(p) + Len(q)
      /\ \A i \in 1..Len(p) : (p \o q)[i] = p[i]
      /\ \A i \in 1..Len(q) : (p \o q)[Len(p) + i] = q[i]
  OBVIOUS
<1>2. ASSUME NEW i \in 1..Len(p)
      PROVE  /\ p[i].op = "createAta" => p[i].res \in l.atas
             /\ p[i].op = "createColAta" => p[i].res \in l.colAtas
  <2>1. i \in 1..Len(p \o q) /\ (p \o q)[i] = p[i]
    BY <1>1, <1>2
  <2> QED BY <2>1 DEF Done
<1>3. ASSUME NEW i \in 1..Len(q)
      PROVE  /\ q[i].op = "createAta" => q[i].res \in l.atas
             /\ q[i].op = "createColAta" => q[i].res \in l.colAtas
  <2>1. Len(p) + i \in 1..Len(p \o q) /\ (p \o q)[Len(p) + i] = q[i]
    BY <1>1, <1>3
  <2> QED BY <2>1 DEF Done
<1> QED BY <1>2, <1>3 DEF Done

LEMMA DoneCreate ==
  ASSUME NEW r, NEW l
  PROVE  /\ Done(CreateIfMissing("createAta", chain.atas, r), l) /\ chain.atas \subseteq l.atas =>
              r \in l.atas
         /\ Done(CreateIfMissing("createColAta", chain.colAtas, r), l)
              /\ chain.colAtas \subseteq l.colAtas => r \in l.colAtas
<1> DEFINE x == Ix("createAta", r, {})
           y == Ix("createColAta", r, {})
<1>1. x.op = "createAta" /\ x.res = r /\ y.op = "createColAta" /\ y.res = r
  BY DEF Ix
<1>2. /\ r \notin chain.atas => CreateIfMissing("createAta", chain.atas, r) = <<x>>
      /\ r \notin chain.colAtas => CreateIfMissing("createColAta", chain.colAtas, r) = <<y>>
  BY DEF CreateIfMissing
<1> HIDE DEF x, y
<1>3. 1 \in 1..Len(<<x>>) /\ <<x>>[1] = x /\ 1 \in 1..Len(<<y>>) /\ <<y>>[1] = y
  OBVIOUS
<1>4. Done(<<x>>, l) => r \in l.atas
  BY <1>1, <1>3 DEF Done
<1>5. Done(<<y>>, l) => r \in l.colAtas
  BY <1>1, <1>3 DEF Done
<1> QED BY <1>2, <1>4, <1>5

\* The accounts the first pass makes: in front of the setup list ...
frontAtas ==
  CASE supportAction \in {"withdraw", "borrow", "redeem"} /\ mint # SolReserve
            /\ positions # POSITION_LIMIT -> {req.reserve}
    [] supportAction = "liquidate" /\ ~(positions = POSITION_LIMIT /\ mint = SolReserve) ->
         {req.outflow}
    [] \/ supportAction = "depositAndBorrow"
       \/ supportAction = "repayAndWithdraw" /\ secondaryMint # SolReserve -> {req.outflow}
    [] OTHER -> {}
frontColAtas ==
  CASE supportAction = "liquidate" /\ ~(positions = POSITION_LIMIT /\ mint = SolReserve) ->
         {req.outflow}
    [] supportAction = "mint" /\ ~(positions = POSITION_LIMIT /\ mint = SolReserve) -> {req.reserve}
    [] OTHER -> {}

LEMMA FrontHolds ==
  ASSUME IInv, NEW A, NEW C, chain.atas \subseteq A, chain.colAtas \subseteq C
  PROVE  Runs("money", ataSetupIxs, Holding(A, C, FALSE, FALSE),
              Holding(A \union frontAtas, C \union frontColAtas, FALSE, FALSE))
<1> DEFINE P == Holding(A, C, FALSE, FALSE)
           mine == CreateIfMissing("createAta", chain.atas, req.reserve)
           other == CreateIfMissing("createAta", chain.atas, req.outflow)
           mineCol == CreateIfMissing("createColAta", chain.colAtas, req.reserve)
           otherCol == CreateIfMissing("createColAta", chain.colAtas, req.outflow)
<1>1. req.reserve \in Reserve
      /\ (supportAction \in TwoTokenAction \union {"liquidate"} => req.outflow \in Reserve)
  BY PassReserves
<1>2. /\ Runs("money", mine, P, Holding(A \union {req.reserve}, C, FALSE, FALSE))
      /\ Runs("money", mineCol, P, Holding(A, C \union {req.reserve}, FALSE, FALSE))
  BY <1>1, CreateHolds
<1>3. supportAction \in TwoTokenAction =>
        Runs("money", other, P, Holding(A \union {req.outflow}, C, FALSE, FALSE))
  BY <1>1, CreateHolds
<1>4. supportAction = "liquidate" =>
        Runs("money", otherCol \o other, P,
             Holding(A \union {req.outflow}, C \union {req.outflow}, FALSE, FALSE))
  <2> SUFFICES ASSUME supportAction = "liquidate"
               PROVE  Runs("money", otherCol \o other, P,
                           Holding(A \union {req.outflow}, C \union {req.outflow}, FALSE, FALSE))
    OBVIOUS
  <2>1. req.outflow \in Reserve
    BY <1>1
  <2>2. Runs("money", otherCol, P, Holding(A, C \union {req.outflow}, FALSE, FALSE))
    BY <2>1, CreateHolds
  <2>3. Runs("money", other, Holding(A, C \union {req.outflow}, FALSE, FALSE),
             Holding(A \union {req.outflow}, C \union {req.outflow}, FALSE, FALSE))
    BY <2>1, CreateHolds
  <2>4. otherCol \in Seq(ListedInstruction) /\ other \in Seq(ListedInstruction)
    BY <2>1, CreateMade, MadeListed
  <2> HIDE DEF otherCol, other, P
  <2> QED BY <2>2, <2>3, <2>4, RunsConcat
<1>5. Runs("money", <<>>, P, P)
  BY RunsNothing, HoldingClosed
<1>6. A \union {} = A /\ C \union {} = C
  OBVIOUS
<1> HIDE DEF mine, other, mineCol, otherCol
<1>7. CASE supportAction \in {"withdraw", "borrow", "redeem"} /\ mint # SolReserve
           /\ positions # POSITION_LIMIT
  <2>1. ataSetupIxs = mine /\ frontAtas = {req.reserve} /\ frontColAtas = {}
    BY <1>7 DEF ataSetupIxs, mine, frontAtas, frontColAtas
  <2> QED BY <1>2, <1>6, <2>1
<1>8. CASE supportAction = "liquidate" /\ ~(positions = POSITION_LIMIT /\ mint = SolReserve)
  <2>1. ataSetupIxs = otherCol \o other /\ frontAtas = {req.outflow} /\ frontColAtas = {req.outflow}
    BY <1>8 DEF ataSetupIxs, otherCol, other, frontAtas, frontColAtas
  <2> QED BY <1>4, <1>8, <2>1
<1>9. CASE \/ supportAction = "depositAndBorrow"
           \/ supportAction = "repayAndWithdraw" /\ secondaryMint # SolReserve
  <2>1. ataSetupIxs = other /\ frontAtas = {req.outflow} /\ frontColAtas = {}
    BY <1>9 DEF ataSetupIxs, other, frontAtas, frontColAtas
  <2> QED BY <1>3, <1>6, <1>9, <2>1 DEF TwoTokenAction
<1>10. CASE supportAction = "mint" /\ ~(positions = POSITION_LIMIT /\ mint = SolReserve)
  <2>1. ataSetupIxs = mineCol /\ frontAtas = {} /\ frontColAtas = {req.reserve}
    BY <1>10 DEF ataSetupIxs, mineCol, frontAtas, frontColAtas
  <2> QED BY <1>2, <1>6, <2>1
<1>11. CASE /\ ~(supportAction \in {"withdraw", "borrow", "redeem"} /\ mint # SolReserve
                  /\ positions # POSITION_LIMIT)
            /\ ~(supportAction \in {"liquidate", "mint"}
                  /\ ~(positions = POSITION_LIMIT /\ mint = SolReserve))
            /\ ~(\/ supportAction = "depositAndBorrow"
                 \/ supportAction = "repayAndWithdraw" /\ secondaryMint # SolReserve)
  <2>1. ataSetupIxs = <<>> /\ frontAtas = {} /\ frontColAtas = {}
    BY <1>11 DEF ataSetupIxs, frontAtas, frontColAtas
  <2> QED BY <1>5, <1>6, <2>1
<1> QED BY <1>7, <1>8, <1>9, <1>10, <1>11

\* ... or leaves to the preceding transaction.
colNeeds ==
  IF req.action \in {"mint", "redeem", "depositCollateral"} THEN {req.reserve}
  ELSE IF req.action = "liquidate" THEN {req.outflow} ELSE {}
solNeed == IF req.ata /\ SolReserve \in {req.reserve, req.outflow} THEN {SolReserve} ELSE {}
solSent == req.ata /\ SolReserve \in sends

LEMMA PrecedingDone ==
  ASSUME IInv, req.ata, NEW l, Done(ataPreTxnIxs, l), AccountsHeld(l),
         chain.atas \subseteq l.atas, chain.colAtas \subseteq l.colAtas, phase = "setup"
  PROVE  /\ ~twoToken => receives \subseteq l.atas \union frontAtas \union solNeed
         /\ colNeeds \subseteq l.colAtas \union frontColAtas
         /\ sends \subseteq l.atas \union solNeed
<1> DEFINE atLimit == positions = POSITION_LIMIT
           mine == CreateIfMissing("createAta", chain.atas, req.reserve)
           other == CreateIfMissing("createAta", chain.atas, req.outflow)
           mineCol == CreateIfMissing("createColAta", chain.colAtas, req.reserve)
           otherCol == CreateIfMissing("createColAta", chain.colAtas, req.outflow)
           user == IF supportAction \in {"withdraw", "mint", "deposit", "repayAndWithdraw"}
                   THEN mine ELSE <<>>
           full == CASE supportAction \in {"withdraw", "borrow", "redeem"}
                             /\ mint # SolReserve /\ atLimit -> mine
                     [] supportAction = "liquidate" /\ atLimit /\ mint = SolReserve ->
                          other \o otherCol
                     [] OTHER -> <<>>
           ctoken == IF supportAction = "mint" /\ atLimit /\ mint = SolReserve
                     THEN mineCol ELSE <<>>
<1>1. ataPreTxnIxs = (full \o user) \o ctoken
  BY DEF ataPreTxnIxs
<1>2. req.reserve \in Reserve
      /\ (supportAction = "liquidate" => req.outflow \in Reserve)
  BY PassReserves
<1>3. /\ mine \in Seq(ListedInstruction) /\ mineCol \in Seq(ListedInstruction)
      /\ <<>> \in Seq(ListedInstruction)
  BY <1>2, CreateMade, MadeListed, ShortSeq
<1>4. supportAction = "liquidate" =>
        other \in Seq(ListedInstruction) /\ otherCol \in Seq(ListedInstruction)
  BY <1>2, CreateMade, MadeListed
<1>5. /\ Done(mine, l) => req.reserve \in l.atas
      /\ Done(mineCol, l) => req.reserve \in l.colAtas
      /\ Done(other, l) => req.outflow \in l.atas
      /\ Done(otherCol, l) => req.outflow \in l.colAtas
  BY DoneCreate
<1> HIDE DEF mine, other, mineCol, otherCol
<1>6. supportAction = "liquidate" => other \o otherCol \in Seq(ListedInstruction)
  BY <1>4, Concatenated
<1>7. /\ full \in {mine, <<>>} \/ (supportAction = "liquidate" /\ full = other \o otherCol)
      /\ user \in {mine, <<>>} /\ ctoken \in {mineCol, <<>>}
  BY DEF atLimit
<1>8. /\ full \in Seq(ListedInstruction) /\ user \in Seq(ListedInstruction)
      /\ ctoken \in Seq(ListedInstruction)
  BY <1>3, <1>6, <1>7
<1>9. /\ supportAction \in {"withdraw", "borrow", "redeem"} /\ mint # SolReserve /\ atLimit => full = mine
      /\ supportAction = "liquidate" /\ atLimit /\ mint = SolReserve => full = other \o otherCol
      /\ supportAction = "mint" /\ atLimit /\ mint = SolReserve => ctoken = mineCol
  OBVIOUS
<1> HIDE DEF full, user, ctoken
<1>10. Done(full, l) /\ Done(ctoken, l)
  <2>1. full \o user \in Seq(ListedInstruction)
    BY <1>8, Concatenated
  <2>2. Done(full \o user, l) /\ Done(ctoken, l)
    BY <1>1, <1>8, <2>1, DoneParts
  <2> QED BY <1>8, <2>2, DoneParts
<1>11. /\ supportAction \in {"withdraw", "borrow", "redeem"} /\ mint # SolReserve /\ atLimit =>
            req.reserve \in l.atas
       /\ supportAction = "mint" /\ atLimit /\ mint = SolReserve => req.reserve \in l.colAtas
  BY <1>5, <1>9, <1>10
<1>12. supportAction = "liquidate" /\ atLimit /\ mint = SolReserve =>
         req.outflow \in l.atas /\ req.outflow \in l.colAtas
  <2> SUFFICES ASSUME supportAction = "liquidate", atLimit, mint = SolReserve
               PROVE  req.outflow \in l.atas /\ req.outflow \in l.colAtas
    OBVIOUS
  <2>1. Done(other \o otherCol, l)
    BY <1>9, <1>10
  <2>2. Done(other, l) /\ Done(otherCol, l)
    BY <1>4, <2>1, DoneParts
  <2> QED BY <1>5, <2>2
<1>13. sends \subseteq l.atas \union solNeed
  BY DEF AccountsHeld, sends, solNeed
<1>14. ~twoToken => supportAction = req.action
  BY DEF supportAction, twoToken
<1>15. ~twoToken => receives \subseteq l.atas \union frontAtas \union solNeed
  <2> SUFFICES ASSUME ~twoToken PROVE receives \subseteq l.atas \union frontAtas \union solNeed
    OBVIOUS
  <2>1. CASE req.action \in {"borrow", "withdraw", "redeem"}
    <3>1. receives = {req.reserve} /\ mint = req.reserve
      BY <2>1 DEF receives, mint, TwoTokenAction
    <3>2. CASE mint = SolReserve
      BY <3>1, <3>2 DEF solNeed
    <3>3. CASE mint # SolReserve /\ atLimit
      BY <1>11, <1>14, <2>1, <3>1, <3>3
    <3>4. CASE mint # SolReserve /\ ~atLimit
      BY <1>14, <2>1, <3>1, <3>4 DEF frontAtas
    <3> QED BY <3>2, <3>3, <3>4
  <2>2. CASE req.action = "liquidate"
    <3>1. receives = {req.outflow}
      BY <2>2 DEF receives, TwoTokenAction
    <3>2. CASE atLimit /\ mint = SolReserve
      BY <1>12, <1>14, <2>2, <3>1, <3>2
    <3>3. CASE ~(atLimit /\ mint = SolReserve)
      BY <1>14, <2>2, <3>1, <3>3 DEF frontAtas
    <3> QED BY <3>2, <3>3
  <2>3. CASE req.action \notin {"borrow", "withdraw", "redeem", "liquidate"}
    BY <2>3 DEF receives, twoToken
  <2> QED BY <2>1, <2>2, <2>3
<1>16. colNeeds \subseteq l.colAtas \union frontColAtas
  <2>1. CASE req.action \in {"redeem", "depositCollateral"}
    BY <2>1 DEF AccountsHeld, colNeeds
  <2>2. CASE req.action = "mint"
    <3>1. ~twoToken /\ colNeeds = {req.reserve}
      BY <2>2 DEF colNeeds, twoToken, TwoTokenAction
    <3>2. CASE atLimit /\ mint = SolReserve
      BY <1>11, <1>14, <2>2, <3>1, <3>2
    <3>3. CASE ~(atLimit /\ mint = SolReserve)
      BY <1>14, <2>2, <3>1, <3>3 DEF frontColAtas
    <3> QED BY <3>2, <3>3
  <2>3. CASE req.action = "liquidate"
    <3>1. ~twoToken /\ colNeeds = {req.outflow}
      BY <2>3 DEF colNeeds, twoToken, TwoTokenAction
    <3>2. CASE atLimit /\ mint = SolReserve
      BY <1>12, <1>14, <2>3, <3>1, <3>2
    <3>3. CASE ~(atLimit /\ mint = SolReserve)
      BY <1>14, <2>3, <3>1, <3>3 DEF frontColAtas
    <3> QED BY <3>2, <3>3
  <2>4. CASE req.action \notin {"mint", "redeem", "depositCollateral", "liquidate"}
    BY <2>4 DEF colNeeds
  <2> QED BY <2>1, <2>2, <2>3, <2>4
<1> QED BY <1>13, <1>15, <1>16

\* What the transaction starts with, what the lending instruction needs and
\* what it leaves.
Supplied(l) == Holding(l.atas, l.colAtas, FALSE, FALSE)
Furnished(R) == Holding(sends \union R \union solNeed, colNeeds, FALSE, solSent)
Spent == Holding(solNeed, {}, FALSE, FALSE)

LEMMA CloseHolds ==
  ASSUME IInv, SolReserve \in Reserve, NEW A, SolReserve \in A
  PROVE  Runs("money", wsolPostIxs, Holding(A, {}, FALSE, FALSE), Machine)
<1> DEFINE x == Ix("closeAta", SolReserve, {})
           P == Holding(A, {}, FALSE, FALSE)
<1>1. x \in ListedInstruction
  BY CloseIx DEF ListedInstruction
<1>2. x.op = "closeAta" /\ x.res = SolReserve
  BY DEF Ix
<1>3. wsolPostIxs \in {<<x>>, <<>>}
  BY DEF wsolPostIxs
<1>4. P \in SUBSET Machine
  BY HoldingClosed
<1> HIDE DEF x
<1>5. ASSUME NEW s \in P PROVE Admits("money", x, s) /\ After(x, s) \in Machine
  <2>1. s \in Machine /\ SolReserve \in s[1].atas
    BY DEF Holding
  <2>2. Admits("money", x, s)
    BY <1>2, <2>1 DEF Admits, AccountsReady, SolFunded
  <2>3. After(x, s) \in Machine
    BY <1>1, <2>1, AfterTyped
  <2> QED BY <2>2, <2>3
<1> HIDE DEF P
<1>6. Leads("money", x, P, Machine)
  BY <1>5 DEF Leads
<1>7. Runs("money", <<x>>, P, Machine)
  BY <1>4, <1>6, RunsOne
<1>8. Runs("money", <<>>, P, Machine)
  BY <1>4, RunsNothing, RunsWeaken
<1> QED BY <1>3, <1>7, <1>8 DEF P

\* The first pass of the token accounts.
LEMMA AtaSupplies ==
  ASSUME IInv, AddAtaIxs, pc' # "thrown", phase = "setup", known = chain,
         setupIxs \in Seq(Made(Ignored("money"))), cleanupIxs = <<>>,
         NEW l, Agrees(l), AccountsHeld(l), Done(preTxnIxs', l)
  PROVE  /\ Runs("money", setupIxs', Supplied(l), Furnished(IF twoToken THEN {} ELSE receives))
         /\ Runs("money", cleanupIxs', Spent, Machine)
<1> DEFINE R == IF twoToken THEN {} ELSE receives
<1>1. /\ chain.atas \subseteq l.atas /\ chain.colAtas \subseteq l.colAtas
  BY DEF Agrees
<1>2. /\ Closed("money", Supplied(l)) /\ Supplied(l) \in SUBSET Machine
      /\ Spent \in SUBSET Machine
  BY HoldingClosed DEF Supplied, Spent
<1>3. setupIxs \in Seq(ListedInstruction)
  BY ListsListed
<1>4. CASE ~req.ata
  <2>1. setupIxs' = setupIxs /\ cleanupIxs' = <<>>
    BY <1>4 DEF AddAtaIxs
  <2>2. Runs("money", setupIxs, Supplied(l), Supplied(l))
    BY <1>2, IgnoredRuns DEF Concern
  <2>3. Supplied(l) \subseteq Furnished(R)
    <3>1. solNeed = {} /\ ~solSent
      BY <1>4 DEF solNeed, solSent
    <3>2. sends \subseteq l.atas /\ receives \subseteq l.atas
      BY <1>4 DEF AccountsHeld
    <3>3. colNeeds \subseteq l.colAtas
      BY <1>4 DEF AccountsHeld, colNeeds
    <3>4. sends \union R \union solNeed \subseteq l.atas
      BY <3>1, <3>2
    <3> HIDE DEF R
    <3> QED BY <3>1, <3>3, <3>4 DEF Supplied, Furnished, Holding
  <2>4. Runs("money", setupIxs, Supplied(l), Furnished(R))
    BY <2>2, <2>3, RunsWeaken
  <2>5. Runs("money", <<>>, Spent, Machine)
    BY <1>2, RunsNothing, RunsWeaken
  <2> QED BY <2>1, <2>4, <2>5
<1>5. CASE req.ata
  <2> DEFINE W == IF touchesSol THEN wsolPreIxs ELSE <<>>
             V == IF touchesSol THEN wsolPostIxs ELSE <<>>
             A == l.atas \union frontAtas
             C == l.colAtas \union frontColAtas
             P == Supplied(l)
             Q == Holding(A, C, FALSE, FALSE)
             T == Holding(A \union solNeed, C, FALSE, solSent)
  <2>1. /\ setupIxs' = (ataSetupIxs \o W) \o setupIxs
        /\ cleanupIxs' = cleanupIxs \o V
        /\ preTxnIxs' = preTxnIxs \o ataPreTxnIxs
    BY <1>5 DEF AddAtaIxs, Throw
  <2>2. touchesSol <=> SolReserve \in {req.reserve, req.outflow}
    BY DEF touchesSol, mint, secondaryMint, supportAction, twoToken, TwoTokenAction
  <2>3. solSent => sendAction /\ touchesSol
    BY <2>2 DEF solSent, sends, sendAction, secondaryMint, supportAction, twoToken, TwoTokenAction
  <2>4. touchesSol => SolReserve \in Reserve /\ solNeed = {SolReserve}
    BY <1>5, <2>2, ReserveAssumption DEF solNeed, IInv, StateSound, Request
  <2>5. ~touchesSol => solNeed = {}
    BY <2>2 DEF solNeed
  <2>6. Done(ataPreTxnIxs, l)
    <3>1. preTxnIxs \in Seq(SetupInstruction) /\ ataPreTxnIxs \in Seq(SetupInstruction)
      BY AtaSeqs DEF IInv, ListsSound
    <3> QED BY <2>1, <3>1, DoneParts
  <2>7. R \subseteq A \union solNeed /\ colNeeds \subseteq C /\ sends \subseteq A \union solNeed
    BY <1>1, <1>5, <2>6, PrecedingDone
  <2>8. Runs("money", ataSetupIxs, P, Q)
    BY <1>1, FrontHolds DEF Supplied
  <2>9. Runs("money", W, Q, T)
    <3>1. CASE touchesSol
      <4>1. Runs("money", wsolPreIxs, Q, Holding(A \union {SolReserve}, C, FALSE, sendAction))
        BY <1>1, <2>4, <3>1, WsolHolds
      <4>2. Holding(A \union {SolReserve}, C, FALSE, sendAction) \subseteq T
        BY <2>3, <2>4, <3>1 DEF Holding
      <4> HIDE DEF A, C, Q, T
      <4>3. Runs("money", wsolPreIxs, Q, T)
        BY <4>1, <4>2, RunsWeaken
      <4> QED BY <3>1, <4>3
    <3>2. CASE ~touchesSol
      <4>1. A \union solNeed = A /\ ~solSent
        BY <2>3, <2>5, <3>2
      <4>2. Runs("money", <<>>, Q, Q)
        BY HoldingClosed, RunsNothing
      <4>3. Q = T
        BY <4>1 DEF Holding
      <4> QED BY <3>2, <4>2, <4>3
    <3> QED BY <3>1, <3>2
  <2>10. Runs("money", setupIxs, T, T)
    BY HoldingClosed, IgnoredRuns DEF Concern
  <2>11. T \subseteq Furnished(R)
    <3> HIDE DEF A, C, R
    <3> QED BY <2>7 DEF Furnished, Holding
  <2>12. /\ ataSetupIxs \in Seq(ListedInstruction) /\ W \in Seq(ListedInstruction)
         /\ V \in Seq(ListedInstruction)
    <3>1. ataSetupIxs \in Seq(ListedInstruction)
      BY AtaMade, MadeListed
    <3>2. touchesSol => wsolPreIxs \in Seq(ListedInstruction) /\ wsolPostIxs \in Seq(ListedInstruction)
      BY <2>4, WsolMade, MadeListed
    <3> QED BY <3>1, <3>2, ShortSeq
  <2>13. Runs("money", V, Spent, Machine)
    <3>1. CASE touchesSol
      BY <2>4, <3>1, CloseHolds DEF Spent
    <3>2. CASE ~touchesSol
      <4>1. Runs("money", <<>>, Spent, Machine)
        BY <1>2, RunsNothing, RunsWeaken
      <4> QED BY <3>2, <4>1
    <3> QED BY <3>1, <3>2
  <2> HIDE DEF W, V, A, C, P, Q, T, R
  <2>14. Runs("money", (ataSetupIxs \o W) \o setupIxs, P, T)
    BY <1>3, <2>8, <2>9, <2>10, <2>12, RunsAround
  <2>15. Runs("money", (ataSetupIxs \o W) \o setupIxs, P, Furnished(R))
    BY <2>11, <2>14, RunsWeaken
  <2>16. <<>> \o V = V
    BY <2>12, NothingAdded
  <2> QED BY <2>1, <2>13, <2>15, <2>16 DEF P, R
<1> QED BY <1>4, <1>5

\* The second pass makes the account of the other token.
LEMMA AtaSuppliesAgain ==
  ASSUME IInv, AddAtaIxs, pc' # "thrown", phase = "inBetween", twoToken, known = chain,
         setupIxs \in Seq(Made(IxOp \ {"closeAta"})),
         NEW l, Agrees(l), AccountsHeld(l), Runs("money", setupIxs, Supplied(l), Furnished({}))
  PROVE  /\ Runs("money", setupIxs', Supplied(l), Furnished(receives))
         /\ cleanupIxs' = cleanupIxs
<1> DEFINE I == {s \in Machine : req.outflow \in s[1].atas}
           made == CreateIfMissing("createAta", chain.atas, req.outflow)
<1>1. /\ req.action \in TwoTokenAction /\ supportAction = req.action /\ receives = {req.outflow}
      /\ ~touchesSol /\ req.outflow \in Reserve
  BY DEF twoToken, TwoTokenAction, supportAction, receives, touchesSol, IInv, CallSound
<1>2. ASSUME NEW x \in Made(IxOp \ {"closeAta"}) PROVE Leads("none", x, I, I)
  <2> SUFFICES ASSUME NEW s \in I PROVE Admits("none", x, s) /\ After(x, s) \in I
    BY DEF Leads
  <2>1. x \in ListedInstruction /\ x.op # "closeAta" /\ s \in Machine /\ s[1] \in Chain
    BY DEF Made, Machine
  <2>2. After(x, s) \in Machine /\ After(x, s)[1] = LedgerAfter(x, s[1])
    BY <2>1, AfterTyped DEF After
  <2>3. s[1].atas \subseteq LedgerAfter(x, s[1]).atas
    BY <2>1 DEF LedgerAfter, Chain
  <2> QED BY <2>2, <2>3 DEF Admits
<1>3. Runs("money", setupIxs, Supplied(l) \intersect I, Furnished({}) \intersect I)
  BY <1>2, RunsFrame
<1>4. Furnished({}) \intersect I \subseteq Furnished(receives)
  BY <1>1 DEF Furnished, Holding
<1>5. Runs("money", setupIxs, Supplied(l) \intersect I, Furnished(receives))
  BY <1>3, <1>4, RunsWeaken
<1>6. setupIxs \in Seq(ListedInstruction) /\ setupIxs \in Seq(Instruction)
  BY ListsListed, ListsAreInstructions
<1>7. CASE ~req.ata
  <2>1. UNCHANGED <<setupIxs, cleanupIxs>>
    BY <1>7 DEF AddAtaIxs
  <2>2. Supplied(l) \subseteq I
    BY <1>1, <1>7 DEF Supplied, Holding, AccountsHeld
  <2>3. Supplied(l) \intersect I = Supplied(l)
    BY <2>2
  <2> QED BY <1>5, <2>1, <2>3
<1>8. CASE req.ata
  <2>1. setupIxs' = (ataSetupIxs \o <<>>) \o setupIxs /\ cleanupIxs' = cleanupIxs \o <<>>
    BY <1>1, <1>8 DEF AddAtaIxs, Throw
  <2>2. cleanupIxs' = cleanupIxs
    BY <2>1, ListsAreInstructions, NothingAdded
  <2>3. CASE req.action = "depositAndBorrow" \/ secondaryMint # SolReserve
    <3>1. ataSetupIxs = made
      BY <1>1, <2>3 DEF ataSetupIxs, TwoTokenAction
    <3>2. Runs("money", made, Supplied(l), Holding(l.atas \union {req.outflow}, l.colAtas, FALSE, FALSE))
      BY <1>1, CreateHolds DEF Supplied, Agrees
    <3>3. Holding(l.atas \union {req.outflow}, l.colAtas, FALSE, FALSE) \subseteq Supplied(l) \intersect I
      BY DEF Supplied, Holding
    <3>4. made \in Seq(ListedInstruction)
      BY <1>1, CreateMade, MadeListed
    <3> HIDE DEF made, I
    <3>5. Runs("money", made, Supplied(l), Supplied(l) \intersect I)
      BY <3>2, <3>3, RunsWeaken
    <3>6. Runs("money", made \o setupIxs, Supplied(l), Furnished(receives))
      BY <1>5, <1>6, <3>4, <3>5, RunsConcat
    <3>7. made \o <<>> = made
      BY <3>4
    <3> QED BY <2>1, <2>2, <3>1, <3>6, <3>7
  <2>4. CASE ~(req.action = "depositAndBorrow" \/ secondaryMint # SolReserve)
    <3>1. ataSetupIxs = <<>> /\ req.outflow = SolReserve
      BY <1>1, <2>4 DEF ataSetupIxs, TwoTokenAction, secondaryMint
    <3>2. Furnished({}) = Furnished(receives)
      BY <1>1, <1>8, <3>1 DEF Furnished, Holding, solNeed
    <3>3. (<<>> \o <<>>) \o setupIxs = setupIxs
      BY <1>6
    <3> QED BY <2>1, <2>2, <3>1, <3>2, <3>3
  <2> QED BY <2>3, <2>4
<1> QED BY <1>7, <1>8

\* The accounts to receive into are there once the pass that makes them is past.
atasBy(p, ph) == IF twoToken /\ ~(ph = "inBetween" /\ p # "ata") THEN {} ELSE receives

MoneyPlan(l, p, ph, s, c) ==
  /\ Runs("money", s, Supplied(l), Furnished(atasBy(p, ph)))
  /\ Runs("money", c, Spent, Machine)

MoneyBuilt ==
  Underway /\ ~(pc \in beforeAta /\ phase = "setup") =>
    \A l : Agrees(l) /\ AccountsHeld(l) /\ Done(preTxnIxs, l) =>
             MoneyPlan(l, pc, phase, setupIxs, cleanupIxs)

LEMMA MoneySame ==
  ASSUME UNCHANGED <<req, referrer, known>>, NEW l, NEW p, NEW ph, NEW s, NEW c
  PROVE  /\ MoneyPlan(l, p, ph, s, c)' <=> MoneyPlan(l, p, ph, s, c)
         /\ Agrees(l)' <=> Agrees(l)
         /\ AccountsHeld(l)' <=> AccountsHeld(l)
<1>1. /\ sends' = sends /\ receives' = receives /\ twoToken' = twoToken
  BY DEF sends, receives, twoToken
<1>2. solNeed' = solNeed /\ solSent' = solSent /\ colNeeds' = colNeeds
  BY <1>1 DEF solNeed, solSent, colNeeds
<1>3. PICK S, T, U : S = Supplied(l) /\ T = Furnished(atasBy(p, ph)) /\ U = Spent
  OBVIOUS
<1>4. atasBy(p, ph)' = atasBy(p, ph)
  BY <1>1 DEF atasBy
<1>5. Supplied(l)' = S /\ Furnished(atasBy(p, ph))' = T /\ Spent' = U /\ Machine' = Machine
  BY <1>1, <1>2, <1>3, <1>4 DEF Supplied, Furnished, Spent, Holding, Machine
<1>6. PICK M : M = Machine
  OBVIOUS
<1>7. /\ Runs("money", s, S, T)' <=> Runs("money", s, S, T)
      /\ Runs("money", c, U, M)' <=> Runs("money", c, U, M)
  BY RunsSame
<1>8. MoneyPlan(l, p, ph, s, c)' <=> MoneyPlan(l, p, ph, s, c)
  BY <1>3, <1>5, <1>6, <1>7 DEF MoneyPlan
<1>9. Agrees(l)' <=> Agrees(l)
  BY DEF Agrees
<1>10. AccountsHeld(l)' <=> AccountsHeld(l)
  BY <1>1 DEF AccountsHeld
<1> QED BY <1>8, <1>9, <1>10

LEMMA MoneyPrimed ==
  ASSUME UNCHANGED <<req, referrer, known>>,
         Underway' /\ ~(pc' \in beforeAta /\ phase' = "setup") =>
           \A l : Agrees(l) /\ AccountsHeld(l) /\ Done(preTxnIxs', l) =>
                    MoneyPlan(l, pc', phase', setupIxs', cleanupIxs')
  PROVE  MoneyBuilt'
<1> SUFFICES ASSUME Underway', ~(pc' \in beforeAta /\ phase' = "setup"),
                    NEW l, Agrees(l)', AccountsHeld(l)', Done(preTxnIxs, l)'
             PROVE  MoneyPlan(l, pc, phase, setupIxs, cleanupIxs)'
  BY DEF MoneyBuilt, beforeAta
<1>1. PICK p, ph, s, c, e : p = pc' /\ ph = phase' /\ s = setupIxs' /\ c = cleanupIxs' /\ e = preTxnIxs'
  OBVIOUS
<1>2. /\ Agrees(l) /\ AccountsHeld(l)
      /\ MoneyPlan(l, p, ph, s, c)' <=> MoneyPlan(l, p, ph, s, c)
  BY MoneySame
<1>3. Done(preTxnIxs', l)
  BY DEF Done
<1>4. MoneyPlan(l, pc', phase', setupIxs', cleanupIxs')
  BY <1>2, <1>3
<1> QED BY <1>1, <1>2, <1>4

LEMMA MoneyStep ==
  ASSUME IInv, ShapeSound, GroupBuilt, KindsBuilt, MoneyBuilt, Next, ~Initialize, known = chain
  PROVE  MoneyBuilt'
<1> SUFFICES ASSUME Underway', ~(pc' \in beforeAta /\ phase' = "setup") PROVE MoneyBuilt'
  BY DEF MoneyBuilt, beforeAta
<1>1. /\ pc \notin {"initialize", "thrown", "built"} /\ UNCHANGED <<req, referrer, known, positions>>
      /\ pc' # "thrown"
  BY StepParts DEF Underway
<1>2. passes /\ Underway
  BY <1>1 DEF Underway, passes
<1>3. KindsPlan(pc, phase, setupIxs, inBetweenIxs, cleanupIxs, refreshFarmsCleanupTxnIxs)
  BY <1>2 DEF KindsBuilt
<1>4. ~AddRefreshObligation /\ ~AddWithdrawReferrerFees
  BY <1>2 DEF passes, AddRefreshObligation, AddWithdrawReferrerFees
<1>5. SUFFICES ASSUME NEW l, Agrees(l), AccountsHeld(l), Done(preTxnIxs', l)
               PROVE  MoneyPlan(l, pc', phase', setupIxs', cleanupIxs')
  BY <1>1, MoneyPrimed
<1>6. /\ setupIxs \in Seq(ListedInstruction) /\ cleanupIxs \in Seq(ListedInstruction)
      /\ refreshFarmsCleanupTxnIxs \in Seq(ListedInstruction)
  BY ListsListed
<1>7. /\ Closed("money", Supplied(l)) /\ \A R : Closed("money", Furnished(R))
      /\ Closed("money", Spent) /\ Closed("money", Machine)
  BY HoldingClosed DEF Supplied, Furnished, Spent, Closed
<1>8. CASE AddAtaIxs
  <2>1. pc = "ata" /\ phase' = phase /\ pc' # "ata"
    BY <1>1, <1>8 DEF AddAtaIxs, Throw
  <2>2. CASE phase = "setup"
    <3>1. cleanupIxs = <<>>
      BY <1>3, <2>1, <2>2 DEF KindsPlan, beforeAta
    <3>2. setOps(pc, phase) \subseteq Ignored("money")
      BY <2>1, <2>2 DEF setOps, Ignored, IxOp, InitOps, AccountOp, LendingOp, PositionOp
    <3>3. setupIxs \in Seq(Made(Ignored("money")))
      BY <1>3, <3>2, MadeMore DEF KindsPlan
    <3>4. /\ Runs("money", setupIxs', Supplied(l), Furnished(IF twoToken THEN {} ELSE receives))
          /\ Runs("money", cleanupIxs', Spent, Machine)
      BY <1>1, <1>5, <1>8, <2>2, <3>1, <3>3, AtaSupplies
    <3>5. atasBy(pc', phase') = IF twoToken THEN {} ELSE receives
      BY <2>1, <2>2 DEF atasBy
    <3> QED BY <3>4, <3>5 DEF MoneyPlan
  <2>3. CASE phase = "inBetween"
    <3>1. twoToken
      BY <2>3 DEF ShapeSound
    <3>2. Done(preTxnIxs, l)
      <4>1. \/ UNCHANGED preTxnIxs
            \/ preTxnIxs' = preTxnIxs \o ataPreTxnIxs
        BY <1>8 DEF AddAtaIxs
      <4>2. preTxnIxs \in Seq(SetupInstruction) /\ ataPreTxnIxs \in Seq(SetupInstruction)
        BY AtaSeqs DEF IInv, ListsSound
      <4> QED BY <1>5, <4>1, <4>2, DoneParts
    <3>3. MoneyPlan(l, pc, phase, setupIxs, cleanupIxs)
      BY <1>2, <1>5, <2>3, <3>2 DEF MoneyBuilt
    <3>4. atasBy(pc, phase) = {} /\ atasBy(pc', phase') = receives
      BY <2>1, <2>3, <3>1 DEF atasBy
    <3>5. Runs("money", setupIxs, Supplied(l), Furnished({})) /\ Runs("money", cleanupIxs, Spent, Machine)
      BY <3>3, <3>4 DEF MoneyPlan
    <3>6. setOps(pc, phase) \subseteq IxOp \ {"closeAta"}
      BY DEF setOps, IxOp, InitOps, AtaOps, BetweenOps, SwitchOps, RefreshOps
    <3>7. setupIxs \in Seq(Made(IxOp \ {"closeAta"}))
      BY <1>3, <3>6, MadeMore DEF KindsPlan
    <3>8. /\ Runs("money", setupIxs', Supplied(l), Furnished(receives))
          /\ cleanupIxs' = cleanupIxs
      BY <1>1, <1>5, <1>8, <2>3, <3>1, <3>5, <3>7, AtaSuppliesAgain
    <3> QED BY <3>4, <3>5, <3>8 DEF MoneyPlan
  <2> QED BY <2>2, <2>3 DEF IInv, StateSound
<1>9. CASE ~AddAtaIxs
  <2>1. ~(pc \in beforeAta /\ phase = "setup")
    <3>1. CASE AddRefreshFarmsCleanupTxnIxsToCleanupIxs
      BY <3>1 DEF AddRefreshFarmsCleanupTxnIxsToCleanupIxs, beforeAta
    <3>2. CASE Passing
      <4>1. pc # "ata"
        BY <1>1, <1>4, <1>9, <3>2, StepParts DEF Passing, AddComputeBudgetIxn, AddScopeRefreshIxs,
           AddInitUserMetadataIxs, AddInitReferrerTokenStateIxs, AddInitObligationIxs,
           AddRefreshOtherReserves, AddInitObligationForFarms, AddRefreshCurrent,
           AddRequestElevation, AddRefreshFarms
      <4> QED BY <1>2, <3>2, <4>1, PassingParts DEF beforeAta
    <3> QED BY <1>1, <1>4, <3>1, <3>2 DEF Passing
  <2>2. UNCHANGED preTxnIxs /\ atasBy(pc', phase') = atasBy(pc, phase)
    <3>1. pc \notin beforeAta
      BY <1>1, <1>9, <2>1, StepParts DEF beforeAta, AddComputeBudgetIxn, AddScopeRefreshIxs,
         AddInitUserMetadataIxs, AddInitReferrerTokenStateIxs, AddInitObligationIxs,
         AddRefreshOtherReserves, AddInitObligationForFarms, AddRefreshCurrent,
         AddRequestElevation, AddRefreshFarms, AddRefreshFarmsCleanupTxnIxsToCleanupIxs, IInv,
         StateSound
    <3>2. AddRefreshOtherReserves \/ AddInitObligationForFarms \/ AddRefreshCurrent
          \/ AddRequestElevation \/ AddRefreshFarms \/ AddLendingIx
          \/ AddRefreshFarmsCleanupTxnIxsToCleanupIxs
      BY <1>1, <3>1, StepParts DEF beforeAta
    <3>3. CASE AddLendingIx
      <4>1. UNCHANGED preTxnIxs
        BY <1>4, <3>3, LendingGrows
      <4>2. phase = "setup" /\ (IF twoToken THEN pc' = "ata" ELSE phase' = "setup")
        BY <1>1, <1>2, <1>4, <3>3, <3>1, StepParts DEF passes, AddRefreshOtherReserves,
           AddInitObligationForFarms, AddRefreshCurrent, AddRequestElevation, AddRefreshFarms,
           AddRefreshFarmsCleanupTxnIxsToCleanupIxs, AddComputeBudgetIxn, AddScopeRefreshIxs,
           AddInitUserMetadataIxs, AddInitReferrerTokenStateIxs, AddInitObligationIxs, AddAtaIxs,
           AddLendingIx, AddDepositIx, AddDepositReserveLiquidityIx,
           AddRedeemReserveCollateralIx, AddDepositObligationCollateralIx, AddWithdrawIx,
           AddBorrowIx, AddRepayIx, AddLiquidateIx, AddPlainIx, AddDebtIx, AddDepositAndBorrowIx,
           AddRepayAndWithdrawIxs
      <4> QED BY <4>1, <4>2 DEF atasBy
    <3>4. CASE ~AddLendingIx
      <4>1. UNCHANGED <<preTxnIxs, phase>>
        BY <3>2, <3>4 DEF AddRefreshOtherReserves, AddInitObligationForFarms, AddRefreshCurrent,
           AddRequestElevation, AddRefreshFarms, AddRefreshFarmsCleanupTxnIxsToCleanupIxs,
           OnlySupport, OnlyElevation
      <4>2. pc # "ata" /\ pc' # "ata"
        BY <1>1, <3>1, <3>2, <3>4 DEF beforeAta, AddRefreshOtherReserves, AddInitObligationForFarms,
           AddRefreshCurrent, AddRequestElevation, AddRefreshFarms,
           AddRefreshFarmsCleanupTxnIxsToCleanupIxs, Throw, RequestGroupOnRepay,
           RequestGroupOnBorrow, ElevationFor, RequestGroupOnDeposit, NoGroupRequest
      <4> QED BY <4>1, <4>2 DEF atasBy
    <3> QED BY <3>3, <3>4
  <2>3. MoneyPlan(l, pc, phase, setupIxs, cleanupIxs)
    BY <1>2, <1>5, <2>1, <2>2 DEF MoneyBuilt
  <2>4. /\ Runs("money", setupIxs, Supplied(l), Furnished(atasBy(pc, phase)))
        /\ Runs("money", cleanupIxs, Spent, Machine)
    BY <2>3 DEF MoneyPlan
  <2>5. CASE AddRefreshFarmsCleanupTxnIxsToCleanupIxs
    <3>1. cleanupIxs' = refreshFarmsCleanupTxnIxs \o cleanupIxs /\ UNCHANGED setupIxs
      BY <2>5 DEF AddRefreshFarmsCleanupTxnIxsToCleanupIxs, splicedCleanup
    <3>2. {"refreshFarms"} \subseteq Ignored("money")
      BY DEF Ignored, IxOp, AccountOp, LendingOp, PositionOp
    <3>3. refreshFarmsCleanupTxnIxs \in Seq(Made(Ignored("money")))
      BY <1>3, <3>2, MadeMore DEF KindsPlan
    <3>4. Runs("money", refreshFarmsCleanupTxnIxs, Spent, Spent)
      BY <1>7, <3>3, IgnoredRuns DEF Concern
    <3>5. Runs("money", refreshFarmsCleanupTxnIxs \o cleanupIxs, Spent, Machine)
      BY <1>6, <2>4, <3>4, RunsConcat
    <3> QED BY <2>2, <2>4, <3>1, <3>5 DEF MoneyPlan
  <2>6. CASE ~AddRefreshFarmsCleanupTxnIxsToCleanupIxs
    <3>1. Passing
      BY <1>1, <1>4, <2>6 DEF Passing
    <3>2. PICK a \in Seq(Made(frontOps)), b \in Seq(Made(backOps)), c \in Seq(Made(closeOps)) :
            setupIxs' = (a \o setupIxs) \o b /\ cleanupIxs' = cleanupIxs \o c
      BY <3>1, PassingGrows, Zenon DEF Growth
    <3>3. frontOps \subseteq Ignored("money")
      <4>1. pc # "ata"
        BY <1>1, <1>4, <1>9, <3>1, StepParts DEF Passing, AddComputeBudgetIxn, AddScopeRefreshIxs,
           AddInitUserMetadataIxs, AddInitReferrerTokenStateIxs, AddInitObligationIxs,
           AddRefreshOtherReserves, AddInitObligationForFarms, AddRefreshCurrent,
           AddRequestElevation, AddRefreshFarms
      <4> QED BY <4>1 DEF frontOps, Ignored, IxOp, AccountOp, LendingOp, PositionOp
    <3>4. backOps \subseteq Ignored("money")
      BY DEF backOps, SwitchOps, RefreshOps, Ignored, IxOp, AccountOp, LendingOp, PositionOp
    <3>5. closeOps \subseteq Ignored("money")
      <4>1. pc # "ata"
        BY <1>1, <1>4, <1>9, <3>1, StepParts DEF Passing, AddComputeBudgetIxn, AddScopeRefreshIxs,
           AddInitUserMetadataIxs, AddInitReferrerTokenStateIxs, AddInitObligationIxs,
           AddRefreshOtherReserves, AddInitObligationForFarms, AddRefreshCurrent,
           AddRequestElevation, AddRefreshFarms
      <4> QED BY <4>1 DEF closeOps, SwitchOps, RefreshOps, Ignored, IxOp, AccountOp, LendingOp,
         PositionOp
    <3>6. /\ a \in Seq(Made(Ignored("money"))) /\ b \in Seq(Made(Ignored("money")))
          /\ c \in Seq(Made(Ignored("money")))
      BY <3>3, <3>4, <3>5, MadeMore
    <3>7. /\ Runs("money", a, Supplied(l), Supplied(l))
          /\ Runs("money", b, Furnished(atasBy(pc, phase)), Furnished(atasBy(pc, phase)))
          /\ Runs("money", c, Machine, Machine)
      BY <1>7, <3>6, IgnoredRuns DEF Concern
    <3>8. /\ a \in Seq(ListedInstruction) /\ b \in Seq(ListedInstruction)
          /\ c \in Seq(ListedInstruction)
      BY MadeListed
    <3>9. Runs("money", (a \o setupIxs) \o b, Supplied(l), Furnished(atasBy(pc, phase)))
      BY <1>6, <2>4, <3>7, <3>8, RunsAround
    <3>10. Runs("money", cleanupIxs \o c, Spent, Machine)
      BY <1>6, <2>4, <3>7, <3>8, RunsConcat
    <3> QED BY <2>2, <3>2, <3>9, <3>10 DEF MoneyPlan
  <2> QED BY <2>5, <2>6
<1> QED BY <1>8, <1>9

-----------------------------------------------------------------------------
(***************************************************************************)
(* The positions: what each list needs refreshed and leaves refreshed, by  *)
(* step of the build, for a call that reduces what it holds.               *)
(***************************************************************************)
firstAsked == Ix(firstOp, req.reserve, {})
secondAsked == Ix(secondOp, req.outflow, {})
heldOnce == depositsAfter(firstAsked, known.deposits)
owedOnce == borrowsAfter(firstAsked, known.borrows)
heldTwice == depositsAfter(secondAsked, heldOnce)
owedTwice == borrowsAfter(secondAsked, owedOnce)

Idle(d, b, G) == Standing(d, b, G, {}, FALSE, {}, {})
OthersFresh(d, b, G, C) == Standing(d, b, G, (d \union b) \ C, FALSE, {}, {})
AllFresh(d, b, G, C) == Standing(d, b, G, (d \union b) \union C, TRUE, {}, {})
Prepared(d, b, G, C, x) == Standing(d, b, G, (d \union b) \union C, TRUE, touchedFarms(x), {})
Moved(d, b, G, x) == Standing(d, b, G, {}, FALSE, {}, touchedFarms(x))
Rested == {s \in Machine : s[2].farmOwed = {}}

\* The groups the first and the second lending instruction may meet.
readyGroups ==
  IF req.action = "deposit" THEN GroupId
  ELSE IF req.action = "borrow"
  THEN IF known.group > 0 \/ potentialGroup > 0 THEN GroupId ELSE {0}
  ELSE {known.group}
midGroups == IF req.action = "depositAndBorrow" /\ req.elevate THEN GroupId ELSE {known.group}

setupStage(p, ph, G) ==
  IF ph = "setup" /\ p \in beforeAta \union {"others"}
  THEN Idle(known.deposits, known.borrows, {known.group})
  ELSE IF ph = "setup" /\ p \in {"initFarms", "current"}
  THEN OthersFresh(known.deposits, known.borrows, {known.group}, touchedReserves(firstAsked))
  ELSE IF ph = "setup" /\ p = "elevation"
  THEN AllFresh(known.deposits, known.borrows, {known.group}, touchedReserves(firstAsked))
  ELSE IF ph = "setup" /\ p = "farms"
  THEN AllFresh(known.deposits, known.borrows, G, touchedReserves(firstAsked))
  ELSE Prepared(known.deposits, known.borrows, G, touchedReserves(firstAsked), firstAsked)

bothReserves == {req.reserve, req.outflow}

betweenStage(p) ==
  IF p \in {"lending", "ata", "others"} THEN Idle(heldOnce, owedOnce, {known.group})
  ELSE IF p \in {"initFarms", "current"}
  THEN OthersFresh(heldOnce, owedOnce, {known.group}, bothReserves)
  ELSE IF p = "elevation" THEN AllFresh(heldOnce, owedOnce, {known.group}, bothReserves)
  ELSE IF p = "farms" THEN AllFresh(heldOnce, owedOnce, midGroups, bothReserves)
  ELSE Prepared(heldOnce, owedOnce, midGroups, bothReserves, secondAsked)

lastMoved(G) == IF twoToken THEN Moved(heldTwice, owedTwice, midGroups, secondAsked)
                ELSE Moved(heldOnce, owedOnce, G, firstAsked)
lastIdle(G) == IF twoToken THEN Idle(heldTwice, owedTwice, midGroups)
               ELSE Idle(heldOnce, owedOnce, G)

beforeLeaving(p, ph) ==
  ph = "setup" /\ p \in beforeAta \union {"others", "initFarms", "current", "elevation"}

StandPlan(p, ph, G, s, b, c) ==
  /\ Runs("position", s, Idle(known.deposits, known.borrows, {known.group}), setupStage(p, ph, G))
  /\ twoToken /\ (p = "lending" \/ ph = "inBetween") =>
       Runs("position", b, Moved(heldOnce, owedOnce, {known.group}, firstAsked), betweenStage(p))
  /\ beforeLeaving(p, ph) => c \in Seq(Made({"closeAta"}))
  /\ ~beforeLeaving(p, ph) =>
       Runs("position", c, IF p = "built" THEN lastMoved(G) ELSE lastIdle(G), Rested)

StandBuilt ==
  Underway /\ asksAccounts /\ Sensible =>
    StandPlan(pc, phase, readyGroups, setupIxs, inBetweenIxs, cleanupIxs)

\* A plan is about the call, not about the step of the build.
LEMMA AskedSame ==
  ASSUME UNCHANGED <<req, known>>
  PROVE  /\ firstAsked' = firstAsked /\ secondAsked' = secondAsked
         /\ heldOnce' = heldOnce /\ owedOnce' = owedOnce
         /\ heldTwice' = heldTwice /\ owedTwice' = owedTwice
         /\ midGroups' = midGroups /\ bothReserves' = bothReserves
<1>1. firstOp' = firstOp /\ secondOp' = secondOp
  BY DEF firstOp, secondOp
<1>2. firstAsked' = firstAsked /\ secondAsked' = secondAsked
  BY <1>1 DEF firstAsked, secondAsked, Ix
<1>3. heldOnce' = heldOnce /\ owedOnce' = owedOnce
  BY <1>2 DEF heldOnce, owedOnce, depositsAfter, borrowsAfter, closesDeposit, closesDebt
<1>4. heldTwice' = heldTwice /\ owedTwice' = owedTwice
  BY <1>2, <1>3 DEF heldTwice, owedTwice, depositsAfter, borrowsAfter, closesDeposit, closesDebt
<1>5. midGroups' = midGroups /\ bothReserves' = bothReserves
  BY DEF midGroups, bothReserves
<1> QED BY <1>2, <1>3, <1>4, <1>5

LEMMA StandSame ==
  ASSUME UNCHANGED <<req, referrer, known>>, NEW p, NEW ph, NEW G, NEW s, NEW b, NEW c
  PROVE  StandPlan(p, ph, G, s, b, c)' <=> StandPlan(p, ph, G, s, b, c)
<1>1. /\ firstAsked' = firstAsked /\ secondAsked' = secondAsked
      /\ heldOnce' = heldOnce /\ owedOnce' = owedOnce
      /\ heldTwice' = heldTwice /\ owedTwice' = owedTwice
      /\ midGroups' = midGroups /\ bothReserves' = bothReserves
  BY AskedSame
<1>2. touchedFarms(firstAsked)' = touchedFarms(firstAsked)
      /\ touchedFarms(secondAsked)' = touchedFarms(secondAsked)
      /\ touchedReserves(firstAsked)' = touchedReserves(firstAsked)
  BY <1>1 DEF touchedFarms, touchedReserves
<1>3. PICK S, T, U, V, W, X, R : /\ S = Idle(known.deposits, known.borrows, {known.group})
        /\ T = setupStage(p, ph, G) /\ U = Moved(heldOnce, owedOnce, {known.group}, firstAsked)
        /\ V = betweenStage(p) /\ W = lastMoved(G) /\ X = lastIdle(G) /\ R = Rested
  OBVIOUS
<1>4. Idle(known.deposits, known.borrows, {known.group})' = S
      /\ Moved(heldOnce, owedOnce, {known.group}, firstAsked)' = U
      /\ Rested' = R
  BY <1>1, <1>2, <1>3 DEF Idle, Moved, Standing, Rested, Machine
<1>5. setupStage(p, ph, G)' = T
  BY <1>1, <1>2, <1>3 DEF setupStage, beforeAta, Idle, OthersFresh, AllFresh, Prepared, Standing, Machine
<1>6. betweenStage(p)' = V
  BY <1>1, <1>2, <1>3 DEF betweenStage, Idle, OthersFresh, AllFresh, Prepared, Standing, Machine
<1>7. lastMoved(G)' = W /\ lastIdle(G)' = X /\ twoToken' = twoToken
  BY <1>1, <1>2, <1>3 DEF lastMoved, lastIdle, twoToken, Moved, Idle, Standing, Machine
<1>8. PICK Y : Y = IF p = "built" THEN W ELSE X
  OBVIOUS
<1>9. /\ Runs("position", s, S, T)' <=> Runs("position", s, S, T)
      /\ Runs("position", b, U, V)' <=> Runs("position", b, U, V)
      /\ Runs("position", c, Y, R)' <=> Runs("position", c, Y, R)
  BY RunsSame
<1>10. Made({"closeAta"})' = Made({"closeAta"}) /\ beforeLeaving(p, ph)' = beforeLeaving(p, ph)
  BY MadeSame DEF beforeLeaving, beforeAta
<1>11. /\ Runs("position", s, Idle(known.deposits, known.borrows, {known.group}), setupStage(p, ph, G))'
          <=> Runs("position", s, Idle(known.deposits, known.borrows, {known.group}), setupStage(p, ph, G))
       /\ Runs("position", b, Moved(heldOnce, owedOnce, {known.group}, firstAsked), betweenStage(p))'
          <=> Runs("position", b, Moved(heldOnce, owedOnce, {known.group}, firstAsked), betweenStage(p))
       /\ Runs("position", c, IF p = "built" THEN lastMoved(G) ELSE lastIdle(G), Rested)'
          <=> Runs("position", c, IF p = "built" THEN lastMoved(G) ELSE lastIdle(G), Rested)
  BY <1>3, <1>4, <1>5, <1>6, <1>7, <1>8, <1>9
<1> QED BY <1>7, <1>10, <1>11 DEF StandPlan

LEMMA StandPrimed ==
  ASSUME UNCHANGED <<req, referrer, known>>,
         Underway' /\ asksAccounts /\ Sensible =>
           StandPlan(pc', phase', readyGroups', setupIxs', inBetweenIxs', cleanupIxs')
  PROVE  StandBuilt'
<1> SUFFICES ASSUME Underway', asksAccounts', Sensible'
             PROVE  StandPlan(pc, phase, readyGroups, setupIxs, inBetweenIxs, cleanupIxs)'
  BY DEF StandBuilt
<1>1. asksAccounts /\ Sensible
  BY SensibleSame DEF asksAccounts
<1>2. PICK p, ph, G, s, b, c : /\ p = pc' /\ ph = phase' /\ G = readyGroups' /\ s = setupIxs'
                               /\ b = inBetweenIxs' /\ c = cleanupIxs'
  OBVIOUS
<1>3. StandPlan(p, ph, G, s, b, c)'
  BY <1>1, <1>2, StandSame
<1> QED BY <1>2, <1>3

\* The reserves a step lists and refreshes, in the first pass and the second.
LEMMA SetupValues ==
  ASSUME IInv, ShapeSound, ValuesBuilt, Underway, asksAccounts, phase = "setup"
  PROVE  /\ AdditionalDepositReservesList = known.deposits
         /\ borrowReserves \ preLoadedBorrowReservesSameTx = known.borrows
         /\ currentReserves = touchedReserves(firstAsked)
         /\ allReservesExcludingCurrent
              = (known.deposits \union known.borrows) \ touchedReserves(firstAsked)
<1>1. /\ borrowReserves = known.borrows /\ depositReserves = known.deposits
      /\ preLoadedDepositReservesSameTx = {} /\ preLoadedBorrowReservesSameTx = {}
  BY DEF ValuesBuilt, Underway, passes
<1>2. currentReserves = touchedReserves(firstAsked)
  <2>1. firstAsked.op = firstOp /\ firstAsked.res = req.reserve
    BY DEF firstAsked, Ix
  <2>2. supportAction = "liquidate" <=> firstOp = "liquidate"
    BY DEF supportAction, twoToken, TwoTokenAction, firstOp
  <2>3. supportAction \notin TwoTokenAction
    BY DEF supportAction, twoToken, TwoTokenAction
  <2> QED BY <2>1, <2>2, <2>3 DEF currentReserves, touchedReserves
<1> QED BY <1>1, <1>2 DEF AdditionalDepositReservesList, allReservesExcludingCurrent

LEMMA SoundOfTwo ==
  ASSUME IInv, Sensible, twoToken
  PROVE  /\ req.action \in {"depositAndBorrow", "repayAndWithdraw"}
         /\ req.action = "depositAndBorrow" =>
              /\ heldOnce = known.deposits \union {req.reserve} /\ owedOnce = known.borrows
              /\ firstAsked.op = "deposit" /\ secondAsked.op = "borrow"
         /\ req.action = "repayAndWithdraw" =>
              /\ known.obligation /\ req.reserve \in known.borrows /\ req.outflow \in known.deposits
              /\ heldOnce = known.deposits /\ owedOnce = known.borrows \ closesDebt
              /\ req.level # 2
              /\ req.closing => owedOnce = {}
              /\ firstAsked.op = "repay" /\ secondAsked.op = "withdraw"
         /\ firstAsked.res = req.reserve /\ secondAsked.res = req.outflow
         /\ ~known.obligation => known.group = 0 /\ known.deposits = {} /\ known.borrows = {}
<1>1. req.action \in {"depositAndBorrow", "repayAndWithdraw"}
  BY DEF twoToken, TwoTokenAction
<1>2. /\ firstAsked.op = firstOp /\ firstAsked.res = req.reserve
      /\ secondAsked.op = secondOp /\ secondAsked.res = req.outflow
  BY DEF firstAsked, secondAsked, Ix
<1>3. ~known.obligation => known.group = 0 /\ known.deposits = {} /\ known.borrows = {}
  BY DEF Sensible, Compatible
<1>4. CASE req.action = "depositAndBorrow"
  <2>1. firstAsked.op = "deposit" /\ secondAsked.op = "borrow"
    BY <1>2, <1>4 DEF firstOp, secondOp
  <2> QED BY <1>2, <1>3, <1>4, <2>1 DEF heldOnce, owedOnce, depositsAfter, borrowsAfter
<1>5. CASE req.action = "repayAndWithdraw"
  <2>1. firstAsked.op = "repay" /\ secondAsked.op = "withdraw"
    BY <1>2, <1>5 DEF firstOp, secondOp
  <2>2. heldOnce = known.deposits /\ owedOnce = known.borrows \ closesDebt
    BY <2>1 DEF heldOnce, owedOnce, depositsAfter, borrowsAfter
  <2>3. req.reserve \in known.borrows /\ req.outflow \in known.deposits
    BY <1>5 DEF Sensible, PositionsHeld, repaid, withdrawn
  <2>4. req.level # 2
    BY <1>5 DEF Sensible, nearlyFull
  <2>5. req.closing => req.level = 3 /\ known.borrows = {req.reserve}
    BY <1>5 DEF Sensible, FlagsTruthful
  <2>6. req.closing => owedOnce = {}
    BY <2>2, <2>5 DEF closesDebt
  <2> QED BY <1>2, <1>3, <1>5, <2>1, <2>2, <2>3, <2>4, <2>6
<1> QED BY <1>1, <1>4, <1>5

LEMMA BetweenValues ==
  ASSUME IInv, ShapeSound, ValuesBuilt, Underway, asksAccounts, Sensible, phase = "inBetween"
  PROVE  /\ twoToken /\ supportAction = req.action /\ currentReserves = bothReserves
         /\ (heldOnce \union owedOnce) \ bothReserves \subseteq allReservesExcludingCurrent
         /\ pc \in {"current", "elevation"} => AdditionalDepositReservesList = heldOnce
         /\ pc \in {"current", "elevation"} =>
              owedOnce = IF req.action = "repayAndWithdraw" /\ req.closing THEN {}
                         ELSE borrowReserves \ preLoadedBorrowReservesSameTx
<1>1. twoToken /\ pc \in {"ata", "others", "initFarms", "current", "elevation", "farms", "splice",
                          "built", "thrown"}
  BY DEF ShapeSound
<1>2. supportAction = req.action
  BY DEF supportAction
<1>3. currentReserves = bothReserves
  BY <1>1, <1>2 DEF currentReserves, twoToken, bothReserves
<1>4. pc # "thrown" /\ pc # "initialize" /\ req.action # "withdrawReferrerFees"
  BY DEF Underway, passes
<1>5. /\ borrowReserves = known.borrows
      /\ depositReserves = passDeposits \/ depositReserves = passDeposits \union preDeposits
  BY <1>1, <1>4 DEF ValuesBuilt
<1>6. owedOnce \subseteq known.borrows /\ heldOnce \subseteq passDeposits \union {req.reserve}
  BY <1>1, SoundOfTwo DEF passDeposits
<1>7. (heldOnce \union owedOnce) \ bothReserves \subseteq allReservesExcludingCurrent
  BY <1>3, <1>5, <1>6 DEF allReservesExcludingCurrent, bothReserves
<1>8. ASSUME pc \in {"current", "elevation"}
      PROVE  /\ AdditionalDepositReservesList = passDeposits \union preDeposits
             /\ borrowReserves \ preLoadedBorrowReservesSameTx = known.borrows \ preBorrows
  BY <1>1, <1>4, <1>5, <1>8 DEF ValuesBuilt, AdditionalDepositReservesList
<1>9. passDeposits \union preDeposits = heldOnce
  <2>1. CASE req.action = "depositAndBorrow"
    <3>1. heldOnce = known.deposits \union {req.reserve}
          /\ (~known.obligation => known.deposits = {})
      BY <1>1, <2>1, SoundOfTwo
    <3> QED BY <1>1, <2>1, <3>1 DEF passDeposits, preDeposits
  <2>2. CASE req.action = "repayAndWithdraw"
    <3>1. heldOnce = known.deposits /\ known.obligation
      BY <1>1, <2>2, SoundOfTwo
    <3> QED BY <1>1, <2>2, <3>1 DEF passDeposits, preDeposits
  <2> QED BY <1>1, <2>1, <2>2, SoundOfTwo
<1>10. owedOnce = IF req.action = "repayAndWithdraw" /\ req.closing THEN {}
                  ELSE known.borrows \ preBorrows
  <2>1. CASE req.action = "depositAndBorrow"
    BY <1>1, <2>1, SoundOfTwo DEF preBorrows
  <2>2. CASE req.action = "repayAndWithdraw"
    <3>1. known.obligation /\ owedOnce = known.borrows \ closesDebt /\ req.level # 2
          /\ (req.closing => owedOnce = {})
      BY <1>1, <2>2, SoundOfTwo
    <3>2. req.level \in 0..3
      BY DEF IInv, StateSound, Request
    <3>3. req.level >= 2 <=> req.level = 3
      BY <3>1, <3>2
    <3>4. preBorrows = closesDebt
      BY <2>2, <3>1, <3>3 DEF preBorrows, closesDebt
    <3> QED BY <2>2, <3>1, <3>4
  <2> QED BY <1>1, <2>1, <2>2, SoundOfTwo
<1> QED BY <1>1, <1>2, <1>3, <1>7, <1>8, <1>9, <1>10

\* What a step of a pass pushes and how it moves the positions.
LEMMA OthersPushed ==
  ASSUME IInv, NEW d, NEW b, NEW G, NEW C,
         currentReserves = C, (d \union b) \ C \subseteq allReservesExcludingCurrent
  PROVE  Runs("position", RefreshReserves(allReservesExcludingCurrent), Idle(d, b, G),
              OthersFresh(d, b, G, C))
<1>1. PICK F : F = allReservesExcludingCurrent
  OBVIOUS
<1>2. F \in SUBSET Reserve
  BY <1>1, PassReserves
<1>3. Runs("position", RefreshReserves(F), Standing(d, b, G, {}, FALSE, {}, {}),
           Standing(d, b, G, {} \union F, FALSE, {}, {}))
  BY <1>2, RefreshReservesStands
<1>4. Standing(d, b, G, {} \union F, FALSE, {}, {}) \subseteq OthersFresh(d, b, G, C)
  BY <1>1 DEF OthersFresh, Standing
<1>5. PICK S, T, U : S = Idle(d, b, G) /\ T = Standing(d, b, G, {} \union F, FALSE, {}, {})
                     /\ U = OthersFresh(d, b, G, C)
  OBVIOUS
<1>6. Runs("position", RefreshReserves(F), S, T)
  BY <1>3, <1>5 DEF Idle
<1>7. Runs("position", RefreshReserves(F), S, U)
  BY <1>4, <1>5, <1>6, RunsWeaken
<1> QED BY <1>1, <1>5, <1>7

LEMMA CurrentPushed ==
  ASSUME IInv, NEW skip \in BOOLEAN, NEW d, NEW b, NEW G, NEW C,
         currentReserves = C, AdditionalDepositReservesList = d,
         (IF skip THEN {} ELSE borrowReserves \ preLoadedBorrowReservesSameTx) = b
  PROVE  Runs("position", RefreshReserves(currentReserves) \o RefreshObligation(skip),
              OthersFresh(d, b, G, C), AllFresh(d, b, G, C))
<1>1. PICK F : F = (d \union b) \ C
  OBVIOUS
<1>2. F \union currentReserves = (d \union b) \union C /\ d \union b \subseteq F \union currentReserves
  BY <1>1
<1>3. Runs("position", RefreshReserves(currentReserves) \o RefreshObligation(skip),
           Standing(d, b, G, F, FALSE, {}, {}),
           Standing(d, b, G, F \union currentReserves, TRUE, {}, {}))
  BY <1>2, CurrentStands
<1> QED BY <1>1, <1>2, <1>3 DEF OthersFresh, AllFresh

LEMMA SwitchPushed ==
  ASSUME IInv, NEW g \in GroupId, NEW d, NEW b, NEW G, NEW H, NEW C,
         currentReserves = C, AdditionalDepositReservesList = d,
         borrowReserves \ preLoadedBorrowReservesSameTx = b,
         (d \union b) \ C \subseteq allReservesExcludingCurrent, g \notin G, g \in H
  PROVE  Runs("position", SwitchGroup(g), AllFresh(d, b, G, C), AllFresh(d, b, H, C))
<1>1. PICK E : E = allReservesExcludingCurrent \union currentReserves
  OBVIOUS
<1>2. d \union b \subseteq E /\ (d \union b) \union C \subseteq E
  BY <1>1
<1>3. PICK S, T, U : /\ S = Standing(d, b, G, (d \union b) \union C, TRUE, {}, {})
                     /\ T = Standing(d, b, {g}, E, TRUE, {}, {})
                     /\ U = AllFresh(d, b, H, C)
  OBVIOUS
<1>4. Runs("position", SwitchGroup(g), S, T)
  BY <1>1, <1>2, <1>3, SwitchStands
<1>5. T \subseteq U
  <2>1. {g} \subseteq H
    OBVIOUS
  <2>2. Standing(d, b, {g}, E, TRUE, {}, {})
          \subseteq Standing(d, b, H, (d \union b) \union C, TRUE, {}, {})
    BY <1>2, <2>1, StandingLess
  <2> QED BY <1>3, <2>2 DEF AllFresh
<1>6. Runs("position", SwitchGroup(g), S, U)
  BY <1>4, <1>5, RunsWeaken
<1> QED BY <1>3, <1>6 DEF AllFresh

\* One pair of farm refreshes, before a lending instruction and after it.
FarmsSeen(x) == IF x.op = "liquidate"
                THEN FarmsAt({req.outflow}, "coll") \union FarmsAt({req.reserve}, "debt")
                ELSE FarmsAt({x.res}, IF x.op \in {"borrow", "repay"} THEN "debt" ELSE "coll")

LEMMA FarmsTouched ==
  ASSUME NEW x, x.op \in PositionOp
  PROVE  touchedFarms(x) \subseteq FarmsSeen(x)
<1>1. CASE x.op = "liquidate"
  BY <1>1 DEF touchedFarms, FarmsSeen, FarmsAt, Farms, FarmsOf
<1>2. CASE x.op \in {"borrow", "repay"}
  BY <1>2 DEF touchedFarms, FarmsSeen, FarmsAt, Farms, FarmsOf
<1>3. CASE x.op \in {"deposit", "depositCollateral", "withdraw"}
  BY <1>3 DEF touchedFarms, FarmsSeen, FarmsAt, Farms, FarmsOf
<1> QED BY <1>1, <1>2, <1>3 DEF PositionOp

FarmsRefreshed(q, x) ==
  \A d, b, G, F, ob, FO :
    Runs("position", q, Standing(d, b, G, F, ob, {}, FO),
         Standing(d, b, G, F, ob, touchedFarms(x), FO \ touchedFarms(x)))

LEMMA SeenRefreshed ==
  ASSUME NEW q, NEW x, x.op \in PositionOp,
         \A d, b, G, F, ob, FO :
           Runs("position", q, Standing(d, b, G, F, ob, {}, FO),
                Standing(d, b, G, F, ob, {} \union FarmsSeen(x), FO \ FarmsSeen(x)))
  PROVE  FarmsRefreshed(q, x)
<1> SUFFICES ASSUME NEW d, NEW b, NEW G, NEW F, NEW ob, NEW FO
             PROVE  Runs("position", q, Standing(d, b, G, F, ob, {}, FO),
                         Standing(d, b, G, F, ob, touchedFarms(x), FO \ touchedFarms(x)))
  BY DEF FarmsRefreshed
<1>1. PICK S, T, U : /\ S = Standing(d, b, G, F, ob, {}, FO)
                     /\ T = Standing(d, b, G, F, ob, {} \union FarmsSeen(x), FO \ FarmsSeen(x))
                     /\ U = Standing(d, b, G, F, ob, touchedFarms(x), FO \ touchedFarms(x))
  OBVIOUS
<1>2. Runs("position", q, S, T)
  BY <1>1
<1>3. touchedFarms(x) \subseteq {} \union FarmsSeen(x)
      /\ FO \ FarmsSeen(x) \subseteq FO \ touchedFarms(x)
  BY FarmsTouched
<1>4. T \subseteq U
  BY <1>1, <1>3, StandingLess
<1>5. Runs("position", q, S, U)
  BY <1>2, <1>4, RunsWeaken
<1> QED BY <1>1, <1>5

LEMMA FirstFarmsRefreshed ==
  ASSUME IInv, asksAccounts
  PROVE  FarmsRefreshed(firstFarms, firstAsked)
<1>1. firstAsked.op = firstOp /\ firstAsked.res = req.reserve
  BY DEF firstAsked, Ix
<1>2. /\ req.action \in ActionType
      /\ req.action \notin ObligationOnly \union {"mint", "redeem", "withdrawReferrerFees"}
  BY DEF IInv, StateSound, Request, asksAccounts
<1>3. firstOp \in PositionOp
  BY <1>2 DEF firstOp, PositionOp, ActionType, TwoTokenAction, ObligationOnly
<1>4. "coll" \in Mode /\ "debt" \in Mode
  BY DEF Mode
<1>5. CASE req.action = "liquidate"
  <2> DEFINE one == RefreshFarms({req.outflow}, "coll")
             two == RefreshFarms({req.reserve}, "debt")
             X == FarmsAt({req.outflow}, "coll")
             Y == FarmsAt({req.reserve}, "debt")
  <2>1. one \in Seq(Made({"refreshFarms"})) /\ two \in Seq(Made({"refreshFarms"}))
    BY <1>4, RefreshFarmsMade
  <2>2. firstFarms = one \o two /\ FarmsSeen(firstAsked) = X \union Y
    BY <1>1, <1>5 DEF firstFarms, FarmsSeen, firstOp
  <2>3. ASSUME NEW d, NEW b, NEW G, NEW F, NEW ob, NEW FO
        PROVE  Runs("position", firstFarms, Standing(d, b, G, F, ob, {}, FO),
                    Standing(d, b, G, F, ob, {} \union FarmsSeen(firstAsked), FO \ FarmsSeen(firstAsked)))
    <3> DEFINE S == Standing(d, b, G, F, ob, {}, FO)
               T == Standing(d, b, G, F, ob, {} \union X, FO \ X)
               U == Standing(d, b, G, F, ob, ({} \union X) \union Y, (FO \ X) \ Y)
    <3>1. Runs("position", one, S, T)
      BY <1>4, RefreshFarmsStands
    <3>2. Runs("position", two, T, U)
      BY <1>4, RefreshFarmsStands
    <3>3. ({} \union X) \union Y = {} \union (X \union Y) /\ (FO \ X) \ Y = FO \ (X \union Y)
      OBVIOUS
    <3>4. U = Standing(d, b, G, F, ob, {} \union FarmsSeen(firstAsked), FO \ FarmsSeen(firstAsked))
      BY <2>2, <3>3
    <3> HIDE DEF S, T, U, one, two
    <3>5. Runs("position", one \o two, S, U)
      BY <2>1, <3>1, <3>2, RunsConcat
    <3> QED BY <2>2, <3>4, <3>5 DEF S
  <2> QED BY <1>1, <1>3, <2>3, SeenRefreshed
<1>6. CASE req.action # "liquidate"
  <2>1. PICK mode \in Mode : mode = IF firstOp \in {"borrow", "repay"} THEN "debt" ELSE "coll"
    BY <1>4
  <2>2. firstFarms = RefreshFarms({req.reserve}, mode)
    BY <1>2, <1>6, <2>1 DEF firstFarms, firstOp, ActionType, TwoTokenAction, ObligationOnly
  <2>3. FarmsSeen(firstAsked) = FarmsAt({req.reserve}, mode)
    BY <1>1, <1>6, <2>1 DEF FarmsSeen, firstOp
  <2>4. ASSUME NEW d, NEW b, NEW G, NEW F, NEW ob, NEW FO
        PROVE  Runs("position", firstFarms, Standing(d, b, G, F, ob, {}, FO),
                    Standing(d, b, G, F, ob, {} \union FarmsSeen(firstAsked), FO \ FarmsSeen(firstAsked)))
    <3>1. Runs("position", RefreshFarms({req.reserve}, mode), Standing(d, b, G, F, ob, {}, FO),
               Standing(d, b, G, F, ob, {} \union FarmsAt({req.reserve}, mode),
                        FO \ FarmsAt({req.reserve}, mode)))
      BY RefreshFarmsStands
    <3> QED BY <2>2, <2>3, <3>1
  <2> QED BY <1>1, <1>3, <2>4, SeenRefreshed
<1> QED BY <1>5, <1>6

LEMMA SecondFarmsRefreshed ==
  ASSUME IInv, twoToken
  PROVE  FarmsRefreshed(secondFarms, secondAsked)
<1>1. secondAsked.op = secondOp /\ secondAsked.res = req.outflow
  BY DEF secondAsked, Ix
<1>2. secondOp \in PositionOp /\ secondOp # "liquidate"
  BY DEF secondOp, PositionOp
<1>3. PICK mode \in Mode : mode = IF secondOp \in {"borrow", "repay"} THEN "debt" ELSE "coll"
  BY DEF Mode
<1>4. secondFarms = RefreshFarms({req.outflow}, mode)
  BY <1>3 DEF secondFarms, secondOp
<1>5. FarmsSeen(secondAsked) = FarmsAt({req.outflow}, mode)
  BY <1>1, <1>2, <1>3 DEF FarmsSeen
<1>6. ASSUME NEW d, NEW b, NEW G, NEW F, NEW ob, NEW FO
      PROVE  Runs("position", secondFarms, Standing(d, b, G, F, ob, {}, FO),
                  Standing(d, b, G, F, ob, {} \union FarmsSeen(secondAsked), FO \ FarmsSeen(secondAsked)))
  <2>1. Runs("position", RefreshFarms({req.outflow}, mode), Standing(d, b, G, F, ob, {}, FO),
             Standing(d, b, G, F, ob, {} \union FarmsAt({req.outflow}, mode),
                      FO \ FarmsAt({req.outflow}, mode)))
    BY RefreshFarmsStands
  <2> QED BY <1>4, <1>5, <2>1
<1> QED BY <1>1, <1>2, <1>6, SeenRefreshed

LEMMA FarmsPushed ==
  ASSUME NEW q, NEW x, FarmsRefreshed(q, x), NEW d, NEW b, NEW G, NEW C
  PROVE  /\ Runs("position", q, AllFresh(d, b, G, C), Prepared(d, b, G, C, x))
         /\ Runs("position", q, Moved(d, b, G, x), Idle(d, b, G))
<1>1. /\ Runs("position", q, Standing(d, b, G, (d \union b) \union C, TRUE, {}, {}),
              Standing(d, b, G, (d \union b) \union C, TRUE, touchedFarms(x), {} \ touchedFarms(x)))
      /\ Runs("position", q, Standing(d, b, G, {}, FALSE, {}, touchedFarms(x)),
              Standing(d, b, G, {}, FALSE, touchedFarms(x), touchedFarms(x) \ touchedFarms(x)))
  BY DEF FarmsRefreshed
<1>2. {} \ touchedFarms(x) = {} /\ touchedFarms(x) \ touchedFarms(x) = {}
  OBVIOUS
<1>3. Runs("position", q, AllFresh(d, b, G, C), Prepared(d, b, G, C, x))
  BY <1>1, <1>2 DEF AllFresh, Prepared
<1>4. PICK S, T, U : /\ S = Moved(d, b, G, x)
                     /\ T = Standing(d, b, G, {}, FALSE, touchedFarms(x), {})
                     /\ U = Idle(d, b, G)
  OBVIOUS
<1>5. Runs("position", q, S, T)
  BY <1>1, <1>2, <1>4 DEF Moved
<1>6. T \subseteq U
  BY <1>4, StandingLess DEF Idle
<1>7. Runs("position", q, S, U)
  BY <1>5, <1>6, RunsWeaken
<1> QED BY <1>3, <1>4, <1>7

\* The setup list step by step.
LEMMA GroupsKept ==
  ASSUME IInv, ShapeSound, GroupBuilt, Passing, pc # "elevation" \/ phase = "inBetween"
  PROVE  readyGroups' = readyGroups
<1>1. UNCHANGED <<req, known>>
  BY StepParts DEF Passing
<1>2. CASE pc # "elevation"
  <2>1. UNCHANGED potentialGroup
    <3>1. CASE AddComputeBudgetIxn \/ AddScopeRefreshIxs \/ AddInitUserMetadataIxs
               \/ AddInitReferrerTokenStateIxs \/ AddInitObligationIxs \/ AddAtaIxs
      BY <3>1 DEF AddComputeBudgetIxn, AddScopeRefreshIxs, AddInitUserMetadataIxs,
         AddInitReferrerTokenStateIxs, AddInitObligationIxs, AddAtaIxs, OnlySetup
    <3>2. CASE AddRefreshOtherReserves \/ AddInitObligationForFarms \/ AddRefreshCurrent
               \/ AddRefreshFarms
      BY <3>2 DEF AddRefreshOtherReserves, AddInitObligationForFarms, AddRefreshCurrent,
         AddRefreshFarms, OnlySupport
    <3>3. CASE AddLendingIx /\ ~AddRefreshObligation /\ ~AddWithdrawReferrerFees
      BY <3>3 DEF AddLendingIx, AddDepositIx, AddDepositReserveLiquidityIx,
         AddRedeemReserveCollateralIx, AddDepositObligationCollateralIx, AddWithdrawIx,
         AddBorrowIx, AddRepayIx, AddLiquidateIx, AddPlainIx, AddDebtIx, AddDepositAndBorrowIx,
         AddRepayAndWithdrawIxs, OnlyLending
    <3>4. ~AddRequestElevation
      BY <1>2 DEF AddRequestElevation
    <3> QED BY <3>1, <3>2, <3>3, <3>4, StepParts DEF Passing
  <2> QED BY <1>1, <2>1 DEF readyGroups
<1>3. CASE phase = "inBetween"
  <2>1. req.action # "borrow"
    BY <1>3 DEF ShapeSound, twoToken, TwoTokenAction
  <2> QED BY <1>1, <2>1 DEF readyGroups
<1> QED BY <1>2, <1>3

LEMMA StandPassedBy ==
  ASSUME IInv, ShapeSound, GroupBuilt, Passing, NEW S, NEW T,
         Closed("position", S), Closed("position", T),
         frontOps \subseteq Ignored("position"), backOps \subseteq Ignored("position"),
         Runs("position", setupIxs, S, T)
  PROVE  Runs("position", setupIxs', S, T)
<1>1. PICK a \in Seq(Made(frontOps)), b \in Seq(Made(backOps)) :
        setupIxs' = (a \o setupIxs) \o b
  BY PassingGrows, Zenon DEF Growth
<1>2. a \in Seq(Made(Ignored("position"))) /\ b \in Seq(Made(Ignored("position")))
  BY <1>1, MadeMore
<1>3. "position" \in Concern
  BY DEF Concern
<1>4. Runs("position", a, S, S) /\ Runs("position", b, T, T)
  BY <1>2, <1>3, IgnoredRuns
<1>5. /\ a \in Seq(ListedInstruction) /\ b \in Seq(ListedInstruction)
      /\ setupIxs \in Seq(ListedInstruction)
  BY <1>1, MadeListed, ListsListed
<1>6. Runs("position", (a \o setupIxs) \o b, S, T)
  BY <1>4, <1>5, RunsAround
<1> QED BY <1>1, <1>6

LEMMA StagesClosed ==
  /\ \A d, b, G : Closed("position", Idle(d, b, G))
  /\ \A p, ph, G : Closed("position", setupStage(p, ph, G))
  /\ \A p : Closed("position", betweenStage(p))
<1>1. \A d, b, G, F, ob, FF, FO : Closed("position", Standing(d, b, G, F, ob, FF, FO))
  BY StandingClosed
<1>2. \A d, b, G : Closed("position", Idle(d, b, G))
  BY <1>1 DEF Idle
<1>3. \A d, b, G, C : Closed("position", OthersFresh(d, b, G, C))
                      /\ Closed("position", AllFresh(d, b, G, C))
  BY <1>1 DEF OthersFresh, AllFresh
<1>4. \A d, b, G, C, x : Closed("position", Prepared(d, b, G, C, x))
  BY <1>1 DEF Prepared
<1>5. ASSUME NEW p, NEW ph, NEW G PROVE Closed("position", setupStage(p, ph, G))
  BY <1>2, <1>3, <1>4 DEF setupStage
<1>6. ASSUME NEW p PROVE Closed("position", betweenStage(p))
  BY <1>2, <1>3, <1>4 DEF betweenStage
<1> QED BY <1>2, <1>5, <1>6

LEMMA StandAppends ==
  ASSUME IInv, NEW S, NEW T, NEW U, NEW q \in Seq(ListedInstruction), NEW t,
         Runs("position", setupIxs, S, T), t = setupIxs \o q, Runs("position", q, T, U)
  PROVE  Runs("position", t, S, U)
<1>1. setupIxs \in Seq(ListedInstruction)
  BY ListsListed
<1> QED BY <1>1, RunsConcat

\* What each special step adds to the list of its pass.
LEMMA PassPushes ==
  ASSUME IInv, ShapeSound, Passing
  PROVE  /\ pc = "others" =>
              /\ PushSupport(RefreshReserves(allReservesExcludingCurrent))
              /\ RefreshReserves(allReservesExcludingCurrent) \in Seq(ListedInstruction)
         /\ pc = "current" =>
              \E skip \in BOOLEAN :
                /\ skip <=> supportAction = "repayAndWithdraw" /\ phase = "inBetween" /\ req.closing
                /\ PushSupport(RefreshReserves(currentReserves) \o RefreshObligation(skip))
                /\ RefreshReserves(currentReserves) \o RefreshObligation(skip)
                     \in Seq(ListedInstruction)
         /\ pc = "initFarms" /\ phase = "inBetween" => UNCHANGED <<setupIxs, inBetweenIxs>>
<1>1. pc = "others" => AddRefreshOtherReserves /\ pc' # "thrown"
  BY DEF Passing, Next, Initialize, AddComputeBudgetIxn, AddScopeRefreshIxs,
     AddInitUserMetadataIxs, AddInitReferrerTokenStateIxs, AddInitObligationIxs, AddAtaIxs,
     AddInitObligationForFarms, AddRefreshCurrent, AddRequestElevation, AddRefreshFarms,
     AddLendingIx, AddDepositIx, AddDepositReserveLiquidityIx, AddRedeemReserveCollateralIx,
     AddDepositObligationCollateralIx, AddWithdrawIx, AddBorrowIx, AddRepayIx, AddLiquidateIx,
     AddPlainIx, AddDebtIx, AddDepositAndBorrowIx, AddRepayAndWithdrawIxs, AddRefreshObligation,
     AddWithdrawReferrerFees, AddRefreshFarmsCleanupTxnIxsToCleanupIxs
<1>2. pc = "current" => AddRefreshCurrent
  BY DEF Passing, Next, Initialize, AddComputeBudgetIxn, AddScopeRefreshIxs,
     AddInitUserMetadataIxs, AddInitReferrerTokenStateIxs, AddInitObligationIxs, AddAtaIxs,
     AddInitObligationForFarms, AddRefreshOtherReserves, AddRequestElevation, AddRefreshFarms,
     AddLendingIx, AddDepositIx, AddDepositReserveLiquidityIx, AddRedeemReserveCollateralIx,
     AddDepositObligationCollateralIx, AddWithdrawIx, AddBorrowIx, AddRepayIx, AddLiquidateIx,
     AddPlainIx, AddDebtIx, AddDepositAndBorrowIx, AddRepayAndWithdrawIxs, AddRefreshObligation,
     AddWithdrawReferrerFees, AddRefreshFarmsCleanupTxnIxsToCleanupIxs
<1>3. pc = "initFarms" => AddInitObligationForFarms
  BY DEF Passing, Next, Initialize, AddComputeBudgetIxn, AddScopeRefreshIxs,
     AddInitUserMetadataIxs, AddInitReferrerTokenStateIxs, AddInitObligationIxs, AddAtaIxs,
     AddRefreshCurrent, AddRefreshOtherReserves, AddRequestElevation, AddRefreshFarms,
     AddLendingIx, AddDepositIx, AddDepositReserveLiquidityIx, AddRedeemReserveCollateralIx,
     AddDepositObligationCollateralIx, AddWithdrawIx, AddBorrowIx, AddRepayIx, AddLiquidateIx,
     AddPlainIx, AddDebtIx, AddDepositAndBorrowIx, AddRepayAndWithdrawIxs, AddRefreshObligation,
     AddWithdrawReferrerFees, AddRefreshFarmsCleanupTxnIxsToCleanupIxs
<1>4. /\ RefreshReserves(allReservesExcludingCurrent) \in Seq(ListedInstruction)
      /\ RefreshReserves(currentReserves) \in Seq(ListedInstruction)
  BY PassReserves, RefreshReservesMade, MadeListed
<1>5. \A skip \in BOOLEAN : RefreshObligation(skip) \in Seq(ListedInstruction)
  <2> SUFFICES ASSUME NEW skip \in BOOLEAN PROVE RefreshObligation(skip) \in Seq(ListedInstruction)
    OBVIOUS
  <2>1. 0 \in GroupId
    BY DEF GroupId
  <2>2. RefreshObligation(skip) \in Seq(Made({"refreshObligation"}))
    BY <2>1, PositionMade
  <2> QED BY <2>2, MadeListed
<1>6. \A skip \in BOOLEAN : RefreshReserves(currentReserves) \o RefreshObligation(skip)
                              \in Seq(ListedInstruction)
  BY <1>4, <1>5, Concatenated
<1>7. pc = "others" => PushSupport(RefreshReserves(allReservesExcludingCurrent))
  BY <1>1 DEF AddRefreshOtherReserves, Throw
<1>8. ASSUME pc = "current"
      PROVE  \E skip \in BOOLEAN :
               /\ skip <=> supportAction = "repayAndWithdraw" /\ phase = "inBetween" /\ req.closing
               /\ PushSupport(RefreshReserves(currentReserves) \o RefreshObligation(skip))
  <2>1. PICK skip \in BOOLEAN :
          skip = (supportAction = "repayAndWithdraw" /\ phase = "inBetween" /\ req.closing)
    OBVIOUS
  <2>2. PushSupport(RefreshReserves(currentReserves) \o RefreshObligation(skip))
    BY <1>2, <1>8, <2>1 DEF AddRefreshCurrent
  <2> QED BY <2>1, <2>2
<1>9. pc = "initFarms" /\ phase = "inBetween" => UNCHANGED <<setupIxs, inBetweenIxs>>
  <2>1. inBetweenIxs \o <<>> = inBetweenIxs
    BY ListsAreInstructions, NothingAdded
  <2> QED BY <1>3, <2>1, InitFarmsPushed DEF PushSupport
<1> QED BY <1>4, <1>6, <1>7, <1>8, <1>9

LEMMA GroupReady ==
  ASSUME IInv
  PROVE  /\ known.group \in readyGroups /\ known.group \in midGroups
         /\ known.group \in GroupId /\ GroupId \subseteq Nat
<1>1. known.group \in GroupId /\ GroupId \subseteq Nat
  BY GroupAssumption DEF IInv, StateSound, Chain, GroupId
<1>2. known.group > 0 \/ known.group = 0
  <2>1. known.group \in Nat
    BY <1>1
  <2> QED BY <2>1
<1>3. known.group \in readyGroups
  BY <1>1, <1>2 DEF readyGroups
<1>4. known.group \in midGroups
  BY <1>1 DEF midGroups
<1> QED BY <1>1, <1>3, <1>4

LEMMA NewGroup ==
  ASSUME IInv, Sensible, req.elevate, NEW g \in GroupId, isNewGroup(g), g = 0 => req.override = 0
  PROVE  g \notin {known.group}
<1>1. CASE known.obligation
  BY <1>1 DEF isNewGroup
<1>2. CASE ~known.obligation
  <2>1. known.group = 0
    BY <1>2 DEF Sensible, Compatible
  <2>2. g # 0
    BY <1>2 DEF Sensible, FlagsTruthful
  <2> QED BY <2>1, <2>2
<1> QED BY <1>1, <1>2

LEMMA FreshMore ==
  ASSUME NEW d, NEW b, NEW G, NEW H, NEW C, G \subseteq H
  PROVE  AllFresh(d, b, G, C) \subseteq AllFresh(d, b, H, C)
BY DEF AllFresh, Standing

LEMMA ElevationSetup ==
  ASSUME IInv, ShapeSound, GroupBuilt, ValuesBuilt, Underway, asksAccounts, Sensible,
         AddRequestElevation, pc' # "thrown", phase = "setup", NEW S, NEW C,
         C = touchedReserves(firstAsked),
         Runs("position", setupIxs, S, AllFresh(known.deposits, known.borrows, {known.group}, C))
  PROVE  Runs("position", setupIxs', S, AllFresh(known.deposits, known.borrows, readyGroups', C))
<1>1. pc = "elevation" /\ req.elevate
  BY DEF AddRequestElevation, GroupBuilt
<1>2. UNCHANGED <<req, known>>
  BY ElevationParts DEF loaded
<1>3. readyGroups' = IF req.action = "deposit" THEN GroupId
                     ELSE IF req.action = "borrow"
                     THEN IF known.group > 0 \/ potentialGroup' > 0 THEN GroupId ELSE {0}
                     ELSE {known.group}
  BY <1>2 DEF readyGroups
<1>4. known.group \in readyGroups'
  BY <1>3, GroupReady
<1>5. PICK d, b : d = known.deposits /\ b = known.borrows
  OBVIOUS
<1>6. CASE UNCHANGED setupIxs
  <2>1. PICK T, U : T = AllFresh(d, b, {known.group}, C) /\ U = AllFresh(d, b, readyGroups', C)
    OBVIOUS
  <2>2. {known.group} \subseteq readyGroups'
    BY <1>4
  <2>3. T \subseteq U
    BY <2>1, <2>2, FreshMore
  <2>4. Runs("position", setupIxs, S, T)
    BY <1>5, <2>1
  <2>5. Runs("position", setupIxs, S, U)
    BY <2>3, <2>4, RunsWeaken
  <2> QED BY <1>5, <1>6, <2>1, <2>5
<1>7. CASE ~twoToken /\ \E g \in GroupId :
             /\ isNewGroup(g) /\ PushSupport(SwitchGroup(g))
             /\ supportAction \in {"deposit", "borrow", "depositAndBorrow"}
             /\ supportAction = "borrow" => potentialGroup' = g
             /\ g = 0 => req.override = 0
  <2>1. PICK g \in GroupId :
             /\ isNewGroup(g) /\ PushSupport(SwitchGroup(g))
             /\ supportAction \in {"deposit", "borrow", "depositAndBorrow"}
             /\ supportAction = "borrow" => potentialGroup' = g
             /\ g = 0 => req.override = 0
    BY <1>7
  <2>2. g \notin {known.group}
    BY <1>1, <2>1, NewGroup
  <2>3. supportAction = req.action /\ req.action \in {"deposit", "borrow"}
    BY <1>7, <2>1 DEF supportAction, twoToken, TwoTokenAction
  <2>4. g \in Nat
    BY <2>1, GroupReady
  <2>5. g \in readyGroups'
    BY <1>3, <2>1, <2>3, <2>4
  <2>6. /\ currentReserves = C /\ AdditionalDepositReservesList = d
        /\ borrowReserves \ preLoadedBorrowReservesSameTx = b
        /\ (d \union b) \ C \subseteq allReservesExcludingCurrent
    BY <1>5, SetupValues
  <2>7. Runs("position", SwitchGroup(g), AllFresh(d, b, {known.group}, C), AllFresh(d, b, readyGroups', C))
    BY <2>1, <2>2, <2>5, <2>6, SwitchPushed
  <2>8. setupIxs' = setupIxs \o SwitchGroup(g)
    BY <2>1 DEF PushSupport
  <2>9. SwitchGroup(g) \in Seq(ListedInstruction)
    BY <2>1, SwitchMade, MadeListed
  <2> QED BY <1>5, <2>7, <2>8, <2>9, StandAppends
<1>8. CASE twoToken
  <2>1. supportAction \in {"deposit", "repay"}
    BY <1>8 DEF supportAction, twoToken, TwoTokenAction
  <2>2. UNCHANGED setupIxs
    BY <1>8, <2>1 DEF AddRequestElevation, RequestGroupOnRepay, RequestGroupOnBorrow,
       RequestGroupOnDeposit, NoGroupRequest
  <2> QED BY <1>6, <2>2
<1> QED BY <1>6, <1>7, <1>8, ElevationParts

LEMMA StandSetup ==
  ASSUME IInv, ShapeSound, GroupBuilt, ValuesBuilt, Passing, Underway, passes, asksAccounts,
         Sensible, NEW S, Closed("position", S),
         Runs("position", setupIxs, S, setupStage(pc, phase, readyGroups))
  PROVE  Runs("position", setupIxs', S, setupStage(pc', phase', readyGroups'))
<1> DEFINE d == known.deposits
           b == known.borrows
           C == touchedReserves(firstAsked)
<1>1. frontOps \subseteq Ignored("position")
  BY DEF frontOps, Ignored, IxOp, AtaOps, PositionOp
<1>2. phase \in {"setup", "inBetween"} /\ req.action \notin {"mint", "redeem"}
  BY DEF IInv, StateSound, asksAccounts
<1>3. \A p, ph, G : Closed("position", setupStage(p, ph, G))
  BY StagesClosed
<1>4. CASE pc \in {"budget", "scope", "metadata", "referrer", "initObligation", "ata", "initFarms", "lending"}
  <2>1. backOps \subseteq Ignored("position")
    BY <1>4 DEF backOps, Ignored, IxOp, PositionOp
  <2>2. setupStage(pc', phase', readyGroups') = setupStage(pc, phase, readyGroups)
    <3>1. readyGroups' = readyGroups
      BY <1>4, GroupsKept
    <3>2. phase = "inBetween" => pc \in {"ata", "initFarms"}
      BY <1>4 DEF ShapeSound
    <3>3. \/ pc \in {"budget", "scope", "metadata", "referrer", "initObligation", "ata"}
             /\ pc' \in {"scope", "metadata", "referrer", "initObligation", "ata", "others"}
             /\ phase' = phase
          \/ pc = "initFarms" /\ pc' = "current" /\ phase' = phase
          \/ pc = "lending" /\ (pc' = "splice" \/ phase' = "inBetween")
      BY <1>2, <1>4, PassingParts
    <3>4. CASE phase = "inBetween"
      <4>1. phase' = "inBetween"
        BY <3>2, <3>3, <3>4
      <4> QED BY <3>1, <3>4, <4>1 DEF setupStage
    <3>5. CASE phase = "setup" /\ pc # "lending"
      <4>1. phase' = "setup"
        BY <3>3, <3>5
      <4> QED BY <3>1, <3>3, <3>5, <4>1 DEF setupStage, beforeAta
    <3>6. CASE pc = "lending"
      BY <3>1, <3>3, <3>6 DEF setupStage, beforeAta
    <3> QED BY <1>2, <3>4, <3>5, <3>6
  <2>3. PICK T : T = setupStage(pc, phase, readyGroups)
    OBVIOUS
  <2>4. Runs("position", setupIxs', S, T)
    BY <1>1, <1>3, <2>1, <2>3, StandPassedBy
  <2> QED BY <2>2, <2>3, <2>4
<1>5. CASE phase = "inBetween" /\ pc \in {"others", "current", "elevation", "farms"}
  <2>1. phase' = "inBetween" /\ readyGroups' = readyGroups
    BY <1>5, PassingParts, GroupsKept
  <2>2. setupStage(pc', phase', readyGroups') = setupStage(pc, phase, readyGroups)
    BY <1>5, <2>1 DEF setupStage
  <2>3. UNCHANGED setupIxs
    <3>1. CASE pc \in {"others", "current"}
      BY <1>5, <3>1, PassPushes DEF PushSupport
    <3>2. CASE pc = "elevation"
      <4>1. AddRequestElevation /\ pc' # "thrown"
        BY <3>2, StepParts DEF Passing
      <4> QED BY <1>5, <4>1, ElevationParts DEF PushSupport
    <3>3. CASE pc = "farms"
      <4>1. AddRefreshFarms
        BY <3>3, StepParts DEF Passing
      <4> QED BY <1>5, <4>1 DEF AddRefreshFarms
    <3> QED BY <1>5, <3>1, <3>2, <3>3
  <2> QED BY <2>2, <2>3
<1>6. CASE phase = "setup" /\ pc \in {"others", "current", "elevation", "farms"}
  <2>1. /\ currentReserves = C /\ AdditionalDepositReservesList = d
        /\ borrowReserves \ preLoadedBorrowReservesSameTx = b
        /\ (d \union b) \ C = allReservesExcludingCurrent
    BY <1>6, SetupValues
  <2>2. phase' = "setup"
    BY <1>6, PassingParts
  <2>3. pc # "elevation" => readyGroups' = readyGroups
    BY GroupsKept
  <2>4. CASE pc = "others"
    <3>1. pc' = "initFarms"
      BY <2>4, PassingParts
    <3>2. setupStage(pc, phase, readyGroups) = Idle(d, b, {known.group})
          /\ setupStage(pc', phase', readyGroups') = OthersFresh(d, b, {known.group}, C)
      BY <1>6, <2>2, <2>4, <3>1 DEF setupStage, beforeAta
    <3>3. (d \union b) \ C \subseteq allReservesExcludingCurrent
      BY <2>1
    <3>4. Runs("position", RefreshReserves(allReservesExcludingCurrent), Idle(d, b, {known.group}),
               OthersFresh(d, b, {known.group}, C))
      BY <2>1, <3>3, OthersPushed
    <3>5. /\ setupIxs' = setupIxs \o RefreshReserves(allReservesExcludingCurrent)
          /\ RefreshReserves(allReservesExcludingCurrent) \in Seq(ListedInstruction)
      BY <1>6, <2>4, PassPushes DEF PushSupport
    <3> HIDE DEF C, d, b
    <3> QED BY <3>2, <3>4, <3>5, StandAppends
  <2>5. CASE pc = "current"
    <3>1. pc' \in {"elevation", "farms"}
      BY <2>5, PassingParts
    <3>2. setupStage(pc, phase, readyGroups) = OthersFresh(d, b, {known.group}, C)
      BY <1>6, <2>5 DEF setupStage, beforeAta
    <3>3. PICK G : setupStage(pc', phase', readyGroups') = AllFresh(d, b, G, C) /\ {known.group} \subseteq G
      <4>1. \/ setupStage(pc', phase', readyGroups') = AllFresh(d, b, {known.group}, C)
            \/ setupStage(pc', phase', readyGroups') = AllFresh(d, b, readyGroups, C)
        BY <2>2, <2>3, <2>5, <3>1 DEF setupStage, beforeAta
      <4> QED BY <4>1, GroupReady
    <3>4. PICK skip \in BOOLEAN :
             /\ skip <=> supportAction = "repayAndWithdraw" /\ phase = "inBetween" /\ req.closing
             /\ PushSupport(RefreshReserves(currentReserves) \o RefreshObligation(skip))
             /\ RefreshReserves(currentReserves) \o RefreshObligation(skip) \in Seq(ListedInstruction)
      BY <2>5, PassPushes
    <3>5. ~skip
      BY <1>6, <3>4
    <3>6. (IF skip THEN {} ELSE borrowReserves \ preLoadedBorrowReservesSameTx) = b
      BY <2>1, <3>5
    <3>7. Runs("position", RefreshReserves(currentReserves) \o RefreshObligation(skip),
               OthersFresh(d, b, {known.group}, C), AllFresh(d, b, {known.group}, C))
      BY <2>1, <3>6, CurrentPushed
    <3>8. AllFresh(d, b, {known.group}, C) \subseteq AllFresh(d, b, G, C)
      BY <3>3, FreshMore
    <3> HIDE DEF C, d, b
    <3>9. PICK O, P, Q, q : /\ O = OthersFresh(d, b, {known.group}, C)
                            /\ P = AllFresh(d, b, {known.group}, C) /\ Q = AllFresh(d, b, G, C)
                            /\ q = RefreshReserves(currentReserves) \o RefreshObligation(skip)
      OBVIOUS
    <3>10. Runs("position", q, O, Q)
      <4>1. Runs("position", q, O, P) /\ P \subseteq Q /\ O \subseteq O
        BY <3>7, <3>8, <3>9
      <4> QED BY <4>1, RunsWeaken
    <3>11. setupIxs' = setupIxs \o q /\ q \in Seq(ListedInstruction)
      BY <1>6, <3>4, <3>9 DEF PushSupport
    <3>12. Runs("position", setupIxs, S, O)
      BY <3>2, <3>9
    <3>13. Runs("position", setupIxs', S, Q)
      BY <3>10, <3>11, <3>12, StandAppends
    <3> QED BY <3>3, <3>9, <3>13
  <2>6. CASE pc = "elevation"
    <3>1. AddRequestElevation /\ pc' = "farms" /\ pc' # "thrown"
      BY <2>6, StepParts DEF Passing
    <3>2. setupStage(pc, phase, readyGroups) = AllFresh(d, b, {known.group}, C)
          /\ setupStage(pc', phase', readyGroups') = AllFresh(d, b, readyGroups', C)
      BY <1>6, <2>2, <2>6, <3>1 DEF setupStage, beforeAta
    <3> QED BY <1>6, <3>1, <3>2, ElevationSetup
  <2>7. CASE pc = "farms"
    <3>1. AddRefreshFarms /\ pc' = "lending"
      BY <1>6, <2>7, StepParts DEF Passing
    <3>2. setupStage(pc, phase, readyGroups) = AllFresh(d, b, readyGroups, C)
          /\ setupStage(pc', phase', readyGroups') = Prepared(d, b, readyGroups, C, firstAsked)
      BY <1>6, <2>2, <2>3, <2>7, <3>1 DEF setupStage, beforeAta
    <3>3. farmRefreshIxs = firstFarms
      BY <1>6 DEF farmRefreshIxs, firstFarms, supportAction, twoToken, TwoTokenAction
    <3>4. setupIxs' = setupIxs \o firstFarms
      BY <1>6, <3>1, <3>3 DEF AddRefreshFarms
    <3>5. firstFarms \in Seq(ListedInstruction)
      BY <3>3, FarmRefreshMade, MadeListed
    <3>6. Runs("position", firstFarms, AllFresh(d, b, readyGroups, C),
               Prepared(d, b, readyGroups, C, firstAsked))
      BY FirstFarmsRefreshed, FarmsPushed
    <3> QED BY <3>2, <3>4, <3>5, <3>6, StandAppends
  <2> QED BY <1>6, <2>4, <2>5, <2>6, <2>7
<1>7. pc \in {"budget", "scope", "metadata", "referrer", "initObligation", "ata", "initFarms", "lending",
              "others", "current", "elevation", "farms"}
  BY PassingParts
<1> QED BY <1>2, <1>4, <1>5, <1>6, <1>7

\* The list in between, from the first farm refresh of a call of two tokens.
LEMMA BetweenAppends ==
  ASSUME IInv, NEW S, NEW T, NEW U, NEW q \in Seq(ListedInstruction), NEW t,
         Runs("position", inBetweenIxs, S, T), t = inBetweenIxs \o q, Runs("position", q, T, U)
  PROVE  Runs("position", t, S, U)
<1>1. inBetweenIxs \in Seq(ListedInstruction)
  BY ListsListed
<1> QED BY <1>1, RunsConcat

LEMMA ElevationBetween ==
  ASSUME IInv, ShapeSound, GroupBuilt, ValuesBuilt, Underway, asksAccounts, Sensible,
         AddRequestElevation, pc' # "thrown", phase = "inBetween", NEW S,
         Runs("position", inBetweenIxs, S, AllFresh(heldOnce, owedOnce, {known.group}, bothReserves))
  PROVE  Runs("position", inBetweenIxs', S, AllFresh(heldOnce, owedOnce, midGroups, bothReserves))
<1>1. pc = "elevation" /\ req.elevate
  BY DEF AddRequestElevation, GroupBuilt
<1>2. PICK d, b, C, G : /\ d = heldOnce /\ b = owedOnce /\ C = bothReserves /\ G = midGroups
  OBVIOUS
<1>3. known.group \in G
  BY <1>2, GroupReady
<1>4. CASE UNCHANGED inBetweenIxs
  <2>1. PICK T, U : T = AllFresh(d, b, {known.group}, C) /\ U = AllFresh(d, b, G, C)
    OBVIOUS
  <2>2. {known.group} \subseteq G
    BY <1>3
  <2>3. T \subseteq U
    BY <2>1, <2>2, FreshMore
  <2>4. Runs("position", inBetweenIxs, S, T)
    BY <1>2, <2>1
  <2>5. Runs("position", inBetweenIxs, S, U)
    BY <2>3, <2>4, RunsWeaken
  <2> QED BY <1>2, <1>4, <2>1, <2>5
<1>5. CASE \E g \in GroupId :
             /\ isNewGroup(g) /\ PushSupport(SwitchGroup(g))
             /\ supportAction \in {"deposit", "borrow", "depositAndBorrow"}
             /\ g = 0 => req.override = 0
  <2>1. PICK g \in GroupId :
             /\ isNewGroup(g) /\ PushSupport(SwitchGroup(g))
             /\ supportAction \in {"deposit", "borrow", "depositAndBorrow"}
             /\ g = 0 => req.override = 0
    BY <1>5
  <2>2. g \notin {known.group}
    BY <1>1, <2>1, NewGroup
  <2>3. twoToken /\ supportAction = req.action
    BY BetweenValues
  <2>4. req.action = "depositAndBorrow"
    BY <2>1, <2>3 DEF twoToken, TwoTokenAction
  <2>5. g \in G
    BY <1>1, <1>2, <2>1, <2>4 DEF midGroups
  <2>6. /\ currentReserves = C /\ AdditionalDepositReservesList = d
        /\ borrowReserves \ preLoadedBorrowReservesSameTx = b
        /\ (d \union b) \ C \subseteq allReservesExcludingCurrent
    BY <1>1, <1>2, <2>4, BetweenValues
  <2>7. Runs("position", SwitchGroup(g), AllFresh(d, b, {known.group}, C), AllFresh(d, b, G, C))
    BY <2>1, <2>2, <2>5, <2>6, SwitchPushed
  <2>8. inBetweenIxs' = inBetweenIxs \o SwitchGroup(g)
    BY <2>1 DEF PushSupport
  <2>9. SwitchGroup(g) \in Seq(ListedInstruction)
    BY <2>1, SwitchMade, MadeListed
  <2> QED BY <1>2, <2>7, <2>8, <2>9, BetweenAppends
<1> QED BY <1>4, <1>5, ElevationParts

LEMMA StandBetween ==
  ASSUME IInv, ShapeSound, GroupBuilt, ValuesBuilt, FarmSound, Passing, Underway, passes, asksAccounts,
         Sensible, twoToken, NEW S, S = Moved(heldOnce, owedOnce, {known.group}, firstAsked),
         pc = "lending" \/ phase = "inBetween" => Runs("position", inBetweenIxs, S, betweenStage(pc)),
         pc' = "lending" \/ phase' = "inBetween"
  PROVE  Runs("position", inBetweenIxs', S, betweenStage(pc'))
<1> DEFINE d == heldOnce
           b == owedOnce
           C == bothReserves
<1>1. phase \in {"setup", "inBetween"} /\ req.action \notin {"mint", "redeem"}
  BY DEF IInv, StateSound, asksAccounts
<1>2. CASE phase = "setup" /\ pc = "farms"
  <2>1. AddRefreshFarms /\ pc' = "lending"
    BY <1>2, StepParts DEF Passing
  <2>2. inBetweenIxs = <<>>
    BY <1>2 DEF FarmSound
  <2>3. farmRefreshIxs = firstFarms
    BY <1>2 DEF farmRefreshIxs, firstFarms, supportAction, twoToken, TwoTokenAction
  <2>4. inBetweenIxs' = <<>> \o firstFarms
    BY <1>2, <2>1, <2>2, <2>3 DEF AddRefreshFarms
  <2>5. firstFarms \in Seq(ListedInstruction)
    BY <2>3, FarmRefreshMade, MadeListed
  <2>6. inBetweenIxs' = firstFarms
    BY <2>4, <2>5
  <2>7. Runs("position", firstFarms, S, Idle(d, b, {known.group}))
    BY FirstFarmsRefreshed, FarmsPushed
  <2>8. betweenStage(pc') = Idle(d, b, {known.group})
    BY <2>1 DEF betweenStage
  <2> QED BY <2>6, <2>7, <2>8
<1>3. CASE pc = "lending"
  <2>1. pc' = "ata" /\ phase = "setup"
    BY <1>3, PassingParts
  <2>2. AddLendingIx /\ ~AddRefreshObligation /\ ~AddWithdrawReferrerFees
    BY <1>3, StepParts DEF Passing
  <2>3. UNCHANGED inBetweenIxs
    BY <2>2, LendingGrows
  <2>4. betweenStage(pc') = betweenStage(pc)
    BY <1>3, <2>1 DEF betweenStage
  <2> QED BY <1>3, <2>3, <2>4
<1>4. CASE phase = "setup" /\ pc \notin {"farms", "lending"}
  BY <1>1, <1>4, PassingParts
<1>5. CASE phase = "inBetween"
  <2>1. /\ currentReserves = C /\ supportAction = req.action
        /\ (d \union b) \ C \subseteq allReservesExcludingCurrent
    BY <1>5, BetweenValues
  <2>2. Runs("position", inBetweenIxs, S, betweenStage(pc))
    BY <1>5
  <2>3. CASE pc = "ata"
    <3>1. AddAtaIxs /\ pc' = "others"
      BY <1>1, <2>3, StepParts DEF Passing
    <3>2. UNCHANGED inBetweenIxs
      BY <3>1 DEF AddAtaIxs
    <3>3. betweenStage(pc') = betweenStage(pc)
      BY <2>3, <3>1 DEF betweenStage
    <3> QED BY <2>2, <3>2, <3>3
  <2>4. CASE pc = "others"
    <3>1. pc' = "initFarms"
      BY <2>4, PassingParts
    <3>2. betweenStage(pc) = Idle(d, b, {known.group})
          /\ betweenStage(pc') = OthersFresh(d, b, {known.group}, C)
      BY <2>4, <3>1 DEF betweenStage
    <3>3. Runs("position", RefreshReserves(allReservesExcludingCurrent), Idle(d, b, {known.group}),
               OthersFresh(d, b, {known.group}, C))
      BY <2>1, OthersPushed
    <3>4. /\ inBetweenIxs' = inBetweenIxs \o RefreshReserves(allReservesExcludingCurrent)
          /\ RefreshReserves(allReservesExcludingCurrent) \in Seq(ListedInstruction)
      BY <1>5, <2>4, PassPushes DEF PushSupport
    <3>5. PICK q, O, P : /\ q = RefreshReserves(allReservesExcludingCurrent)
                         /\ O = Idle(d, b, {known.group}) /\ P = OthersFresh(d, b, {known.group}, C)
      OBVIOUS
    <3>6. /\ Runs("position", inBetweenIxs, S, O) /\ Runs("position", q, O, P)
          /\ inBetweenIxs' = inBetweenIxs \o q /\ q \in Seq(ListedInstruction)
      BY <2>2, <3>2, <3>3, <3>4, <3>5
    <3>7. Runs("position", inBetweenIxs', S, P)
      BY <3>6, BetweenAppends
    <3> QED BY <3>2, <3>5, <3>7
  <2>5. CASE pc = "initFarms"
    <3>1. pc' = "current"
      BY <2>5, PassingParts
    <3>2. betweenStage(pc') = betweenStage(pc)
      BY <2>5, <3>1 DEF betweenStage
    <3> QED BY <1>5, <2>2, <2>5, <3>2, PassPushes
  <2>6. CASE pc = "current"
    <3>1. pc' \in {"elevation", "farms"}
      BY <2>6, PassingParts
    <3>2. betweenStage(pc) = OthersFresh(d, b, {known.group}, C)
      BY <2>6 DEF betweenStage
    <3>3. PICK G : betweenStage(pc') = AllFresh(d, b, G, C) /\ {known.group} \subseteq G
      <4>1. \/ betweenStage(pc') = AllFresh(d, b, {known.group}, C)
            \/ betweenStage(pc') = AllFresh(d, b, midGroups, C)
        BY <3>1 DEF betweenStage
      <4> QED BY <4>1, GroupReady
    <3>4. PICK skip \in BOOLEAN :
             /\ skip <=> supportAction = "repayAndWithdraw" /\ phase = "inBetween" /\ req.closing
             /\ PushSupport(RefreshReserves(currentReserves) \o RefreshObligation(skip))
             /\ RefreshReserves(currentReserves) \o RefreshObligation(skip) \in Seq(ListedInstruction)
      BY <2>6, PassPushes
    <3>5. skip <=> req.action = "repayAndWithdraw" /\ req.closing
      BY <1>5, <2>1, <3>4
    <3>6. AdditionalDepositReservesList = d
          /\ (IF skip THEN {} ELSE borrowReserves \ preLoadedBorrowReservesSameTx) = b
      BY <1>5, <2>6, <3>5, BetweenValues
    <3>7. Runs("position", RefreshReserves(currentReserves) \o RefreshObligation(skip),
               OthersFresh(d, b, {known.group}, C), AllFresh(d, b, {known.group}, C))
      BY <2>1, <3>6, CurrentPushed
    <3>8. AllFresh(d, b, {known.group}, C) \subseteq AllFresh(d, b, G, C)
      BY <3>3, FreshMore
    <3> HIDE DEF C, d, b
    <3>9. PICK O, P, Q, q : /\ O = OthersFresh(d, b, {known.group}, C)
                            /\ P = AllFresh(d, b, {known.group}, C) /\ Q = AllFresh(d, b, G, C)
                            /\ q = RefreshReserves(currentReserves) \o RefreshObligation(skip)
      OBVIOUS
    <3>10. Runs("position", q, O, Q)
      <4>1. Runs("position", q, O, P) /\ P \subseteq Q /\ O \subseteq O
        BY <3>7, <3>8, <3>9
      <4> QED BY <4>1, RunsWeaken
    <3>11. inBetweenIxs' = inBetweenIxs \o q /\ q \in Seq(ListedInstruction)
      BY <1>5, <3>4, <3>9 DEF PushSupport
    <3>12. Runs("position", inBetweenIxs, S, O)
      BY <2>2, <3>2, <3>9
    <3>13. Runs("position", inBetweenIxs', S, Q)
      BY <3>10, <3>11, <3>12, BetweenAppends
    <3> QED BY <3>3, <3>9, <3>13
  <2>7. CASE pc = "elevation"
    <3>1. AddRequestElevation /\ pc' = "farms" /\ pc' # "thrown"
      BY <2>7, StepParts DEF Passing
    <3>2. betweenStage(pc) = AllFresh(d, b, {known.group}, C)
          /\ betweenStage(pc') = AllFresh(d, b, midGroups, C)
      BY <2>7, <3>1 DEF betweenStage
    <3> QED BY <1>5, <2>2, <3>1, <3>2, ElevationBetween
  <2>8. CASE pc = "farms"
    <3>1. AddRefreshFarms /\ pc' = "splice"
      BY <1>5, <2>8, StepParts DEF Passing
    <3>2. betweenStage(pc) = AllFresh(d, b, midGroups, C)
          /\ betweenStage(pc') = Prepared(d, b, midGroups, C, secondAsked)
      BY <2>8, <3>1 DEF betweenStage
    <3>3. farmRefreshIxs = secondFarms
      BY <1>5, <2>1 DEF farmRefreshIxs, secondFarms
    <3>4. inBetweenIxs' = inBetweenIxs \o secondFarms
      BY <1>5, <3>1, <3>3 DEF AddRefreshFarms
    <3>5. secondFarms \in Seq(ListedInstruction)
      BY <3>3, FarmRefreshMade, MadeListed
    <3>6. Runs("position", secondFarms, AllFresh(d, b, midGroups, C),
               Prepared(d, b, midGroups, C, secondAsked))
      BY SecondFarmsRefreshed, FarmsPushed
    <3> QED BY <2>2, <3>2, <3>4, <3>5, <3>6, BetweenAppends
  <2> QED BY <1>5, <2>3, <2>4, <2>5, <2>6, <2>7, <2>8, PassingParts
<1> QED BY <1>1, <1>2, <1>3, <1>4, <1>5

\* The cleanup: what follows the last lending instruction but the refresh of
\* its farms, which the splice puts first.
LEMMA LastClosed ==
  ASSUME NEW G
  PROVE  /\ Closed("position", lastIdle(G)) /\ lastIdle(G) \in SUBSET Machine
         /\ Closed("position", Rested) /\ Rested \in SUBSET Machine
         /\ lastIdle(G) \subseteq Rested
<1>1. \A d, b, H : /\ Closed("position", Idle(d, b, H)) /\ Idle(d, b, H) \in SUBSET Machine
                   /\ Idle(d, b, H) \subseteq Rested
  <2> SUFFICES ASSUME NEW d, NEW b, NEW H
               PROVE  /\ Closed("position", Idle(d, b, H)) /\ Idle(d, b, H) \in SUBSET Machine
                      /\ Idle(d, b, H) \subseteq Rested
    OBVIOUS
  <2>1. /\ Closed("position", Idle(d, b, H)) /\ Idle(d, b, H) \in SUBSET Machine
    BY StandingClosed DEF Idle
  <2>2. Idle(d, b, H) \subseteq Rested
    BY DEF Idle, Standing, Rested
  <2> QED BY <2>1, <2>2
<1>2. Closed("position", Rested) /\ Rested \in SUBSET Machine
  BY DEF Closed, Alike, Rested
<1> QED BY <1>1, <1>2 DEF lastIdle

LEMMA CleanupIgnored ==
  ASSUME IInv, NEW q \in Seq(Made({"closeAta"})), NEW S, Closed("position", S)
  PROVE  Runs("position", q, S, S)
<1>1. {"closeAta"} \subseteq Ignored("position") /\ "position" \in Concern
  BY DEF Ignored, IxOp, PositionOp, Concern
<1>2. q \in Seq(Made(Ignored("position")))
  BY <1>1, MadeMore
<1> QED BY <1>1, <1>2, IgnoredRuns

LEMMA LeavingRests ==
  ASSUME IInv, ShapeSound, ValuesBuilt, Underway, asksAccounts, Sensible, Leaves, phase = "setup",
         req.reserve \in known.borrows, NEW G, req.action = "repay" => G = {known.group}
  PROVE  Runs("position", leaving, lastIdle(G), Rested)
<1>1. /\ req.elevate /\ req.action \in {"repay", "repayAndWithdraw"}
      /\ req.level >= 1 /\ Cardinality(known.borrows) = 1 /\ known.group # 0
  BY DEF Leaves, Repays
<1>2. req.level = 3
  <2>1. req.level \in 0..3
    BY DEF IInv, StateSound, Request
  <2>2. req.level \notin 1..2
    BY <1>1 DEF Sensible, nearlyFull
  <2> QED BY <1>1, <2>1, <2>2
<1>3. known.borrows = {req.reserve}
  <2>1. known.borrows \subseteq Reserve /\ IsFiniteSet(Reserve)
    BY ReserveAssumption DEF IInv, StateSound, Chain
  <2>2. IsFiniteSet(known.borrows)
    BY <2>1, FS_Subset
  <2>3. \E r : known.borrows = {r}
    BY <1>1, <2>2, FS_Singleton
  <2> QED BY <2>3
<1>4. req.reserve \notin known.deposits
  BY <1>1 DEF Sensible, repaidIsDeposit
<1>5. lastIdle(G) = Idle(known.deposits, {}, {known.group})
  <2>1. firstAsked.op = "repay"
    BY <1>1 DEF firstAsked, Ix, firstOp
  <2>2. heldOnce = known.deposits /\ owedOnce = {}
    BY <1>2, <1>3, <2>1 DEF heldOnce, owedOnce, depositsAfter, borrowsAfter, closesDebt
  <2>3. CASE req.action = "repay"
    BY <2>2, <2>3 DEF lastIdle, twoToken, TwoTokenAction
  <2>4. CASE req.action = "repayAndWithdraw"
    <3>1. ~req.emptied
      BY <1>1, <2>4 DEF Sensible, emptiedBeforeGroupRequest
    <3>2. secondAsked.op = "withdraw"
      BY <2>4 DEF secondAsked, Ix, secondOp
    <3>3. heldTwice = known.deposits /\ owedTwice = {}
      BY <2>2, <3>1, <3>2 DEF heldTwice, owedTwice, depositsAfter, borrowsAfter, closesDeposit
    <3>4. midGroups = {known.group} /\ twoToken
      BY <2>4 DEF midGroups, twoToken, TwoTokenAction
    <3> QED BY <3>3, <3>4 DEF lastIdle
  <2> QED BY <1>1, <2>3, <2>4
<1>6. AdditionalDepositReservesList = known.deposits
      /\ known.deposits \subseteq allReservesExcludingCurrent
  <2>1. firstAsked.op = "repay" /\ firstAsked.res = req.reserve
    BY <1>1 DEF firstAsked, Ix, firstOp
  <2>2. touchedReserves(firstAsked) = {req.reserve}
    BY <2>1 DEF touchedReserves
  <2> QED BY <1>4, <2>2, SetupValues
<1>7. 0 \notin {known.group}
  BY <1>1
<1>8. PICK S, T : /\ S = Standing(known.deposits, {}, {known.group}, {}, FALSE, {}, {})
                  /\ T = Standing(known.deposits, {}, {0}, {}, FALSE, {}, {})
  OBVIOUS
<1>9. Runs("position", leaving, S, T)
  BY <1>6, <1>7, <1>8, LeavingStands
<1>10. T \subseteq Rested /\ S = lastIdle(G) /\ S \subseteq S
  BY <1>5, <1>8 DEF Standing, Rested, Idle
<1>11. Runs("position", leaving, S, Rested)
  BY <1>9, <1>10, RunsWeaken
<1> QED BY <1>10, <1>11

LEMMA StandCleanup ==
  ASSUME IInv, ShapeSound, GroupBuilt, ValuesBuilt, Passing, Underway, passes, asksAccounts, Sensible,
         beforeLeaving(pc, phase) => cleanupIxs \in Seq(Made({"closeAta"})),
         ~beforeLeaving(pc, phase) => Runs("position", cleanupIxs, lastIdle(readyGroups), Rested)
  PROVE  /\ beforeLeaving(pc', phase') => cleanupIxs' \in Seq(Made({"closeAta"}))
         /\ ~beforeLeaving(pc', phase') => Runs("position", cleanupIxs', lastIdle(readyGroups'), Rested)
<1>1. PICK G : G = readyGroups'
  OBVIOUS
<1>2. phase \in {"setup", "inBetween"} /\ req.action \notin {"mint", "redeem"}
  BY DEF IInv, StateSound, asksAccounts
<1>3. cleanupIxs \in Seq(ListedInstruction)
  BY ListsListed
<1>4. CASE ~beforeLeaving(pc, phase)
  <2>1. phase = "inBetween" \/ pc # "elevation"
    BY <1>2, <1>4 DEF beforeLeaving
  <2>2. readyGroups' = readyGroups
    BY <2>1, GroupsKept
  <2>3. ~beforeLeaving(pc', phase')
    BY <1>2, <1>4, PassingParts DEF beforeLeaving, beforeAta
  <2>4. \E c \in Seq(Made({"closeAta"})) : cleanupIxs' = cleanupIxs \o c
    <3>1. cleanupIxs \o <<>> = cleanupIxs /\ \A X : <<>> \in Seq(X)
      BY ListsAreInstructions, NothingAdded
    <3>2. CASE pc = "elevation"
      <4>1. AddRequestElevation /\ pc' # "thrown"
        BY <3>2, StepParts DEF Passing
      <4>2. UNCHANGED cleanupIxs
        BY <2>1, <3>2, <4>1, ElevationParts
      <4> QED BY <3>1, <4>2
    <3>3. CASE pc # "elevation"
      <4>1. PICK c \in Seq(Made(closeOps)) : cleanupIxs' = cleanupIxs \o c
        BY PassingGrows, Zenon DEF Growth
      <4>2. closeOps \subseteq {"closeAta"}
        BY <3>3 DEF closeOps
      <4>3. c \in Seq(Made({"closeAta"}))
        BY <4>1, <4>2, MadeMore
      <4> QED BY <4>1, <4>3
    <3> QED BY <3>2, <3>3
  <2>5. PICK c \in Seq(Made({"closeAta"})) : cleanupIxs' = cleanupIxs \o c
    BY <2>4
  <2>6. Runs("position", c, Rested, Rested) /\ c \in Seq(ListedInstruction)
    BY <2>5, CleanupIgnored, LastClosed, MadeListed
  <2>7. Runs("position", cleanupIxs, lastIdle(G), Rested)
    BY <1>1, <1>4, <2>2
  <2>8. Runs("position", cleanupIxs \o c, lastIdle(G), Rested)
    BY <1>3, <2>6, <2>7, RunsConcat
  <2> QED BY <1>1, <2>3, <2>5, <2>8
<1>5. CASE beforeLeaving(pc, phase) /\ pc # "elevation"
  <2>1. PICK c \in Seq(Made(closeOps)) : cleanupIxs' = cleanupIxs \o c
    BY PassingGrows, Zenon DEF Growth
  <2>2. closeOps \subseteq {"closeAta"}
    BY <1>5 DEF closeOps
  <2>3. c \in Seq(Made({"closeAta"})) /\ cleanupIxs \in Seq(Made({"closeAta"}))
    BY <1>5, <2>1, <2>2, MadeMore
  <2>4. cleanupIxs' \in Seq(Made({"closeAta"}))
    <3>1. PICK M : M = Made({"closeAta"})
      OBVIOUS
    <3>2. cleanupIxs \o c \in Seq(M)
      BY <2>3, <3>1, Concatenated
    <3> QED BY <2>1, <3>1, <3>2
  <2>5. Runs("position", cleanupIxs', lastIdle(G), Rested)
    <3>1. PICK S, q : S = lastIdle(G) /\ q = cleanupIxs'
      OBVIOUS
    <3>2. Runs("position", q, S, S) /\ S \subseteq Rested /\ S \subseteq S
      BY <2>4, <3>1, CleanupIgnored, LastClosed
    <3>3. Runs("position", q, S, Rested)
      BY <3>2, RunsWeaken
    <3> QED BY <3>1, <3>3
  <2> QED BY <1>1, <2>4, <2>5
<1>6. CASE beforeLeaving(pc, phase) /\ pc = "elevation"
  <2>1. AddRequestElevation /\ pc' = "farms" /\ pc' # "thrown" /\ phase = "setup" /\ phase' = phase
    BY <1>6, StepParts DEF Passing, beforeLeaving
  <2>2. ~beforeLeaving(pc', phase')
    BY <2>1 DEF beforeLeaving, beforeAta
  <2>3. cleanupIxs \in Seq(Made({"closeAta"}))
    BY <1>6
  <2>4. Runs("position", cleanupIxs, lastIdle(G), lastIdle(G)) /\ lastIdle(G) \subseteq Rested
    BY <2>3, CleanupIgnored, LastClosed
  <2>5. CASE UNCHANGED cleanupIxs
    <3>1. PICK S : S = lastIdle(G)
      OBVIOUS
    <3>2. Runs("position", cleanupIxs, S, S) /\ S \subseteq Rested /\ S \subseteq S
      BY <2>4, <3>1
    <3>3. Runs("position", cleanupIxs, S, Rested)
      BY <3>2, RunsWeaken
    <3> QED BY <1>1, <2>2, <2>5, <3>1, <3>3
  <2>6. CASE /\ cleanupIxs' = cleanupIxs \o leaving
             /\ Leaves /\ phase = "setup" /\ req.reserve \in known.borrows
    <3>1. req.action = "repay" => G = {known.group}
      <4>1. UNCHANGED <<req, known>>
        BY StepParts DEF Passing
      <4> QED BY <1>1, <4>1 DEF readyGroups
    <3>2. Runs("position", leaving, lastIdle(G), Rested)
      BY <2>6, <3>1, LeavingRests
    <3>3. leaving \in Seq(ListedInstruction)
      BY LeavingMade, MadeListed
    <3>4. PICK S : S = lastIdle(G)
      OBVIOUS
    <3>5. Runs("position", cleanupIxs, S, S) /\ Runs("position", leaving, S, Rested)
      BY <2>4, <3>2, <3>4
    <3>6. Runs("position", cleanupIxs \o leaving, S, Rested)
      BY <1>3, <3>3, <3>5, RunsConcat
    <3> QED BY <1>1, <2>2, <2>6, <3>4, <3>6
  <2> QED BY <2>1, <2>5, <2>6, ElevationParts
<1> QED BY <1>4, <1>5, <1>6

LEMMA StandStep ==
  ASSUME IInv, ShapeSound, GroupBuilt, ValuesBuilt, FarmSound, StandBuilt, Next, ~Initialize
  PROVE  StandBuilt'
<1> SUFFICES ASSUME Underway', asksAccounts, Sensible PROVE StandBuilt'
  <2>1. asksAccounts' = asksAccounts
    BY StepKeeps DEF asksAccounts, loaded
  <2>2. UNCHANGED <<req, known>>
    BY StepKeeps DEF loaded
  <2>3. Sensible' <=> Sensible
    BY <2>2, SensibleSame
  <2> QED BY <2>1, <2>3 DEF StandBuilt
<1>1. /\ pc \notin {"initialize", "thrown", "built"} /\ UNCHANGED <<req, referrer, known, positions>>
      /\ pc' # "thrown"
  BY StepParts DEF Underway
<1>2. passes /\ Underway
  BY <1>1 DEF Underway, passes
<1>3. StandPlan(pc, phase, readyGroups, setupIxs, inBetweenIxs, cleanupIxs)
  BY <1>2 DEF StandBuilt
<1>4. ~AddRefreshObligation /\ ~AddWithdrawReferrerFees
  BY <1>2 DEF passes, AddRefreshObligation, AddWithdrawReferrerFees
<1>5. PICK S, V : /\ S = Idle(known.deposits, known.borrows, {known.group})
                  /\ V = Moved(heldOnce, owedOnce, {known.group}, firstAsked)
  OBVIOUS
<1>6. CASE AddRefreshFarmsCleanupTxnIxsToCleanupIxs
  <2>1. /\ pc = "splice" /\ pc' = "built" /\ UNCHANGED <<phase, potentialGroup>>
        /\ cleanupIxs' = refreshFarmsCleanupTxnIxs \o cleanupIxs
        /\ UNCHANGED <<setupIxs, inBetweenIxs, refreshFarmsCleanupTxnIxs>>
    BY <1>6 DEF AddRefreshFarmsCleanupTxnIxsToCleanupIxs, splicedCleanup
  <2>2. readyGroups' = readyGroups
    BY <1>1, <2>1 DEF readyGroups
  <2>3. setupStage(pc', phase', readyGroups') = setupStage(pc, phase, readyGroups)
        /\ betweenStage(pc') = betweenStage(pc)
    BY <2>1, <2>2 DEF setupStage, betweenStage, beforeAta
  <2>4. ~beforeLeaving(pc, phase) /\ ~beforeLeaving(pc', phase')
    BY <2>1 DEF beforeLeaving, beforeAta
  <2>5. Runs("position", cleanupIxs, lastIdle(readyGroups), Rested)
    BY <1>3, <2>1, <2>4 DEF StandPlan
  <2>6. refreshFarmsCleanupTxnIxs = lastFarms
    BY <2>1 DEF FarmSound, asksAccounts, Staked
  <2>7. Runs("position", lastFarms, lastMoved(readyGroups), lastIdle(readyGroups))
    <3>1. CASE twoToken
      <4>1. FarmsRefreshed(secondFarms, secondAsked)
        BY <3>1, SecondFarmsRefreshed
      <4>2. Runs("position", secondFarms, Moved(heldTwice, owedTwice, midGroups, secondAsked),
                 Idle(heldTwice, owedTwice, midGroups))
        BY <4>1, FarmsPushed
      <4> QED BY <3>1, <4>2 DEF lastFarms, lastMoved, lastIdle
    <3>2. CASE ~twoToken
      <4>1. FarmsRefreshed(firstFarms, firstAsked)
        BY FirstFarmsRefreshed
      <4>2. Runs("position", firstFarms, Moved(heldOnce, owedOnce, readyGroups, firstAsked),
                 Idle(heldOnce, owedOnce, readyGroups))
        BY <4>1, FarmsPushed
      <4> QED BY <3>2, <4>2 DEF lastFarms, lastMoved, lastIdle
    <3> QED BY <3>1, <3>2
  <2>8. PICK P, Q : P = lastMoved(readyGroups) /\ Q = lastIdle(readyGroups)
    OBVIOUS
  <2>9. /\ Runs("position", refreshFarmsCleanupTxnIxs, P, Q) /\ Runs("position", cleanupIxs, Q, Rested)
        /\ refreshFarmsCleanupTxnIxs \in Seq(ListedInstruction) /\ cleanupIxs \in Seq(ListedInstruction)
    BY <2>5, <2>6, <2>7, <2>8, ListsListed
  <2>10. Runs("position", refreshFarmsCleanupTxnIxs \o cleanupIxs, P, Rested)
    BY <2>9, RunsConcat
  <2>11. Runs("position", cleanupIxs', lastMoved(readyGroups'), Rested)
    BY <2>1, <2>2, <2>8, <2>10
  <2>12. /\ Runs("position", setupIxs', S, setupStage(pc', phase', readyGroups'))
         /\ twoToken /\ (pc' = "lending" \/ phase' = "inBetween") =>
              Runs("position", inBetweenIxs', V, betweenStage(pc'))
    BY <1>3, <1>5, <2>1, <2>3 DEF StandPlan
  <2>13. StandPlan(pc', phase', readyGroups', setupIxs', inBetweenIxs', cleanupIxs')
    BY <1>5, <2>1, <2>4, <2>11, <2>12 DEF StandPlan
  <2> QED BY <1>1, <2>13, StandPrimed
<1>7. CASE ~AddRefreshFarmsCleanupTxnIxsToCleanupIxs
  <2>1. Passing
    BY <1>1, <1>4, <1>7 DEF Passing
  <2>2. /\ Runs("position", setupIxs, S, setupStage(pc, phase, readyGroups))
        /\ twoToken /\ (pc = "lending" \/ phase = "inBetween") =>
             Runs("position", inBetweenIxs, V, betweenStage(pc))
        /\ beforeLeaving(pc, phase) => cleanupIxs \in Seq(Made({"closeAta"}))
        /\ ~beforeLeaving(pc, phase) => Runs("position", cleanupIxs, lastIdle(readyGroups), Rested)
    BY <1>1, <1>3, <1>5 DEF StandPlan
  <2>3. Closed("position", S)
    BY <1>5, StagesClosed
  <2>4. Runs("position", setupIxs', S, setupStage(pc', phase', readyGroups'))
    BY <1>2, <2>1, <2>2, <2>3, StandSetup
  <2>5. twoToken /\ (pc' = "lending" \/ phase' = "inBetween") =>
          Runs("position", inBetweenIxs', V, betweenStage(pc'))
    <3> SUFFICES ASSUME twoToken, pc' = "lending" \/ phase' = "inBetween"
                 PROVE  Runs("position", inBetweenIxs', V, betweenStage(pc'))
      OBVIOUS
    <3> QED BY <1>2, <1>5, <2>1, <2>2, StandBetween
  <2>6. /\ beforeLeaving(pc', phase') => cleanupIxs' \in Seq(Made({"closeAta"}))
        /\ ~beforeLeaving(pc', phase') => Runs("position", cleanupIxs', lastIdle(readyGroups'), Rested)
    BY <1>2, <2>1, <2>2, StandCleanup
  <2>7. pc' # "built"
    BY <1>2, <2>1, PassingParts
  <2>8. StandPlan(pc', phase', readyGroups', setupIxs', inBetweenIxs', cleanupIxs')
    BY <1>5, <2>4, <2>5, <2>6, <2>7 DEF StandPlan
  <2> QED BY <1>1, <2>8, StandPrimed
<1> QED BY <1>6, <1>7

-----------------------------------------------------------------------------
(***************************************************************************)
(* The lending instructions: the positions they list, and what each needs  *)
(* and leaves.                                                             *)
(***************************************************************************)
LentDeps(q, G) ==
  /\ firstOp \in {"borrow", "repay", "liquidate"} => q[1].deps = known.deposits \/ G \subseteq {0}
  /\ req.action = "depositAndBorrow" => q[2].deps = passDeposits

DepsBuilt ==
  Underway /\ asksAccounts /\ Sensible /\ Lent => LentDeps(lendingIxs, readyGroups)

LEMMA DepsPrimed ==
  ASSUME UNCHANGED <<req, known>>,
         Underway' /\ asksAccounts /\ Sensible /\ Lent' => LentDeps(lendingIxs', readyGroups')
  PROVE  DepsBuilt'
<1>1. Sensible' <=> Sensible
  BY SensibleSame
<1>2. firstOp' = firstOp /\ passDeposits' = passDeposits
  BY DEF firstOp, passDeposits
<1> QED BY <1>1, <1>2 DEF DepsBuilt, LentDeps, asksAccounts

LEMMA DebtDeps ==
  ASSUME IInv, ShapeSound, ValuesBuilt, NEW inGroup, inGroup \in BOOLEAN, NEW action,
         AddDebtIx(action, inGroup), phase = "setup", pc' # "thrown",
         req.action # "withdrawReferrerFees"
  PROVE  /\ inGroup => lendingIxs'[1].deps = known.deposits
         /\ action = req.action
<1>1. pc = "lending" /\ action = req.action
  BY DEF AddDebtIx
<1>2. AdditionalDepositReservesList = known.deposits
  BY <1>1 DEF ValuesBuilt, AdditionalDepositReservesList
<1>3. lendingIxs = <<>>
  BY <1>1 DEF ShapeSound, Lent
<1>4. lendingIxs' = Append(lendingIxs, Ix(action, req.reserve,
                       IF inGroup THEN AdditionalDepositReservesList ELSE {}))
  BY DEF AddDebtIx, Throw
<1>5. lendingIxs'[1] = Ix(action, req.reserve, IF inGroup THEN AdditionalDepositReservesList ELSE {})
  BY <1>3, <1>4
<1> QED BY <1>1, <1>2, <1>5 DEF Ix

LEMMA DepsLending ==
  ASSUME IInv, ShapeSound, GroupBuilt, ValuesBuilt, AddLendingIx, Next, ~Initialize, pc' # "thrown",
         passes
  PROVE  LentDeps(lendingIxs', readyGroups')
<1>1. pc = "lending" /\ phase = "setup" /\ UNCHANGED <<req, known>>
  BY StepParts DEF AddLendingIx, AddDepositIx, AddDepositReserveLiquidityIx,
         AddRedeemReserveCollateralIx, AddDepositObligationCollateralIx, AddWithdrawIx,
         AddBorrowIx, AddRepayIx, AddLiquidateIx, AddPlainIx, AddDebtIx, AddDepositAndBorrowIx,
         AddRepayAndWithdrawIxs, AddRefreshObligation, AddWithdrawReferrerFees
<1>2. potentialGroup' = potentialGroup
  BY DEF AddLendingIx, AddDepositIx, AddDepositReserveLiquidityIx,
         AddRedeemReserveCollateralIx, AddDepositObligationCollateralIx, AddWithdrawIx,
         AddBorrowIx, AddRepayIx, AddLiquidateIx, AddPlainIx, AddDebtIx, AddDepositAndBorrowIx,
         AddRepayAndWithdrawIxs, AddRefreshObligation, AddWithdrawReferrerFees, OnlyLending
<1>3. readyGroups' = readyGroups
  BY <1>1, <1>2 DEF readyGroups
<1>4. lendingIxs = <<>> /\ req.action # "withdrawReferrerFees"
      /\ known.group \in Nat
  <2>1. known.group \in GroupId /\ GroupId \subseteq Nat
    BY GroupReady
  <2> QED BY <1>1, <2>1 DEF ShapeSound, Lent, passes
<1>5. AdditionalDepositReservesList = known.deposits /\ depositReserves = known.deposits
  BY <1>1, <1>4 DEF ValuesBuilt, AdditionalDepositReservesList
<1>6. CASE AddBorrowIx
  <2>1. (known.group > 0 \/ potentialGroup > 0) \in BOOLEAN
    OBVIOUS
  <2>2. /\ known.group > 0 \/ potentialGroup > 0 => lendingIxs'[1].deps = known.deposits
        /\ req.action = "borrow"
    BY <1>1, <1>4, <1>6, <2>1, DebtDeps DEF AddBorrowIx
  <2>3. firstOp = "borrow"
    BY <2>2 DEF firstOp
  <2>4. ~(known.group > 0 \/ potentialGroup > 0) => readyGroups \subseteq {0}
    BY <2>2 DEF readyGroups
  <2> QED BY <1>3, <2>2, <2>3, <2>4 DEF LentDeps
<1>7. CASE AddRepayIx \/ AddLiquidateIx
  <2>1. PICK action \in {"repay", "liquidate"} : AddDebtIx(action, known.group > 0)
    BY <1>7 DEF AddRepayIx, AddLiquidateIx
  <2>2. (known.group > 0) \in BOOLEAN
    OBVIOUS
  <2>3. /\ known.group > 0 => lendingIxs'[1].deps = known.deposits
        /\ req.action = action
    BY <1>1, <1>4, <2>1, <2>2, DebtDeps
  <2>4. readyGroups = {known.group}
    BY <2>1, <2>3 DEF readyGroups
  <2>5. ~(known.group > 0) => readyGroups \subseteq {0}
    BY <1>4, <2>4
  <2> QED BY <1>3, <2>1, <2>3, <2>5 DEF LentDeps
<1>8. CASE AddDepositAndBorrowIx
  <2>1. /\ req.action = "depositAndBorrow"
        /\ depositReserves' = IF AdditionalDepositReservesList = {} THEN {req.reserve}
                              ELSE AdditionalDepositReservesList
        /\ lendingIxs' = lendingIxs \o <<Ix("deposit", req.reserve, {}),
                                         Ix("borrow", req.outflow, depositReserves')>>
    BY <1>8 DEF AddDepositAndBorrowIx
  <2>2. depositReserves' = passDeposits
    BY <1>5, <2>1 DEF passDeposits
  <2>3. lendingIxs'[2] = Ix("borrow", req.outflow, depositReserves')
    BY <1>4, <2>1
  <2>4. firstOp = "deposit"
    BY <2>1 DEF firstOp
  <2>5. lendingIxs'[2].deps = passDeposits
    BY <2>2, <2>3 DEF Ix
  <2> QED BY <2>4, <2>5 DEF LentDeps
<1>9. CASE AddRepayAndWithdrawIxs
  <2>1. /\ req.action = "repayAndWithdraw"
        /\ lendingIxs' = lendingIxs \o <<Ix("repay", req.reserve, AdditionalDepositReservesList),
                                         Ix("withdraw", req.outflow, {})>>
    BY <1>9 DEF AddRepayAndWithdrawIxs
  <2>2. lendingIxs'[1] = Ix("repay", req.reserve, AdditionalDepositReservesList)
    BY <1>4, <2>1
  <2> QED BY <1>5, <2>1, <2>2 DEF LentDeps, Ix
<1>10. CASE AddDepositIx \/ AddDepositReserveLiquidityIx \/ AddRedeemReserveCollateralIx
            \/ AddDepositObligationCollateralIx \/ AddWithdrawIx
  <2>1. req.action \in {"deposit", "mint", "redeem", "depositCollateral", "withdraw"}
    BY <1>10 DEF AddDepositIx, AddDepositReserveLiquidityIx, AddRedeemReserveCollateralIx,
       AddDepositObligationCollateralIx, AddWithdrawIx, AddPlainIx
  <2> QED BY <2>1 DEF LentDeps, firstOp
<1>11. ~AddRefreshObligation /\ ~AddWithdrawReferrerFees
  BY DEF passes, AddRefreshObligation, AddWithdrawReferrerFees
<1> QED BY <1>6, <1>7, <1>8, <1>9, <1>10, <1>11 DEF AddLendingIx

\* The account list of the borrow or the repay names the deposits whenever
\* the obligation may be in a group by the time the program runs it.
LEMMA DepsStep ==
  ASSUME IInv, ShapeSound, GroupBuilt, ValuesBuilt, DepsBuilt, Next, ~Initialize
  PROVE  DepsBuilt'
<1> SUFFICES ASSUME Underway', asksAccounts, Sensible, Lent', pc' # "thrown" PROVE DepsBuilt'
  <2>1. asksAccounts' = asksAccounts
    BY StepKeeps DEF asksAccounts, loaded
  <2>2. UNCHANGED <<req, known>>
    BY StepKeeps DEF loaded
  <2>3. Sensible' <=> Sensible
    BY <2>2, SensibleSame
  <2> QED BY <2>1, <2>3 DEF DepsBuilt, Underway
<1>1. /\ pc \notin {"initialize", "thrown", "built"} /\ UNCHANGED <<req, referrer, known, positions>>
  BY StepParts
<1>2. passes /\ Underway
  BY <1>1 DEF Underway, passes
<1>3. ~AddRefreshObligation /\ ~AddWithdrawReferrerFees
  BY <1>2 DEF passes, AddRefreshObligation, AddWithdrawReferrerFees
<1>4. CASE AddLendingIx
  BY <1>1, <1>2, <1>4, DepsLending, DepsPrimed
<1>5. CASE ~AddLendingIx
  <2>1. Lent
    BY <1>1, <1>3, <1>5, StepParts DEF Lent
  <2>2. lendingIxs' = lendingIxs
    <3>1. CASE AddComputeBudgetIxn \/ AddScopeRefreshIxs \/ AddInitUserMetadataIxs
               \/ AddInitReferrerTokenStateIxs \/ AddInitObligationIxs \/ AddAtaIxs
      BY <3>1 DEF AddComputeBudgetIxn, AddScopeRefreshIxs, AddInitUserMetadataIxs,
         AddInitReferrerTokenStateIxs, AddInitObligationIxs, AddAtaIxs, OnlySetup
    <3>2. CASE AddRefreshOtherReserves \/ AddInitObligationForFarms \/ AddRefreshCurrent
               \/ AddRefreshFarms \/ AddRequestElevation
      BY <3>2 DEF AddRefreshOtherReserves, AddInitObligationForFarms, AddRefreshCurrent,
         AddRefreshFarms, OnlySupport, AddRequestElevation, OnlyElevation
    <3>3. CASE AddRefreshFarmsCleanupTxnIxsToCleanupIxs
      BY <3>3 DEF AddRefreshFarmsCleanupTxnIxsToCleanupIxs
    <3> QED BY <1>5, <3>1, <3>2, <3>3, StepParts
  <2>3. readyGroups' = readyGroups
    <3>1. CASE AddRefreshFarmsCleanupTxnIxsToCleanupIxs
      <4>1. potentialGroup' = potentialGroup
        BY <3>1 DEF AddRefreshFarmsCleanupTxnIxsToCleanupIxs
      <4> QED BY <1>1, <4>1 DEF readyGroups
    <3>2. CASE ~AddRefreshFarmsCleanupTxnIxsToCleanupIxs
      <4>1. Passing
        BY <1>1, <1>3, <3>2 DEF Passing
      <4>2. pc # "elevation" \/ phase = "inBetween"
        BY <2>1 DEF Lent
      <4> QED BY <4>1, <4>2, GroupsKept
    <3> QED BY <3>1, <3>2
  <2>4. LentDeps(lendingIxs, readyGroups)
    BY <1>2, <2>1 DEF DepsBuilt
  <2> QED BY <1>1, <2>2, <2>3, <2>4, DepsPrimed
<1> QED BY <1>4, <1>5

-----------------------------------------------------------------------------
LEMMA AskedAlike ==
  ASSUME NEW x, NEW y, x.op = y.op, x.res = y.res, NEW S
  PROVE  /\ touchedFarms(x) = touchedFarms(y) /\ touchedReserves(x) = touchedReserves(y)
         /\ depositsAfter(x, S) = depositsAfter(y, S) /\ borrowsAfter(x, S) = borrowsAfter(y, S)
<1>1. touchedFarms(x) = touchedFarms(y) /\ touchedReserves(x) = touchedReserves(y)
  BY DEF touchedFarms, touchedReserves
<1>2. depositsAfter(x, S) = depositsAfter(y, S) /\ borrowsAfter(x, S) = borrowsAfter(y, S)
  BY DEF depositsAfter, borrowsAfter
<1> QED BY <1>1, <1>2

LEMMA FirstFits ==
  ASSUME IInv, ShapeSound, Lent, req.action \notin ObligationOnly
  PROVE  /\ lendingIxs[1] \in ListedInstruction
         /\ lendingIxs[1].op = firstOp /\ lendingIxs[1].res = req.reserve
         /\ asksAccounts => firstOp \in PositionOp
<1>1. lendingIxs \in Seq(ListedInstruction)
  BY ListsListed
<1>2. MadeAsAsked
  BY DEF ShapeSound
<1>3. Len(lendingIxs) >= 1
  BY <1>2 DEF MadeAsAsked
<1>4. lendingIxs[1] \in ListedInstruction
  BY <1>1, <1>3, ElementOfSeq
<1>5. req.action \in ActionType
  BY DEF IInv, StateSound, TypeOK, Request
<1>6. asksAccounts => firstOp \in PositionOp
  BY <1>5 DEF asksAccounts, firstOp, PositionOp, ActionType, TwoTokenAction, ObligationOnly
<1> QED BY <1>2, <1>4, <1>6 DEF MadeAsAsked

LEMMA SecondFits ==
  ASSUME IInv, ShapeSound, Lent, twoToken
  PROVE  /\ lendingIxs[2] \in ListedInstruction
         /\ lendingIxs[2].op = secondOp /\ lendingIxs[2].res = req.outflow
         /\ secondOp \in {"borrow", "withdraw"}
<1>1. lendingIxs \in Seq(ListedInstruction)
  BY ListsListed
<1>2. MadeAsAsked
  BY DEF ShapeSound
<1>3. Len(lendingIxs) = 2
  BY <1>2 DEF MadeAsAsked
<1>4. lendingIxs[2] \in ListedInstruction
  BY <1>1, <1>3, ElementOfSeq
<1> QED BY <1>2, <1>4 DEF MadeAsAsked, secondOp

LEMMA FirstHeld ==
  ASSUME IInv, asksAccounts, Sensible, NEW x, x.op = firstOp, x.res = req.reserve
  PROVE  PositionHeld(x, [deposits |-> known.deposits, borrows |-> known.borrows])
<1>1. PositionsHeld(known)
  BY DEF Sensible
<1>2. x.op = "withdraw" => x.res \in known.deposits
  <2> SUFFICES ASSUME x.op = "withdraw" PROVE x.res \in known.deposits
    OBVIOUS
  <2>1. req.action = "withdraw"
    BY DEF firstOp
  <2>2. withdrawn = {req.reserve}
    BY <2>1 DEF withdrawn
  <2> QED BY <1>1, <2>2 DEF PositionsHeld
<1>3. x.op = "repay" => x.res \in known.borrows
  <2> SUFFICES ASSUME x.op = "repay" PROVE x.res \in known.borrows
    OBVIOUS
  <2>1. repaid
    BY DEF firstOp, repaid
  <2> QED BY <1>1, <2>1 DEF PositionsHeld
<1>4. x.op = "liquidate" => req.reserve \in known.borrows /\ req.outflow \in known.deposits
  <2> SUFFICES ASSUME x.op = "liquidate" PROVE req.reserve \in known.borrows /\ req.outflow \in known.deposits
    OBVIOUS
  <2>1. req.action = "liquidate"
    BY DEF firstOp
  <2>2. repaid /\ withdrawn = {req.outflow}
    BY <2>1 DEF repaid, withdrawn
  <2> QED BY <1>1, <2>2 DEF PositionsHeld
<1>5. x.op = "borrow" => known.deposits # {}
  <2> SUFFICES ASSUME x.op = "borrow" PROVE known.deposits # {}
    OBVIOUS
  <2>1. req.action = "borrow"
    BY DEF firstOp
  <2> QED BY <1>1, <2>1 DEF PositionsHeld
<1> QED BY <1>2, <1>3, <1>4, <1>5 DEF PositionHeld

\* The first lending instruction finds everything refreshed.
LEMMA FirstStands ==
  ASSUME IInv, ShapeSound, DepsBuilt, Underway, asksAccounts, Sensible, Lent
  PROVE  Leads("position", lendingIxs[1],
               Prepared(known.deposits, known.borrows, readyGroups, touchedReserves(firstAsked),
                        firstAsked),
               Moved(heldOnce, owedOnce, readyGroups, firstAsked))
<1>1. PICK x : x = lendingIxs[1]
  OBVIOUS
<1>2. x \in ListedInstruction /\ x.op = firstOp /\ x.res = req.reserve /\ x.op \in PositionOp
  BY <1>1, FirstFits DEF asksAccounts
<1>3. firstAsked.op = firstOp /\ firstAsked.res = req.reserve
  BY DEF firstAsked, Ix
<1>4. /\ touchedFarms(x) = touchedFarms(firstAsked)
      /\ touchedReserves(x) = touchedReserves(firstAsked)
      /\ depositsAfter(x, known.deposits) = heldOnce
      /\ borrowsAfter(x, known.borrows) = owedOnce
  <2>1. x.op = firstAsked.op /\ x.res = firstAsked.res
    BY <1>2, <1>3
  <2> QED BY <2>1, AskedAlike DEF heldOnce, owedOnce
<1>5. x.op \in {"borrow", "repay", "liquidate"} => (x.deps = known.deposits \/ readyGroups \subseteq {0})
  BY <1>1, <1>2 DEF DepsBuilt, LentDeps
<1>6. PositionHeld(x, [deposits |-> known.deposits, borrows |-> known.borrows])
  BY <1>2, FirstHeld
<1>7. PICK F : F = (known.deposits \union known.borrows) \union touchedReserves(firstAsked)
  OBVIOUS
<1>8. touchedReserves(x) \subseteq F /\ touchedFarms(x) \subseteq touchedFarms(x)
  BY <1>4, <1>7
<1>9. Leads("position", x,
            Standing(known.deposits, known.borrows, readyGroups, F, TRUE, touchedFarms(x), {}),
            Standing(depositsAfter(x, known.deposits), borrowsAfter(x, known.borrows), readyGroups,
                     {}, FALSE, {}, touchedFarms(x)))
  BY <1>2, <1>5, <1>6, <1>8, LendingStands
<1> QED BY <1>1, <1>4, <1>7, <1>9 DEF Prepared, Moved

LEMMA SecondHeld ==
  ASSUME IInv, twoToken, Sensible
  PROVE  /\ secondOp = "withdraw" => req.outflow \in heldOnce
         /\ secondOp = "borrow" => heldOnce # {}
         /\ secondOp = "borrow" => passDeposits = heldOnce \/ midGroups \subseteq {0}
<1>1. PositionsHeld(known) /\ ~listedBeforePreload(known)
  BY DEF Sensible
<1>2. CASE req.action = "repayAndWithdraw"
  <2>1. firstAsked.op = "repay" /\ secondOp = "withdraw"
    BY <1>2 DEF firstAsked, firstOp, Ix, secondOp
  <2>2. heldOnce = known.deposits
    BY <2>1 DEF heldOnce, depositsAfter
  <2>3. withdrawn = {req.outflow}
    BY <1>2 DEF withdrawn
  <2> QED BY <1>1, <2>1, <2>2, <2>3 DEF PositionsHeld
<1>3. CASE req.action = "depositAndBorrow"
  <2>1. firstAsked.op = "deposit" /\ firstAsked.res = req.reserve /\ secondOp = "borrow"
    BY <1>3 DEF firstAsked, firstOp, Ix, secondOp
  <2>2. heldOnce = known.deposits \union {req.reserve}
    BY <2>1 DEF heldOnce, depositsAfter
  <2>3. passDeposits = heldOnce \/ (known.deposits # {} /\ req.reserve \notin known.deposits)
    BY <1>3, <2>2 DEF passDeposits
  <2>4. known.deposits # {} /\ req.reserve \notin known.deposits => midGroups \subseteq {0}
    BY <1>1, <1>3 DEF listedBeforePreload, midGroups
  <2> QED BY <2>1, <2>2, <2>3, <2>4
<1> QED BY <1>2, <1>3 DEF twoToken, TwoTokenAction

LEMMA SecondStands ==
  ASSUME IInv, ShapeSound, DepsBuilt, Underway, asksAccounts, Sensible, Lent, twoToken
  PROVE  Leads("position", lendingIxs[2],
               Prepared(heldOnce, owedOnce, midGroups, bothReserves, secondAsked),
               Moved(heldTwice, owedTwice, midGroups, secondAsked))
<1>1. PICK x : x = lendingIxs[2]
  OBVIOUS
<1>2. /\ x \in ListedInstruction /\ x.op = secondOp /\ x.res = req.outflow
      /\ x.op \in {"borrow", "withdraw"} /\ x.op \in PositionOp
  BY <1>1, SecondFits DEF PositionOp
<1>3. secondAsked.op = secondOp /\ secondAsked.res = req.outflow
  BY DEF secondAsked, Ix
<1>4. /\ touchedFarms(x) = touchedFarms(secondAsked)
      /\ touchedReserves(x) = touchedReserves(secondAsked)
      /\ depositsAfter(x, heldOnce) = heldTwice
      /\ borrowsAfter(x, owedOnce) = owedTwice
  <2>1. x.op = secondAsked.op /\ x.res = secondAsked.res
    BY <1>2, <1>3
  <2> QED BY <2>1, AskedAlike DEF heldTwice, owedTwice
<1>5. x.op \in {"borrow", "repay", "liquidate"} => (x.deps = heldOnce \/ midGroups \subseteq {0})
  <2>1. LentDeps(lendingIxs, readyGroups)
    BY DEF DepsBuilt
  <2>2. x.op = "borrow" => req.action = "depositAndBorrow"
    BY <1>2 DEF secondOp
  <2>3. x.op = "borrow" => x.deps = passDeposits
    BY <1>1, <2>1, <2>2 DEF LentDeps
  <2> QED BY <1>2, <2>3, SecondHeld
<1>6. PositionHeld(x, [deposits |-> heldOnce, borrows |-> owedOnce])
  <2>1. /\ x.op = "withdraw" => x.res \in heldOnce
        /\ x.op = "borrow" => heldOnce # {}
    BY <1>2, SecondHeld
  <2> QED BY <1>2, <2>1 DEF PositionHeld
<1>7. PICK F : F = (heldOnce \union owedOnce) \union bothReserves
  OBVIOUS
<1>8. touchedReserves(x) \subseteq F /\ touchedFarms(x) \subseteq touchedFarms(x)
  <2>1. touchedReserves(x) = {req.outflow}
    BY <1>2 DEF touchedReserves
  <2> QED BY <1>7, <2>1 DEF bothReserves
<1>9. Leads("position", x, Standing(heldOnce, owedOnce, midGroups, F, TRUE, touchedFarms(x), {}),
            Standing(depositsAfter(x, heldOnce), borrowsAfter(x, owedOnce), midGroups,
                     {}, FALSE, {}, touchedFarms(x)))
  BY <1>2, <1>5, <1>6, <1>8, LendingStands
<1> QED BY <1>1, <1>4, <1>7, <1>9 DEF Prepared, Moved

-----------------------------------------------------------------------------
(***************************************************************************)
(* The lending transaction from its lists.                                 *)
(***************************************************************************)
LEMMA TxnOfOne ==
  ASSUME IInv, Len(lendingIxs) = 1, NEW c, NEW S, NEW T \in SUBSET Machine,
         NEW U \in SUBSET Machine, NEW V,
         Runs(c, setupIxs, S, T), Leads(c, lendingIxs[1], T, U), Runs(c, cleanupIxs, U, V)
  PROVE  Runs(c, lendingTxn, S, V)
<1>1. /\ setupIxs \in Seq(ListedInstruction) /\ lendingIxs \in Seq(ListedInstruction)
      /\ cleanupIxs \in Seq(ListedInstruction)
  BY ListsListed
<1>2. lendingIxs = <<lendingIxs[1]>>
  BY <1>1
<1>3. PICK x : x = lendingIxs[1]
  OBVIOUS
<1>4. Runs(c, <<x>>, T, U)
  BY <1>3, RunsOne
<1>5. Runs(c, lendingIxs, T, U)
  BY <1>2, <1>3, <1>4
<1>6. lendingTxn = (setupIxs \o lendingIxs) \o cleanupIxs
  BY DEF lendingTxn
<1> QED BY <1>1, <1>5, <1>6, RunsAround

LEMMA TxnOfTwo ==
  ASSUME IInv, Len(lendingIxs) = 2, NEW c, NEW S, NEW T \in SUBSET Machine,
         NEW U \in SUBSET Machine, NEW V \in SUBSET Machine, NEW W \in SUBSET Machine, NEW Z,
         Runs(c, setupIxs, S, T), Leads(c, lendingIxs[1], T, U), Runs(c, inBetweenIxs, U, V),
         Leads(c, lendingIxs[2], V, W), Runs(c, cleanupIxs, W, Z)
  PROVE  Runs(c, lendingTxn, S, Z)
<1>1. /\ setupIxs \in Seq(ListedInstruction) /\ lendingIxs \in Seq(ListedInstruction)
      /\ inBetweenIxs \in Seq(ListedInstruction) /\ cleanupIxs \in Seq(ListedInstruction)
  BY ListsListed
<1>2. lendingIxs[1] \in ListedInstruction /\ lendingIxs[2] \in ListedInstruction
  <2>1. 1 \in 1..Len(lendingIxs) /\ 2 \in 1..Len(lendingIxs)
    OBVIOUS
  <2> QED BY <1>1, <2>1, ElementOfSeq
<1>3. PICK x, y : x = lendingIxs[1] /\ y = lendingIxs[2]
  OBVIOUS
<1>4. <<x>> \in Seq(ListedInstruction) /\ <<y>> \in Seq(ListedInstruction)
  BY <1>2, <1>3, ShortSeq
<1>5. Runs(c, <<x>>, T, U) /\ Runs(c, <<y>>, V, W)
  <2>1. Leads(c, x, T, U) /\ Leads(c, y, V, W)
    BY <1>3
  <2> QED BY <2>1, RunsOne
<1>6. PICK mid : mid = (<<x>> \o inBetweenIxs) \o <<y>>
  OBVIOUS
<1>7. Runs(c, mid, T, W) /\ mid \in Seq(ListedInstruction)
  BY <1>1, <1>4, <1>5, <1>6, RunsAround
<1>8. lendingTxn = (setupIxs \o mid) \o cleanupIxs
  BY <1>3, <1>6 DEF lendingTxn
<1> QED BY <1>1, <1>7, <1>8, RunsAround

LEMMA TxnOfNone ==
  ASSUME IInv, lendingIxs = <<>>, NEW c, NEW S, NEW T, NEW U,
         Runs(c, setupIxs, S, T), Runs(c, cleanupIxs, T, U)
  PROVE  Runs(c, lendingTxn, S, U)
<1>1. setupIxs \in Seq(ListedInstruction) /\ cleanupIxs \in Seq(ListedInstruction)
  BY ListsListed
<1>2. lendingTxn = setupIxs \o cleanupIxs
  <2>1. lendingTxn = (setupIxs \o <<>>) \o cleanupIxs
    BY DEF lendingTxn
  <2>2. setupIxs \o <<>> = setupIxs
    BY <1>1
  <2> QED BY <2>1, <2>2
<1> QED BY <1>1, <1>2, RunsConcat

-----------------------------------------------------------------------------
\* The positions of the whole transaction.
LEMMA StandingMachine ==
  /\ \A d, b, G, C, x : Prepared(d, b, G, C, x) \in SUBSET Machine
  /\ \A d, b, G, x : Moved(d, b, G, x) \in SUBSET Machine
  /\ \A d, b, G : Idle(d, b, G) \in SUBSET Machine
  BY DEF Prepared, Moved, Idle, Standing

LEMMA PositionTxn ==
  ASSUME IInv, ShapeSound, DepsBuilt, StandBuilt, pc = "built", passes, asksAccounts, Sensible
  PROVE  Runs("position", lendingTxn, Idle(known.deposits, known.borrows, {known.group}), Rested)
<1>1. Underway /\ Lent
  BY DEF Underway, Lent
<1>2. PICK S, T, U : /\ S = Idle(known.deposits, known.borrows, {known.group})
        /\ T = Prepared(known.deposits, known.borrows, readyGroups, touchedReserves(firstAsked),
                        firstAsked)
        /\ U = Moved(heldOnce, owedOnce, readyGroups, firstAsked)
  OBVIOUS
<1>3. T \in SUBSET Machine /\ U \in SUBSET Machine
  BY <1>2, StandingMachine
<1>4. StandPlan(pc, phase, readyGroups, setupIxs, inBetweenIxs, cleanupIxs)
  BY <1>1 DEF StandBuilt
<1>5. setupStage(pc, phase, readyGroups) = T
  BY <1>2 DEF setupStage, beforeAta
<1>6. Runs("position", setupIxs, S, T)
  BY <1>2, <1>4, <1>5 DEF StandPlan
<1>7. Leads("position", lendingIxs[1], T, U)
  BY <1>1, <1>2, FirstStands
<1>8. Runs("position", cleanupIxs, lastMoved(readyGroups), Rested)
  BY <1>4 DEF StandPlan, beforeLeaving, beforeAta
<1>9. MadeAsAsked /\ req.action \notin ObligationOnly /\ (twoToken => phase = "inBetween")
  BY <1>1 DEF ShapeSound, asksAccounts
<1>10. CASE ~twoToken
  <2>1. lastMoved(readyGroups) = U
    BY <1>2, <1>10 DEF lastMoved
  <2>2. Len(lendingIxs) = 1
    BY <1>9, <1>10 DEF MadeAsAsked
  <2> QED BY <1>2, <1>3, <1>6, <1>7, <1>8, <2>1, <2>2, TxnOfOne
<1>11. CASE twoToken
  <2>1. PICK V, W : /\ V = Prepared(heldOnce, owedOnce, midGroups, bothReserves, secondAsked)
                    /\ W = Moved(heldTwice, owedTwice, midGroups, secondAsked)
    OBVIOUS
  <2>2. V \in SUBSET Machine /\ W \in SUBSET Machine
    BY <2>1, StandingMachine
  <2>3. readyGroups = {known.group}
    BY <1>11 DEF readyGroups, twoToken, TwoTokenAction
  <2>4. betweenStage(pc) = V
    BY <2>1 DEF betweenStage
  <2>5. Runs("position", inBetweenIxs, U, V)
    BY <1>2, <1>4, <1>9, <1>11, <2>3, <2>4 DEF StandPlan
  <2>6. Leads("position", lendingIxs[2], V, W)
    BY <1>1, <1>11, <2>1, SecondStands
  <2>7. lastMoved(readyGroups) = W
    BY <1>11, <2>1 DEF lastMoved
  <2>8. Len(lendingIxs) = 2
    BY <1>9, <1>11 DEF MadeAsAsked
  <2> QED BY <1>2, <1>3, <1>6, <1>7, <1>8, <2>2, <2>5, <2>6, <2>7, <2>8, TxnOfTwo
<1> QED BY <1>10, <1>11

-----------------------------------------------------------------------------
\* The user's and the referrer's accounts over the whole transaction.
LEMMA LentOnce ==
  ASSUME IInv, ShapeSound, Lent, req.action \notin ObligationOnly
  PROVE  /\ IF twoToken THEN Len(lendingIxs) = 2 ELSE Len(lendingIxs) = 1
         /\ \A i \in 1..Len(lendingIxs) :
              lendingIxs[i] \in ListedInstruction /\ lendingIxs[i].op \in LendingOp
<1>1. MadeAsAsked
  BY DEF ShapeSound
<1>2. IF twoToken THEN Len(lendingIxs) = 2 ELSE Len(lendingIxs) = 1
  BY <1>1 DEF MadeAsAsked
<1>3. ASSUME NEW i \in 1..Len(lendingIxs)
      PROVE  lendingIxs[i] \in ListedInstruction /\ lendingIxs[i].op \in LendingOp
  <2>1. lendingIxs \in Seq(LendingInstruction)
    BY DEF IInv, ListsSound
  <2>2. lendingIxs[i] \in LendingInstruction
    BY <2>1, ElementOfSeq
  <2> QED BY <2>2 DEF ListedInstruction, LendingInstruction
<1> QED BY <1>2, <1>3

LEMMA UserTxn ==
  ASSUME IInv, ShapeSound, UserBuilt, pc = "built", passes, asksAccounts, Sensible
  PROVE  Runs("user", lendingTxn, userStart, userEnd)
<1>1. Underway /\ Lent /\ req.action \notin ObligationOnly
  BY DEF Underway, Lent, asksAccounts
<1>2. UserPlan(pc, phase, setupIxs, inBetweenIxs, cleanupIxs, refreshFarmsCleanupTxnIxs)
  BY <1>1 DEF UserBuilt
<1>3. PICK S, T : S = userStart /\ T = userEnd
  OBVIOUS
<1>4. T \in SUBSET Machine
  BY <1>3 DEF userEnd, UserAt
<1>5. /\ Runs("user", setupIxs, S, T) /\ Runs("user", inBetweenIxs, T, T)
      /\ Runs("user", cleanupIxs, T, T)
  <2>1. userStage(pc, phase) = userEnd
    BY DEF userStage
  <2>2. inBetweenIxs \in Seq(UserKept) /\ cleanupIxs \in Seq(UserKept)
    BY <1>2 DEF UserPlan
  <2>3. Runs("user", inBetweenIxs, userEnd, userEnd) /\ Runs("user", cleanupIxs, userEnd, userEnd)
    BY <2>2, KeptRuns
  <2> QED BY <1>2, <1>3, <2>1, <2>3 DEF UserPlan
<1>6. \A i \in 1..Len(lendingIxs) : Leads("user", lendingIxs[i], T, T)
  <2> SUFFICES ASSUME NEW i \in 1..Len(lendingIxs) PROVE Leads("user", lendingIxs[i], T, T)
    OBVIOUS
  <2>1. lendingIxs[i] \in ListedInstruction /\ lendingIxs[i].op \in LendingOp
    BY <1>1, LentOnce
  <2>2. lendingIxs[i] \in UserKept
    BY <2>1 DEF UserKept, LendingOp, PositionOp
  <2> QED BY <1>3, <2>2, KeptLeads DEF userEnd
<1>7. CASE twoToken
  <2>1. Len(lendingIxs) = 2
    BY <1>1, <1>7, LentOnce
  <2>2. Leads("user", lendingIxs[1], T, T) /\ Leads("user", lendingIxs[2], T, T)
    BY <1>6, <2>1
  <2>3. Runs("user", lendingTxn, S, T)
    BY <1>4, <1>5, <2>1, <2>2, TxnOfTwo
  <2> QED BY <1>3, <2>3
<1>8. CASE ~twoToken
  <2>1. Len(lendingIxs) = 1
    BY <1>1, <1>8, LentOnce
  <2>2. Leads("user", lendingIxs[1], T, T)
    BY <1>6, <2>1
  <2>3. Runs("user", lendingTxn, S, T)
    BY <1>4, <1>5, <2>1, <2>2, TxnOfOne
  <2> QED BY <1>3, <2>3
<1> QED BY <1>7, <1>8

LEMMA ReferralTxn ==
  ASSUME IInv, ShapeSound, KindsBuilt, ReferralBuilt, pc = "built", passes, asksAccounts
  PROVE  Runs("referral", lendingTxn, TokStart, TokReady) /\ (known.referrer => referrer)
<1>1. Underway /\ Lent /\ req.action \notin ObligationOnly
  BY DEF Underway, Lent, asksAccounts
<1>2. PICK S, T : S = TokStart /\ T = TokReady
  OBVIOUS
<1>3. T \in SUBSET Machine
  BY <1>2 DEF TokReady
<1>4. /\ Runs("referral", setupIxs, S, T) /\ Runs("referral", inBetweenIxs, T, T)
      /\ Runs("referral", cleanupIxs, T, T)
  <2>1. Runs("referral", setupIxs, TokStart, TokReady)
    BY <1>1 DEF ReferralBuilt, afterReferrer, ReferralPlan
  <2>2. inBetweenIxs \in Seq(Made(BetweenOps)) /\ cleanupIxs \in Seq(Made(CloseOps))
    BY <1>1 DEF KindsBuilt, KindsPlan
  <2>3. /\ "initReferrerTokenState" \notin BetweenOps /\ "borrow" \notin BetweenOps
        /\ "initReferrerTokenState" \notin CloseOps /\ "borrow" \notin CloseOps
    BY DEF BetweenOps, CloseOps, SwitchOps, RefreshOps
  <2>4. Runs("referral", inBetweenIxs, TokReady, TokReady)
    BY <2>2, <2>3, SetupReferral
  <2>5. Runs("referral", cleanupIxs, TokReady, TokReady)
    BY <2>2, <2>3, SetupReferral
  <2> QED BY <1>2, <2>1, <2>4, <2>5
<1>5. \A i \in 1..Len(lendingIxs) : Leads("referral", lendingIxs[i], T, T)
  <2> SUFFICES ASSUME NEW i \in 1..Len(lendingIxs) PROVE Leads("referral", lendingIxs[i], T, T)
    OBVIOUS
  <2>1. lendingIxs[i] \in ListedInstruction /\ lendingIxs[i].op \in LendingOp
    BY <1>1, LentOnce
  <2>2. lendingIxs[i].op # "initReferrerTokenState"
    BY <2>1 DEF LendingOp, PositionOp
  <2> QED BY <1>2, <2>1, <2>2, TokKept
<1>6. known.referrer => referrer
  BY <1>1 DEF ReferralBuilt
<1>7. CASE twoToken
  <2>1. Len(lendingIxs) = 2
    BY <1>1, <1>7, LentOnce
  <2>2. Leads("referral", lendingIxs[1], T, T) /\ Leads("referral", lendingIxs[2], T, T)
    BY <1>5, <2>1
  <2>3. Runs("referral", lendingTxn, S, T)
    BY <1>3, <1>4, <2>1, <2>2, TxnOfTwo
  <2> QED BY <1>2, <1>6, <2>3
<1>8. CASE ~twoToken
  <2>1. Len(lendingIxs) = 1
    BY <1>1, <1>8, LentOnce
  <2>2. Leads("referral", lendingIxs[1], T, T)
    BY <1>5, <2>1
  <2>3. Runs("referral", lendingTxn, S, T)
    BY <1>3, <1>4, <2>1, <2>2, TxnOfOne
  <2> QED BY <1>2, <1>6, <2>3
<1> QED BY <1>7, <1>8

\* A mint or a redeem touches neither of them, nor a position.
LEMMA PlainTxn ==
  ASSUME IInv, ShapeSound, KindsBuilt, pc = "built", req.action \in {"mint", "redeem"},
         NEW c \in {"user", "referral", "position"}, NEW S, Closed(c, S)
  PROVE  Runs(c, lendingTxn, S, S)
<1>1. Underway /\ Lent /\ req.action \notin ObligationOnly /\ ~asksAccounts /\ ~twoToken
  BY DEF Underway, Lent, asksAccounts, passes, ObligationOnly, twoToken, TwoTokenAction
<1>2. c \in Concern /\ S \in SUBSET Machine
  BY DEF Concern, Closed
<1>3. AtaOps \union {"computeBudget", "closeAta", "mint", "redeem"} \subseteq Ignored(c)
  BY DEF AtaOps, Ignored, IxOp, PositionOp
<1>4. setupIxs \in Seq(Made(Ignored(c))) /\ cleanupIxs \in Seq(Made(Ignored(c)))
  <2>1. KindsPlan(pc, phase, setupIxs, inBetweenIxs, cleanupIxs, refreshFarmsCleanupTxnIxs)
    BY <1>1 DEF KindsBuilt
  <2>2. setupIxs \in Seq(Made(setOps(pc, phase))) /\ cleanupIxs \in Seq(Made({"closeAta"}))
    BY <1>1, <2>1 DEF KindsPlan
  <2>3. setOps(pc, phase) = AtaOps \union {"computeBudget"}
    BY <1>1 DEF setOps
  <2>4. setOps(pc, phase) \subseteq Ignored(c) /\ {"closeAta"} \subseteq Ignored(c)
    BY <1>3, <2>3
  <2> QED BY <2>2, <2>4, MadeMore
<1>5. Runs(c, setupIxs, S, S) /\ Runs(c, cleanupIxs, S, S)
  BY <1>2, <1>4, IgnoredRuns
<1>6. lendingIxs[1] \in Made(Ignored(c))
  <2>1. lendingIxs[1] \in ListedInstruction /\ lendingIxs[1].op = firstOp
    BY <1>1, FirstFits
  <2>2. firstOp \in {"mint", "redeem"}
    BY DEF firstOp
  <2> QED BY <1>3, <2>1, <2>2 DEF Made
<1>7. Leads(c, lendingIxs[1], S, S)
  BY <1>2, <1>6, IgnoredLeads
<1>8. Len(lendingIxs) = 1
  BY <1>1, LentOnce
<1> QED BY <1>2, <1>5, <1>7, <1>8, TxnOfOne

-----------------------------------------------------------------------------
\* The token accounts over the whole transaction.
LEMMA LendingHolds ==
  ASSUME IInv, NEW x \in ListedInstruction, x.op \in LendingOp, NEW A, NEW C, NEW un, NEW fu,
         NEW s \in Holding(A, C, un, fu)
  PROVE  After(x, s) \in Holding(A, C, FALSE, FALSE)
<1>1. s \in Machine /\ s[1] \in Chain /\ A \subseteq s[1].atas /\ C \subseteq s[1].colAtas
  BY DEF Holding, Machine
<1>2. After(x, s) \in Machine
  BY <1>1, AfterTyped
<1>3. PICK l : l = s[1]
  OBVIOUS
<1>4. LedgerAfter(x, l).atas = l.atas /\ LedgerAfter(x, l).colAtas = l.colAtas
  BY <1>1, <1>3 DEF LedgerAfter, Chain, LendingOp, PositionOp
<1>5. After(x, s)[1] = LedgerAfter(x, l)
  BY <1>3 DEF After
<1> QED BY <1>1, <1>2, <1>3, <1>4, <1>5 DEF Holding

LEMMA FirstSpends ==
  ASSUME IInv, ShapeSound, Lent, passes
  PROVE  Leads("money", lendingIxs[1], Furnished(receives),
               Holding((sends \union receives) \union solNeed, colNeeds, FALSE, FALSE))
<1>1. PICK x : x = lendingIxs[1]
  OBVIOUS
<1>2. /\ x \in ListedInstruction /\ x.op = firstOp /\ x.res = req.reserve
      /\ req.action \in ActionType \ (ObligationOnly \union {"withdrawReferrerFees"})
  <2>1. req.action \in ActionType
    BY DEF IInv, StateSound, TypeOK, Request
  <2> QED BY <1>1, <2>1, FirstFits DEF passes
<1>3. x.op \in LendingOp
  BY <1>2 DEF firstOp, LendingOp, PositionOp, ActionType, TwoTokenAction, ObligationOnly
<1>4. PICK A, C : A = (sends \union receives) \union solNeed /\ C = colNeeds
  OBVIOUS
<1>5. ASSUME NEW s \in Holding(A, C, FALSE, solSent)
      PROVE  Admits("money", x, s) /\ After(x, s) \in Holding(A, C, FALSE, FALSE)
  <2>1. After(x, s) \in Holding(A, C, FALSE, FALSE)
    BY <1>2, <1>3, LendingHolds
  <2>2. A \subseteq s[1].atas /\ C \subseteq s[1].colAtas /\ (solSent => s[2].funded)
    BY DEF Holding
  <2>3. x.op \in {"deposit", "repay", "mint", "liquidate"} => sends = {req.reserve}
    BY <1>2 DEF firstOp, sends, TwoTokenAction
  <2>4. x.op \in {"borrow", "withdraw", "redeem"} => receives = {req.reserve}
    BY <1>2 DEF firstOp, receives, TwoTokenAction
  <2>5. x.op = "liquidate" => receives = {req.outflow} /\ colNeeds = {req.outflow}
    BY <1>2 DEF firstOp, receives, colNeeds, TwoTokenAction
  <2>6. x.op \in {"mint", "redeem", "depositCollateral"} => colNeeds = {req.reserve}
    BY <1>2 DEF firstOp, colNeeds
  <2>7. x.op \notin {"syncNative", "closeAta", "withdrawReferrerFees"}
    BY <1>2, <1>3 DEF firstOp, LendingOp, PositionOp
  <2>8. AccountsReady(x, s[1])
    <3>1. x.op \in {"deposit", "borrow", "repay", "withdraw", "mint", "redeem"} => x.res \in s[1].atas
      BY <1>2, <1>4, <2>2, <2>3, <2>4
    <3>2. x.op = "liquidate" =>
            {req.reserve, req.outflow} \subseteq s[1].atas /\ req.outflow \in s[1].colAtas
      BY <1>4, <2>2, <2>3, <2>5
    <3>3. x.op \in {"mint", "redeem", "depositCollateral"} => x.res \in s[1].colAtas
      BY <1>2, <1>4, <2>2, <2>6
    <3> QED BY <2>7, <3>1, <3>2, <3>3 DEF AccountsReady
  <2>9. SolFunded(x, s[2])
    BY <1>2, <2>2, <2>3 DEF SolFunded, solSent
  <2> QED BY <2>1, <2>8, <2>9 DEF Admits
<1>6. Leads("money", x, Holding(A, C, FALSE, solSent), Holding(A, C, FALSE, FALSE))
  BY <1>5 DEF Leads
<1> QED BY <1>1, <1>4, <1>6 DEF Furnished

LEMMA SecondSpends ==
  ASSUME IInv, ShapeSound, Lent, twoToken, NEW A, receives \subseteq A, NEW C
  PROVE  Leads("money", lendingIxs[2], Holding(A, C, FALSE, FALSE), Holding(A, C, FALSE, FALSE))
<1>1. PICK x : x = lendingIxs[2]
  OBVIOUS
<1>2. x \in ListedInstruction /\ x.op \in {"borrow", "withdraw"} /\ x.res = req.outflow
  BY <1>1, SecondFits
<1>3. receives = {req.outflow}
  BY DEF receives, twoToken, TwoTokenAction
<1>4. ASSUME NEW s \in Holding(A, C, FALSE, FALSE)
      PROVE  Admits("money", x, s) /\ After(x, s) \in Holding(A, C, FALSE, FALSE)
  <2>1. x.op \in LendingOp
    BY <1>2 DEF LendingOp, PositionOp
  <2>2. After(x, s) \in Holding(A, C, FALSE, FALSE)
    BY <1>2, <2>1, LendingHolds
  <2>3. A \subseteq s[1].atas
    BY DEF Holding
  <2>4. x.res \in s[1].atas
    BY <1>2, <1>3, <2>3
  <2> QED BY <1>2, <2>2, <2>4 DEF Admits, AccountsReady, SolFunded
<1>5. Leads("money", x, Holding(A, C, FALSE, FALSE), Holding(A, C, FALSE, FALSE))
  BY <1>4 DEF Leads
<1> QED BY <1>1, <1>5

LEMMA MoneyTxn ==
  ASSUME IInv, ShapeSound, KindsBuilt, MoneyBuilt, pc = "built", passes,
         NEW l, Agrees(l), AccountsHeld(l), Done(preTxnIxs, l)
  PROVE  Runs("money", lendingTxn, Supplied(l), Machine)
<1>1. Underway /\ Lent /\ req.action \notin ObligationOnly
  BY DEF Underway, Lent, passes
<1>2. PICK A, C : A = (sends \union receives) \union solNeed /\ C = colNeeds
  OBVIOUS
<1>3. PICK S, T, U : /\ S = Supplied(l) /\ T = Furnished(receives)
                     /\ U = Holding(A, C, FALSE, FALSE)
  OBVIOUS
<1>4. T \in SUBSET Machine /\ U \in SUBSET Machine /\ Machine \in SUBSET Machine
      /\ Closed("money", U)
  <2>1. Closed("money", U) /\ U \in SUBSET Machine
    BY <1>3, HoldingClosed
  <2>2. T \in SUBSET Machine
    BY <1>3, HoldingClosed DEF Furnished
  <2> QED BY <2>1, <2>2
<1>5. MoneyPlan(l, pc, phase, setupIxs, cleanupIxs)
  BY <1>1 DEF MoneyBuilt, beforeAta
<1>6. atasBy(pc, phase) = receives
  BY <1>1 DEF atasBy, ShapeSound
<1>7. Runs("money", setupIxs, S, T) /\ Runs("money", cleanupIxs, Spent, Machine)
  BY <1>3, <1>5, <1>6 DEF MoneyPlan
<1>8. Runs("money", cleanupIxs, U, Machine)
  <2>1. U \subseteq Spent
    BY <1>2, <1>3 DEF Holding, Spent
  <2> QED BY <1>4, <1>7, <2>1, RunsWeaken
<1>9. Leads("money", lendingIxs[1], T, U)
  BY <1>1, <1>2, <1>3, FirstSpends
<1>10. CASE ~twoToken
  <2>1. Len(lendingIxs) = 1
    BY <1>1, <1>10, LentOnce
  <2>2. Runs("money", lendingTxn, S, Machine)
    BY <1>4, <1>7, <1>8, <1>9, <2>1, TxnOfOne
  <2> QED BY <1>3, <2>2
<1>11. CASE twoToken
  <2>1. Len(lendingIxs) = 2
    BY <1>1, <1>11, LentOnce
  <2>2. inBetweenIxs \in Seq(Made(Ignored("money")))
    <3>1. inBetweenIxs \in Seq(Made(BetweenOps))
      BY <1>1 DEF KindsBuilt, KindsPlan
    <3>2. BetweenOps \subseteq Ignored("money")
      BY DEF BetweenOps, SwitchOps, RefreshOps, Ignored, IxOp, AccountOp, LendingOp, PositionOp
    <3> QED BY <3>1, <3>2, MadeMore
  <2>3. Runs("money", inBetweenIxs, U, U)
    BY <1>4, <2>2, IgnoredRuns DEF Concern
  <2>4. Leads("money", lendingIxs[2], U, U)
    <3>1. receives \subseteq A
      BY <1>2
    <3> QED BY <1>1, <1>3, <1>11, <3>1, SecondSpends
  <2>5. Runs("money", lendingTxn, S, Machine)
    BY <1>4, <1>7, <1>8, <1>9, <2>1, <2>3, <2>4, TxnOfTwo
  <2> QED BY <1>3, <2>5
<1> QED BY <1>10, <1>11

-----------------------------------------------------------------------------
(***************************************************************************)
(* The calls without a support pass: refreshObligation, requestElevation-  *)
(* Group and withdrawReferrerFees.                                         *)
(***************************************************************************)
soloRequest == IF req.action = "refreshObligation" THEN <<>> ELSE RequestElevation(req.override, FALSE)

SoloBuilt ==
  ~passes /\ pc \notin {"initialize", "thrown"} =>
    /\ cleanupIxs = <<>>
    /\ pc # "built" => setupIxs \in Seq(Made({"computeBudget"}))
    /\ req.action = "withdrawReferrerFees" =>
         IF pc = "built"
         THEN /\ setupIxs = RefreshReserves({req.reserve})
              /\ preTxnIxs = CreateIfMissing("createAta", known.atas, req.reserve)
         ELSE setupIxs = <<>> /\ preTxnIxs = <<>>
    /\ req.action \in ObligationOnly /\ pc = "built" =>
         \E q \in Seq(Made({"computeBudget"})) :
           setupIxs = (((q \o RefreshReserves(depositReserves \union borrowReserves))
                          \o (RefreshFarms(depositReserves, "coll")
                                \o RefreshFarms(borrowReserves, "debt")))
                         \o RefreshObligation(FALSE)) \o soloRequest

LEMMA SoloStep ==
  ASSUME IInv, ShapeSound, GroupBuilt, SoloBuilt, Next, ~Initialize, known = chain
  PROVE  SoloBuilt'
<1> SUFFICES ASSUME pc' # "thrown", ~passes PROVE SoloBuilt'
  <2>1. passes' = passes
    BY StepKeeps DEF passes, loaded
  <2> QED BY <2>1 DEF SoloBuilt
<1>1. /\ pc \notin {"initialize", "thrown", "built"}
      /\ UNCHANGED <<req, referrer, known, positions>>
  BY StepParts
<1>2. /\ cleanupIxs = <<>> /\ setupIxs \in Seq(Made({"computeBudget"}))
      /\ req.action = "withdrawReferrerFees" => setupIxs = <<>> /\ preTxnIxs = <<>>
  BY <1>1 DEF SoloBuilt
<1>3. Made({"computeBudget"})' = Made({"computeBudget"}) /\ passes' = passes
  <2>1. Made({"computeBudget"})' = Made({"computeBudget"})
    BY <1>1, MadeSame
  <2> QED BY <1>1, <2>1 DEF passes
<1>4. req.action \in ObligationOnly \/ req.action = "withdrawReferrerFees"
  BY DEF passes
<1>5. /\ pc \in {"budget", "lending"}
      /\ req.action = "withdrawReferrerFees" => pc = "lending"
      /\ req.action \in ObligationOnly => req.action # "withdrawReferrerFees"
  <2>1. req.action \in ObligationOnly => pc \in {"budget", "lending"}
    BY <1>1 DEF ShapeSound
  <2>2. req.action = "withdrawReferrerFees" => pc = "lending"
    BY <1>1 DEF ShapeSound
  <2> QED BY <1>4, <2>1, <2>2 DEF ObligationOnly
<1>6. \/ AddComputeBudgetIxn /\ pc = "budget"
      \/ AddRefreshObligation
      \/ AddWithdrawReferrerFees
  BY <1>4, <1>5, StepParts
<1>7. CASE AddComputeBudgetIxn /\ pc = "budget"
  <2>1. /\ setupIxs' = IF req.budget THEN Append(setupIxs, Ix("computeBudget", NoReserve, {}))
                       ELSE setupIxs
        /\ cleanupIxs' = cleanupIxs
    BY <1>7 DEF AddComputeBudgetIxn
  <2>2. Ix("computeBudget", NoReserve, {}) \in Made({"computeBudget"})
    <3>1. "computeBudget" \in SupportOp \ (PositionList \union {"initFarm"})
      BY DEF SupportOp, PositionList, IxOp, LendingOp, PositionOp, AccountOp
    <3>2. {} \in SUBSET Reserve
      OBVIOUS
    <3> QED BY <3>1, <3>2, PlainMade
  <2>3. setupIxs' \in Seq(Made({"computeBudget"}))
    <3>1. PICK M : M = Made({"computeBudget"})
      OBVIOUS
    <3>2. setupIxs \in Seq(M) /\ Ix("computeBudget", NoReserve, {}) \in M
      BY <1>2, <2>2, <3>1
    <3>3. setupIxs' \in Seq(M)
      BY <2>1, <3>2
    <3> QED BY <3>1, <3>3
  <2>4. req.action \in ObligationOnly /\ pc' = "lending"
    BY <1>4, <1>5, <1>7 DEF AddComputeBudgetIxn
  <2> QED BY <1>1, <1>2, <1>3, <1>5, <2>1, <2>3, <2>4 DEF SoloBuilt
<1>8. CASE AddRefreshObligation
  <2>1. req.action \in ObligationOnly /\ pc' = "built" /\ cleanupIxs' = cleanupIxs
        /\ UNCHANGED <<depositReserves, borrowReserves, preLoadedDepositReservesSameTx,
                       preLoadedBorrowReservesSameTx>>
    BY <1>8 DEF AddRefreshObligation, reserveLists
  <2>2. setupIxs' = (((setupIxs \o RefreshReserves(depositReserves \union borrowReserves))
                          \o (RefreshFarms(depositReserves, "coll")
                                \o RefreshFarms(borrowReserves, "debt")))
                         \o RefreshObligation(FALSE)) \o soloRequest
    BY <1>8 DEF AddRefreshObligation, soloRequest
  <2>3. soloRequest' = soloRequest /\ RefreshObligation(FALSE)' = RefreshObligation(FALSE)
    BY <1>1, <2>1 DEF soloRequest, RefreshObligation, RequestElevation, PositionAccounts,
       AdditionalDepositReservesList
  <2>4. \E q \in Seq(Made({"computeBudget"})) :
           setupIxs' = (((q \o RefreshReserves(depositReserves \union borrowReserves))
                          \o (RefreshFarms(depositReserves, "coll")
                                \o RefreshFarms(borrowReserves, "debt")))
                         \o RefreshObligation(FALSE)) \o soloRequest
    BY <1>2, <2>2, Zenon
  <2>5. \E q \in Seq(Made({"computeBudget"}))' :
           setupIxs' = (((q \o RefreshReserves(depositReserves' \union borrowReserves'))
                          \o (RefreshFarms(depositReserves', "coll")
                                \o RefreshFarms(borrowReserves', "debt")))
                         \o RefreshObligation(FALSE)') \o soloRequest'
    BY <1>3, <2>1, <2>3, <2>4
  <2> QED BY <1>1, <1>2, <1>5, <2>1, <2>5 DEF SoloBuilt
<1>9. CASE AddWithdrawReferrerFees
  <2>1. /\ req.action = "withdrawReferrerFees" /\ pc' = "built" /\ cleanupIxs' = cleanupIxs
        /\ setupIxs' = setupIxs \o RefreshReserves({req.reserve})
        /\ preTxnIxs' = preTxnIxs \o CreateIfMissing("createAta", chain.atas, req.reserve)
    BY <1>9 DEF AddWithdrawReferrerFees
  <2>2. setupIxs' = RefreshReserves({req.reserve})
        /\ preTxnIxs' = CreateIfMissing("createAta", known.atas, req.reserve)
    <3>1. <<>> \o RefreshReserves({req.reserve}) = RefreshReserves({req.reserve})
      BY DEF RefreshReserves
    <3>2. <<>> \o CreateIfMissing("createAta", chain.atas, req.reserve)
            = CreateIfMissing("createAta", chain.atas, req.reserve)
      BY DEF CreateIfMissing
    <3> QED BY <1>2, <2>1, <3>1, <3>2
  <2> QED BY <1>1, <1>2, <1>4, <1>5, <2>1, <2>2 DEF SoloBuilt
<1> QED BY <1>6, <1>7, <1>8, <1>9

-----------------------------------------------------------------------------
\* The transaction of an obligation-only call, list by list.
LEMMA SoloParts ==
  ASSUME IInv, ShapeSound, ValuesBuilt, SoloBuilt, pc = "built", req.action \in ObligationOnly
  PROVE  /\ lendingIxs = <<>> /\ cleanupIxs = <<>> /\ phase = "setup"
         /\ depositReserves = known.deposits /\ borrowReserves = known.borrows
         /\ AdditionalDepositReservesList = known.deposits
         /\ borrowReserves \ preLoadedBorrowReservesSameTx = known.borrows
         /\ \E q \in Seq(Made({"computeBudget"})) :
              setupIxs = (((q \o RefreshReserves(known.deposits \union known.borrows))
                             \o (RefreshFarms(known.deposits, "coll")
                                   \o RefreshFarms(known.borrows, "debt")))
                            \o RefreshObligation(FALSE)) \o soloRequest
<1>1. req.action # "withdrawReferrerFees" /\ ~passes /\ ~twoToken
  BY DEF ObligationOnly, passes, twoToken, TwoTokenAction
<1>2. phase = "setup"
  BY <1>1 DEF ShapeSound, IInv, StateSound, TypeOK
<1>3. lendingIxs = <<>>
  BY DEF ShapeSound, Lent, MadeAsAsked
<1>4. /\ depositReserves = known.deposits /\ borrowReserves = known.borrows
      /\ preLoadedDepositReservesSameTx = {} /\ preLoadedBorrowReservesSameTx = {}
  BY <1>1, <1>2 DEF ValuesBuilt
<1>5. /\ cleanupIxs = <<>>
      /\ \E q \in Seq(Made({"computeBudget"})) :
           setupIxs = (((q \o RefreshReserves(depositReserves \union borrowReserves))
                          \o (RefreshFarms(depositReserves, "coll")
                                \o RefreshFarms(borrowReserves, "debt")))
                         \o RefreshObligation(FALSE)) \o soloRequest
  BY <1>1 DEF SoloBuilt
<1> QED BY <1>2, <1>3, <1>4, <1>5 DEF AdditionalDepositReservesList

LEMMA SoloListed ==
  ASSUME IInv, req.action \in ObligationOnly, Sensible
  PROVE  /\ known.deposits \in SUBSET Reserve /\ known.borrows \in SUBSET Reserve
         /\ RefreshReserves(known.deposits \union known.borrows) \in Seq(Made(BetweenOps))
         /\ RefreshFarms(known.deposits, "coll") \in Seq(Made(BetweenOps))
         /\ RefreshFarms(known.borrows, "debt") \in Seq(Made(BetweenOps))
         /\ RefreshObligation(FALSE) \in Seq(Made(BetweenOps))
         /\ soloRequest \in Seq(Made(BetweenOps))
         /\ req.action = "requestElevationGroup" =>
              req.override \in GroupId /\ req.override # known.group
<1>1. known.deposits \in SUBSET Reserve /\ known.borrows \in SUBSET Reserve
  BY DEF IInv, StateSound, TypeOK, Chain
<1>2. req.action = "requestElevationGroup" => req.override \in GroupId /\ req.override # known.group
  <2>1. req.override \in GroupId \union {NoOverride}
    BY DEF IInv, StateSound, TypeOK, Request
  <2> QED BY <2>1 DEF Sensible, Compatible, FlagsTruthful
<1>3. {"refreshReserves"} \subseteq BetweenOps /\ {"refreshFarms"} \subseteq BetweenOps
      /\ {"refreshObligation"} \subseteq BetweenOps /\ {"requestElevationGroup"} \subseteq BetweenOps
  BY DEF BetweenOps, SwitchOps, RefreshOps
<1>4. known.deposits \union known.borrows \in SUBSET Reserve /\ 0 \in GroupId
  BY <1>1 DEF GroupId
<1>5. /\ RefreshReserves(known.deposits \union known.borrows) \in Seq(Made({"refreshReserves"}))
      /\ RefreshFarms(known.deposits, "coll") \in Seq(Made({"refreshFarms"}))
      /\ RefreshFarms(known.borrows, "debt") \in Seq(Made({"refreshFarms"}))
  BY <1>4, RefreshReservesMade, RefreshFarmsMade DEF Mode
<1>6. RefreshObligation(FALSE) \in Seq(Made({"refreshObligation"}))
  BY <1>4, PositionMade
<1>7. soloRequest \in Seq(Made({"requestElevationGroup"}))
  <2>1. CASE req.action = "refreshObligation"
    BY <2>1, ShortSeq DEF soloRequest
  <2>2. CASE req.action = "requestElevationGroup"
    <3>1. RequestElevation(req.override, FALSE) \in Seq(Made({"requestElevationGroup"}))
      BY <1>2, <2>2, PositionMade
    <3> QED BY <2>2, <3>1 DEF soloRequest
  <2> QED BY <2>1, <2>2 DEF ObligationOnly
<1> QED BY <1>1, <1>2, <1>3, <1>5, <1>6, <1>7, MadeMore

\* Five pieces one after the other.
LEMMA FivePieces ==
  ASSUME NEW c, NEW p \in Seq(ListedInstruction), NEW q \in Seq(ListedInstruction),
         NEW r \in Seq(ListedInstruction), NEW s \in Seq(ListedInstruction),
         NEW t \in Seq(ListedInstruction), NEW u \in Seq(ListedInstruction),
         NEW O, NEW P, NEW Q, NEW R, NEW S, NEW T, NEW U,
         Runs(c, p, O, P), Runs(c, q, P, Q), Runs(c, r, Q, R), Runs(c, s, R, S), Runs(c, t, S, T),
         Runs(c, u, T, U)
  PROVE  Runs(c, (((p \o q) \o (r \o s)) \o t) \o u, O, U)
<1>1. PICK v : v = p \o q
  OBVIOUS
<1>2. Runs(c, v, O, Q) /\ v \in Seq(ListedInstruction)
  BY <1>1, RunsConcat, Concatenated
<1>3. PICK w : w = r \o s
  OBVIOUS
<1>4. Runs(c, w, Q, S) /\ w \in Seq(ListedInstruction)
  BY <1>3, RunsConcat, Concatenated
<1>5. Runs(c, (v \o w) \o t, O, T) /\ (v \o w) \o t \in Seq(ListedInstruction)
  BY <1>2, <1>4, RunsAround
<1>6. PICK y : y = (v \o w) \o t
  OBVIOUS
<1>7. Runs(c, y, O, T) /\ y \in Seq(ListedInstruction)
  BY <1>5, <1>6
<1>8. Runs(c, y \o u, O, U)
  BY <1>7, RunsConcat
<1> QED BY <1>1, <1>3, <1>6, <1>8

\* Everything is refreshed before the obligation is, and before the request.
LEMMA SoloPosition ==
  ASSUME IInv, ShapeSound, ValuesBuilt, SoloBuilt, pc = "built", req.action \in ObligationOnly, Sensible
  PROVE  Runs("position", lendingTxn, Idle(known.deposits, known.borrows, {known.group}), Rested)
<1>1. PICK q \in Seq(Made({"computeBudget"})) :
        setupIxs = (((q \o RefreshReserves(known.deposits \union known.borrows))
                       \o (RefreshFarms(known.deposits, "coll") \o RefreshFarms(known.borrows, "debt")))
                      \o RefreshObligation(FALSE)) \o soloRequest
  BY SoloParts
<1>2. PICK D, B, G, F : /\ D = known.deposits /\ B = known.borrows /\ G = {known.group}
                        /\ F = D \union B
  OBVIOUS
<1>3. PICK FF, FH : /\ FF = FarmsAt(D, "coll")
                    /\ FH = FF \union FarmsAt(B, "debt")
  OBVIOUS
<1>4. /\ D \in SUBSET Reserve /\ B \in SUBSET Reserve /\ F \in SUBSET Reserve
      /\ req.action = "requestElevationGroup" => req.override \in GroupId /\ req.override \notin G
  BY <1>2, SoloListed
<1>5. PICK S, T, U, V, W, Z :
        /\ S = Standing(D, B, G, {}, FALSE, {}, {})
        /\ T = Standing(D, B, G, F, FALSE, {}, {})
        /\ U = Standing(D, B, G, F, FALSE, FF, {})
        /\ V = Standing(D, B, G, F, FALSE, FH, {})
        /\ W = Standing(D, B, G, F, TRUE, FH, {})
        /\ Z = Rested
  OBVIOUS
<1>6. Runs("position", q, S, S)
  <2>1. {"computeBudget"} \subseteq Ignored("position")
    BY DEF Ignored, IxOp, PositionOp
  <2>2. q \in Seq(Made(Ignored("position")))
    BY <2>1, MadeMore
  <2>3. Closed("position", S)
    BY <1>5, StandingClosed
  <2> QED BY <2>2, <2>3, IgnoredRuns DEF Concern
<1>7. Runs("position", RefreshReserves(D \union B), S, T)
  <2>1. Runs("position", RefreshReserves(F), Standing(D, B, G, {}, FALSE, {}, {}),
             Standing(D, B, G, {} \union F, FALSE, {}, {}))
    BY <1>4, RefreshReservesStands
  <2>2. {} \union F = F
    OBVIOUS
  <2> QED BY <1>2, <1>5, <2>1, <2>2
<1>8. Runs("position", RefreshFarms(D, "coll"), T, U)
  <2>1. Runs("position", RefreshFarms(D, "coll"), Standing(D, B, G, F, FALSE, {}, {}),
             Standing(D, B, G, F, FALSE, {} \union FarmsAt(D, "coll"), {} \ FarmsAt(D, "coll")))
    BY RefreshFarmsStands DEF Mode
  <2>2. {} \union FarmsAt(D, "coll") = FF /\ {} \ FarmsAt(D, "coll") = {}
    BY <1>3
  <2> QED BY <1>5, <2>1, <2>2
<1>9. Runs("position", RefreshFarms(B, "debt"), U, V)
  <2>1. Runs("position", RefreshFarms(B, "debt"), Standing(D, B, G, F, FALSE, FF, {}),
             Standing(D, B, G, F, FALSE, FF \union FarmsAt(B, "debt"), {} \ FarmsAt(B, "debt")))
    BY RefreshFarmsStands DEF Mode
  <2>2. {} \ FarmsAt(B, "debt") = {}
    OBVIOUS
  <2> QED BY <1>3, <1>5, <2>1, <2>2
<1>10. AdditionalDepositReservesList = D /\ borrowReserves \ preLoadedBorrowReservesSameTx = B
  BY <1>2, SoloParts
<1>11. Runs("position", RefreshObligation(FALSE), V, W)
  <2>1. (IF FALSE THEN {} ELSE borrowReserves \ preLoadedBorrowReservesSameTx) = B
    BY <1>10
  <2>2. D \union B \subseteq F
    BY <1>2
  <2> QED BY <1>5, <1>10, <2>1, <2>2, RefreshObligationStands
<1>12. Runs("position", soloRequest, W, Z)
  <2>1. W \subseteq Z /\ W \in SUBSET Machine
    BY <1>5 DEF Standing, Rested
  <2>2. CASE req.action = "refreshObligation"
    <3>1. Runs("position", <<>>, W, W) /\ W \subseteq W
      BY <2>1, RunsNothing
    <3>2. Runs("position", <<>>, W, Z)
      BY <2>1, <3>1, RunsWeaken
    <3> QED BY <2>2, <3>2 DEF soloRequest
  <2>3. CASE req.action = "requestElevationGroup"
    <3>1. PICK g : g = req.override
      OBVIOUS
    <3>2. g \in GroupId /\ g \notin G
      BY <1>4, <2>3, <3>1
    <3>3. (IF FALSE THEN {} ELSE borrowReserves \ preLoadedBorrowReservesSameTx) = B
      BY <1>10
    <3>4. Runs("position", RequestElevation(g, FALSE), Standing(D, B, G, F, TRUE, FH, {}),
               Standing(D, B, {g}, {}, FALSE, FH, {}))
      BY <1>10, <3>2, <3>3, RequestElevationStands
    <3>5. Standing(D, B, {g}, {}, FALSE, FH, {}) \subseteq Z
      BY <1>5 DEF Standing, Rested
    <3>6. PICK X : X = Standing(D, B, {g}, {}, FALSE, FH, {})
      OBVIOUS
    <3>7. Runs("position", RequestElevation(g, FALSE), W, X) /\ X \subseteq Z /\ W \subseteq W
      BY <1>5, <3>4, <3>5, <3>6
    <3>8. Runs("position", RequestElevation(g, FALSE), W, Z)
      BY <3>7, RunsWeaken
    <3>9. soloRequest = RequestElevation(g, FALSE)
      BY <2>3, <3>1 DEF soloRequest
    <3> QED BY <3>8, <3>9
  <2> QED BY <2>2, <2>3 DEF ObligationOnly
<1>13. Runs("position", setupIxs, S, Z)
  <2>1. /\ q \in Seq(ListedInstruction) /\ RefreshReserves(D \union B) \in Seq(ListedInstruction)
        /\ RefreshFarms(D, "coll") \in Seq(ListedInstruction)
        /\ RefreshFarms(B, "debt") \in Seq(ListedInstruction)
        /\ RefreshObligation(FALSE) \in Seq(ListedInstruction)
        /\ soloRequest \in Seq(ListedInstruction)
    BY <1>2, SoloListed, MadeListed
  <2> QED BY <1>1, <1>2, <1>6, <1>7, <1>8, <1>9, <1>11, <1>12, <2>1, FivePieces
<1>14. Runs("position", cleanupIxs, Z, Z)
  <2>1. cleanupIxs = <<>>
    BY SoloParts
  <2>2. Z \in SUBSET Machine
    BY <1>5 DEF Rested
  <2> QED BY <2>1, <2>2, RunsNothing
<1>15. lendingIxs = <<>>
  BY SoloParts
<1>16. Runs("position", lendingTxn, S, Z)
  BY <1>13, <1>14, <1>15, TxnOfNone
<1> QED BY <1>2, <1>5, <1>16 DEF Idle

-----------------------------------------------------------------------------
LEMMA SettledLeads ==
  ASSUME IInv, NEW x \in ListedInstruction,
         x.op \notin {"initUserMetadata", "initObligation", "initFarm"}, NEW m, NEW F,
         x.op = "refreshFarms" => x.deps \X {x.how} \subseteq F
  PROVE  Leads("user", x, UserAt(m, TRUE, F), UserAt(m, TRUE, F))
<1> SUFFICES ASSUME NEW s \in UserAt(m, TRUE, F)
             PROVE  Admits("user", x, s) /\ After(x, s) \in UserAt(m, TRUE, F)
  BY DEF Leads
<1>1. /\ s \in Machine /\ s[1].metadata = m /\ s[1].obligation = TRUE /\ s[1].farms = F
      /\ s[1] \in Chain
  BY DEF UserAt, Machine
<1>2. After(x, s) \in Machine
  BY <1>1, AfterTyped
<1>3. PICK l : l = s[1]
  OBVIOUS
<1>4. /\ LedgerAfter(x, l).metadata = l.metadata /\ LedgerAfter(x, l).obligation = l.obligation
      /\ LedgerAfter(x, l).farms = l.farms
  BY <1>1, <1>3 DEF LedgerAfter, Chain
<1>5. After(x, s)[1] = LedgerAfter(x, l)
  BY <1>3 DEF After
<1>6. UserReady(x, s[1])
  <2>1. x.op = "refreshFarms" => \A r \in x.deps : <<r, x.how>> \in s[1].farms
    BY <1>1
  <2> QED BY <1>1, <2>1 DEF UserReady
<1>7. Admits("user", x, s)
  BY <1>6 DEF Admits
<1> QED BY <1>1, <1>2, <1>3, <1>4, <1>5, <1>7 DEF UserAt

LEMMA SettledFarms ==
  ASSUME IInv, NEW S, NEW mode \in Mode, NEW m, NEW F, FarmsAt(S, mode) \subseteq F
  PROVE  Runs("user", RefreshFarms(S, mode), UserAt(m, TRUE, F), UserAt(m, TRUE, F))
<1>1. UserAt(m, TRUE, F) \in SUBSET Machine
  BY DEF UserAt
<1>2. CASE S \intersect FarmsOf(mode) = {}
  BY <1>1, <1>2, RunsNothing DEF RefreshFarms
<1>3. CASE S \intersect FarmsOf(mode) # {}
  <2>1. PICK x : x = [Ix("refreshFarms", NoReserve, S \intersect FarmsOf(mode)) EXCEPT !.how = mode]
    OBVIOUS
  <2>2. RefreshFarms(S, mode) = <<x>>
    BY <1>3, <2>1 DEF RefreshFarms
  <2>3. RefreshFarms(S, mode) \in Seq(Made({"refreshFarms"}))
    BY RefreshFarmsMade
  <2>4. x \in ListedInstruction
    <3>1. <<x>> \in Seq(Made({"refreshFarms"}))
      BY <2>2, <2>3
    <3>2. <<x>>[1] \in Made({"refreshFarms"})
      BY <3>1, ElementOfSeq
    <3> QED BY <3>2 DEF Made
  <2>5. x.op = "refreshFarms" /\ x.deps = S \intersect FarmsOf(mode) /\ x.how = mode
    BY <2>1 DEF Ix
  <2>6. x.deps \X {x.how} \subseteq F
    BY <2>5 DEF FarmsAt
  <2>7. Leads("user", x, UserAt(m, TRUE, F), UserAt(m, TRUE, F))
    BY <2>4, <2>5, <2>6, SettledLeads
  <2> QED BY <1>1, <2>2, <2>7, RunsOne
<1> QED BY <1>2, <1>3

LEMMA SettledRuns ==
  ASSUME IInv, NEW q \in Seq(Made(SwitchOps)), NEW m, NEW F
  PROVE  Runs("user", q, UserAt(m, TRUE, F), UserAt(m, TRUE, F))
<1>1. PICK M, S : M = Made(SwitchOps) /\ S = UserAt(m, TRUE, F)
  OBVIOUS
<1>2. \A x \in M : Leads("user", x, S, S)
  <2> SUFFICES ASSUME NEW x \in M PROVE Leads("user", x, S, S)
    OBVIOUS
  <2>1. x \in ListedInstruction /\ x.op \in SwitchOps
    BY <1>1 DEF Made
  <2>2. x.op \notin {"initUserMetadata", "initObligation", "initFarm", "refreshFarms"}
    BY <2>1 DEF SwitchOps, RefreshOps
  <2> QED BY <1>1, <2>1, <2>2, SettledLeads
<1>3. S \in SUBSET Machine /\ q \in Seq(M)
  BY <1>1 DEF UserAt
<1> QED BY <1>1, <1>2, <1>3, RunsSkip

LEMMA SoloUser ==
  ASSUME IInv, ShapeSound, ValuesBuilt, SoloBuilt, pc = "built", req.action \in ObligationOnly, Sensible
  PROVE  Runs("user", lendingTxn, userStart, Machine)
<1>1. PICK q \in Seq(Made({"computeBudget"})) :
        setupIxs = (((q \o RefreshReserves(known.deposits \union known.borrows))
                       \o (RefreshFarms(known.deposits, "coll") \o RefreshFarms(known.borrows, "debt")))
                      \o RefreshObligation(FALSE)) \o soloRequest
  BY SoloParts
<1>2. known.obligation /\ known.obligation \in BOOLEAN
  BY DEF Sensible, Compatible, IInv, StateSound, TypeOK, Chain
<1>3. PICK S : S = userStart
  OBVIOUS
<1>4. S = UserAt(known.metadata, TRUE, known.farms) /\ S \in SUBSET Machine
  BY <1>2, <1>3 DEF userStart, UserAt
<1>5. Runs("user", q, S, S)
  <2>1. {"computeBudget"} \subseteq Ignored("user")
    BY DEF Ignored, IxOp
  <2>2. q \in Seq(Made(Ignored("user")))
    BY <2>1, MadeMore
  <2>3. Closed("user", S)
    BY <1>4, UserAtClosed
  <2> QED BY <2>2, <2>3, IgnoredRuns DEF Concern
<1>6. /\ Runs("user", RefreshReserves(known.deposits \union known.borrows), S, S)
      /\ Runs("user", RefreshObligation(FALSE), S, S)
      /\ Runs("user", soloRequest, S, S)
  <2>1. known.deposits \union known.borrows \in SUBSET Reserve
    BY SoloListed
  <2>2. /\ {"refreshReserves"} \subseteq SwitchOps /\ {"refreshObligation"} \subseteq SwitchOps
        /\ {"requestElevationGroup"} \subseteq SwitchOps
    BY DEF SwitchOps, RefreshOps
  <2>3. RefreshReserves(known.deposits \union known.borrows) \in Seq(Made(SwitchOps))
    BY <2>1, <2>2, RefreshReservesMade, MadeMore
  <2>4. 0 \in GroupId
    BY DEF GroupId
  <2>5. RefreshObligation(FALSE) \in Seq(Made({"refreshObligation"}))
    BY <2>4, PositionMade
  <2>6. soloRequest \in Seq(Made({"requestElevationGroup"}))
    <3>1. CASE req.action = "refreshObligation"
      BY <3>1, ShortSeq DEF soloRequest
    <3>2. CASE req.action = "requestElevationGroup"
      <4>1. req.override \in GroupId
        BY <3>2, SoloListed
      <4>2. RequestElevation(req.override, FALSE) \in Seq(Made({"requestElevationGroup"}))
        BY <4>1, PositionMade
      <4> QED BY <3>2, <4>2 DEF soloRequest
    <3> QED BY <3>1, <3>2 DEF ObligationOnly
  <2>7. RefreshObligation(FALSE) \in Seq(Made(SwitchOps)) /\ soloRequest \in Seq(Made(SwitchOps))
    BY <2>2, <2>5, <2>6, MadeMore
  <2> QED BY <1>4, <2>3, <2>7, SettledRuns
<1>7. /\ Runs("user", RefreshFarms(known.deposits, "coll"), S, S)
      /\ Runs("user", RefreshFarms(known.borrows, "debt"), S, S)
  <2>1. FarmsAt(known.deposits, "coll") \union FarmsAt(known.borrows, "debt") \subseteq known.farms
    <3>1. ~farmAddedLater(known)
      BY DEF Sensible
    <3>2. ((known.deposits \intersect CollFarm) \X {"coll"})
             \union ((known.borrows \intersect DebtFarm) \X {"debt"}) \subseteq known.farms
      BY <3>1 DEF farmAddedLater
    <3> QED BY <3>2 DEF FarmsAt, FarmsOf
  <2>2. "coll" \in Mode /\ "debt" \in Mode
    BY DEF Mode
  <2> QED BY <1>4, <2>1, <2>2, SettledFarms
<1>8. Runs("user", setupIxs, S, S)
  <2>1. /\ q \in Seq(ListedInstruction)
        /\ RefreshReserves(known.deposits \union known.borrows) \in Seq(ListedInstruction)
        /\ RefreshFarms(known.deposits, "coll") \in Seq(ListedInstruction)
        /\ RefreshFarms(known.borrows, "debt") \in Seq(ListedInstruction)
        /\ RefreshObligation(FALSE) \in Seq(ListedInstruction)
        /\ soloRequest \in Seq(ListedInstruction)
    BY SoloListed, MadeListed
  <2> QED BY <1>1, <1>5, <1>6, <1>7, <2>1, FivePieces
<1>9. Runs("user", cleanupIxs, S, S) /\ lendingIxs = <<>>
  <2>1. cleanupIxs = <<>> /\ lendingIxs = <<>>
    BY SoloParts
  <2> QED BY <1>4, <2>1, RunsNothing
<1>10. Runs("user", lendingTxn, S, S) /\ S \subseteq S /\ S \subseteq Machine
  BY <1>4, <1>8, <1>9, TxnOfNone
<1>11. Runs("user", lendingTxn, S, Machine)
  BY <1>10, RunsWeaken
<1> QED BY <1>3, <1>11

LEMMA SoloElsewhere ==
  ASSUME IInv, ShapeSound, ValuesBuilt, SoloBuilt, pc = "built", req.action \in ObligationOnly, Sensible,
         NEW c \in {"money", "referral"}, NEW S, Closed(c, S)
  PROVE  Runs(c, lendingTxn, S, S)
<1>1. PICK q \in Seq(Made({"computeBudget"})) :
        setupIxs = (((q \o RefreshReserves(known.deposits \union known.borrows))
                       \o (RefreshFarms(known.deposits, "coll") \o RefreshFarms(known.borrows, "debt")))
                      \o RefreshObligation(FALSE)) \o soloRequest
  BY SoloParts
<1>2. c \in Concern /\ S \in SUBSET Machine
  BY DEF Concern, Closed
<1>3. {"computeBudget"} \subseteq Ignored(c) /\ BetweenOps \subseteq Ignored(c)
  BY DEF BetweenOps, SwitchOps, RefreshOps, Ignored, IxOp, AccountOp, LendingOp, PositionOp
<1>4. \A p : p \in Seq(Made(BetweenOps)) => Runs(c, p, S, S)
  <2> SUFFICES ASSUME NEW p, p \in Seq(Made(BetweenOps)) PROVE Runs(c, p, S, S)
    OBVIOUS
  <2>1. p \in Seq(Made(Ignored(c)))
    BY <1>3, MadeMore
  <2> QED BY <1>2, <2>1, IgnoredRuns
<1>5. Runs(c, q, S, S)
  <2>1. q \in Seq(Made(Ignored(c)))
    BY <1>3, MadeMore
  <2> QED BY <1>2, <2>1, IgnoredRuns
<1>6. /\ Runs(c, RefreshReserves(known.deposits \union known.borrows), S, S)
      /\ Runs(c, RefreshFarms(known.deposits, "coll"), S, S)
      /\ Runs(c, RefreshFarms(known.borrows, "debt"), S, S)
      /\ Runs(c, RefreshObligation(FALSE), S, S)
      /\ Runs(c, soloRequest, S, S)
  BY <1>4, SoloListed
<1>7. Runs(c, setupIxs, S, S)
  <2>1. /\ q \in Seq(ListedInstruction)
        /\ RefreshReserves(known.deposits \union known.borrows) \in Seq(ListedInstruction)
        /\ RefreshFarms(known.deposits, "coll") \in Seq(ListedInstruction)
        /\ RefreshFarms(known.borrows, "debt") \in Seq(ListedInstruction)
        /\ RefreshObligation(FALSE) \in Seq(ListedInstruction)
        /\ soloRequest \in Seq(ListedInstruction)
    BY SoloListed, MadeListed
  <2> QED BY <1>1, <1>5, <1>6, <2>1, FivePieces
<1>8. Runs(c, cleanupIxs, S, S) /\ lendingIxs = <<>>
  <2>1. cleanupIxs = <<>> /\ lendingIxs = <<>>
    BY SoloParts
  <2> QED BY <1>2, <2>1, RunsNothing
<1> QED BY <1>7, <1>8, TxnOfNone

-----------------------------------------------------------------------------
\* The withdrawal of referrer fees.
LEMMA FeesParts ==
  ASSUME IInv, ShapeSound, SoloBuilt, pc = "built", req.action = "withdrawReferrerFees"
  PROVE  /\ setupIxs = RefreshReserves({req.reserve}) /\ cleanupIxs = <<>>
         /\ preTxnIxs = CreateIfMissing("createAta", known.atas, req.reserve)
         /\ Len(lendingIxs) = 1 /\ lendingIxs[1] \in ListedInstruction
         /\ lendingIxs[1].op = "withdrawReferrerFees" /\ lendingIxs[1].res = req.reserve
         /\ {req.reserve} \in SUBSET Reserve
         /\ RefreshReserves({req.reserve}) \in Seq(Made({"refreshReserves"}))
<1>1. ~passes /\ Lent /\ req.action \notin ObligationOnly /\ ~twoToken
  BY DEF passes, Lent, ObligationOnly, twoToken, TwoTokenAction
<1>2. /\ setupIxs = RefreshReserves({req.reserve}) /\ cleanupIxs = <<>>
      /\ preTxnIxs = CreateIfMissing("createAta", known.atas, req.reserve)
  BY <1>1 DEF SoloBuilt
<1>3. Len(lendingIxs) = 1
  BY <1>1, LentOnce
<1>4. firstOp = "withdrawReferrerFees"
  BY DEF firstOp
<1>5. {req.reserve} \in SUBSET Reserve
  BY DEF IInv, StateSound, TypeOK, Request
<1>6. RefreshReserves({req.reserve}) \in Seq(Made({"refreshReserves"}))
  BY <1>5, RefreshReservesMade
<1> QED BY <1>1, <1>2, <1>3, <1>4, <1>5, <1>6, FirstFits

LEMMA FeesRuns ==
  ASSUME IInv, ShapeSound, SoloBuilt, pc = "built", req.action = "withdrawReferrerFees", NEW c,
         NEW S, NEW T \in SUBSET Machine, NEW U,
         Runs(c, RefreshReserves({req.reserve}), S, T), Leads(c, lendingIxs[1], T, T), T \subseteq U
  PROVE  Runs(c, lendingTxn, S, U)
<1>1. Runs(c, cleanupIxs, T, T)
  BY FeesParts, RunsNothing
<1>2. Runs(c, setupIxs, S, T)
  BY FeesParts
<1>3. Len(lendingIxs) = 1
  BY FeesParts
<1>4. Runs(c, lendingTxn, S, T) /\ S \subseteq S
  BY <1>1, <1>2, <1>3, TxnOfOne
<1> QED BY <1>4, RunsWeaken

LEMMA FeesPosition ==
  ASSUME IInv, ShapeSound, SoloBuilt, pc = "built", req.action = "withdrawReferrerFees"
  PROVE  Runs("position", lendingTxn, Idle(known.deposits, known.borrows, {known.group}), Rested)
<1>1. PICK D, B, G, R : D = known.deposits /\ B = known.borrows /\ G = {known.group} /\ R = {req.reserve}
  OBVIOUS
<1>2. PICK S, T : /\ S = Standing(D, B, G, {}, FALSE, {}, {})
                  /\ T = Standing(D, B, G, R, FALSE, {}, {})
  OBVIOUS
<1>3. R \in SUBSET Reserve
  BY <1>1, FeesParts
<1>4. Runs("position", RefreshReserves(R), S, T)
  <2>1. Runs("position", RefreshReserves(R), Standing(D, B, G, {}, FALSE, {}, {}),
             Standing(D, B, G, {} \union R, FALSE, {}, {}))
    BY <1>3, RefreshReservesStands
  <2>2. {} \union R = R
    OBVIOUS
  <2> QED BY <1>2, <2>1, <2>2
<1>5. PICK x : x = lendingIxs[1]
  OBVIOUS
<1>6. x \in ListedInstruction /\ x.op = "withdrawReferrerFees" /\ x.res = req.reserve
  BY <1>5, FeesParts
<1>7. ASSUME NEW s \in T
      PROVE  Admits("position", x, s) /\ After(x, s) \in T
  <2>1. s \in Machine /\ R \subseteq s[2].fresh
    BY <1>2 DEF Standing
  <2>2. After(x, s) \in Machine
    BY <1>6, <2>1, AfterTyped
  <2>3. LedgerAfter(x, s[1]) = s[1] /\ VMAfter(x, s[2]) = s[2]
    BY <1>6 DEF LedgerAfter, VMAfter, PositionOp
  <2>4. After(x, s)[1] = s[1] /\ After(x, s)[2] = s[2]
    BY <2>3 DEF After
  <2>5. Admits("position", x, s)
    BY <1>1, <1>6, <2>1 DEF Admits, PositionsListed, Refreshed, PositionHeld, PositionOp
  <2> QED BY <1>2, <2>2, <2>4, <2>5 DEF Standing
<1>8. Leads("position", lendingIxs[1], T, T)
  BY <1>5, <1>7 DEF Leads
<1>9. T \in SUBSET Machine /\ T \subseteq Rested
  BY <1>2 DEF Standing, Rested
<1>10. Runs("position", lendingTxn, S, Rested)
  BY <1>1, <1>4, <1>8, <1>9, FeesRuns
<1> QED BY <1>1, <1>2, <1>10 DEF Idle

LEMMA FeesMoney ==
  ASSUME IInv, ShapeSound, SoloBuilt, pc = "built", req.action = "withdrawReferrerFees",
         NEW l, Agrees(l), Done(preTxnIxs, l)
  PROVE  Runs("money", lendingTxn, Supplied(l), Machine)
<1>1. req.reserve \in l.atas
  <2>1. CASE req.reserve \in known.atas
    BY <2>1 DEF Agrees
  <2>2. CASE req.reserve \notin known.atas
    <3>1. preTxnIxs = <<Ix("createAta", req.reserve, {})>>
      BY <2>2, FeesParts DEF CreateIfMissing
    <3>2. preTxnIxs[1].op = "createAta" /\ preTxnIxs[1].res = req.reserve /\ 1 \in 1..Len(preTxnIxs)
      BY <3>1 DEF Ix
    <3> QED BY <3>2 DEF Done
  <2> QED BY <2>1, <2>2
<1>2. PICK S : S = Supplied(l)
  OBVIOUS
<1>3. Closed("money", S) /\ S \in SUBSET Machine
  BY <1>2, HoldingClosed DEF Supplied
<1>4. Runs("money", RefreshReserves({req.reserve}), S, S)
  <2>1. {"refreshReserves"} \subseteq Ignored("money")
    BY DEF Ignored, IxOp, AccountOp, LendingOp, PositionOp
  <2>2. RefreshReserves({req.reserve}) \in Seq(Made(Ignored("money")))
    BY <2>1, FeesParts, MadeMore
  <2> QED BY <1>3, <2>2, IgnoredRuns DEF Concern
<1>5. PICK x : x = lendingIxs[1]
  OBVIOUS
<1>6. x \in ListedInstruction /\ x.op = "withdrawReferrerFees" /\ x.res = req.reserve
  BY <1>5, FeesParts
<1>7. ASSUME NEW s \in S
      PROVE  Admits("money", x, s) /\ After(x, s) \in S
  <2>1. x.op \in LendingOp
    BY <1>6 DEF LendingOp
  <2>2. s \in Holding(l.atas, l.colAtas, FALSE, FALSE)
    BY <1>2 DEF Supplied
  <2>3. After(x, s) \in S
    BY <1>2, <1>6, <2>1, <2>2, LendingHolds DEF Supplied
  <2>4. x.res \in s[1].atas
    BY <1>1, <1>6, <2>2 DEF Holding
  <2> QED BY <1>6, <2>3, <2>4 DEF Admits, AccountsReady, SolFunded
<1>8. Leads("money", lendingIxs[1], S, S) /\ S \subseteq Machine
  BY <1>3, <1>5, <1>7 DEF Leads
<1>9. Runs("money", lendingTxn, S, Machine)
  BY <1>3, <1>4, <1>8, FeesRuns
<1> QED BY <1>2, <1>9

LEMMA FeesElsewhere ==
  ASSUME IInv, ShapeSound, SoloBuilt, pc = "built", req.action = "withdrawReferrerFees",
         NEW c \in {"user", "referral"}, NEW S, Closed(c, S)
  PROVE  Runs(c, lendingTxn, S, S)
<1>1. c \in Concern /\ S \in SUBSET Machine
  BY DEF Concern, Closed
<1>2. {"refreshReserves", "withdrawReferrerFees"} \subseteq Ignored(c)
  BY DEF Ignored, IxOp
<1>3. Runs(c, RefreshReserves({req.reserve}), S, S)
  <2>1. {"refreshReserves"} \subseteq Ignored(c)
    BY <1>2
  <2>2. RefreshReserves({req.reserve}) \in Seq(Made(Ignored(c)))
    BY <2>1, FeesParts, MadeMore
  <2> QED BY <1>1, <2>2, IgnoredRuns
<1>4. lendingIxs[1] \in Made(Ignored(c))
  BY <1>2, FeesParts DEF Made
<1>5. Leads(c, lendingIxs[1], S, S) /\ S \subseteq S
  BY <1>1, <1>4, IgnoredLeads
<1> QED BY <1>1, <1>3, <1>5, FeesRuns

-----------------------------------------------------------------------------
(***************************************************************************)
(* The transaction of a request that makes sense is accepted throughout.   *)
(***************************************************************************)
PlansBuilt ==
  /\ KindsBuilt /\ ReferralBuilt /\ UserBuilt /\ MoneyBuilt /\ ValuesBuilt
  /\ StandBuilt /\ DepsBuilt /\ SoloBuilt

\* What a transaction of each concern is left with.
Finish(c) == IF c = "position" THEN Rested ELSE Machine

LEMMA MachineClosed ==
  \A c : Closed(c, Machine) /\ Closed("position", Rested) /\ Rested \in SUBSET Machine
BY DEF Closed, Alike, Rested

\* The state a transaction starts in meets what the plans start from.
LEMMA StartFits ==
  ASSUME IInv, NEW l, Agrees(l)
  PROVE  /\ {<<l, NewVM>>} \subseteq Machine /\ {<<l, NewVM>>} \subseteq Rested
         /\ {<<l, NewVM>>} \subseteq Idle(known.deposits, known.borrows, {known.group})
         /\ {<<l, NewVM>>} \subseteq userStart
         /\ (known.referrer => referrer) => {<<l, NewVM>>} \subseteq TokStart
         /\ {<<l, NewVM>>} \subseteq Supplied(l)
<1>1. PICK s : s = <<l, NewVM>>
  OBVIOUS
<1>2. l \in Chain /\ known \in Chain
  BY DEF IInv, StateSound, TypeOK, Agrees
<1>3. s \in Machine /\ s[1] = l /\ s[2] = NewVM
  BY <1>1, <1>2, NewVMTyped DEF Machine
<1>4. /\ l.deposits = known.deposits /\ l.borrows = known.borrows /\ l.group = known.group
      /\ l.metadata = known.metadata /\ l.obligation = known.obligation /\ l.farms = known.farms
      /\ l.tokenStates = known.tokenStates /\ l.referrer = known.referrer
  BY <1>2 DEF Agrees, Chain
<1>5. NewVM.fresh = {} /\ NewVM.farmFresh = {} /\ NewVM.farmOwed = {}
  BY DEF NewVM
<1>6. s \in Rested
  BY <1>3, <1>5 DEF Rested
<1>7. s \in Idle(known.deposits, known.borrows, {known.group})
  BY <1>3, <1>4, <1>5 DEF Idle, Standing
<1>8. s \in userStart
  BY <1>3, <1>4 DEF userStart, UserAt
<1>9. (known.referrer => referrer) => s \in TokStart
  BY <1>3, <1>4 DEF TokStart
<1>10. s \in Supplied(l)
  BY <1>3 DEF Supplied, Holding
<1> QED BY <1>1, <1>3, <1>6, <1>7, <1>8, <1>9, <1>10

\* From a set that holds the start state, to where the concern ends.
LEMMA StartRuns ==
  ASSUME NEW c, NEW q, NEW S, NEW T, NEW U, NEW V, Runs(c, q, S, T), U \subseteq S, T \subseteq V
  PROVE  Runs(c, q, U, V)
BY RunsWeaken

\* The transaction runs to its end from a chain that agrees with the one read.
LEMMA PlannedTxn ==
  ASSUME IInv, ShapeSound, PlansBuilt, pc = "built", Sensible,
         NEW l, Agrees(l), AccountsHeld(l), Done(preTxnIxs, l), NEW c \in Concern
  PROVE  Runs(c, lendingTxn, {<<l, NewVM>>}, Finish(c))
<1>1. PICK s : s = {<<l, NewVM>>}
  OBVIOUS
<1>2. /\ KindsBuilt /\ ReferralBuilt /\ UserBuilt /\ MoneyBuilt /\ ValuesBuilt
      /\ StandBuilt /\ DepsBuilt /\ SoloBuilt
  BY DEF PlansBuilt
<1>3. /\ Finish("position") = Rested /\ Finish("money") = Machine
      /\ Finish("user") = Machine /\ Finish("referral") = Machine
  BY DEF Finish
<1>4. req.action \in ActionType
  BY DEF IInv, StateSound, TypeOK, Request
<1>5. CASE asksAccounts /\ passes
  <2>1. Runs("referral", lendingTxn, TokStart, TokReady) /\ (known.referrer => referrer)
    BY <1>2, <1>5, ReferralTxn
  <2>2. /\ s \subseteq Idle(known.deposits, known.borrows, {known.group}) /\ s \subseteq userStart
        /\ s \subseteq TokStart /\ s \subseteq Supplied(l)
    BY <1>1, <2>1, StartFits
  <2>3. Runs("position", lendingTxn, Idle(known.deposits, known.borrows, {known.group}), Rested)
    BY <1>2, <1>5, PositionTxn
  <2>4. Runs("user", lendingTxn, userStart, userEnd)
    BY <1>2, <1>5, UserTxn
  <2>5. Runs("money", lendingTxn, Supplied(l), Machine)
    BY <1>2, <1>5, MoneyTxn
  <2>6. userEnd \subseteq Machine /\ TokReady \subseteq Machine
    BY DEF userEnd, UserAt, TokReady
  <2>7. Rested \subseteq Rested /\ Machine \subseteq Machine
    OBVIOUS
  <2>8. Runs("position", lendingTxn, s, Rested)
    BY <2>2, <2>3, <2>7, StartRuns
  <2>9. Runs("user", lendingTxn, s, Machine)
    BY <2>2, <2>4, <2>6, StartRuns
  <2>10. Runs("referral", lendingTxn, s, Machine)
    BY <2>1, <2>2, <2>6, StartRuns
  <2>11. Runs("money", lendingTxn, s, Machine)
    BY <2>2, <2>5, <2>7, StartRuns
  <2> QED BY <1>1, <1>3, <2>8, <2>9, <2>10, <2>11 DEF Concern
<1>6. /\ s \subseteq Machine /\ s \subseteq Rested /\ s \subseteq Supplied(l)
      /\ s \subseteq Idle(known.deposits, known.borrows, {known.group}) /\ s \subseteq userStart
  BY <1>1, StartFits
<1>7. Rested \subseteq Rested /\ Machine \subseteq Machine /\ userStart \subseteq Machine
  BY DEF userStart, UserAt
<1>8. CASE req.action \in {"mint", "redeem"}
  <2>1. Runs("position", lendingTxn, Rested, Rested)
    BY <1>2, <1>8, MachineClosed, PlainTxn
  <2>2. Runs("user", lendingTxn, Machine, Machine) /\ Runs("referral", lendingTxn, Machine, Machine)
    BY <1>2, <1>8, MachineClosed, PlainTxn
  <2>3. passes
    BY <1>8 DEF passes, ObligationOnly
  <2>4. Runs("money", lendingTxn, Supplied(l), Machine)
    BY <1>2, <2>3, MoneyTxn
  <2>5. Runs("position", lendingTxn, s, Rested)
    BY <1>6, <1>7, <2>1, StartRuns
  <2>6. Runs("user", lendingTxn, s, Machine)
    BY <1>6, <1>7, <2>2, StartRuns
  <2>7. Runs("referral", lendingTxn, s, Machine)
    BY <1>6, <1>7, <2>2, StartRuns
  <2>8. Runs("money", lendingTxn, s, Machine)
    BY <1>6, <1>7, <2>4, StartRuns
  <2> QED BY <1>1, <1>3, <2>5, <2>6, <2>7, <2>8 DEF Concern
<1>9. CASE req.action \in ObligationOnly
  <2>1. Runs("position", lendingTxn, Idle(known.deposits, known.borrows, {known.group}), Rested)
    BY <1>2, <1>9, SoloPosition
  <2>2. Runs("user", lendingTxn, userStart, Machine)
    BY <1>2, <1>9, SoloUser
  <2>3. Runs("money", lendingTxn, Machine, Machine) /\ Runs("referral", lendingTxn, Machine, Machine)
    BY <1>2, <1>9, MachineClosed, SoloElsewhere
  <2>4. Runs("position", lendingTxn, s, Rested)
    BY <1>6, <1>7, <2>1, StartRuns
  <2>5. Runs("user", lendingTxn, s, Machine)
    BY <1>6, <1>7, <2>2, StartRuns
  <2>6. Runs("money", lendingTxn, s, Machine)
    BY <1>6, <1>7, <2>3, StartRuns
  <2>7. Runs("referral", lendingTxn, s, Machine)
    BY <1>6, <1>7, <2>3, StartRuns
  <2> QED BY <1>1, <1>3, <2>4, <2>5, <2>6, <2>7 DEF Concern
<1>10. CASE req.action = "withdrawReferrerFees"
  <2>1. Runs("position", lendingTxn, Idle(known.deposits, known.borrows, {known.group}), Rested)
    BY <1>2, <1>10, FeesPosition
  <2>2. Runs("money", lendingTxn, Supplied(l), Machine)
    BY <1>2, <1>10, FeesMoney
  <2>3. Runs("user", lendingTxn, Machine, Machine) /\ Runs("referral", lendingTxn, Machine, Machine)
    BY <1>2, <1>10, MachineClosed, FeesElsewhere
  <2>4. Runs("position", lendingTxn, s, Rested)
    BY <1>6, <1>7, <2>1, StartRuns
  <2>5. Runs("money", lendingTxn, s, Machine)
    BY <1>6, <1>7, <2>2, StartRuns
  <2>6. Runs("user", lendingTxn, s, Machine)
    BY <1>6, <1>7, <2>3, StartRuns
  <2>7. Runs("referral", lendingTxn, s, Machine)
    BY <1>6, <1>7, <2>3, StartRuns
  <2> QED BY <1>1, <1>3, <2>4, <2>5, <2>6, <2>7 DEF Concern
<1> QED BY <1>4, <1>5, <1>8, <1>9, <1>10 DEF asksAccounts, passes, ActionType, ObligationOnly

-----------------------------------------------------------------------------
LEMMA PlansStep ==
  ASSUME IInv, ShapeSound, GroupBuilt, FarmSound, PlansBuilt, Next, ~Initialize, known = chain
  PROVE  PlansBuilt'
<1>1. /\ KindsBuilt /\ ReferralBuilt /\ UserBuilt /\ MoneyBuilt /\ ValuesBuilt
      /\ StandBuilt /\ DepsBuilt /\ SoloBuilt
  BY DEF PlansBuilt
<1>2. KindsBuilt' /\ ValuesBuilt'
  BY <1>1, KindsStep, ValuesStep
<1>3. ReferralBuilt' /\ UserBuilt'
  BY <1>1, ReferralStep, UserStep
<1>4. MoneyBuilt' /\ StandBuilt'
  BY <1>1, MoneyStep, StandStep
<1>5. DepsBuilt' /\ SoloBuilt'
  BY <1>1, DepsStep, SoloStep
<1> QED BY <1>2, <1>3, <1>4, <1>5 DEF PlansBuilt

\* Nothing is built yet, and the reserve lists are those of the obligation.
JustLoaded ==
  /\ NothingBuilt /\ lendingIxs = <<>> /\ preTxnIxs = <<>>
  /\ pc = "budget" =>
       /\ depositReserves = known.deposits /\ borrowReserves = known.borrows
       /\ preLoadedDepositReservesSameTx = {} /\ preLoadedBorrowReservesSameTx = {}
       /\ known.referrer => referrer

LEMMA PlansEmpty == JustLoaded => PlansBuilt
<1> SUFFICES ASSUME JustLoaded PROVE PlansBuilt
  OBVIOUS
<1>1. /\ phase = "setup" /\ setupIxs = <<>> /\ inBetweenIxs = <<>> /\ cleanupIxs = <<>>
      /\ refreshFarmsCleanupTxnIxs = <<>> /\ preTxnIxs = <<>>
      /\ pc \in {"initialize", "budget", "thrown"}
           \/ (pc = "lending" /\ req.action = "withdrawReferrerFees")
      /\ pc = "budget" =>
           /\ depositReserves = known.deposits /\ borrowReserves = known.borrows
           /\ preLoadedDepositReservesSameTx = {} /\ preLoadedBorrowReservesSameTx = {}
           /\ known.referrer => referrer
  BY DEF JustLoaded, NothingBuilt
<1>2. \A X : <<>> \in Seq(X)
  BY ShortSeq
<1>3. pc \in {"initialize", "budget", "thrown"} \/ ~passes
  BY <1>1 DEF passes
<1>4. KindsBuilt
  BY <1>1, <1>3, KindsEmpty
<1>5. Underway => pc = "budget"
  BY <1>3 DEF Underway
<1>6. ReferralBuilt
  BY <1>1, <1>5 DEF ReferralBuilt, afterReferrer
<1>7. UserBuilt
  <2> SUFFICES ASSUME pc = "budget"
               PROVE  UserPlan(pc, phase, setupIxs, inBetweenIxs, cleanupIxs, refreshFarmsCleanupTxnIxs)
    BY <1>5 DEF UserBuilt
  <2>1. userStage(pc, phase) = userStart
    BY <1>1 DEF userStage
  <2>2. userStart \in SUBSET Machine
    BY DEF userStart, UserAt
  <2>3. Runs("user", <<>>, userStart, userStart)
    BY <2>2, RunsNothing
  <2> QED BY <1>1, <1>2, <2>1, <2>3 DEF UserPlan
<1>8. MoneyBuilt
  BY <1>1, <1>5 DEF MoneyBuilt, beforeAta
<1>9. ValuesBuilt
  BY <1>1 DEF ValuesBuilt
<1>10. StandBuilt
  <2> SUFFICES ASSUME pc = "budget"
               PROVE  StandPlan(pc, phase, readyGroups, setupIxs, inBetweenIxs, cleanupIxs)
    BY <1>5 DEF StandBuilt
  <2>1. PICK S : S = Idle(known.deposits, known.borrows, {known.group})
    OBVIOUS
  <2>2. S \in SUBSET Machine
    BY <2>1, StandingMachine
  <2>3. setupStage(pc, phase, readyGroups) = S
    BY <1>1, <2>1 DEF setupStage, beforeAta
  <2>4. Runs("position", <<>>, S, S)
    BY <2>2, RunsNothing
  <2>5. beforeLeaving(pc, phase) /\ ~(pc = "lending" \/ phase = "inBetween")
    BY <1>1 DEF beforeLeaving, beforeAta
  <2> QED BY <1>1, <1>2, <2>1, <2>3, <2>4, <2>5 DEF StandPlan
<1>11. DepsBuilt
  BY <1>1, <1>5 DEF DepsBuilt, Lent
<1>12. SoloBuilt
  <2>1. pc # "built" /\ (req.action = "withdrawReferrerFees" => req.action \notin ObligationOnly)
    BY <1>1 DEF ObligationOnly
  <2> QED BY <1>1, <1>2, <2>1 DEF SoloBuilt
<1> QED BY <1>4, <1>6, <1>7, <1>8, <1>9, <1>10, <1>11, <1>12 DEF PlansBuilt

LEMMA PlansEmptyNext == JustLoaded' => PlansBuilt'
BY PlansEmpty, PTL

\* Plans are of the call and the lists alone: what is sent does not touch them.
LEMMA PlansSame ==
  ASSUME UNCHANGED <<req, referrer, known, pc, phase, reserveLists, potentialGroup, lists>>, PlansBuilt
  PROVE  PlansBuilt'
<1>1. /\ KindsBuilt /\ ReferralBuilt /\ UserBuilt /\ MoneyBuilt /\ ValuesBuilt
      /\ StandBuilt /\ DepsBuilt /\ SoloBuilt
  BY DEF PlansBuilt
<1>2. /\ UNCHANGED <<setupIxs, inBetweenIxs, lendingIxs, cleanupIxs, preTxnIxs,
                     refreshFarmsCleanupTxnIxs>>
      /\ UNCHANGED <<depositReserves, borrowReserves, preLoadedDepositReservesSameTx,
                     preLoadedBorrowReservesSameTx>>
  BY DEF lists, reserveLists
<1>3. Underway' = Underway /\ passes' = passes /\ Lent' = Lent /\ readyGroups' = readyGroups
      /\ afterReferrer' = afterReferrer /\ asksAccounts' = asksAccounts
  BY DEF Underway, passes, Lent, readyGroups, afterReferrer, asksAccounts
<1>4. KindsBuilt'
  <2>1. Underway' => KindsPlan(pc', phase', setupIxs', inBetweenIxs', cleanupIxs',
                               refreshFarmsCleanupTxnIxs')
    BY <1>1, <1>2, <1>3 DEF KindsBuilt
  <2> QED BY <2>1, KindsPrimed
<1>5. ReferralBuilt'
  <2>1. Underway' /\ asksAccounts =>
           /\ known.referrer => referrer
           /\ afterReferrer' => ReferralPlan(setupIxs')
    BY <1>1, <1>2, <1>3 DEF ReferralBuilt
  <2> QED BY <2>1, ReferralPrimed
<1>6. UserBuilt'
  <2>1. Underway' /\ asksAccounts /\ Sensible =>
          UserPlan(pc', phase', setupIxs', inBetweenIxs', cleanupIxs', refreshFarmsCleanupTxnIxs')
    BY <1>1, <1>2, <1>3 DEF UserBuilt
  <2> QED BY <2>1, UserPrimed
<1>7. MoneyBuilt'
  <2>1. Underway' /\ ~(pc' \in beforeAta /\ phase' = "setup") =>
           \A l : Agrees(l) /\ AccountsHeld(l) /\ Done(preTxnIxs', l) =>
                    MoneyPlan(l, pc', phase', setupIxs', cleanupIxs')
    BY <1>1, <1>2, <1>3 DEF MoneyBuilt
  <2> QED BY <2>1, MoneyPrimed
<1>8. ValuesBuilt'
  <2>1. passDeposits' = passDeposits /\ preDeposits' = preDeposits /\ preBorrows' = preBorrows
    BY DEF passDeposits, preDeposits, preBorrows, twoToken
  <2> QED BY <1>1, <1>2, <2>1 DEF ValuesBuilt
<1>9. StandBuilt'
  <2>1. Underway' /\ asksAccounts /\ Sensible =>
           StandPlan(pc', phase', readyGroups', setupIxs', inBetweenIxs', cleanupIxs')
    BY <1>1, <1>2, <1>3 DEF StandBuilt
  <2> QED BY <2>1, StandPrimed
<1>10. DepsBuilt'
  <2>1. Underway' /\ asksAccounts /\ Sensible /\ Lent' => LentDeps(lendingIxs', readyGroups')
    BY <1>1, <1>2, <1>3 DEF DepsBuilt
  <2> QED BY <2>1, DepsPrimed
<1>11. SoloBuilt'
  <2>1. Made({"computeBudget"})' = Made({"computeBudget"})
    BY MadeSame
  <2>2. soloRequest' = soloRequest /\ RefreshObligation(FALSE)' = RefreshObligation(FALSE)
    BY <1>2 DEF soloRequest, RefreshObligation, RequestElevation, PositionAccounts,
       AdditionalDepositReservesList
  <2> QED BY <1>1, <1>2, <1>3, <2>1, <2>2 DEF SoloBuilt
<1> QED BY <1>4, <1>5, <1>6, <1>7, <1>8, <1>9, <1>10, <1>11 DEF PlansBuilt

LEMMA PlansInitialize == ASSUME IInv, Initialize, IInv', ShapeSound PROVE PlansBuilt'
<1>1. /\ phase = "setup" /\ UNCHANGED <<phase, lists>> /\ Unbuilt
      /\ pc' \in {"budget", "thrown"} \/ (pc' = "lending" /\ req'.action = "withdrawReferrerFees")
  BY DEF Initialize, IInv, StateSound, ReserveListsSound, ShapeSound
<1>2. NothingBuilt'
  BY <1>1 DEF NothingBuilt, Unbuilt, lists
<1>3. preLoadedDepositReservesSameTx = {} /\ preLoadedBorrowReservesSameTx = {}
  BY <1>1 DEF Unbuilt
<1>4. pc' = "budget" =>
        /\ depositReserves' = known'.deposits /\ borrowReserves' = known'.borrows
        /\ preLoadedDepositReservesSameTx' = {} /\ preLoadedBorrowReservesSameTx' = {}
        /\ known'.referrer => referrer'
  BY <1>3 DEF Initialize
<1>5. lendingIxs' = <<>> /\ preTxnIxs' = <<>>
  BY <1>1 DEF Unbuilt, lists
<1>6. JustLoaded'
  BY <1>2, <1>4, <1>5 DEF JustLoaded
<1> QED BY <1>6, PlansEmptyNext

LEMMA PlansSendStep ==
  WrappedSol /\ GroupBuilt /\ FarmSound /\ PlansBuilt /\ [SendNext]_allVars => PlansBuilt'
<1> SUFFICES ASSUME WrappedSol, GroupBuilt, FarmSound, PlansBuilt, [SendNext]_allVars PROVE PlansBuilt'
  OBVIOUS
<1>1. SendCore /\ IInv /\ ShapeSound
  BY DEF WrappedSol, SendCore
<1>2. CASE Build
  <2>1. Next /\ IInv' /\ status = "building"
    BY <1>1, <1>2, NextSound DEF Build
  <2>2. CASE Initialize
    BY <1>1, <2>1, <2>2, PlansInitialize
  <2>3. CASE ~Initialize
    <3>1. pc # "initialize"
      BY <1>1, <2>1, <2>3, StepKeeps DEF Next, Initialize
    <3>2. known = chain
      BY <1>1, <2>1, <3>1 DEF SendCore, SendSound
    <3> QED BY <1>1, <2>1, <2>3, <3>2, PlansStep
  <2> QED BY <2>2, <2>3
<1>3. CASE Retry
  <2>1. SendCore'
    BY <1>1, <1>3, RetrySound
  <2>2. NothingBuilt'
    BY <1>3, <2>1 DEF Retry, SendCore, NothingBuilt
  <2>3. JustLoaded'
    BY <1>3, <2>2 DEF Retry, JustLoaded
  <2> QED BY <2>3, PlansEmptyNext
<1>4. CASE ~Build /\ ~Retry
  <2>1. UNCHANGED <<req, referrer, known, pc, phase, reserveLists, potentialGroup, lists>>
    BY <1>4 DEF SendNext, GetTransactions, SendPreTxn, ExecuteIx, Reject, Commit, Drop, vars,
       loaded, allVars
  <2> QED BY <2>1, PlansSame
<1> QED BY <1>2, <1>3, <1>4

-----------------------------------------------------------------------------
(***************************************************************************)
(* What makes sense of the chain makes sense of what was read of it.       *)
(***************************************************************************)
CompatSound ==
  /\ Compatible(req, known)
  /\ status # "committed" => Compatible(req, chain)

LEMMA CompatStep == WrappedSol /\ CompatSound /\ [SendNext]_allVars => CompatSound'
<1> SUFFICES ASSUME WrappedSol, CompatSound, [SendNext]_allVars PROVE CompatSound'
  OBVIOUS
<1>1. SendCore
  BY DEF WrappedSol
<1>2. CASE Build
  <2>1. Next /\ status = "building" /\ status' = status
    BY <1>2 DEF Build, sendVars
  <2>2. UNCHANGED <<req, chain>> /\ known' \in {known, chain}
    <3>1. CASE Initialize
      BY <3>1 DEF Initialize
    <3>2. CASE ~Initialize
      BY <2>1, <3>2, StepKeeps DEF loaded
    <3> QED BY <3>1, <3>2
  <2> QED BY <2>1, <2>2 DEF CompatSound, Compatible
<1>3. CASE SendPreTxn
  <2>1. /\ UNCHANGED <<req, known>> /\ status = "pre"
        /\ UNCHANGED chain \/ chain' = [chain EXCEPT !.atas = chain'.atas, !.colAtas = chain'.colAtas]
    <3>1. chain \in Chain
      BY <1>1 DEF SendCore, IInv, StateSound, TypeOK
    <3> QED BY <1>3, <3>1 DEF SendPreTxn, Chain
  <2>2. chain \in Chain
    BY <1>1 DEF SendCore, IInv, StateSound, TypeOK
  <2>3. /\ chain'.obligation = chain.obligation /\ chain'.deposits = chain.deposits
        /\ chain'.borrows = chain.borrows /\ chain'.group = chain.group
        /\ chain'.metadata = chain.metadata /\ chain'.slot0 = chain.slot0
    BY <2>1, <2>2 DEF Chain
  <2> QED BY <2>1, <2>3 DEF CompatSound, Compatible
<1>4. CASE Commit
  BY <1>4 DEF Commit, CompatSound, Compatible
<1>5. CASE Retry
  BY <1>5 DEF Retry, CompatSound, Compatible
<1>6. CASE ~Build /\ ~SendPreTxn /\ ~Commit /\ ~Retry
  <2>1. UNCHANGED <<req, known, chain>> /\ (status = "committed" => status' = "committed")
    BY <1>6 DEF SendNext, GetTransactions, ExecuteIx, Reject, Drop, vars, loaded, allVars, sendVars
  <2>2. status' # "committed" => status # "committed"
    BY <2>1
  <2> QED BY <2>1, <2>2 DEF CompatSound, Compatible
<1> QED BY <1>2, <1>3, <1>4, <1>5, <1>6

LEMMA ServableSensible ==
  ASSUME IInv, NEW l, Agrees(l), Servable(l), Compatible(req, l)
  PROVE  Sensible /\ AccountsHeld(l)
<1>1. l \in Chain /\ known \in Chain
  BY DEF IInv, StateSound, TypeOK, Agrees
<1>2. /\ l.deposits = known.deposits /\ l.borrows = known.borrows /\ l.group = known.group
      /\ l.metadata = known.metadata /\ l.obligation = known.obligation /\ l.farms = known.farms
      /\ l.slot0 = known.slot0
  BY <1>1 DEF Agrees, Chain
<1>3. Compatible(req, known)
  BY <1>2 DEF Compatible
<1>4. PositionsHeld(known) /\ FlagsTruthful(known)
  BY <1>2 DEF Servable, PositionsHeld, FlagsTruthful
<1>5. ~nearlyFull(known) /\ ~emptiedBeforeGroupRequest(known) /\ ~repaidIsDeposit(known)
  BY <1>2 DEF Servable, nearlyFull, emptiedBeforeGroupRequest, repaidIsDeposit
<1>6. ~listedBeforePreload(known) /\ ~farmAddedLater(known)
  BY <1>2 DEF Servable, listedBeforePreload, farmAddedLater
<1> QED BY <1>3, <1>4, <1>5, <1>6 DEF Sensible, Servable

\* The four concerns together are all the program looks at.
LEMMA AdmitsAll ==
  ASSUME NEW x, NEW l, NEW v, \A c \in Concern : Admits(c, x, <<l, v>>)
  PROVE  Accepts(x, l, v)
<1>1. /\ Admits("money", x, <<l, v>>) /\ Admits("user", x, <<l, v>>)
      /\ Admits("referral", x, <<l, v>>) /\ Admits("position", x, <<l, v>>)
  BY DEF Concern
<1> QED BY <1>1 DEF Admits, Accepts

LEMMA RejectedUnservable ==
  ASSUME WrappedSol, FlightSound, CompatSound, PlansBuilt, Reject, preOutcome # "failed"
  PROVE  ~Servable(chain)
<1> SUFFICES ASSUME Servable(chain) PROVE FALSE
  OBVIOUS
<1>1. SendCore /\ IInv /\ ShapeSound
  BY DEF WrappedSol, SendCore
<1>2. status = "lending" /\ pc = "built" /\ queue \in Seq(ListedInstruction)
  BY <1>1 DEF Reject, SendCore, SendSound
<1>3. PICK l : l = chain
  OBVIOUS
<1>4. Agrees(l) /\ Started(l) /\ PreTxnDone(l) /\ Servable(l) /\ Compatible(req, l)
  BY <1>2, <1>3 DEF FlightSound, CompatSound
<1>5. Sensible /\ AccountsHeld(l) /\ Done(preTxnIxs, l)
  BY <1>1, <1>4, ServableSensible DEF Done, PreTxnDone
<1>6. ASSUME NEW c \in Concern
      PROVE  \E S : <<ledger, vm>> \in S /\ Runs(c, queue, S, Finish(c))
  <2>1. Runs(c, lendingTxn, {<<l, NewVM>>}, Finish(c))
    BY <1>1, <1>2, <1>4, <1>5, PlannedTxn
  <2> QED BY <1>4, <2>1 DEF Started
<1>7. CASE queue # <<>>
  <2>1. \A c \in Concern : Admits(c, Head(queue), <<ledger, vm>>)
    <3> SUFFICES ASSUME NEW c \in Concern PROVE Admits(c, Head(queue), <<ledger, vm>>)
      OBVIOUS
    <3>1. PICK S : <<ledger, vm>> \in S /\ Runs(c, queue, S, Finish(c))
      BY <1>6
    <3> QED BY <1>2, <1>7, <3>1, RunsHead
  <2> QED BY <1>7, <2>1, AdmitsAll DEF Reject
<1>8. CASE queue = <<>>
  <2>1. PICK S : <<ledger, vm>> \in S /\ Runs("position", queue, S, Finish("position"))
    BY <1>6 DEF Concern
  <2>2. <<ledger, vm>> \in Rested
    BY <1>8, <2>1, RunsEnd DEF Finish
  <2>3. vm.farmOwed = {}
    BY <2>2 DEF Rested
  <2> QED BY <1>8, <2>3 DEF Reject
<1> QED BY <1>7, <1>8

LEMMA ServedStep ==
  WrappedSol /\ FlightSound /\ CompatSound /\ PlansBuilt /\ ServableNeverRejected
    /\ [SendNext]_allVars => ServableNeverRejected'
<1> SUFFICES ASSUME WrappedSol, FlightSound, CompatSound, PlansBuilt, ServableNeverRejected,
                    [SendNext]_allVars, status' = "rejected", preOutcome' # "failed"
             PROVE  ~Servable(chain)'
  BY DEF ServableNeverRejected
<1>1. /\ UNCHANGED <<req, chain, preOutcome>>
      /\ Reject \/ status = "rejected"
  BY DEF SendNext, Build, GetTransactions, SendPreTxn, ExecuteIx, Reject, Commit, Drop, Retry,
     vars, loaded, allVars, sendVars
<1>2. ~Servable(chain)
  BY <1>1, RejectedUnservable DEF ServableNeverRejected
<1>3. AccountsHeld(chain)' <=> AccountsHeld(chain)
  BY <1>1 DEF AccountsHeld, sends, receives
<1>4. /\ PositionsHeld(chain)' <=> PositionsHeld(chain)
      /\ FlagsTruthful(chain)' <=> FlagsTruthful(chain)
  BY <1>1 DEF PositionsHeld, FlagsTruthful, repaid, withdrawn, deposited
<1>5. /\ farmAddedLater(chain)' <=> farmAddedLater(chain)
      /\ nearlyFull(chain)' <=> nearlyFull(chain)
      /\ emptiedBeforeGroupRequest(chain)' <=> emptiedBeforeGroupRequest(chain)
      /\ repaidIsDeposit(chain)' <=> repaidIsDeposit(chain)
      /\ listedBeforePreload(chain)' <=> listedBeforePreload(chain)
  BY <1>1 DEF farmAddedLater, nearlyFull, emptiedBeforeGroupRequest, repaidIsDeposit,
     listedBeforePreload
<1> QED BY <1>2, <1>3, <1>4, <1>5 DEF Servable

\* A transaction built for a request that makes sense is never rejected: each
\* of the lending program's four concerns (token accounts and funds, accounts
\* of the user, referral, positions) finds what it asks for at every
\* instruction, and no farm is left to refresh at the end.
THEOREM ServableNeverIsRejected == SendSpec => []ServableNeverRejected
<1>1. SendInit => /\ WrappedSol /\ FlightSound /\ GroupBuilt /\ FarmSound
                  /\ PlansBuilt /\ CompatSound /\ ServableNeverRejected
  <2> SUFFICES ASSUME SendInit
               PROVE  /\ WrappedSol /\ FlightSound /\ GroupBuilt /\ FarmSound
                      /\ PlansBuilt /\ CompatSound /\ ServableNeverRejected
    OBVIOUS
  <2>1. WrappedSol
    BY SolSendInit
  <2>2. FlightSound
    BY DEF SendInit, Init, FlightSound
  <2>3. NothingBuilt
    BY <2>1 DEF SendInit, Init, NothingBuilt, WrappedSol, SendCore
  <2>4. FarmSound
    BY DEF SendInit, Init, FarmSound, FirstDone, Lent
  <2>5. JustLoaded
    BY <2>3 DEF SendInit, Init, JustLoaded
  <2>6. CompatSound /\ ServableNeverRejected
    BY DEF SendInit, Init, CompatSound, ServableNeverRejected
  <2> QED BY <2>1, <2>2, <2>3, <2>4, <2>5, <2>6, GroupEmpty, PlansEmpty
<1> QED BY <1>1, SolSendInit, WrappedSolInvariance, FlightStep, GroupSendStep, FarmSendStep,
           PlansSendStep, CompatStep, ServedStep, PTL
        DEF SendSpec

=============================================================================
