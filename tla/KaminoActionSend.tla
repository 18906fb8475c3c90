-------------------------- MODULE KaminoActionSend --------------------------
(***************************************************************************)
(* A built KaminoAction handed to sendTransactions, and the lending        *)
(* program that executes it.  The program is not part of the repository:   *)
(* its checks are those the error list of src/idl_codegen/errors           *)
(* names (ReserveStale, ObligationStale, InvalidAccountInput,              *)
(* IncorrectInstructionInPosition, ...) and the builder prepares for.      *)
(***************************************************************************)
EXTENDS KaminoAction

CONSTANT MaxAttempts   \* bound: builds of the same call after a failure

VARIABLES
  status,      \* where sendTransactions is, or how the last attempt ended
  preOutcome,  \* none: not sent; landed; failed: dropped or rejected
  queue,       \* instructions of the lending transaction still to execute
  ledger,      \* the chain as the running transaction sees it
  vm,          \* what has been refreshed and funded since its start
  attempts

sendVars == <<status, preOutcome, queue, ledger, vm, attempts>>
allVars == <<vars, sendVars>>

FarmState == Reserve \X Mode

\* fresh, obligation: refreshed in this transaction and not changed since.
\* farmFresh: farms refreshed since the last change of a position.
\* farmOwed: farms of the last change, to be refreshed after it.
\* unsynced, funded: lamports sent to the WSOL account and not taken or returned
\* since, before and after sync.
NewVM == [fresh |-> {}, obligation |-> FALSE, farmFresh |-> {}, farmOwed |-> {},
          unsynced |-> FALSE, funded |-> FALSE]

SendInit ==
  /\ Init
  /\ status = "building"
  /\ preOutcome = "none"
  /\ queue = <<>>
  /\ ledger = chain
  /\ vm = NewVM
  /\ attempts = 1

-----------------------------------------------------------------------------
(***************************************************************************)
(* The lending program: what it accepts when the chain holds l and the     *)
(* transaction has refreshed and funded v.                                 *)
(***************************************************************************)
\* The farm user states whose stake an instruction changes.
touchedFarms(ix) ==
  (CASE ix.op \in {"deposit", "depositCollateral", "withdraw"} -> {<<ix.res, "coll">>}
     [] ix.op \in {"borrow", "repay"} -> {<<ix.res, "debt">>}
     [] ix.op = "liquidate" -> {<<req.reserve, "debt">>, <<req.outflow, "coll">>}
     [] OTHER -> {})
  \intersect Farms

touchedReserves(ix) ==
  IF ix.op = "liquidate" THEN {req.reserve, req.outflow} ELSE {ix.res}

\* Token accounts.
AccountsReady(ix, l) ==
  /\ ix.op \in {"syncNative", "closeAta", "deposit", "borrow", "repay", "withdraw", "mint",
                "redeem", "withdrawReferrerFees"} => ix.res \in l.atas
  /\ ix.op = "liquidate" =>
       {req.reserve, req.outflow} \subseteq l.atas /\ req.outflow \in l.colAtas
  /\ ix.op \in {"mint", "redeem", "depositCollateral"} => ix.res \in l.colAtas

\* SOL is sent from the WSOL account, as synced by the same transaction.
SolFunded(ix, v) ==
  /\ ix.op \in {"deposit", "repay", "mint", "liquidate"}
  /\ ix.res = SolReserve /\ req.ata
  => v.funded

\* Accounts of the user: none is created twice, none is used before it is.
UserReady(ix, l) ==
  /\ ix.op = "initUserMetadata" => ~l.metadata
  /\ ix.op = "initObligation" => l.metadata /\ ~l.obligation
  /\ ix.op \in {"initFarm", "refreshFarms", "refreshObligation", "requestElevationGroup"} =>
       l.obligation
  /\ ix.op = "initFarm" => \A r \in ix.deps : <<r, ix.how>> \notin l.farms
  /\ ix.op = "refreshFarms" => \A r \in ix.deps : <<r, ix.how>> \in l.farms

ReferralReady(ix, l) ==
  /\ ix.op = "initReferrerTokenState" => ix.deps \intersect l.tokenStates = {}
  /\ ix.op = "borrow" /\ l.referrer => ix.res \in l.tokenStates

PositionsListed(ix, l) ==
  /\ ix.op \in {"refreshObligation", "requestElevationGroup"} =>
       ix.deps = l.deposits /\ ix.bors = l.borrows
  /\ ix.op \in {"borrow", "repay", "liquidate"} /\ l.group # 0 => ix.deps = l.deposits

Refreshed(ix, l, v) ==
  /\ ix.op = "refreshObligation" => l.deposits \union l.borrows \subseteq v.fresh
  /\ ix.op = "requestElevationGroup" => v.obligation /\ ix.grp # l.group
  /\ ix.op = "withdrawReferrerFees" => ix.res \in v.fresh
  /\ ix.op \in PositionOp =>
       /\ v.obligation
       /\ touchedReserves(ix) \subseteq v.fresh
       /\ touchedFarms(ix) \subseteq v.farmFresh
       /\ v.farmOwed = {}

PositionHeld(ix, l) ==
  /\ ix.op = "withdraw" => ix.res \in l.deposits
  /\ ix.op = "repay" => ix.res \in l.borrows
  /\ ix.op = "liquidate" => req.reserve \in l.borrows /\ req.outflow \in l.deposits
  /\ ix.op = "borrow" => l.deposits # {}

Accepts(ix, l, v) ==
  /\ AccountsReady(ix, l)
  /\ SolFunded(ix, v)
  /\ UserReady(ix, l)
  /\ ReferralReady(ix, l)
  /\ PositionsListed(ix, l)
  /\ Refreshed(ix, l, v)
  /\ PositionHeld(ix, l)

-----------------------------------------------------------------------------
(***************************************************************************)
(* The lending program: what it changes.                                   *)
(***************************************************************************)
closesDebt == IF req.level = 3 THEN {req.reserve} ELSE {}
closesDeposit(r) == IF req.emptied THEN {r} ELSE {}

LedgerAfter(ix, l) ==
  CASE ix.op = "createAta" -> [l EXCEPT !.atas = @ \union {ix.res}]
    [] ix.op = "createColAta" -> [l EXCEPT !.colAtas = @ \union {ix.res}]
    [] ix.op = "closeAta" -> [l EXCEPT !.atas = @ \ {ix.res}]
    [] ix.op = "initUserMetadata" -> [l EXCEPT !.metadata = TRUE, !.referrer = referrer]
    [] ix.op = "initReferrerTokenState" -> [l EXCEPT !.tokenStates = @ \union ix.deps]
    [] ix.op = "initObligation" -> [l EXCEPT !.obligation = TRUE]
    [] ix.op = "initFarm" -> [l EXCEPT !.farms = @ \union (ix.deps \X {ix.how})]
    [] ix.op = "requestElevationGroup" -> [l EXCEPT !.group = ix.grp]
    [] ix.op \in {"deposit", "depositCollateral"} ->
         [l EXCEPT !.deposits = @ \union {ix.res}]
    [] ix.op = "borrow" -> [l EXCEPT !.borrows = @ \union {ix.res}]
    [] ix.op = "repay" -> [l EXCEPT !.borrows = @ \ closesDebt]
    [] ix.op = "withdraw" -> [l EXCEPT !.deposits = @ \ closesDeposit(ix.res)]
    [] ix.op = "liquidate" -> [l EXCEPT !.borrows = @ \ closesDebt,
                                        !.deposits = @ \ closesDeposit(req.outflow)]
    [] OTHER -> l

\* A full repay is funded with the debt as estimated and a padding for interest
\* (action.ts:2606-2630), one of at least the debt as loaded with what may be
\* more than is owed, and a liquidation with all it may take at most: what is
\* not taken stays in the account.
overfunded == \/ req.action \in {"repay", "repayAndWithdraw"} /\ req.level # 0
              \/ req.action = "liquidate"

VMAfter(ix, v) ==
  CASE ix.op = "transferLamports" ->
         [v EXCEPT !.unsynced = ix.how \in {"amount", "rentAndAmount"}]
    [] ix.op = "syncNative" -> [v EXCEPT !.funded = @ \/ v.unsynced, !.unsynced = FALSE]
    [] ix.op = "closeAta" -> [v EXCEPT !.funded = FALSE, !.unsynced = FALSE]
    [] ix.op = "refreshReserves" -> [v EXCEPT !.fresh = @ \union ix.deps]
    [] ix.op = "refreshObligation" -> [v EXCEPT !.obligation = TRUE]
    [] ix.op = "refreshFarms" ->
         [v EXCEPT !.farmFresh = @ \union (ix.deps \X {ix.how}),
                   !.farmOwed = @ \ (ix.deps \X {ix.how})]
    [] ix.op = "requestElevationGroup" -> [v EXCEPT !.fresh = {}, !.obligation = FALSE]
    [] ix.op \in PositionOp ->
         [v EXCEPT !.fresh = {}, !.obligation = FALSE, !.farmFresh = {},
                   !.farmOwed = touchedFarms(ix),
                   !.funded = @ /\ ~(/\ ix.op \in {"deposit", "repay", "liquidate"}
                                     /\ ix.res = SolReserve /\ ~overfunded)]
    [] ix.op = "mint" -> [v EXCEPT !.funded = @ /\ ix.res # SolReserve]
    [] OTHER -> v

-----------------------------------------------------------------------------
(***************************************************************************)
(* sendTransactions.                                                       *)
(***************************************************************************)
Build ==
  /\ status = "building"
  /\ Next
  /\ UNCHANGED sendVars

GetTransactions ==
  /\ status = "building"
  /\ pc = "built"
  /\ status' = IF preTxnIxs = <<>> THEN "lending" ELSE "pre"
  /\ queue' = lendingTxn
  /\ ledger' = chain
  /\ UNCHANGED <<vars, preOutcome, vm, attempts>>

\* What the confirmation says is not looked at: the lending transaction is
\* sent whether the preceding one landed or failed, unless waiting throws.
SendPreTxn ==
  /\ status = "pre"
  /\ status' = "lending"
  /\ \/ /\ preOutcome' = "landed"
        /\ chain' = [chain EXCEPT
             !.atas = @ \union {ix.res : ix \in {preTxnIxs[i] : i \in {i \in 1..Len(preTxnIxs) :
                                                    preTxnIxs[i].op = "createAta"}}},
             !.colAtas = @ \union {ix.res : ix \in {preTxnIxs[i] : i \in {i \in 1..Len(preTxnIxs) :
                                                    preTxnIxs[i].op = "createColAta"}}}]
     \/ /\ preOutcome' = "failed"
        /\ UNCHANGED chain
  /\ ledger' = chain'
  /\ UNCHANGED <<req, pc, phase, known, positions, referrer, reserveLists,
                 potentialGroup, lists, queue, vm, attempts>>

ExecuteIx ==
  /\ status = "lending"
  /\ queue # <<>>
  /\ Accepts(Head(queue), ledger, vm)
  /\ ledger' = LedgerAfter(Head(queue), ledger)
  /\ vm' = VMAfter(Head(queue), vm)
  /\ queue' = Tail(queue)
  /\ UNCHANGED <<vars, status, preOutcome, attempts>>

\* A transaction is atomic: a rejected instruction undoes the others.
Reject ==
  /\ status = "lending"
  /\ IF queue = <<>> THEN vm.farmOwed # {} ELSE ~Accepts(Head(queue), ledger, vm)
  /\ status' = "rejected"
  /\ ledger' = chain
  /\ UNCHANGED <<vars, preOutcome, queue, vm, attempts>>

Commit ==
  /\ status = "lending"
  /\ queue = <<>> /\ vm.farmOwed = {}
  /\ status' = "committed"
  /\ chain' = ledger
  /\ UNCHANGED <<req, pc, phase, known, positions, referrer, reserveLists,
                 potentialGroup, lists, preOutcome, queue, ledger, vm, attempts>>

\* The block hash expires or the node loses the transaction; or it is the
\* preceding one, whose sending or confirmation throws, and the lending
\* transaction is not sent.
Drop ==
  /\ \/ status = "pre"
     \/ status = "lending" /\ queue = lendingTxn
  /\ status' = "dropped"
  /\ UNCHANGED <<vars, preOutcome, queue, ledger, vm, attempts>>

\* The caller builds the same action again, from the chain as it is now.
Retry ==
  /\ status = "dropped"
  /\ attempts < MaxAttempts
  /\ attempts' = attempts + 1
  /\ status' = "building"
  /\ preOutcome' = "none"
  /\ queue' = <<>>
  /\ vm' = NewVM
  /\ pc' = "initialize"
  /\ phase' = "setup"
  /\ depositReserves' = {} /\ borrowReserves' = {}
  /\ preLoadedDepositReservesSameTx' = {} /\ preLoadedBorrowReservesSameTx' = {}
  /\ positions' = 0 /\ referrer' = FALSE /\ potentialGroup' = 0
  /\ setupIxs' = <<>> /\ inBetweenIxs' = <<>> /\ lendingIxs' = <<>>
  /\ cleanupIxs' = <<>> /\ preTxnIxs' = <<>> /\ refreshFarmsCleanupTxnIxs' = <<>>
  /\ UNCHANGED <<req, chain, known, ledger>>

SendNext ==
  \/ Build
  \/ GetTransactions
  \/ SendPreTxn
  \/ ExecuteIx
  \/ Reject
  \/ Commit
  \/ Drop
  \/ Retry

SendSpec == SendInit /\ [][SendNext]_allVars

(***************************************************************************)
(* Properties.                                                             *)
(***************************************************************************)
sends == IF req.action = "liquidate" THEN {req.reserve}
         ELSE IF req.action \in {"deposit", "repay", "mint"} \union TwoTokenAction
         THEN {req.reserve} ELSE {}
receives == CASE req.action \in {"borrow", "withdraw", "redeem"} -> {req.reserve}
              [] req.action \in TwoTokenAction \union {"liquidate"} -> {req.outflow}
              [] OTHER -> {}
deposited == req.action \in {"deposit", "depositCollateral", "depositAndBorrow"}
repaid == req.action \in {"repay", "repayAndWithdraw", "liquidate"}
withdrawn == CASE req.action = "withdraw" -> {req.reserve}
               [] req.action \in {"repayAndWithdraw", "liquidate"} -> {req.outflow}
               [] OTHER -> {}

\* The request makes sense: tokens to send, positions to reduce, an
\* obligation or the means to create one, distinct reserves.
AccountsHeld(l) ==
  /\ \A r \in sends : r \in l.atas \/ (req.ata /\ r = SolReserve)
  /\ \A r \in receives : r \in l.atas \/ req.ata
  /\ req.action \in {"redeem", "depositCollateral"} => req.reserve \in l.colAtas
  /\ req.action = "mint" => req.reserve \in l.colAtas \/ req.ata
  /\ req.action = "liquidate" => req.outflow \in l.colAtas \/ req.ata
  /\ req.action \in TwoTokenAction => req.reserve # req.outflow

PositionsHeld(l) ==
  /\ repaid => req.reserve \in l.borrows
  /\ withdrawn \subseteq l.deposits
  /\ req.action = "borrow" => l.deposits # {}
  /\ deposited /\ ~l.obligation => l.metadata \/ req.metadata

\* What the callers' flags promise: closing says that the repay closes the
\* only debt; a group is requested only if it differs from the current one.
FlagsTruthful(l) ==
  /\ req.action = "repayAndWithdraw" /\ req.closing =>
       req.level = 3 /\ l.borrows = {req.reserve}
  /\ req.action = "requestElevationGroup" => req.override # l.group
  /\ req.elevate /\ req.override = 0 => l.obligation

\* The repaid amount reaches the debt of the loaded or estimated obligation
\* yet not the debt when the transaction lands: the builder lists the
\* positions as if the debt were gone.
nearlyFull(l) ==
  \/ req.action = "repayAndWithdraw" /\ req.level = 2
  \/ /\ req.elevate /\ req.action \in {"repay", "repayAndWithdraw"}
     /\ req.level \in 1..2 /\ Cardinality(l.borrows) = 1 /\ l.group # 0

\* Leaving the group after a repay lists the deposits as loaded, although
\* the withdrawal of the same transaction may have closed one.
emptiedBeforeGroupRequest(l) ==
  /\ req.action = "repayAndWithdraw" /\ req.elevate /\ req.emptied
  /\ req.level >= 1 /\ Cardinality(l.borrows) = 1 /\ l.group # 0

\* Leaving the group after a repay refreshes every reserve but the repaid one,
\* which the obligation may hold as a deposit too.
repaidIsDeposit(l) ==
  /\ req.action \in {"repay", "repayAndWithdraw"} /\ req.elevate /\ req.reserve \in l.deposits
  /\ req.level >= 1 /\ Cardinality(l.borrows) = 1 /\ l.group # 0

\* addDepositAndBorrowIx takes the account list of the borrow before the
\* support pass that preloads the reserve being deposited.
listedBeforePreload(l) ==
  /\ req.action = "depositAndBorrow"
  /\ l.deposits # {} /\ req.reserve \notin l.deposits
  /\ l.group # 0 \/ req.elevate

\* addRefreshObligation refreshes the farms of the positions without creating
\* the user states a farm added after the position was opened has not got.
farmAddedLater(l) ==
  /\ req.action \in ObligationOnly
  /\ ~(((l.deposits \intersect CollFarm) \X {"coll"})
       \union ((l.borrows \intersect DebtFarm) \X {"debt"}) \subseteq l.farms)

Servable(l) ==
  /\ AccountsHeld(l) /\ PositionsHeld(l) /\ FlagsTruthful(l) /\ ~farmAddedLater(l)
  /\ ~nearlyFull(l) /\ ~emptiedBeforeGroupRequest(l) /\ ~repaidIsDeposit(l)
  /\ ~listedBeforePreload(l)

\* A transaction built for a request that makes sense is never rejected for
\* a missing account, a stale reserve, obligation or farm, or a wrong list of
\* positions, whatever the accounts that already exist, the farms, the
\* elevation group and the options, outside the five cases named above:
\* the whole of addSupportIxs, add...Ix and addInBetweenIxs.
ServableNeverRejected ==
  status = "rejected" /\ preOutcome # "failed" => ~Servable(chain)

\* A request that makes sense is not refused by an exception of the builder
\* either: no null obligation is dereferenced and no position is missed.  The
\* position limit and the empty first slot are the only refusals left.
ServableNeverThrown ==
  /\ pc = "thrown" /\ Servable(chain)
  /\ (req.action \notin {"borrow", "repay", "liquidate"} \/ known.obligation)
  => \/ positions > POSITION_LIMIT
     \/ req.action \in ObligationOnly /\ chain.deposits = {}
     \/ req.action = "refreshObligation" /\ ~chain.slot0

isPosition(ix) == ix.op \in PositionOp

\* Each instruction that changes a position stands between two refreshes of
\* the farm it stakes in, with no instruction in between: the program looks
\* at the neighbours ("Wrong instruction at expected position"), which is why
\* addRefreshFarmsCleanupTxnIxsToCleanupIxs puts them first in the cleanup.
FarmRefreshAdjacent ==
  pc = "built" =>
    \A i \in 1..Len(lendingTxn) :
      LET ix == lendingTxn[i]
          \* the run of farm refreshes ending at j, or starting at j
          Before == {j \in 1..(i - 1) : \A k \in j..(i - 1) : lendingTxn[k].op = "refreshFarms"}
          After == {j \in (i + 1)..Len(lendingTxn) :
                      \A k \in (i + 1)..j : lendingTxn[k].op = "refreshFarms"}
          Covered(J) == UNION {lendingTxn[j].deps \X {lendingTxn[j].how} : j \in J}
      IN  isPosition(ix) => /\ touchedFarms(ix) \subseteq Covered(Before)
                            /\ touchedFarms(ix) \subseteq Covered(After)

outflowSol == req.action \in TwoTokenAction /\ req.outflow = SolReserve

\* More SOL may be wrapped than is taken, into an account that was there before:
\* the account of a sender is kept then (action.ts:2668-2671), and what is left
\* of the padding with it.
paddingLeft == overfunded /\ req.reserve = SolReserve /\ SolReserve \in known.atas

\* A committed transaction leaves no SOL wrapped for nothing: what
\* updateWSOLAccount transferred was spent, or returned by closing the
\* account, padding and all; but for the case named above.  (Not so when SOL is
\* the outflow of a two-token action: its first pass transfers the amount of
\* the other token to the WSOL account.)
NoStrandedSol ==
  status = "committed" /\ ~outflowSol => ~vm.unsynced /\ (vm.funded => paddingLeft)

\* The WSOL account is back as the builder found it: closed if the builder
\* (its preceding transaction included) created it, kept if the user had it
\* and sends from it.
WsolAccountRestored ==
  status = "committed" /\ req.ata /\ SolReserve \in sends \union receives =>
    /\ SolReserve \notin known.atas => SolReserve \notin chain.atas
    /\ SolReserve \in known.atas \intersect sends => SolReserve \in chain.atas

\* An elevation group request has its effect by the end of the transaction:
\* the requested or overriding group, the best common group of a borrow, and
\* none after the only debt of a grouped obligation was repaid.
GroupReached ==
  status = "committed" =>
    /\ req.action = "requestElevationGroup" => chain.group = req.override
    /\ req.elevate /\ req.override # NoOverride /\ req.action \in {"deposit", "borrow"} =>
         chain.group = req.override
    /\ req.elevate /\ req.action \in {"repay", "repayAndWithdraw"} /\ req.level = 3
         /\ known.group # 0 => (known.borrows = {req.reserve} <=> chain.group = 0)
    /\ req.elevate /\ req.action = "depositAndBorrow" =>
         \A g \in GroupsOf[req.reserve] \intersect GroupsOf[req.outflow] :
           GroupDebt[g] = req.outflow =>
             chain.group # 0 /\ GroupLtv[g] <= GroupLtv[chain.group]

\* loadObligation's limit holds after the transaction, not just before it,
\* for the single actions it counts.
PositionLimitKept ==
  status = "committed" /\ req.action \in {"deposit", "borrow"} =>
    Cardinality(chain.deposits) + Cardinality(chain.borrows) <= POSITION_LIMIT

=============================================================================
