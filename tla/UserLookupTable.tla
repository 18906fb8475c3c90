--------------------------- MODULE UserLookupTable ---------------------------
(***************************************************************************)
(* getUserLutAddressAndSetupIxns of src/utils/userMetadata.ts: the account *)
(* of a user's metadata and the lookup table it points at, the addresses   *)
(* that leverage transactions of the user need in the table, and the       *)
(* batches of instructions that put them there.  A program sends the       *)
(* batches in order, each as a transaction of SendTransaction, and stops   *)
(* at the first exception; it may call again, while transactions of the    *)
(* earlier call are still on their way.                                    *)
(***************************************************************************)
EXTENDS SendTransaction, Lists

CONSTANTS
  Mint,
  Listed,        \* mints with a reserve in the market
  SolMint,       \* WRAPPED_SOL_MINT
  CollFarm,      \* farmCollateral of the reserve of a mint, NoFarm if null
  DebtFarm,
  NoFarm,
  chunkSize,     \* 25 in the code
  Requests,      \* the arguments a program calls with
  MaxCalls,      \* bound: calls of getUserLutAddressAndSetupIxns
  MaxBatches     \* bound: batches of a call

ASSUME FarmAssumption ==
  /\ CollFarm \in [Listed -> {CollFarm[m] : m \in Listed}]
  /\ DebtFarm \in [Listed -> {DebtFarm[m] : m \in Listed}]

ASSUME CallAssumption ==
  /\ chunkSize \in Nat \ {0} /\ MaxCalls \in Nat \ {0} /\ MaxBatches \in Nat
  /\ Tx = (1..MaxCalls) \X (1..MaxBatches)

Pair == [coll : Mint, debt : Mint]

ASSUME RequestAssumption ==
  \A r \in Requests :
    /\ r.multiply \in Seq(Pair) /\ r.leverage \in Seq(Pair)
    /\ r.obligation \in Seq({r.obligation[i] : i \in DOMAIN r.obligation})
    /\ \A i \in DOMAIN r.obligation :
         r.obligation[i].deposits \in Seq(Listed) /\ r.obligation[i].borrows \in Seq(Listed)

VARIABLES
  req,        \* arguments of the call under way
  step,       \* where that call is, or how it ended
  table,      \* userLookupTableAddress
  plans,      \* the batches of each call, the last one under way
  slot,       \* what getSlot answers
  metadata,   \* on the ledger: the table a user's metadata names, 0 if none
  tables      \* on the ledger: the extensions of each table, in order

callVars == <<req, step, table, plans, slot>>
ledgerVars == <<metadata, tables>>
lutVars == <<sendVars, callVars, ledgerVars>>

\* The address of a table follows from the slot it was created at.
Table == 1..MaxCalls
NoTable == 0

-----------------------------------------------------------------------------
(***************************************************************************)
(* The addresses: a kind, and what the address is derived from.            *)
(***************************************************************************)
reservesOf(mints) == pick(mints, {i \in DOMAIN mints : mints[i] \in Listed})

both(pairs) ==
  pick(pairs, {i \in DOMAIN pairs : pairs[i].coll \in Listed /\ pairs[i].debt \in Listed})

mintsOf(pairs) == FlattenSeq([i \in DOMAIN pairs |-> <<pairs[i].coll, pairs[i].debt>>])

\* A reserve without a farm holds PublicKey.default, which both tests of the
\* source leave out (NULL_PUBKEY, which one of them leaves out too, is not a
\* value farmCollateral or farmDebt has).
userState(farm, obligation) == IF farm = NoFarm THEN <<>> ELSE <<<<"userState", farm, obligation>>>>

pairStates(p, obligation) ==
  userState(CollFarm[p.coll], obligation) \o userState(DebtFarm[p.debt], obligation)

\* The obligation of a multiply position is derived from SOL, whatever the
\* debt of the pair is.
multiplyObligation(p) == <<"multiply", p.coll, SolMint>>

leverageObligation(p) == <<"leverage", p.coll, p.debt>>

getMultiplyObligationAndObligationFarmStateAddresses(pairs) ==
  LET known == both(pairs)
  IN  [i \in DOMAIN known |-> multiplyObligation(known[i])]
      \o FlattenSeq([i \in DOMAIN known |-> pairStates(known[i], multiplyObligation(known[i]))])

getLeverageObligationAndObligationFarmStateAddresses(pairs) ==
  LET known == both(pairs)
  IN  [i \in DOMAIN known |-> leverageObligation(known[i])]
      \o FlattenSeq([i \in DOMAIN known |-> pairStates(known[i], leverageObligation(known[i]))])

\* The obligation of a request is of this market: its mints are listed.
getRepayWithCollObligationFarmStateAddresses(o) ==
  FlattenSeq([i \in DOMAIN o.borrows |-> userState(DebtFarm[o.borrows[i]], o.address)])
  \o FlattenSeq([i \in DOMAIN o.deposits |-> userState(CollFarm[o.deposits[i]], o.address)])

\* obligation: <<>> or the one whose collateral repays its debt.
getUserLookupTableAddresses(r) ==
  LET mints == distinct(mintsOf(r.multiply) \o mintsOf(r.leverage)
                        \o FlattenSeq([i \in DOMAIN r.obligation |->
                                         r.obligation[i].borrows \o r.obligation[i].deposits]))
      reserves == reservesOf(mints)
      farms == [i \in DOMAIN reserves |-> CollFarm[reserves[i]]]
               \o [i \in DOMAIN reserves |-> DebtFarm[reserves[i]]]
      farmStates == distinct(pick(farms, {i \in DOMAIN farms : farms[i] # NoFarm}))
  IN  << <<"user">>, <<"userMetadata">> >>
      \o [i \in DOMAIN mints |-> <<"ata", mints[i]>>]
      \o [i \in DOMAIN reserves |-> <<"ctokenAta", reserves[i]>>]
      \o [i \in DOMAIN farmStates |-> <<"farm", farmStates[i]>>]
      \o (IF r.referrer THEN [i \in DOMAIN reserves |-> <<"referrerTokenState", reserves[i]>>]
          ELSE <<>>)
      \o getMultiplyObligationAndObligationFarmStateAddresses(r.multiply)
      \o getLeverageObligationAndObligationFarmStateAddresses(r.leverage)
      \o FlattenSeq([i \in DOMAIN r.obligation |->
                       getRepayWithCollObligationFarmStateAddresses(r.obligation[i])
                       \o <<r.obligation[i].address>>])

-----------------------------------------------------------------------------
(***************************************************************************)
(* Batches.                                                                *)
(***************************************************************************)
\* ops: what a batch does besides extending a table.
EmptyBatch == [ops |-> {}, table |-> NoTable, keys |-> <<>>]

\* Mutant: table and metadata come in two transactions.
createThenInit(t) == <<[EmptyBatch EXCEPT !.ops = {"createTable"}, !.table = t],
                       [EmptyBatch EXCEPT !.ops = {"initMetadata"}, !.table = t]>>

\* One transaction creates the table and the metadata that names it.
initUserMetadataIxs(t) ==
  <<[EmptyBatch EXCEPT !.ops = {"createTable", "initMetadata"}, !.table = t]>>

\* Mutant: a chunk ends with the first key of the next.
endIncluded(i, n) == IF i * chunkSize < n THEN i * chunkSize + 1 ELSE n

chunkEnd(i, n) == IF i * chunkSize < n THEN i * chunkSize ELSE n

\* Mutant: the last key of a chunk is taken for its end.
chunkWithoutLast(keys, i) == SubSeq(keys, (i - 1) * chunkSize + 1, chunkEnd(i, Len(keys) - 1))

\* keys.slice(i, i + chunkSize)
chunk(keys, i) == SubSeq(keys, (i - 1) * chunkSize + 1, chunkEnd(i, Len(keys)))

extendLookupTableIxs(t, keys) ==
  [i \in 1..((Len(keys) + chunkSize - 1) \div chunkSize) |->
     [ops |-> {}, table |-> t, keys |-> chunk(keys, i)]]

missing(required, inTable) == {i \in DOMAIN required : required[i] \notin inTable}

\* Mutant: an address several parts of the request need is added as often.
everyAddress(required, inTable) == pick(required, missing(required, inTable))

getDedupUserLookupTableAddresses(required, inTable) ==
  distinct(pick(required, missing(required, inTable)))

\* The bound leaves room for every request.
ASSUME BatchAssumption ==
  \A r \in Requests :
    Len(getUserLookupTableAddresses(r)) <= (MaxBatches - 1) * chunkSize

-----------------------------------------------------------------------------
calls == Len(plans)
batches == plans[calls]
batchOf(t) == plans[t[1]][t[2]]
currentTx(i) == <<calls, i>>

LutInit ==
  /\ Init
  /\ req \in Requests
  /\ step = "none"
  /\ table = NoTable
  /\ plans = <<>>
  /\ slot = 1
  /\ metadata = NoTable
  /\ tables = [t \in {} |-> <<>>]

Begin(r) ==
  /\ step \in {"none", "done", "threw"}
  /\ calls < MaxCalls
  /\ req' = r
  /\ step' = "metadata"
  /\ plans' = Append(plans, <<>>)
  /\ slot' \in {slot} \union {s \in Table : s = slot + 1}
  /\ UNCHANGED <<sendVars, table, ledgerVars>>

RequestFails ==
  /\ step \in {"metadata", "table"}
  /\ step' = "threw"
  /\ UNCHANGED <<sendVars, req, table, plans, slot, ledgerVars>>

Plan(first, extensions) ==
  /\ plans' = [plans EXCEPT ![calls] = first \o extensions]
  /\ step' = "send"

\* A node may not have the metadata yet.
MetadataMissing ==
  /\ step = "metadata"
  /\ table' = slot
  /\ Plan(initUserMetadataIxs(slot),
          IF req.extend
          THEN extendLookupTableIxs(slot,
                 getDedupUserLookupTableAddresses(getUserLookupTableAddresses(req), {}))
          ELSE <<>>)
  /\ UNCHANGED <<sendVars, req, slot, ledgerVars>>

MetadataFetched ==
  /\ step = "metadata"
  /\ metadata # NoTable
  /\ table' = metadata
  /\ IF req.extend THEN step' = "table" /\ UNCHANGED plans ELSE Plan(<<EmptyBatch>>, <<>>)
  /\ UNCHANGED <<sendVars, req, slot, ledgerVars>>

held(extensions) == UNION {ToSet(extensions[i]) : i \in DOMAIN extensions}

\* A node may answer with fewer extensions than there are (and if it has no
\* table yet, the call throws: RequestFails).
TableFetched ==
  /\ step = "table"
  /\ \E n \in 0..Len(tables[table]) :
       Plan(<<EmptyBatch>>,
            extendLookupTableIxs(table,
              getDedupUserLookupTableAddresses(getUserLookupTableAddresses(req),
                                               held(SubSeq(tables[table], 1, n)))))
  /\ UNCHANGED <<sendVars, req, table, slot, ledgerVars>>

\* How many batches of the call under way the program has sent.
sent == IF sending = NoTx THEN 0 ELSE IF sending[1] = calls THEN sending[2] ELSE 0

\* The program: the first batch, then the next one once the last returned.
SendBatch ==
  /\ step = "send"
  /\ sent < Len(batches)
  /\ sent = 0 \/ await = "returned"
  /\ Call(currentTx(sent + 1))
  /\ UNCHANGED <<callVars, ledgerVars>>

AllSent ==
  /\ step = "send"
  /\ sent = Len(batches) /\ await = "returned"
  /\ step' = "done"
  /\ UNCHANGED <<sendVars, req, table, plans, slot, ledgerVars>>

Stop ==
  /\ step = "send"
  /\ sent > 0 /\ await = "threw"
  /\ step' = "threw"
  /\ UNCHANGED <<sendVars, req, table, plans, slot, ledgerVars>>

-----------------------------------------------------------------------------
(***************************************************************************)
(* The programs that own the accounts: a transaction is atomic.            *)
(***************************************************************************)
Executable(b) ==
  /\ "createTable" \in b.ops => b.table \notin DOMAIN tables
  /\ "initMetadata" \in b.ops => metadata = NoTable
  /\ b.keys # <<>> => b.table \in DOMAIN tables

ExecuteWell(t) ==
  LET b == batchOf(t)
  IN  /\ Executable(b)
      /\ Land(t, "ok")
      /\ metadata' = IF "initMetadata" \in b.ops THEN b.table ELSE metadata
      /\ tables' = IF "createTable" \in b.ops
                   THEN [x \in DOMAIN tables \union {b.table} |->
                           IF x = b.table THEN <<>> ELSE tables[x]]
                   ELSE IF b.keys = <<>> THEN tables
                   ELSE [tables EXCEPT ![b.table] = Append(@, b.keys)]
      /\ UNCHANGED callVars

NoEffect == UNCHANGED <<callVars, ledgerVars>>

LutNext ==
  \/ \E r \in Requests : Begin(r)
  \/ RequestFails
  \/ MetadataMissing
  \/ MetadataFetched
  \/ TableFetched
  \/ SendBatch
  \/ Continue /\ NoEffect
  \/ AllSent
  \/ Stop
  \/ \E t \in inFlight : ExecuteWell(t) \/ (Land(t, "err") /\ NoEffect) \/ (Drop(t) /\ NoEffect)

LutSpec == LutInit /\ [][LutNext]_lutVars

-----------------------------------------------------------------------------
\* What is under way and on the ledger has the declared shape; an extension is
\* no longer than a transaction can hold, and not empty.
LutTypeOK ==
  /\ TypeOK
  /\ req \in Requests
  /\ step \in {"none", "metadata", "table", "send", "done", "threw"}
  /\ slot \in Table
  /\ table \in Table \union {NoTable} /\ metadata \in Table \union {NoTable}
  /\ DOMAIN tables \subseteq Table
  /\ calls \in 0..MaxCalls
  /\ \A c \in 1..calls :
       /\ Len(plans[c]) <= MaxBatches
       /\ \A i \in 2..Len(plans[c]) : Len(plans[c][i].keys) \in 1..chunkSize

\* A program that sends with logs and gets through has a table with every
\* address that its request asked for, whatever was lost before, landed late
\* or was read from a node that lags.
CompleteWhenDone ==
  step = "done" /\ req.extend /\ sender = "withLogs" =>
    /\ table \in DOMAIN tables
    /\ ToSet(getUserLookupTableAddresses(req)) \subseteq held(tables[table])

\* However often the set-up is repeated, there is one table, and the metadata
\* names it: no call leaves a table behind that nobody extends.
OneTable ==
  DOMAIN tables = IF metadata = NoTable THEN {} ELSE {metadata}

\* No call asks for an address twice, although the parts of a request need the
\* same ones, and a farm serves several reserves.  (Two calls may: the second
\* may have read the table before the first had landed.)
NoRepeatInCall ==
  \A c \in 1..calls : \A i, j \in 1..Len(plans[c]) :
    \A a \in 1..Len(plans[c][i].keys), b \in 1..Len(plans[c][j].keys) :
      plans[c][i].keys[a] = plans[c][j].keys[b] => i = j /\ a = b

==============================================================================
