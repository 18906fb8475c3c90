# Verification of klend-sdk

klend-sdk is the TypeScript client of the Kamino lending program: it reads a
lending market from a Solana node, keeps it in memory, and builds, sends and
confirms the transactions of a user, a market manager or a vault.  This
directory holds TLA+ models of its parts, the TLC runs that check them on small
instances, and TLAPS proofs of theorems about them.  Paths below are relative to
the repository (`src/` is its root).

`PROJECT.json` lists the components, the runs, the mutants that show each
property can fail, the source lines behind every definition, the findings, the
hazards and the theorems.

To check a run: `tlc -workers 2 -config Actions.cfg MCKaminoAction`; to check a
proof: `tlapm KaminoActionProofs.tla`.


## 1. The system

### Components

| component | source (under `src/src/`) | state | operations | modelled |
|---|---|---|---|---|
| Action builder | `classes/action.ts` | the lists of instructions and labels, the lists of reserves with a position, the preloaded reserves of the same transaction | `build...Txns` for deposit, borrow, repay, withdraw, mint, redeem, deposit collateral, liquidate, depositAndBorrow, repayAndWithdraw, refresh obligation, request elevation group, withdraw referrer fees; `addSupportIxs`, `add...Ix`, `addInBetweenIxs` | yes |
| Sending of an action | `classes/action.ts` | the preceding and the lending transaction | `getTransactions`, `sendTransactions` | yes; not the simulation of a transaction |
| Public key maps | `utils/pubkey.ts` | buckets and a counter; a list of pairs; a set | `Map` and `Set` operations | `PubkeyHashMap` |
| Market cache | `classes/market.ts` | market account, reserves, active reserves | `load`, `reload`, `reloadSingleReserve`, `loadReserves`, `refreshAll`, group descriptions, queries | the cache; not the queries |
| Reserve | `classes/reserve.ts`, `classes/utils.ts` | account, prices, derived stats | debt and rates at a slot, withdrawal and borrow caps, maxima, configuration updates | yes; not the reward yields |
| Obligation | `classes/obligation.ts` | positions, loan-to-value, limits | load, simulated changes, borrowing power, maximum amounts, group checks | yes; not the getters |
| Market manager | `classes/manager.ts`, `utils/managerTypes.ts` | asset configurations; diffs of configurations | update reserves, markets, oracles | updates; creation as one step |
| Vault | `classes/vault.ts` | a handle with the cached vault account | deposit, withdraw, invest, allocate, reload | yes; not creation and the listings over all vaults |
| Leverage, repay with collateral | `leverage/`, `lending_operations/`, `utils/ata.ts` | none; a list of instructions around a flash loan | deposit, withdraw, adjust, repay with collateral, swap inputs | yes |
| User metadata | `utils/userMetadata.ts`, `utils/lookupTable.ts` | accounts on chain | set up metadata and lookup table, extend by chunks | yes |
| Transaction sending utilities | `utils/sendTransactionsUtils.ts`, `utils/instruction.ts` | a transaction under confirmation | send, confirm, give up, fetch logs | yes; not simulation |
| Command line client | `client_kamino_manager.ts` | a file | download, edit, update | the update commands |
| Oracles | `utils/oracle.ts` | none | fetch and choose prices | as one request of a cache call |
| Referrals, Jupiter perpetuals, addresses and layouts, `client.ts`, generated clients | the rest | none of interest | | no |

### How they interact

A program loads a `KaminoMarket` and keeps it.  Its queries are synchronous over
the cache; its refreshing calls are asynchronous, hold no lock, and may overlap.
`KaminoAction.initialize` reads the cached market and fetches the obligation,
then a `build...Txns` pipeline runs two *support passes* around one or two
lending instructions and appends to five lists of instructions.
`sendTransactions` turns the lists into up to two transactions.  The lending
program executes a transaction instruction by instruction and rejects the whole
of it if one instruction finds a stale reserve, a wrong list of accounts, or the
wrong neighbours.  Manager, vault, leverage and referrals are further producers of
instructions; all of them rely on the account maps of `utils/pubkey.ts` and on
the sending utilities.

### What is hard in it

* **Protocol sequences.**  Nobody on the client side checks the order of a
  transaction: refreshes of reserves, obligation and farms must stand where the
  program looks for them, through a dozen kinds of action, with or without token
  accounts to create, a group to request, farms on either side.
* **Aliased state.**  The support passes share arrays of reserves that some
  helpers return by reference and grow.
* **Overlapping calls.**  The calls of a market write several fields at several
  awaits, with requests at two commitments answered by nodes that lag.
* **Loss and retry.**  A transaction may be lost or fail after the one before it
  landed; the caller builds again from the changed accounts.
* **Limits and edges.**  The number of positions, an empty first slot of the
  obligation, an obligation that does not exist yet, a repay of almost everything;
  caps over an interval, fees and rounding in what is reported as a maximum.
* **Estimates.**  Maxima, simulations and the amounts around a flash loan are
  computed before the slot, the price or the account they will meet is known.
* **Several writers.**  Administrators update the same reserve from configurations
  they downloaded earlier; users of a vault share a handle that is never refreshed.

Forty such hazards, each with its line and with the properties that would
catch it, are in `PROJECT.json`.  Those without a property carry a note that says
why.

### What makes each component correct

* Action builder: a transaction built for a request that makes sense is accepted;
  no list names a position the user neither has nor opens; SOL wrapped on the way
  is spent or returned; the position limit holds; a requested group is reached.
* Public key maps: they answer as a map would, whatever keys collide.
* Market cache: its two maps agree; a call shows at least what was settled when it
  began; a group is missing only when the cached market is the older; a cache that
  is refreshed ends up fresh.
* Sending utilities: what a call returned or threw tells the caller whether the
  transaction landed, as far as the sender can know.
* User metadata: one table, complete when the program thinks so, nothing twice.
* Market manager: repeated updates reach every field; an update spares what it is
  not about; what is edited lands.
* Reserve, obligation: a reported maximum is accepted; a simulation is not rosier
  than what comes of it.
* Leverage: the list succeeds within the slippage, the position is the one asked
  for, and the swap is the one that was shown.
* Vault: instructions are built from one state of the vault; those that are still
  current are accepted.


## 2. The modules

| module | models | proofs |
|---|---|---|
| `KaminoAction` | the builder | `KaminoActionProofs` |
| `KaminoActionSend` (extends `KaminoAction`) | sending, and the lending program that executes | `KaminoActionProofs`, `KaminoServedProofs` |
| `PubkeyMap` | what a map promises (abstract) | |
| `PubkeyHashMap` | the bucketed map; implements `PubkeyMap` | `PubkeyHashMapProofs` |
| `MarketCache` | the cache of a market, its calls, the nodes | `MarketCacheProofs` |
| `SendTransaction` | the two senders of the utilities, and the network | in `ConfigUpdateProofs` |
| `Lists` | what a filter and a `PublicKeySet` make of a list | `ListFacts` |
| `UserLookupTable` (extends `SendTransaction`) | the set-up of metadata and lookup table | `UserLookupTableProofs` |
| `UpdateModes` | which update instructions a changed configuration yields | |
| `ConfigUpdate` (extends `SendTransaction`, `UpdateModes`) | the manager's commands, sent and landing | `ConfigUpdateProofs` |
| `Decimals` | exact fractions, for `decimal.js` | |
| `Ktokens`, `Leverage` | strategy shares; leverage and repay with collateral | |
| `Reserve`, `Obligation` | what the SDK computes of a reserve and an obligation | |
| `LendingProgram` | what the program does with them (external) | |
| `Positions` (extends the three) | a loaded market, the requests, the ledger that moves on | |
| `Vault` | the vault client and its handles, the vault program | `VaultProofs` |
| `MC...` | instances for TLC | |

### KaminoAction

The state of the module is the state of a `KaminoAction` object: the reserve
lists (`depositReserves`, `borrowReserves`, the two preloaded lists), the
instruction lists (`setupIxs`, `inBetweenIxs`, `lendingIxs`, `cleanupIxs`,
`preTxnIxs`, `refreshFarmsCleanupTxnIxs`), and what the object was loaded from:
`req` (the arguments of the static `build...Txns`), `chain` (the accounts that
exist) and `known` (what `loadObligation` read, on which `positions` and
`referrer` depend).  `pc` and `phase` say where the pipeline stands.

There is one action for each step of a build: `Initialize` (with the counting of
positions and the refusal at the limit), the steps of the set-up pass
(`AddComputeBudgetIxn` ... `AddAtaIxs`), the refreshes of a pass
(`AddRefreshOtherReserves` ... `AddRefreshFarms`), the group request in its four
forms, the lending instruction(s), and the merge of the farm refreshes into the
cleanup.  Each step consists of the whole helper it calls.  Every exception is the
same `Throw`.

An instruction is a record `[op, res, deps, bors, how]`: what it does, to which
reserve, the deposits and borrows in its account list, and how (a farm's side, or
what a transfer to the WSOL account carries).  Amounts are abstracted to what the
code decides by: `level` (0 to 3) says how a repaid amount compares to the debt as
loaded and as it will be on landing, `emptied` whether a withdrawal closes the
position.  Labels, compute units, account metas, and the price in
a swap are left out.  Groups tied in loan-to-value, among which the code chooses
by list order, are chosen nondeterministically.

### KaminoActionSend

`Build` wraps the builder's steps; `GetTransactions`, `SendPreTxn`, `ExecuteIx`,
`Commit`, `Reject`, `Drop` and `Retry` follow `sendTransactions`.  A preceding
transaction may land, fail or be lost, and the result of its confirmation is not
looked at, as in the code; but sending it, or waiting for it, may throw, and then the
lending transaction is not sent (`Drop`).  `Retry` starts a new build of the same call from the
accounts as they are now.

The lending program is not part of the repository.  `Accepts` and `VMAfter` model
the part of it the builder prepares for, as named by the errors in
`src/idl_codegen/errors`: a reserve or obligation is to be refreshed in
the same transaction and not changed since, the account list of an instruction has
exactly the positions, accounts exist before they are used and do not before they
are created, farms are refreshed on both sides of a change.  These definitions are
marked external in the map.

### PubkeyMap and PubkeyHashMap

`PubkeyMap` is the contract: a function from keys to values, each operation's
answer determined by it.  `PubkeyHashMap` has the buckets (by the hash of the last
32 bits of the key: any function here), and the counter; `find`, `findIndex`,
`splice` and the removal of an emptied bucket are modelled as they are written.

### MarketCache

`state`, `reserves` and `reservesActive` are the fields of `KaminoMarket`.  A
caller runs at most one call at a time; an action is the code between two awaits,
since JavaScript runs one continuation at a time.  A record in `calls` holds what
the suspended function has in its local variables.

The ledger is a sequence of contents, one for each slot, and `settled` the slot
every node has reached.  A reply is the content of *any* slot from the one settled
when the request was sent to the newest when the reply is delivered: this covers
nodes that lag, replies out of order, and `processed` beside the default
commitment.  `Reject` stands for an error of the request, an account that does not
parse and a reserve without a price.  `reload` shows the market before its
reserves; `load` shows everything at the end; `loadReserves` asks for the keys the
map had when it began and replaces the map; `refreshAll` is `loadReserves` and a
recomputation of the active reserves behind one more await.

`since`, `known` and `alone` in a call are history for the properties; no action
reads them.

### SendTransaction

One call at a time sends a transaction and awaits: a block hash, the answer to the
send, the confirmation, the details of an error, the logs.  `withRetry` is
`sendAndConfirmRawTransactionWithRetry`, `withLogs` is `buildAndSendTxn`.  The
network lands a transaction, with or without an error, or drops it, at any time
after it was sent, also after the sender has given up.  `withRetry` catches the
failure of the confirmation and returns; `withLogs` throws, even if only the logs of
a success could not be fetched.

### UserLookupTable

The set-up reads metadata and table from a node that may lag, asks for the
addresses of the request without repetition, and sends the creation and then the
chunks, each as one transaction through one of the senders.  When a batch fails, the program
may call the set-up again, with another request.  The addresses are symbolic: user,
metadata, the accounts of each mint, farms, obligations, referrer.  A request may name
any `Mint`, also one that has no reserve in the market (`Listed`), which is
passed over.  A chunk is 25 addresses in the code.

### UpdateModes and ConfigUpdate

`UpdateModes` is the pure part: for two configurations, the modes that
`parseForChangesReserveConfigAndGetIxs` and its counterpart for markets emit, with the
first-match rule of the composite fields, the modes nobody emits, the values that
throw, and the file as it is downloaded and parsed.  A setting has a few values;
its width matters where the encoding does.  `ConfigUpdate` adds the asset objects and
their shared defaults, the commands (download, edit, update a reserve wholly or
partly, update a market in batches, update an oracle), sending and landing, and
another administrator.  A file is downloaded or loaded only while a command is still
to come, since nothing else reads it.

### Decimals, Ktokens, Leverage

Amounts are exact fractions; the decimal places of `decimal.js` are beyond what the
properties see, the explicit roundings are kept.  `Begin` takes a request, the
probes (`ProbeAta`, `ReadSol`, `ReadBalance`, `CountAccounts`) answer in any order,
`Build` makes the list; meanwhile each of four disturbances may happen once: an
account is closed or opened, SOL is spent, interest accrues.  `Land` runs the list on
the ledger, all or nothing, at each price within the slippage.  Swaps, the
strategy behind shares and the lending program are external: a swap gives at least
the quoted amount over one plus the slippage; fees of flash loans are rounded to
the nearest unit; withdrawals and repays are capped at the position; health is
checked after each of them.  Requests for shares have slippage.

### Reserve, Obligation, LendingProgram, Positions

`Reserve` and `Obligation` are operators, one for each function of the SDK that a
maximum or a simulation goes through, in fractions.  `LendingProgram` is what the program makes
of a deposit, borrow, repay, withdrawal or group request.  In `Positions` a
caller loads reserves and obligation at possibly different times, asks for a maximum
or a simulation and acts on it; slots pass and others act in between.

### Vault

`handle` is `KaminoVault.state`.  Callers share it; a call reads it at every
`getState`, with requests in between, and `reload` replaces it.  A call's `held`,
`priced` and `ranked` are what its readings gave it (the call's own, that of the price, that of
the reserves to take the rest from), `seen` is history for the properties.  A withdrawal
goes through `Price`, `Withdraw` and, where the liquid tokens are not enough,
`WithdrawOverReserves`; any request may fail (`RequestFails`).  The price of a share has
twenty digits in the code: where it is not exact (`inexact`) and exactly the liquid tokens
are wanted, `enough` takes either branch.  An
allocation has a fixed number of slots, unused ones with no reserve.  The vault
program is external: a deposit mints and a withdrawal burns pro rata, taking what
is not liquid from the reserve that is named; an investment moves a reserve towards its weight;
all reserves must be listed in the order of the slots.  A list lands as one
transaction, and then the call is forgotten but for how it ended.


## 3. The runs

Passing runs:

| run | question | bounds | states |
|---|---|---|---|
| `actions` | Is every transaction of a single or two-token action, outside groups, accepted, and does it leave the accounts as it should, through losses and retries? | 3 reserves (one is SOL; farms on either or both sides), limit of 3 positions, 2 builds | 515,174 |
| `elevation_group` | The same for actions that enter, leave or need a group, and the obligation-only actions; is the group reached? | 2 groups, limit of 4, 1 build | 83,738 |
| `pubkey_hash_map` | Does the bucketed map implement a map? | 4 keys, 3 of them colliding, 2 values | 1,922 |
| `market_cache` | Do overlapping calls keep the maps in agreement, and what does a call guarantee? | 2 reserves, 2 callers, 3 slots, 1 group | 673,180 |
| `market_freshness` | Does a refreshed cache end up fresh? | the same with 2 slots | 67,562 |
| `user_lookup_table` | Is there one table, complete when the program thinks so? | 3 mints, two sharing a farm, chunks of 10, 2 calls, 3 batches | 688,514 |
| `config_update` | What has landed in the end, and what was overwritten? | 2 commands, 2 batches, 1 act of another, 2 asset objects | 819,288 |
| `leverage` | Does the list succeed, and is the position the one asked for? | one request of each family over several positions, prices, fees | 452,204 |
| `positions` | Does the program grant what the SDK reports? | 2 reserves, 1 group, 1 act of others | 119,209 |
| `vault` | Which state do instructions come from, and which of the current ones are rejected? | 2 calls on a handle, 2 reserves in 2 slots, 5 ledgers, 2 acts of others | 1,009,664 |

What they show:

* `ServableNeverRejected`: a request that makes sense (`Servable`: the tokens and
  positions it needs are there, its flags tell the truth) is not rejected by the
  program.  The definition names five exceptions, each a case in which the code
  does build a transaction that fails: `nearlyFull` (a repay judged full that is
  not), `emptiedBeforeGroupRequest`, `repaidIsDeposit` (the obligation holds the
  repaid reserve as a deposit, which leaving the group does not refresh),
  `listedBeforePreload` and `farmAddedLater`.  `ServableNeverThrown`: nor does the builder throw, but for the
  position limit and an obligation without a first deposit.  A borrow or repay
  without an obligation is excused too.
* `FarmRefreshAdjacent`: each change of a staked position stands between two
  refreshes of its farm, whatever else the cleanup list holds.
* `NoStrandedSol`: a committed transaction leaves no SOL wrapped for nothing.  What is
  funded beyond what the program takes (`overfunded`: the padding of a full repay, a repay of
  more than the debt, a liquidation) comes back when the account is closed; it does not,
  and the property says so by name (`paddingLeft`), when the account was there before,
  because the code then keeps it.  SOL as the outflow of a two-token action is
  excused too.  `WsolAccountRestored`: the account itself is as the last build found it.
* `PositionLimitKept`: after a deposit or a borrow the obligation has no more positions than the
  limit.  (`depositCollateral` adds nothing to the count in the code, and
  `depositAndBorrow` counts otherwise; the property is silent on both.)
* `ListsOwnPositions`: no instruction names a position neither held nor opened, or
  changes one but as the call asks.
* `GroupReached`: the group requested, overridden, best in common, or left.
* `BucketsSound`, `SizeCounts`, `MapSpec`: buckets, counter and the refinement.
* `MapsAgree`: `reserves` and `reservesActive` hold the same objects, and no active
  reserve is missing.
* `CallsShowSettled`: a call that fills the cache shows no reserve older than it was
  settled when the call began, and drops none that was cached then.  What another call
  put into the cache meanwhile may be replaced by something older, or dropped: that it
  does not stay so is `EventuallyFresh`.
* `GroupMissingOnlyIfMarketOlder`: `getMarketElevationGroupDescriptions` can fail
  because the market is older than its reserves, never otherwise.
* `EventuallyFresh`: if `reload` runs alone again and again, the cache ends with the
  content of the ledger and stays there.  The condition is needed: TLC shows two
  callers of `reload` and `loadReserves` that overlap for ever and drop a
  new reserve each time.

* `ReturnedMeansLanded`, `ThrewMeansNoEffect`: what the end of a send tells.  They
  are two statements about two senders: neither sender satisfies both.  The sender
  that swallows a failed confirmation promises nothing by returning.
* `CompleteWhenDone`, `OneTable`, `NoRepeatInCall`: losses and late landings included.
* `TwoRoundsSuffice`: one partial update does not reach every field (of the fees and
  of a cap the first difference wins), two do.  `MarketReached`: all batches together
  make the market what the file says, but for owners and the net value.
  `OnlyEditsLand`, `OracleSparesTheRest`: what an update may change.
  `LatestKeepsInputs`: the asset object made last has its inputs; the earlier ones
  lose theirs to the shared defaults.
* `ServedWithinSlippage`: a list that lands on what it was built from succeeds at
  every price within the slippage, outside the cases `Unprovided` names (among them a
  repay in the slot of the last refresh, which repays nothing, and a flash loan whose
  fee nobody pays when there is no slippage).  `PositionAsAsked`: the target leverage
  is met and not exceeded, a closing closes.  `SwapAsShown`: the form and the builder
  agree, outside `shownOtherwise`.
* `MaximumServed`: what is reported as a maximum is accepted in its slot, outside
  the cases `Overstated` names: caps at their edge, accrual since the last refresh,
  rounding, fees under a cap, group caps when a group is changed.
  `SimulationNoRosier`: no less debt, no higher limit, no lower rate than shown, outside `Overlooked`
  (a first borrow, fees, interest since the last refresh).
* `OneStatePerInstruction`: each instruction lists the reserves of one state the
  handle had while its call ran; instructions of one list may come from different
  states.  `ServedWhenCurrent`: a list that lands on the state it was built from is
  rejected in the cases `Unserved` names, in all of them and in no other.  For a withdrawal
  these are: nothing is asked for (`nothingAsked`: no liquid tokens, or no shares); a
  share is worth more than a token, so that the first instruction, which asks for
  as many shares as there are liquid tokens, is owed more than the liquid tokens, and the
  reserve it names cannot give the rest (`firstReserveShort`); or a
  further instruction asks for nothing, for shares that are gone, or for more than its reserve can
  give (`nextFails`).

Runs that show a disagreement between the code and what the repository says of it:

| run | the repository says | the code |
|---|---|---|
| `finding_withdraw` | comment: "share amount to withdraw, in order to withdraw everything, any value > user share amount" | the instruction asks for as many shares as the vault has liquid tokens, whatever amount was given |
| `finding_take_rate` | the configuration files have `protocolTakeRatePct`; the program prints "Reserve Updated with config" | the take rate is read from `protocolLiquidationFeePct` |

Divergences met in the action builder, the cache and the vault, which the models contain
and the properties name: pre-funding transfers the amount of another token to
the WSOL account when SOL is the outflow of a two-token action; `depositAndBorrow`
counts its two reserves on the wrong sides against the position limit; a closing
leaves every debt out of the refreshed list; the borrow of `depositAndBorrow`
takes its list before the deposit is preloaded; `refreshAll` never fetches the market
account; and which reserve a withdrawal names does matter, against the comment at
`vault.ts:277`, once a share is worth more than a token: of a vault with 8 liquid tokens,
16 shares, nothing in the first reserve and 8 of collateral at 4/5 in the second, a
withdrawal of 4 is rejected because its instruction names the first (`firstReserveShort`).

### Bounds, and why they are enough

* *Reserves.*  The builder tells apart the reserve acted on, the other reserve of a
  two-token action, the reserves of other positions, and SOL.  Three reserves fill
  these roles in every combination; of `ResA`, `ResB` and `Sol`, one has a farm for deposits
  only, one for borrows only and one for both.
* *Accounts.*  `MCKaminoAction` names five account set-ups (nothing; everything; no
  SOL account; no farms or referral state; SOL alone) and takes every
  obligation over them with up to three positions.
* *`POSITION_LIMIT`* is 16 in the code; 3 in `actions` so that obligations reach it,
  4 in the other runs so that it does not cut them short.
* *`MaxAttempts`*: one retry meets every state a first attempt leaves behind; a
  second would start from such a state again.
* *Lookup table.*  Three mints, two of which share a farm, make an address that
  several parts ask for; chunks of 10 addresses instead of 25 make up to two chunks, the last of
  them short; the second call meets what a first one leaves behind.
* *Configurations.*  Settings have the values the code tells apart (unchanged, changed, too wide);
  two commands and one act of another administrator give each order of reading and
  landing.  `MaxBatches` is 3, so that a market's update fits
  (`BoundAssumption`: no bound cuts an update short).
* *Leverage.*  Each branch of the amounts (collateral or debt deposited, with or
  without closing, up or down, shares or tokens, SOL or not, zero slippage or fee) has a
  request; numbers are small but not so round that rounding disappears.
* *Positions.*  Two reserves are what a maximum relates; each request comes with the
  cap, fee, interest or group that could bind.
* *Vault.*  Two slots give an order and a slot that is unused; the five starting
  ledgers have nothing, nothing invested, a part (in the first slot, with a share worth
  more than a token; in the second, where interest makes it so), everything; two calls on a
  handle give every overlap of reads and reloads; two acts of others change liquid tokens
  and strategy between them.
* *Keys.*  Three colliding keys give first, middle and last places to remove in a
  bucket, the fourth a second bucket.
* *`MaxSlot`, `MaxGroup`.*  Three slots hold a change before a call, one between its
  requests and one unsettled when it ends; one group is needed for a reserve
  to be in a group the cached market lacks.  Two callers suffice for
  an overlap; a third only adds overlaps of the same pairs.  The proofs do without
  these bounds.

`CHECK_DEADLOCK FALSE` stands where a behaviour ends: a build that threw, a
transaction that was committed or rejected, a command that was printed, a bound
on calls that is used up.

### Fairness

Only `market_freshness` needs fairness.  `FairSpec` has weak fairness on `Settle`
(nodes catch up with a ledger that no longer changes) and on `Continue(c)` (the
pending request of a caller is answered or rejected, then its continuation runs: a
promise of the RPC client settles by its own timeout, and the event loop
runs what is queued).  Nothing makes an owner change the ledger, nor a
program call the market: that calls are made is the premise of the property.


## 4. The proofs

TLAPS checks these for every value of the constants that satisfies the named
assumptions of the modules.

* **KaminoActionProofs.**  `TypeCorrect` and `PositionListsSound`
  (`Spec => []ListsOwnPositions`), from `Invariance`.  `ListsOwnPositions` is not
  inductive: what the next pass pushes depends on the reserve lists.  `IInv` adds
  that `depositReserves` and `borrowReserves` hold only positions of the loaded
  obligation and of the call (`ReserveListsSound`), that a call which needs a second
  reserve or a group names one (`CallSound`), and that each list is a sequence of
  the kinds of `OwnInstruction` its passes push (`ListsSound`).  One lemma for each
  step of the build shows that it preserves `IInv`; the lemmas on pushing and
  concatenation carry them.

  The same and more of sending, losses and retries (`SendSpec`): `SendTypeCorrect`,
  `SendPositionListsSound`, `LimitAlwaysKept`, `ServableNeverThrows`, from
  `SendInvariance`.  `SendCore` adds to `IInv` that the count is that of the
  loaded positions (`CountSound`), why a build has thrown (`ThrownSound`: one of
  six reasons), that the queue holds what was built, and that the ledger
  differs from the loaded obligation at most by the positions the call itself opens
  (`SendSound`).  `PositionLimitKept` needs the last two and the count together: the
  limit is checked before there is a transaction, and it is to hold after one that may
  have been lost and built again.

  `NothingStranded` and `WsolAlwaysRestored`, from `WrappedSolInvariance`.  Both are
  about a transaction that ran, but what the account of wrapped SOL will hold is
  decided list by list while it is built, so `WrappedSol` speaks of lists first.
  `ShapeSound`: the lending instructions are those the action asked for.  `SolSound`:
  in the setup every transfer of SOL is followed by a sync; a sync is matched by a
  closing in the cleanup, or by an action that sends SOL (or, which the property excepts,
  has it as outflow); and an account the builder did not find is closed.  The other passes put
  only support instructions around what is there (`Around`), which keeps all of that.
  `RunSound` carries it to the queue of the running transaction: what was transferred
  has its sync still ahead, what was funded has ahead what spends or returns it (what
  spends all of it, or the closing, if more is funded than may be spent), and
  nothing is created behind the closing.

  `RefreshesAlwaysAdjacent` (`SendSpec => []FarmRefreshAdjacent`), from the same and
  `FarmSound`, which follows the refreshes through the build: when the first lending
  instruction is pushed the setup ends with the refreshes of its farms, and the
  same refreshes wait for the cleanup; of an action on two reserves the list between starts
  with the refreshes after the first instruction and ends with those before the
  second, whatever the second pass pushed in the middle; the cleanup starts with the
  last refreshes once they were spliced in front.

  `GroupAlwaysReached` (`SendSpec => []GroupReached`).  The group a transaction ends in
  was decided when its lists were built, perhaps from an older obligation, so the proof
  says what a list does to the group it finds: `Runs(c, q, S, T)` says that the program,
  started in a state of `S`, is not stopped at an instruction of `q` by its checks
  of kind `c` and ends in `T` (a sequence of sets of states, one before each
  instruction; `RunsConcat`, `RunsFrame` and `RunsWeaken` carry it through pushing and
  splicing).  `GroupBuilt` gives for each step of the build the groups each list leads
  to from the loaded group: the override, the best common group, none after the last
  debt.  `FlightSound` carries the claim to the running transaction: what is left in
  the queue runs from the current ledger as the whole did from the chain, which agrees
  with the obligation that was loaded in all but the accounts created meanwhile.
  Assumptions: `ReserveAssumption`, `GroupAssumption`, `InputAssumption` (reserves
  are finitely many, groups are positive numbers, inputs are of their type).
* **KaminoServedProofs.**  `ServableNeverIsRejected`
  (`SendSpec => []ServableNeverRejected`), the whole of what the builder promises: of a request that makes sense no instruction is refused.  The
  program's checks fall into four concerns (`Concern`: token accounts and wrapped SOL;
  the user's metadata, obligation and farm states; the referrer's token states; positions
  and what is refreshed of them), each with fields of its own.  An instruction
  another concern is about neither meets the checks of this one nor changes what they look
  at (`Alike`, `Ignored`, `IgnoredRuns`), so each is followed through the build alone, by
  a plan which says, for each step, from where to where each list runs:
  - `MoneyBuilt`: from the accounts on the chain, those the preceding transaction
    created among them, the setup runs to where those sent from and received in exist and
    what is sent as SOL is funded (`Furnished`), and the cleanup finds what it closes;
  - `UserBuilt`: metadata before the obligation, the obligation before the farm states,
    each created once, and no refresh of a farm whose state is not there;
  - `ReferralBuilt`: every token state the referrer lacks is created in the setup;
  - `StandBuilt`: the positions of the setup are those loaded, of the list between
    those after the first instruction, of the cleanup those after the last; the others
    are refreshed before the current ones, the obligation after them, the farms last,
    and again after a group was entered; `DepsBuilt`: a borrow or repay in a group
    lists every deposit.
  The plans need what was proved before (`IInv`, `ShapeSound`, `GroupBuilt`, `FarmSound`)
  and that the reserve lists are those of the loaded obligation (`ValuesBuilt`);
  `SoloBuilt` is for the actions without a support pass.  `PlannedTxn` puts the lists
  together; `ServableSensible` says that what makes sense on the chain makes sense of the
  obligation as it was loaded, by `FlightSound`; and `Started` takes the four runs to
  the instruction that is about to be executed, where `AdmitsAll` makes them one.
  The proof uses each of the five excused cases: `LeavingRests` (leaving the group after
  a repay) that three are excluded, `SoundOfTwo` one of these again, `SecondHeld` (the
  second of two instructions) and `SoloUser` the others.  Assumptions: those of `KaminoActionProofs`.
* **PubkeyHashMapProofs.**  `TypeCorrect`, `BucketsStaySound`, `SizeAlwaysCounts` and
  `HashMapImplementsMap` (`Spec => MapSpec`) for any hash function and any number of
  keys.  The invariant is that every entry is in the bucket of its hash, each key
  once, no bucket is empty, finitely many keys are held and the counter is their
  number.  None of the three is inductive alone: a key held twice would be
  counted twice.  The refinement maps a key to the value of its entry.  Assumption:
  `HashAssumption`.
* **MarketCacheProofs.**  `TypeCorrect`, `MapsAlwaysAgree`, `CallsAlwaysShowSettled`
  and `GroupsMissOnlyIfOlder`, for any number of callers, reserves, slots and groups.
  The invariant adds to `MapsAgree` that accounts only get newer along the ledger
  and stay (`LedgerSound`), and that what a running call has received is no
  older than what was settled when it began (`CallsSound`); from
  this a step that installs the received accounts satisfies `CallsShowSettled`.
  `GroupsSound` traces the market and each account, cached or received, to
  a slot of the ledger, in which the groups of a reserve are groups of the market: a
  group that is missing can then only come from a later slot than the market.
  Assumptions: `BoundsAssumption`, `UndefinedAssumption`.
* **The senders.**  `ReturnTellsLanded` and `ThrowTellsNoEffect` (in `ConfigUpdateProofs`;
  `UserLookupTableProofs` has the invariant too, below its own), from `Invariance`, for any set of transactions and whatever the nodes lose, delay or
  answer.  What a sender returned says nothing by itself about the chain; `IInv` adds to
  the types that a transaction on its way has not landed, that one that is not sent yet is
  nowhere, that a sender which reads the details of a failure found an error in the
  status, and that one which reads logs, or returned after them, found the status
  good.
* **ListFacts.**  What the last three rest on.  The code builds its lists by loops,
  `filter` and `PublicKeySet`, so their content is known only by induction.
  `InductionUpTo` is induction up to a number, stated for a set that contains 0 and
  is closed under adding 1 (proved by the least element of its complement), and
  `RecursionUpTo` says that a function given by its first value and a step exists.
  From them follow the length and the elements of a flattened list, of what a filter
  picks, and of a list without its repetitions (`DistinctElements`).
* **UserLookupTableProofs.**  `AlwaysOneTable`, `NoCallRepeats`, `SetupCompletes`,
  `SetupTypeCorrect`, for any requests, any market and any chunk size, and
  `SetupUsesSenders` (`LutSpec => Spec`), by which what is proved of the
  senders holds of the batches.  `LutIInv` relates the ledger to
  the batches that landed: table and metadata are created by one transaction, which
  fails where there is metadata already (`LedgerSound`), and what a batch has done
  stays done (`LandedDone`); what was planned is what was missing when the table was read
  (`Planned`), and of a call that gets through every batch has landed
  (`Progress`).  `CompleteWhenDone` needs all of it: addresses come from the table as
  it was read, from earlier calls that landed late, and from the batches of this
  call.  Assumptions: `FarmAssumption`, `CallAssumption`, `RequestAssumption`,
  `BatchAssumption` (the bound on batches cuts no call short).
* **VaultProofs.**  `OneStateEach` and `CallsTypeCorrect`, for any number of callers,
  slots and reserves, and whatever the programs and the others do.  `VtIInv` says that
  what a call holds, or has priced, it has seen; that the handle, which any caller may
  replace, was seen by every call that is about to read it again; and that an invest
  list is a prefix of the reserves of the state its call began with, shorter than
  them as long as the call runs.  Assumptions: `VaultAssumption`,
  `RequestAssumption`, `BoundAssumption`.
* **ConfigUpdateProofs.**  All properties of the run but the finding:
  `AdminTypeCorrect`, `LatestAlwaysKeepsInputs`, `MarketIsReached`,
  `TwoRoundsAlwaysSuffice`, the action properties `OracleAlwaysSpares` and
  `OnlyEditsEverLand`, and `AdminUsesSenders` (`CuSpec => Spec`), for any files, edits,
  batch size, number of commands and objects.  The argument has three parts.  The
  tables of modes are injective and disjoint, so the instructions of a comparison set
  different settings, in any order, and each to the value of the file.  The batches
  are the instructions in consecutive pieces (`chunks`).  `MarketProgress`: of each
  setting, the market has the wanted value or a batch which sets it has not landed.
  `RoundsProgress`: what the second update read is what the first one left, so the
  second comparison meets only the settings the first rule passed over.
  Assumptions: `AdminAssumption`, `BoundAssumption`, `EditsAssumption`,
  `NetValueOrderAssumption`.

Only model-checked:

* all of the runs `leverage` and `positions`, and `ServedWhenCurrent`: their
  statements compare amounts the SDK computed with amounts the programs compute, rational
  arithmetic through recursive operators, sums over sets and a choice of a least element;
* of `VtTypeOK`, what it says of the amounts of the ledger (they are sums over
  slots, and not negative because of how the run's ledgers start); what it
  says of calls is `CallsTypeCorrect`;
* `EventuallyFresh`, which is liveness under fairness, and anything about `ENABLED`:
  out of the prover's reach, as are `RECURSIVE` operators, theorems with an operator
  as a parameter, and the folds and `SelectSeq` of the libraries.  The modules with
  proofs therefore use recursive functions and `pick`.


## 5. What is not modelled, and why

* The listings of `market.ts` (obligations, prices, rewards) and iteration over a
  `PubkeyHashMap`: loops over fetched accounts, without state.
* `load` of a market without reserves: no caller in the repository asks for it, and
  it starts from a native `Map` of another kind of key.  A market account that is
  not found: it is never closed.
* A `KaminoObligation` that the caller of the builder loaded earlier: the model loads it
  when it builds.  Transactions that land after the caller took them for lost: modelled of
  the senders, not of `sendTransactions`.
* Vaults of SOL, whose deposits wrap it around the instruction, and amounts with more
  decimals than the token has.
* `depositAndBorrow` and `repayAndWithdraw` in simulated statistics, `mint` and `redeem`
  in simulated rates, and the override of the group of a simulation.
* Reward yields, displays of leverage and statistics: arithmetic nobody acts on.
* Creation of markets, reserves and vaults: one or two instructions with new
  accounts.  Referrals: single instructions on accounts the caller names.
* The listings over all vaults: two of them return before, or from, what they did not
  compute (`vault.ts:495`, `553`), and nothing in the repository reads them.
* The choice of the best price among oracles; simulation of transactions.
* Address derivation, encodings, the generated clients, the command line: no
  control of their own, or input and output only.
* The lending, farms, scope and token programs, the RPC client, and swap
  quotes: external; modelled only as far as the code depends on them.


## 6. Plan

Steps 1 to 7 are done: the action builder and its sending (with proofs), the maps
(with proofs), the market cache (with proofs), the senders (with proofs) and the
lookup table, the manager's updates, leverage and repay with collateral, reserve and
obligation, the vault.

What is left, in this order:

8. Proofs about the amounts of the vault's ledger.
9. `level` and `emptied` of `KaminoAction` replaced by the amounts of `Obligation`.
10. Referrals; the list-backed `PublicKeyMap` and iteration under change; the choice
    of the best price.
