---------------------------- MODULE ConfigUpdate ----------------------------
(***************************************************************************)
(* The administration of a market and of one of its reserves: the commands *)
(* of src/client_kamino_manager.ts over src/classes/manager.ts, and a      *)
(* program that calls updateReserveScopeOracleConfigurationIxs with a      *)
(* reserve it has loaded before.  A command fetches the account, compares  *)
(* it with the configuration it is to have, and sends update instructions, *)
(* each batch as a transaction of SendTransaction (processTxn in execute   *)
(* mode).  Other administrators change the accounts at any time.           *)
(* New reserves are configured from AssetConfig objects                    *)
(* (src/utils/managerTypes.ts), which share one default configuration.     *)
(***************************************************************************)
EXTENDS SendTransaction, UpdateModes

CONSTANTS
  ReserveEdits,   \* what the operator may change in a file, as functions
  EntireEdits,    \* the same, for an update of the entire configuration
  MarketEdits,
  Topics,         \* bound: what one behaviour is about, of Topic
  OtherEdits,     \* what another administrator may change in the reserve
  Input,          \* values of the inputs of a configuration object
  ChunkSize,      \* 6 in the code
  MaxCalls,       \* bound: commands
  MaxBatches,     \* bound: transactions of a command
  MaxOther,       \* bound: changes by other administrators
  MaxObjects      \* bound: configuration objects

\* The market, an existing reserve, or a reserve to be added.
Topic == {"market", "reserve", "adding"}

ASSUME AdminAssumption ==
  /\ Topics \subseteq Topic
  /\ ChunkSize \in Nat \ {0}
  /\ Tx = (1..MaxCalls) \X (1..MaxBatches)

\* A command that creates a reserve sends two transactions, and an update of the
\* market all that its settings need.
ASSUME BoundAssumption ==
  /\ {MaxCalls, MaxBatches, MaxOther, MaxObjects} \subseteq Nat
  /\ MaxBatches >= 2
  /\ MaxBatches * ChunkSize >= Len(marketKeys)

\* Files hold values, and accounts what their layout can.
ASSUME EditsAssumption ==
  /\ \A edits \in ReserveEdits \union EntireEdits :
       \A s \in DOMAIN edits : s \in ReserveSetting /\ edits[s] \in Value
  /\ \A edits \in MarketEdits :
       \A s \in DOMAIN edits : s \in MarketSetting /\ edits[s] \in Value
  /\ \A edits \in OtherEdits :
       \A s \in DOMAIN edits : s \in ReserveSetting /\ edits[s] \in Held(s)

VARIABLES
  topic,     \* what this behaviour is about
  reserve,   \* on the ledger: the configuration of the reserve
  market,    \* on the ledger: the configuration of the market
  file,      \* the file of the reserve's configuration
  marketFile,
  copy,      \* history: the reserve the file was downloaded from, and the edits since
  loaded,    \* the reserve a program has loaded
  cmds,      \* the commands so far, the last one under way
  step,      \* where that command is, or how it ended
  others,    \* changes by other administrators so far
  touched,   \* history: others changed the market since the command read it
  defaults,  \* DefaultConfigParams: whose inputs the shared object holds
  objects    \* the configuration objects the program has made

ledgerVars == <<reserve, market>>
fileVars == <<file, marketFile, copy, loaded>>
cmdVars == <<cmds, step>>
otherVars == <<others, touched>>
objectVars == <<topic, defaults, objects>>
cuVars == <<sendVars, ledgerVars, fileVars, cmdVars, otherVars, objectVars>>

NoReserve == [none |-> TRUE]
Configured == "status" \in DOMAIN reserve
Running == {"fetch", "send"}

cmd == cmds[Len(cmds)]

-----------------------------------------------------------------------------
(***************************************************************************)
(* Configuration objects.  Four classes take DefaultConfigParams, the one  *)
(* object of the module, for their own parameters, and these three write   *)
(* their inputs into it.  AssetReserveConfigCli only shares it, and has    *)
(* the file's configuration instead (managerTypes.ts:110-143).  The fields *)
(* that are not shared stay with the object.                               *)
(***************************************************************************)
AssetClass == {"AssetReserveConfig", "CollateralConfig", "DebtConfig"}

Parameter == {"priceFeed", "loanToValuePct", "liquidationThresholdPct", "borrowRateCurve",
              "depositLimit", "borrowLimit"}

inputsOf == [
  AssetReserveConfig |-> Parameter,
  CollateralConfig |-> {"priceFeed", "loanToValuePct", "liquidationThresholdPct"},
  DebtConfig |-> {"priceFeed", "borrowRateCurve"} ]

DefaultConfigParams == [p \in Parameter |-> "default"]

\* Mutant: the constructor starts from the defaults and drops the price feed.
withoutFeed(class, input, params) ==
  [p \in Parameter |-> IF p \in inputsOf[class] \ {"priceFeed"} THEN input ELSE params[p]]

\* A collateral asset cannot be borrowed.
construct(class, input, params) ==
  [p \in Parameter |-> IF p \in inputsOf[class] THEN input
                       ELSE IF class = "CollateralConfig" /\ p = "borrowLimit" THEN "zero"
                       ELSE params[p]]

NewAssetConfig(class, input) ==
  /\ topic = "adding" /\ reserve = NoReserve
  /\ Len(objects) < MaxObjects
  /\ defaults' = construct(class, input, defaults)
  /\ objects' = Append(objects, [class |-> class, input |-> input, own |-> <<>>])
  /\ UNCHANGED <<topic, sendVars, ledgerVars, fileVars, cmdVars, otherVars>>

\* Parameters of its own, from here on.  (Bound: the program sets them before it
\* calls a command.)
SetAssetConfigParams(i, params) ==
  /\ cmds = <<>>
  /\ objects[i].own = <<>>
  /\ objects' = [objects EXCEPT ![i].own = <<params>>]
  /\ UNCHANGED <<sendVars, ledgerVars, fileVars, cmdVars, otherVars, topic, defaults>>

\* Read when the market has been fetched, not when the object was made.
getReserveConfig(o) == IF o.own = <<>> THEN defaults ELSE o.own[1]

-----------------------------------------------------------------------------
(***************************************************************************)
(* Commands.                                                               *)
(***************************************************************************)
\* wanted: the configuration to reach; read, batches and owner follow once
\* the accounts are fetched; copy: history, of the file.
Start(kind, wanted) ==
  /\ step \notin Running
  /\ Len(cmds) < MaxCalls
  /\ cmds' = Append(cmds, [kind |-> kind, wanted |-> wanted, read |-> <<>>, batches |-> <<>>,
                           owner |-> 0, copy |-> copy'])
  /\ step' = "fetch"

\* AssetReserveConfigCli and reserveConfigPath; the file was edited before.
UpdateReserveConfig(edits, entire) ==
  /\ Configured
  /\ file' = [s \in ReserveSetting |-> IF s \in DOMAIN edits THEN edits[s] ELSE file[s]]
  /\ copy' = [copy EXCEPT !.edited = @ \union DOMAIN edits]
  /\ Start(IF entire THEN "entireReserve" ELSE "updateReserve", parseReserveConfigFromFile(file'))
  /\ UNCHANGED <<sendVars, ledgerVars, marketFile, loaded, otherVars, objectVars>>

DownloadReserveConfig ==
  /\ step \notin Running
  /\ Len(cmds) < MaxCalls   \* for a command to come
  /\ Configured
  /\ file' = parseReserveConfigToFile(reserve)
  /\ copy' = [base |-> reserve, edited |-> {}]
  /\ UNCHANGED <<sendVars, ledgerVars, marketFile, loaded, cmdVars, otherVars, objectVars>>

UpdateLendingMarketFromConfig(edits) ==
  /\ topic = "market"
  /\ marketFile' = [s \in MarketSetting |-> IF s \in DOMAIN edits THEN edits[s]
                                            ELSE marketFile[s]]
  /\ UNCHANGED <<sendVars, ledgerVars, file, copy, loaded, otherVars, objectVars>>
  /\ Start("updateMarket", marketFile')

\* The pending owner takes over.
UpdateLendingMarketOwner ==
  /\ topic = "market"
  /\ UNCHANGED <<sendVars, ledgerVars, fileVars, otherVars, objectVars>>
  /\ Start("updateOwner", <<>>)

AddAssetToMarket(i) ==
  /\ topic = "adding" /\ reserve = NoReserve
  /\ UNCHANGED <<sendVars, ledgerVars, fileVars, otherVars, objectVars>>
  /\ Start("addAsset", i)

\* A program loads the reserve, and updates its oracle some time later.
LoadReserve ==
  /\ step \notin Running
  /\ Len(cmds) < MaxCalls
  /\ Configured
  /\ loaded' = reserve
  /\ UNCHANGED <<sendVars, ledgerVars, file, marketFile, copy, cmdVars, otherVars, objectVars>>

\* The settings the new oracle brings with it; without a twap the chain of
\* the twap is cleared (0) and its age kept.
OracleSettings == {"priceFeed", "priceChain", "twapChain", "maxAgePriceSeconds",
                   "maxAgeTwapSeconds"}

oracleConfig(config, withTwap) ==
  [config EXCEPT !.priceFeed = 1, !.priceChain = 1, !.maxAgePriceSeconds = 1,
                 !.twapChain = IF withTwap THEN 1 ELSE 0,
                 !.maxAgeTwapSeconds = IF withTwap THEN 1 ELSE @]

UpdateReserveScopeOracle(withTwap) ==
  /\ loaded # NoReserve
  /\ UNCHANGED <<sendVars, ledgerVars, fileVars, otherVars, objectVars>>
  /\ Start("updateOracle", oracleConfig(loaded, withTwap))

-----------------------------------------------------------------------------
(***************************************************************************)
(* Instructions.                                                           *)
(***************************************************************************)
\* Mutant: the reserve is fetched although the caller has passed its state.
fetchedAgain(c) == reserve

\* What updateReserveIxs compares with: reserveStateOverride.
comparedWith(c) == IF c.kind = "updateOracle" THEN loaded ELSE reserve

ixsOfReserve(changes, new) ==
  [i \in DOMAIN changes |-> updateReserveConfigIx(changes[i], new)]

updateReserveIxs(old, new) == ixsOfReserve(reserveChanges(old, new), new)

reserveEncodes(old, new) ==
  LET changes == reserveChanges(old, new)
  IN  \A i \in DOMAIN changes : encodes(changes[i], new[changes[i]])

batchEnd(k, n) == IF k * ChunkSize < n THEN k * ChunkSize ELSE n

\* Mutant: a batch leaves out the last of its instructions.
shortChunks(ixs) ==
  [k \in 1..((Len(ixs) + ChunkSize - 1) \div ChunkSize) |->
     SubSeq(ixs, (k - 1) * ChunkSize + 1, batchEnd(k, Len(ixs) - 1))]

\* ixns.slice(ixnIndex, ixnIndex + 6)
chunks(ixs) ==
  [k \in 1..((Len(ixs) + ChunkSize - 1) \div ChunkSize) |->
     SubSeq(ixs, (k - 1) * ChunkSize + 1, batchEnd(k, Len(ixs)))]

updateLendingMarketIxs(old, new) ==
  LET changes == marketChanges(old, new)
  IN  [i \in DOMAIN changes |-> updateMarketConfigIx(changes[i], new)]

CommandEnds(how) == step' = how /\ UNCHANGED cmds

Plan(read, batches) ==
  /\ cmds' = [cmds EXCEPT ![Len(cmds)].read = read, ![Len(cmds)].batches = batches,
                          ![Len(cmds)].owner = market.lendingMarketOwner]
  /\ step' = "send"

ReserveFetched ==
  /\ cmd.kind \in {"updateReserve", "updateOracle", "entireReserve"}
  /\ LET old == comparedWith(cmd)
     IN  IF cmd.kind = "entireReserve"
         THEN IF encodesEntirely(cmd.wanted)
              THEN Plan(old, << <<updateEntireReserveConfigIx(cmd.wanted)>> >>)
              ELSE CommandEnds("threw")
         ELSE IF reserveEncodes(old, cmd.wanted)
              THEN Plan(old, <<updateReserveIxs(old, cmd.wanted)>>)
              ELSE CommandEnds("threw")

\* made: how many objects there are when the parameters are read.
addedReserve(i) == [object |-> i, made |-> Len(objects), params |-> getReserveConfig(objects[i])]

MarketFetched ==
  \/ /\ cmd.kind = "updateMarket"
     /\ IF marketEncodes(marketChanges(market, cmd.wanted), cmd.wanted)
        THEN Plan(market, chunks(updateLendingMarketIxs(market, cmd.wanted)))
        ELSE CommandEnds("threw")
  \/ /\ cmd.kind = "updateOwner"
     /\ Plan(market, << <<"updateLendingMarketOwner">> >>)
  \/ /\ cmd.kind = "addAsset"
     /\ Plan(market, << <<"createReserve">>, <<addedReserve(cmd.wanted)>> >>)

Fetched ==
  /\ step = "fetch"
  /\ ReserveFetched \/ MarketFetched
  /\ touched' = FALSE
  /\ UNCHANGED <<sendVars, ledgerVars, fileVars, others, objectVars>>

FetchFails ==
  /\ step = "fetch"
  /\ CommandEnds("threw")
  /\ UNCHANGED <<sendVars, ledgerVars, fileVars, otherVars, objectVars>>

\* How many batches of the command under way are sent.
sent == IF sending = NoTx THEN 0 ELSE IF sending[1] = Len(cmds) THEN sending[2] ELSE 0

SendBatch ==
  /\ step = "send"
  /\ sent < Len(cmd.batches)
  /\ sent = 0 \/ await = "returned"
  /\ Call(<<Len(cmds), sent + 1>>)
  /\ UNCHANGED <<ledgerVars, fileVars, cmdVars, otherVars, objectVars>>

\* "Reserve Updated with config", and the like.
Printed ==
  /\ step = "send"
  /\ sent = Len(cmd.batches)
  /\ sent > 0 => await = "returned"
  /\ CommandEnds("printed")
  /\ UNCHANGED <<sendVars, ledgerVars, fileVars, otherVars, objectVars>>

Stop ==
  /\ step = "send"
  /\ sent > 0 /\ await = "threw"
  /\ CommandEnds("threw")
  /\ UNCHANGED <<sendVars, ledgerVars, fileVars, otherVars, objectVars>>

-----------------------------------------------------------------------------
(***************************************************************************)
(* The lending program.  A transaction is atomic; update instructions name *)
(* the owner that the command has read, the acceptance the pending owner.  *)
(***************************************************************************)
cmdOf(t) == cmds[t[1]]
batchOf(t) == cmdOf(t).batches[t[2]]

Creates(t) == cmdOf(t).kind = "addAsset" /\ t[2] = 1
Configures(t) == cmdOf(t).kind = "addAsset" /\ t[2] = 2

reserveAfter(t) ==
  IF Creates(t) THEN [created |-> TRUE]
  ELSE IF Configures(t) THEN batchOf(t)[1]
  ELSE runReserveIxs(reserve, batchOf(t))

marketAfter(t) ==
  IF cmdOf(t).kind = "updateOwner"
  THEN [market EXCEPT !.lendingMarketOwner = market.lendingMarketOwnerCached]
  ELSE runMarketIxs(market, batchOf(t))

OfMarket == {"updateMarket", "updateOwner"}

Executable(t) ==
  IF cmdOf(t).kind = "updateOwner"
  THEN market.lendingMarketOwnerCached = cmdOf(t).read.lendingMarketOwnerCached
  ELSE /\ market.lendingMarketOwner = cmdOf(t).owner
       /\ Creates(t) => reserve = NoReserve
       /\ Configures(t) => reserve # NoReserve

ExecuteWell(t) ==
  /\ Executable(t)
  /\ Land(t, "ok")
  /\ IF cmdOf(t).kind \in OfMarket
     THEN /\ market' = marketAfter(t)
          /\ touched' = (touched \/ t[1] < Len(cmds))
          /\ UNCHANGED reserve
     ELSE reserve' = reserveAfter(t) /\ UNCHANGED <<market, touched>>
  /\ UNCHANGED <<fileVars, cmdVars, others, objectVars>>

NoEffect == UNCHANGED <<ledgerVars, fileVars, cmdVars, otherVars, objectVars>>

\* Another administrator, and withdrawals that count towards a cap.
OtherChange(edits) ==
  /\ others < MaxOther
  /\ Configured
  /\ \E s \in DOMAIN edits : reserve[s] # edits[s]
  /\ others' = others + 1
  /\ reserve' = [s \in ReserveSetting |-> IF s \in DOMAIN edits THEN edits[s] ELSE reserve[s]]
  /\ UNCHANGED <<sendVars, market, fileVars, cmdVars, touched, objectVars>>

-----------------------------------------------------------------------------
\* 0 is what an account holds at first.
NewConfig == [s \in ReserveSetting |-> 0]
NewMarket == [s \in MarketSetting |-> 0]

\* processTxn sends with signSendAndConfirmRawTransactionWithRetry.
CuInit ==
  /\ Init
  /\ sender = "withRetry"
  /\ topic \in Topics
  /\ reserve = IF topic = "reserve" THEN NewConfig ELSE NoReserve
  /\ market = NewMarket
  /\ file = NewConfig
  /\ marketFile = NewMarket
  /\ copy = [base |-> NewConfig, edited |-> {}]
  /\ loaded = NoReserve
  /\ cmds = <<>>
  /\ step = "none"
  /\ others = 0
  /\ touched = FALSE
  /\ defaults = DefaultConfigParams
  /\ objects = <<>>

CuNext ==
  \/ \E class \in AssetClass, input \in Input : NewAssetConfig(class, input)
  \/ \E i \in DOMAIN objects :
       SetAssetConfigParams(i, [p \in Parameter |-> objects[i].input]) \/ AddAssetToMarket(i)
  \/ \E edits \in ReserveEdits : UpdateReserveConfig(edits, FALSE)
  \/ \E edits \in EntireEdits : UpdateReserveConfig(edits, TRUE)
  \/ DownloadReserveConfig
  \/ \E edits \in MarketEdits : UpdateLendingMarketFromConfig(edits)
  \/ UpdateLendingMarketOwner
  \/ LoadReserve
  \/ \E withTwap \in BOOLEAN : UpdateReserveScopeOracle(withTwap)
  \/ Fetched
  \/ FetchFails
  \/ SendBatch
  \/ Continue /\ NoEffect
  \/ Printed
  \/ Stop
  \/ \E t \in inFlight : ExecuteWell(t) \/ (Land(t, "err") /\ NoEffect) \/ (Drop(t) /\ NoEffect)
  \/ \E edits \in OtherEdits : OtherChange(edits)

CuSpec == CuInit /\ [][CuNext]_cuVars

-----------------------------------------------------------------------------
\* The accounts hold what their layout can, commands do not outgrow the bounds
\* and a command that sends has read its accounts.
CuTypeOK ==
  /\ TypeOK
  /\ Configured => \A s \in ReserveSetting : reserve[s] \in Held(s)
  /\ \A s \in MarketSetting : market[s] \in HeldInMarket(s)
  /\ step \in Running \union {"none", "printed", "threw"}
  /\ \A c \in DOMAIN cmds : Len(cmds[c].batches) <= MaxBatches
  /\ step = "send" => cmd.read # <<>>

LandsWell(t) == t \notin inFlight' /\ outcome'[t] = "ok"

changed == {s \in ReserveSetting : reserve'[s] # reserve[s]}

\* An update of the oracle touches nothing but the oracle's settings, however
\* old the reserve is that the program has loaded: what another administrator
\* has set in the meantime stays.
OracleSparesTheRest ==
  [][\A t \in inFlight :
       LandsWell(t) /\ cmdOf(t).kind = "updateOracle" => changed \subseteq OracleSettings]_cuVars

\* A downloaded configuration that is edited and sent back changes what was
\* edited, if the reserve is still the one that was downloaded; and the take
\* rate, which the file does not keep.
OnlyEditsLand ==
  [][\A t \in inFlight :
       LET c == cmdOf(t)
       IN  LandsWell(t) /\ c.kind = "updateReserve" /\ c.copy.base = c.read /\ reserve = c.read =>
             changed \subseteq c.copy.edited \union {"protocolTakeRatePct"}]_cuVars

\* "It can either update the entire reserve config or just update fields which
\* differ": one partial update does not do, of the fees and of a withdrawal cap
\* it updates the first that differs.  A second one does, once the first has
\* landed and if nobody else interferes; it covers every setting that has a mode.
TwoRoundsSuffice ==
  /\ step = "printed" /\ Len(cmds) = 2 /\ others = 0
  /\ \A c \in 1..2 : cmds[c].kind = "updateReserve" /\ outcome[<<c, 1>>] = "ok"
  /\ cmds[1].wanted = cmds[2].wanted
  /\ cmds[1].read # cmds[2].read
  => \A s \in Updatable : reserve[s] = cmds[2].wanted[s]

\* A market that is updated in several transactions has what the file says
\* when all of them have landed.  (Not its owners: one mode serves both.  Nor
\* the net value: its bytes are in an order of their own.)
MarketReached ==
  /\ step = "printed" /\ cmd.kind = "updateMarket" /\ ~touched
  /\ \A k \in DOMAIN cmd.batches : outcome[<<Len(cmds), k>>] = "ok"
  => \A s \in MarketSetting \ (Owners \union {"minNetValueInObligationSf"}) :
       market[s] = cmd.wanted[s]

OwnInputs(o, params) == \A p \in inputsOf[o.class] : params[p] = o.input

\* A reserve is added with the inputs of its configuration object, if that is
\* the one made last.
LatestKeepsInputs ==
  "params" \in DOMAIN reserve =>
    LET o == objects[reserve.object]
    IN  reserve.object = reserve.made =>
          OwnInputs(o, reserve.params)

\* "Reserve Updated with config": the take rate is what the file says, once the
\* update has landed.
TakeRateOfFile ==
  step = "printed" /\ cmd.kind = "entireReserve" /\ Len(cmds) = 1 /\ others = 0
    /\ outcome[<<1, 1>>] = "ok"
  => reserve.protocolTakeRatePct = file.protocolTakeRatePct

==============================================================================
