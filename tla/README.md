# A TLA+ model of the DIA Cardano oracle

The repository publishes DIA price intents on Cardano.  It has two halves: the
Aiken contracts (`src/contracts/aiken`) that hold prices and prepaid fees in
UTxOs, and the off-chain programs (`src/offchain`): a feeder daemon that watches
DIA's chain and submits updates, a CLI for the administrator, an indexer that
serves the prices.  This directory models the parts whose behaviour is hard to
test, checks them on small instances with TLC and proves part of it for every
instance with TLAPS.

Five models follow an intent and its money; a sixth is the administrator's side:

    DIA's chain --(Ingest)--> intent --(Dispatch)--> request --(FeederLane)--> transaction --(OracleLedger)--> Pair UTxOs
                                        one daemon process: (Daemon, Upkeep, WalletArbiter)
                                        admin at a shell:   (CliSession)

They are separate because their interfaces are narrow (an intent handed over
once; a request to a lane; a transaction that spends the live Receiver UTxO; a
reservation of wallet UTxOs) and their product would be beyond TLC.  Each takes
from its neighbours what they show of themselves: `Dispatch` sees a lane that
may answer late, `Upkeep` an update that builds, lands and answers.

## Inventory

### On chain

| part | state | operations | what is hard, and what must hold |
|---|---|---|---|
| Config (`config_state.ak`, `config_logic.ak`) | one UTxO: admins, DIA keys, fees, drift, references to hook and coordinator | bootstrap, admin update, burn | everything else reads it as a reference input; it may change or disappear under them. It stays usable; it is burned last |
| PaymentHook (`payment_hook.ak`) | one UTxO: fees held, lifetime counters | bootstrap, settle, withdraw, admin update, burn | its counters and the Receivers' move together: held = collected - withdrawn |
| Receiver (`receiver.ak`) | one UTxO per client: prepaid balance, accrued fees | bootstrap, top-up, fee, settle, withdraw, minimum-UTxO change, burn | every locked lovelace stays accounted for; fees and sweeps ride on one transaction |
| Deposit (`deposit.ak`) | outputs at a per-client address | fund, sweep | several deposits swept by one transaction run the same check; they only move to their owner |
| Pair (`pair_state.ak`, `oracle_logic.ak`) | one NFT UTxO per client and symbol: the last intent | create, update, minimum-UTxO change, burn | stale, late and out-of-order intents; creation has no previous datum to compare with. A live pair only advances, keeps its symbol, is published in time |
| Coordinator (`update_coordinator.ak`, `coordinator_logic.ak`) | none (withdraw-0 script) | single update, batch, settle | cross-script arithmetic: a batch pays exactly for the pairs it writes |
| Reference holder, example consumer | reference scripts; none | - | static |

### The feeder (`src/offchain/feeder`)

| part | state | operations | what is hard, and what must hold |
|---|---|---|---|
| Scanners (`source/scanner-http.ts`, `scanner-ws.ts`), checkpoint | cursor, highest head seen; the persisted block | poll, range, backfill, rewind; subscribe, reconnect; save | two transports share one checkpoint; reorganisations; restart. No log is skipped silently; the checkpoint covers what is below it |
| Dedup cache, event worker pool (`processor/`) | bounded set of hashes; bounded queue, workers, timeouts | add, evict; submit, drop, time out | the same intent comes several times at once. It is handled once |
| Enrichment, extraction (`pipeline/`, `source/`) | none | decode, read the registry, verify | failures are final for an intent |
| Router, registry, policy, price cache | last confirmed price per pair | decide whether an intent is dispatched | the price compared with is the last confirmed one, while an update is in flight; one router's malformed threshold throws for all. The cache never leads the chain |
| Cron heartbeat (`cron/`) | latest intent per pair, last dispatch | tick: re-publish a pair that is silent for too long | must not stack a submission on one in flight, and must not stay silent. A watched pair catches up |
| Update worker pool (`worker/`), processed_events | bounded queue; SQL rows | submit, drop, record | an intent recorded as processed and never submitted |
| Coalescer, in-flight tracker (`submitter/`) | buffer per lane, timer, marks per pair | accept, supersede, flush, chunk, halve, age out | intents arrive while a flush awaits. Nothing is lost or answered twice; marks cover what is in flight |
| Serial queue, retry policy, queue manager | FIFO per lane, busy flag | submit, drain, retry | updates, merges and settlements of a lane all spend its Receiver |
| Bridge (`lib-bridge/`), write client | none that lasts | prepare, build, submit, reconcile, confirm | lagging indexer, lost answers, stale inputs. Only acceptable updates are submitted; what is reported is true |
| Wallet pool, arbiter, UTxO locks (`submitter/wallet/`) | cached UTxOs, locks with a TTL | reserve, release, refresh, split, consolidate, fund | a lock expires while its transaction is pending; a cache refresh races a release. No two jobs hold one UTxO, no path leaks a lock |
| Recovery, reconciliation, auto-remediation | submitted rows; in-progress guards; totals | look up a lost answer at a start; merge, settle, withdraw from the refresh loop | decisions from stale reads by passes that overlap. Guards and tasks agree; totals are true; fees come home |
| Daemon (`daemon-cmd.ts`, `main.ts`), WASM guard | the process, its exit code, a failure streak | load, refuse or serve, run, stop, exit for a fresh process | a supervisor restarts it; a trapped WASM module fails everything. It does not stay trapped |
| Configuration (`config/`) | the files | load, parse ABIs, validate, resolve the source, read the knobs | what validation accepts and the daemon then cannot run with; two routers on one lane and symbol. One request per lane and intent |
| API, metrics, alerting, logs, the rest of persistence | HTTP, SQL, files | - | I/O and formats |

### The CLI and the indexer

| part | state | operations | what is hard, and what must hold |
|---|---|---|---|
| Commands (`cli/src/transactions`, `deploys`) | JSON artifacts, per deployment and client | deploy, update, settle, withdraw, deposit, burn, reclaim | each reads artifacts and chain, waits, and writes whole files from what it read; nothing locks them. No file leads the chain; a command over current files is not refused by the contracts |
| `pair-dedup` | - | find the copies of a pair, burn all but the newest | a feeder goes on updating meanwhile. The newest survives |
| Deployment runbook, teardown script (`cli/scripts`) | artifacts | the commands in order | a command spends what another reserved; amounts from stale files. The runbook completes; nothing is stranded |
| Wallet, providers, emulator | - | - | I/O, a test bench |
| Indexer (`src/offchain/indexer`) | a cache | serve Pair datums | - |

How they interact: the daemon's scanners call `handleBatch`, which calls
`processOneEvent` per log (or hands it to the event pool); this enriches the
intent, routes it, and puts a request into the update pool, whose workers call
the lane's coalescer; the coalescer's flush submits to the lane's queue, whose
entries call the bridge; the bridge calls the CLI's builders and waits until the
provider's indexer shows the result; the result travels back as a callback to
the coalescer, the in-flight tracker, the price cache and the alerting.  All of
it is one Node.js process: steps interleave at `await`s only, and the models'
actions are the stretches between them.

## Modules

| module | models | state <-> code |
|---|---|---|
| `OracleData` | the datums and the pure transition rules of the Aiken library | one operator per Aiken function, with its name |
| `OracleLedger` | every transaction of the protocol | `config`, `hook`, `receiver`, `pair`, `deposit` are the UTxOs, `now` the time; one action per transaction, which runs every script it triggers |
| `OracleAccounts` | the abstract double-entry book | accounts that are open, balances, pending fees, what the hooks hold |
| `OracleSafety`, `OracleLedgerProofs` | properties, refinement mapping of the ledger to the book; theorems | |
| `Ingest`, `IngestProofs` | scanners, checkpoint, dedup, both handling modes, restart; theorems: the checkpoint covers what it says, a log is handled again only after an eviction | `http` and `pushed` are the two scanners' control points; `dedup`, `queue`, `calls`, `checkpoint` the shared state; `blocks` DIA's chain |
| `Dispatch`, `DispatchProperties`, `DispatchProofs` | from a verified intent to its lane and back, with the log and a restart; theorems | `cache` is the price cache, `latest` and `heartbeat` the cron's maps, `mark` the in-flight tracker, `tasks` and `busy` the update pool; `file` the pair files, `rows` the transaction log, `chain` and `pending` Cardano, `life` the step of a start |
| `Coalescer` | one lane's buffer, flush, batches, size fallback, in-flight marks | `buffer`, `aged`, `batches` (of the round), `chunks` (of the batch), `results`, `marks`, and `flush`, where the code is between two awaits |
| `FeederLane` | the lane with its queue, retry policy, bridge; Cardano and its indexer as the bridge sees them | `pending` and `job` are the queue and the entry it executes; `chain`, `mempool`, `indexed` the outside |
| `LaneContract`, `LaneProperties` | what a lane promises to the daemon; properties and the refinement mapping | `status` of each intent, `published` |
| `LaneProofs`, `LaneSafetyProofs` | theorems: where an intent is and that the lane keeps its contract; what reaches the chain and what is reported of it | |
| `WalletPlans` | the pure choices over a wallet's UTxOs: reserve, cover, split, fold | one operator per planner |
| `WalletArbiter`, `WalletProperties`, `WalletArbiterProofs` | reservations under expiring locks, the jobs that use them, refresh, maintenance, the wallets on chain; theorems | `cache` and `locks` are the pool's UTxOs and the lock table; `jobs[slot]` the bridge call a lane or a maintenance task is in; `ticks`, `pass` the refresh and its decisions |
| `FeederConfig` | what the loader assembles, what validation accepts, what the daemon reads afterwards, which lane an intent reaches | operators over a configuration, one per function of `loader.ts`, `abi-parser.ts`, `validate.ts`, `router.ts` |
| `Upkeep` | the fee loop: deposits, merges, updates, settles, withdraws; refresh passes, guards, lanes, the meter | `queue[c]`, `flight[c]` are a lane and what it waits for; `guards` the in-progress sets; `passes` the refreshes under way; `totals` the table `management_tx_totals`; `streak` the WASM failures |
| `Daemon`, `DaemonProperties`, `DaemonProofs` | the process around `Upkeep` and `FeederConfig`: load, refuse, serve, run, stop, crash, exit, restart; theorems | `life` is the step of `runDaemon`, `code` the exit code |
| `CliState`, `CliDeploy`, `CliAdmin`, `CliClient` | what every admin command plans from artifacts and chain: a transaction and the files it would write | `utxo` the deployment's UTxOs by NFT or script, `files` the artifacts |
| `CliSession`, `CliProperties`, `CliProofs` | operators running those commands side by side, and stopping half way; properties, and what a sound scenario is; theorems | `sessions[o]` the command of an operator, `adrift` transactions nobody waits for; `was` every state a UTxO ever had |
| `MC*` | instances for TLC | |

`PROJECT.json` maps every definition to the lines it translates.

### Choices worth knowing

*Ledger.*  A UTxO is its datum plus the lovelace it locks.  A transaction
proposes any output from small sets (`Amount`, `MinUtxo`, `Coin`) and the
validators' rules decide; the builders' own choices (initial counters, validity
range, one batch per client) are modelled where an off-chain builder makes them.
A DIA intent is one value whose fields are those the contracts compare; a
signature is its signer.  Conjuncts that Cardano itself guarantees (value
preserved, one-shot policies mint once) are part of the actions.  A validator
never sees the time, only the range the builder chose (`ValidFrom`, `ValidTo`);
seconds and milliseconds are kept apart by `Millis`.  A pair has two slots
(`Copies`), since nothing on chain keeps a second NFT from being minted.

*Lane.*  The chain is the list of transactions that spent the lane's Receiver, so
a Receiver UTxO is a version number and a transaction is valid while its input is
the last version; a Pair UTxO is named by the version that minted it.  The
indexer shows a prefix (`indexed`).  The errors the bridge can return are the
classes of `errors/codes.ts`; which of them a queue retries is
`NON_RETRIABLE_CODES`.  The builder reports `BatchSizeExceeded` when a batch has
more than `Fits` updates.  A lane task stands for merge and settle: they spend
the Receiver and carry no update.  An answer may be lost at the submit call, at
the confirmation wait, or with the transaction evicted.

*Intake.*  A block carries at most one log.  `blocks` may lose a suffix
(`Reorganise`), also one that was scanned already.  The RPC's answers are
consistent with the chain at the moment of the call; between reading the head and
reading the logs it may change.  A failed enrichment or a dropped event counts as
handled, as the code's counters do.  `recent`, `handled` and `top` are history.

*Dispatch.*  One router with one destination and one lane; the policy's threshold,
staleness and deviation are configured in `Modes`.  Clocks are ages that stop at
`AgeCap`, so time never ends and liveness can be asked.  The lane appears by what
`FeederLane` shows of it: serial, it declines what the chain has passed, and it may
lose, or report as failed, what lands later.  A restart runs crash recovery over
the rows, reconciliation of the pair files and hydration of the price cache, step
by step, and may crash in between.

*Wallets.*  A UTxO is a reference and an amount; ties that the code breaks by
cache order are broken by reference.  A slot (a lane, or a maintenance task of a
wallet) runs one job at a time, as the queues and the daemon's in-progress sets
arrange.  Refreshes read and store in separate steps and may overlap.  Fees are
below the unit of the amounts.

*Upkeep and Daemon.*  A refresh pass reads one lane at one instant and decides
later from what it read; a timer may start a second pass.  A transaction is known
by what it spends (a Receiver with its deposits, the PaymentHook, both), so two
settles contend for the hook.  A merge or a fold takes at most so many deposits
(`MaxPerMerge`, `MaxPerFold`), each worth one unit or more, so it takes some amount
between the cap and all there is (`swept`), and the next pass the rest.  At most one update batch waits per lane.
Failed totals are not kept.  `Setups` are separate scenarios with their own money,
faults and configuration, since their product is not interesting.

*Configuration.*  A scalar is one of eight classes (`Values`) that some check
tells apart, 1 among them, which is an integer and a ratio; a missing block is one
whose fields are all unset.  `validateX` says whether X reports no error; warnings
stop nothing.  A router's conditions are evaluated in order until one fails;
comparing what is no number throws (`conditionsThrow`), and an intent that makes one
router throw reaches none.  `event.symbol` resolves to nothing: the event carries
the symbol's hash only.  The instance takes every configuration that differs from a
sound one in one field, in one other block, or in its routers: every pair of symbol
conditions with what else decides which intents a router takes and where they go,
and, for a few conditions, the other fields and the layout in files.

*CLI.*  A command is a set of plans: the transaction it would submit and the
files it writes after the confirmation.  In between it waits until the provider
shows each NFT that it moved in one UTxO (`awaited`, `refreshed`); if somebody has
burned it meanwhile, or minted a second copy of the pair, the wait times out and no
file is written (`NoRefresh`).  A command may also stop between the two; then its
transaction is `adrift` and may still land.  `scenario` names what a behaviour
plays.  A pair keeps its own fee only in the amounts the commands read.  A
wallet's change is a new UTxO that exists when its transaction lands
(`changeOf`); its name is one that nobody remembers (`fresh`): no UTxO, file,
session or transaction under way has it, as transaction ids never come back.

*Not modelled, by decision.*  The TTL of the dedup cache; rollbacks of Cardano;
the wording of error messages; metrics, logs and alerts; the content of prices;
cryptography; dry runs; the order in which an orderly stop closes things (the
model keeps what it leaves behind: lanes are not awaited, and rows of what was
in flight stay `submitted` until the next start).

## Runs

Passing runs explore their whole state space; the others stop at the violation.

| run | question | bounds, and why they are enough |
|---|---|---|
| `funds` | does any transaction create, lose or misdirect money? `TypeOK`; `KeepsBooks`: the ledger implements `OracleAccounts`; `DepositsReachTheirOwner` | two clients settle into one hook, two deposits can be swept together or crosswise; amounts -1..2 include the negative and the insufficient; fee 1 |
| `feed` | is what is published fresh, monotonic, paid for? `PairsCarryTheirSymbol`, `FeeIsExact`, `PairAdvances`, `PublishedInTime` | two symbols in a batch; intents with a newer timestamp and an older nonce; a rotated key; a clock of six half-seconds, past the expiry of two intents and the drift of all |
| `lifecycle` | do bootstraps, updates, burns leave every UTxO sound? `StateUtxosSound`, `HookBooksBalance` | Configs invalid in each way; two hooks; two NFTs of one pair; minimum UTxO 0..2 |
| `lane` | does the lane implement `LaneContract` (`KeepsContract`) and submit only what the contract accepts (`OnlyAcceptable`), with one lost answer too? Without a loss: `NoContention`, `PairMintedOnce`, `NoTransactionWhenSuperseded`, `SupersededByNewer` | two symbols with two intents each, batches of two, a lane task, a foreign top-up, a lagging indexer, one retry, two reconcile attempts; four budgets of tasks, top-ups and losses |
| `lane_split` | `NothingLost`, `MarksCoverFlight`, `EveryRequestResolved` | three symbols in one batch of which one fits: halved twice, unevenly; one retry and one loss |
| `intake` | `IngestTypeOK`, `HandledAgainOnlyAfterEviction`, `CheckpointCovers`, `EveryLogProcessed` | two logs on three blocks; both transports or one, both modes; backfill range 2 and steady range 1; one confirmation; a cache, a queue and a pool of one; one reorganisation (deeper than the confirmations too), restart, timeout or failing call |
| `intake_gap` (violation) | does the checkpoint let a scan pick up what a reconnect missed? | four blocks, two pushes, one restart |
| `dispatch` | `CacheFollowsChain`, `ConfirmedMeansLanded`, `SubmittedOncePerFailure`, `PairCatchesUp` | one pair, three intents of which the second is within the deviation; an aligned heartbeat and the deviation-only mode; a pool and a queue of one; one crash, failing call, lost answer or eviction |
| `wallet` | `ReservationsDisjoint`, `LocksOwned`, `BuiltIsAcceptable`, `FundingsSpaced` | a main and a pool wallet under two lanes; openings that split, consolidate and fund; a lock of one tick on a clock of one, so that it expires while its job runs; two jobs, one refresh, one fault |
| `cli` | `RecordedWasLive`, `AcceptedWhenCurrent`, `SoloFilesMirrorChain`, `NewestSurvives`, `DeployCompletes` | the whole runbook from an empty chain, the same with a fault, every two commands in a row by one operator, one command beside two of a peer (with and without a fault), a pair minted twice and deduplicated while a peer mints |
| `cli_teardown` (violation) | does the ordered teardown leave nothing? | the script's sixteen commands after one update |
| `daemon` | `GuardsMatchTasks`, `MeterTrue`, `OneRequestPerLane`, `FeesComeHome`, `PoisonedRestarts` | two Receivers through one PaymentHook; two overlapping passes and a fault; a Receiver that starves; more deposits than a merge or a fold may take; a module that goes bad; about 950 configurations, each of which the daemon refuses, fails on or runs with |

Deadlock checking is off where the bounded system really stops (the last intent is
published, the last block scanned, every UTxO burned, the agenda done); it is on
for `dispatch` and `daemon`, whose clocks and supervisor never do.

Each property has a mutant in `PROJECT.json`: an operator that stands beside the
original, with a plausible bug, which the run refutes.

### Findings

1. `intake_gap`: the WebSocket scanner saves its block in the checkpoint it
   shares with the HTTP scanner, which may not have come that far; after a
   restart the blocks between are never scanned.
2. `cli_teardown`: the script takes its amounts from the client's artifact, which
   updates do not keep; the settlement is skipped, the withdrawal and the burn
   are refused, and the Config is burned all the same.

### Facts of the code met while modelling

No run denies these; they explain why a property is stated as it is.

*Lane.*  After a lost answer, a retry may contend with the first transaction, or
find its own intent on chain and report `NonMonotonicNonce`, for which the daemon
logs that no transaction was broadcast (`daemon-cmd.ts:1494`); the four
properties of `lane` that say otherwise assume no loss, and `LaneContract` lets an
intent so reported be published.  `isCreate` is decided once
(`lib-bridge/index.ts:1173`), so a later attempt of the reconcile loop may mint a
pair that the chain it reads already has, although the comment at `:1297` promises
fresh reads.  A batch in which one intent is overtaken is reported as superseded
as a whole (`cardano-write-client.ts:343`).  On the ledger nothing keeps a second
NFT of a pair from being minted, or the Config from being burned first.

*Dispatch.*  The row of a failed submission stays `submitted` until a restart;
crash recovery updates rows by intent hash, so an older failed row may overwrite a
landed one (`daemon-cmd.ts:749`).  The heartbeat dispatches a late-landed intent
again every ceiling.  The policy compares with the last confirmed price while an
update is in flight.  `processed_events` is read by no step, although the feeder's
README says it prevents reprocessing.  With two scanners an older intent may
replace the latest one (`daemon-cmd.ts:2887`).

*Wallets.*  Two low pool wallets are judged against one balance of the main
wallet; `mergeDeposits` signs with the main wallet and bypasses the arbiter; a
funding whose answer is lost may be repeated at once.

*Daemon.*  With a trapped WASM module and an underfunded Receiver the daemon stays
mute: updates fail for their balance before the build, which is what the streak
counts, and the merge that would fund them fails in the module uncounted (hence
`funded` in `PoisonedRestarts`).  The streak is counted per intent, so one failed
batch of the threshold's size ends the process.  `--clean` wipes the totals even
if the configuration is then refused, and at every supervised restart (hence the
exception in `MeterTrue`).  `prune-cmd.ts:240` passes an absolute time where
`db.ts:917` expects an age, so no row is ever old enough.  On PostgreSQL,
overlapping webhook requests can both insert an active alert (`webhook.ts:36`).

*Configuration.*  Validation accepts, and `runDaemon` then throws on, a
`retry_delay` of `0s` or of text, fractional `auto_*` thresholds, a bootstrap file
without the deposit knobs, and `DATABASE_DRIVER=postgres` without a DSN (the
validated `database` block is not the one opened); all after the API server
started.  A `time_threshold` that does not parse is accepted, as is a condition that
compares a field which is no number; either stops the routing of the intent to
every router.  The shared-lane check compares `eq` and `in`
conditions on the symbol only (hence the exception in `OneRequestPerLane`).  The
daemon's own `parseDurationMs` reads `1h30m` and plain text differently from the
router's.

*CLI.*  After `pair:burn` the pair file stays, so an update cannot mint the pair
again, although README and `pair-burn.ts:173` say that it does.  `config:update`
computes the next Config from the artifact, so a change it does not know is
reverted.  A `payment-hook:bootstrap` that landed unrecorded leaves the deployment
stuck; a `config:bootstrap` does not.  `receiver:burn` keeps `receiver:bootstrap`
among the completed steps of the client artifact, so `receiver:parameterize` run
after it records a Receiver that the artifact calls deployed and that
`receiver:bootstrap` then refuses to create (`receiver-bootstrap.ts:51`).  That
file leads the chain, so `RecordedWasLive` is about scenarios that parameterize no
receiver after its burn (`ScenariosAreSound`).  Commands between parameterize and
bootstrap may spend the recorded coin as a fee.

### Liveness and fairness

`EveryRequestResolved` assumes that the event loop runs what is ready (weak
fairness of the coalescer's, the queue's and the bridge's steps: each awaited
call returns or fails, and the code bounds its waits with timeouts), that the
mempool is mined and that the indexer catches up.  Losses and evictions are not
fair, and bounded.

`EveryLogProcessed` assumes that the HTTP scanner polls on (it retries failed RPC
calls for ever), that awaited calls return and that workers take what is queued.
Mining, pushes, reorganisations and restarts are not fair.  The property excuses
what the design gives up: a reorganisation deeper than the confirmations that no
poll notices, and logs in memory, or below a checkpoint that is too high, at a
restart in a mode where the checkpoint does not cover them; `intake_gap` is the
part of this that a comment claims otherwise.

`PairCatchesUp` assumes that timers, workers, the lane and the steps of a start
run, and that pending transactions land.  Nothing obliges DIA to register an
intent; the heartbeat alone must bring the pair up.

`FeesComeHome` and `PoisonedRestarts` assume that the supervisor restarts the
process, timers fire, promises settle, what a lane waits for lands or is outrun,
and that DIA keeps registering intents; faults are bounded and not fair.

`DeployCompletes` assumes that a command that runs goes on and blocks are
produced, not that an abandoned transaction ever lands.

## Proofs

All theorems hold for every value of the constants that satisfies the named
assumptions (`AmountsAreIntegers`, `IntentsAreSigned`, `IntentsAreFinite`,
`ConfigDatumsAreWellTyped`, `MarkersAreNotUtxos`, `TimesAreNatural`,
`AccountsAreDistinct`, `IngestParameters`, `CoalescerParameters`, `LaneParameters`,
`DispatchParameters`, `PlanParameters`, `ArbiterParameters`, `UpkeepParameters`,
`NoneIsNoFlight`, `DaemonParameters`, `CliParameters`, `ScenariosAreSound`,
`SolosAreSound`, `NoneIsNoPair`).
They give the constants their types, say that markers are not values,
and that DIA signed finitely many intents.  `ScenariosAreSound` says what the CLI
may start from: files that the chain bears out, a finite chain, commands with the
arguments they need, in whatever order, except that a receiver is parameterized only
by the operator who burns it, and before the burn.  `SolosAreSound` says what an
operator alone starts from: files that mirror the chain, at most one copy of each
pair on it, and no `protocol:init`, which overwrites the protocol's file, once there
is a Config.

*`OracleLedgerProofs`.*  Lemmas first say what each group of transactions can
write (`ConfigTxTypes`, `UpdatesWritePairs`, `StepsWriteReceivers`, ...): a UTxO
after a step is the one before, gone, or an output that passed the checks of its
validator.  From these follow

- `LedgerTypeCorrect`: `Spec => []TypeOK`;
- `StateUtxosStaySound`: `Spec => []StateUtxosSound`, inductive with `TypeOK`,
  since every validator checks its own continuing output;
- `HookBooksStayBalanced`: `Spec => []HookBooksBalance`, inductive with `TypeOK`:
  settle moves two counters by one amount, withdraw two others;
- `PairsAdvance`: `Spec => PairAdvances`, an action property;
- `PairsKeepTheirSymbol`: `Spec => []PairsCarryTheirSymbol`;
- `PublicationIsTimely`: `Spec => PublishedInTime`.  The pairs that a step gives a
  new intent are those of an update (`PublishedByUpdate`), and the range it was
  built with puts its submission before the expiry and near its start
  (`RangeBounds`);
- `FeesAreExact`: `Spec => FeeIsExact`.  A batch has as many witnesses as pairs it
  writes, since no symbol comes twice (`PublishedCount`, a bijection), each of
  them new (`AcceptedIsNew`); no other step raises what is pending
  (`OthersDoNotCharge`);
- `DepositsComeHome`: `Spec => DepositsReachTheirOwner`.  What a transaction takes
  from a client is what that client's Receiver absorbs (`SweepIsWhole`), and all
  that it gains in lovelace is prepaid or pending;
- `LedgerKeepsBooks`: `Spec => KeepsBooks`, the refinement of `OracleAccounts`.
  `ReceiverEntry` and `HookEntry` say what a transaction that writes one UTxO does
  to the books; each then maps to `Open`, `Close`, `Credit`, `Charge`, `Refund`,
  `Settle` or `Payout`, or to a stutter.  A settlement drains exactly the sum of
  the entries it clears.

*`IngestProofs`.*  `CheckpointIsCovered`: `Spec => []CheckpointCovers`.  The
property is not inductive: `Save` moves the checkpoint over a range, so the proof
must know what became of every block of the range since it was chosen.
`SequentialInv` follows a block into the range read, into the call that handles
it, and into `handled` (`RangeFollowed`); a log dropped as a duplicate is in the
dedup cache, whose entries were handled or are being handled (`DedupSound`); only
one call runs, and the scanner awaits it (`OnlyHttp`); and what was scanned had
its confirmations, so that a reorganisation either spares it or counts as deep
(`Grounded`).  Each was checked by TLC first, on five blocks and three faults.

`IntakeTypeCorrect` (`Spec => []IngestTypeOK`) and `HandledOnce`
(`Spec => []HandledAgainOnlyAfterEviction`) hold in every mode.  Types need the
limit of the pool (`PoolOK`): the queue and the running workers together never
exceed what a free worker or the queue can take, and a call that times out only
gives room back.  For duplicates, `Memory` says that the dedup cache is the last
`DedupCapacity` logs handled, and that the last `DedupCapacity + 1` are distinct.

*`WalletArbiterProofs`.*  `DisjointReservations`: `Spec => []ReservationsDisjoint`
and `LocksAreOwned`: `Spec => []LocksOwned`.  Neither is inductive alone.  `Inv` adds
that the lock table has one entry per UTxO (`OnePerRef`, it is a map), that a
reservation that has not expired still has its own entries (`LocksKept`: only a
UTxO without a running lock is ever reserved, and a release removes the entries of
its own slot), and that a lock belongs to a running job and expires with it
(`LocksMatch`).

`CleanIsSound` adds what is true while no answer is lost, no merge has started and
no lock outlives its job (`CleanInv`): a job spends UTxOs of its own unexpired
reservation (`Unexpired`, `DrawsReserved`), transactions of different jobs differ
(`IdsFresh`), and each one in the mempool is awaited by the job that built it
(`MempoolAwaited`), so nobody else spends what another job has built on:

- `BuiltStaysAcceptable`: `Spec => []BuiltIsAcceptable`;
- `FundingsKeepCooldown`: `Spec => []FundingsSpaced`: a funding that is out was
  decided no later than the last one on record, or belongs to the job that still
  runs and will record it (`FundingsNoted`); no other starts meanwhile.

*`DaemonProofs`.*  `GuardsAgree`: `Spec => []GuardsMatchTasks`.  The property is
inductive but for shapes (`Shapes`): a lane that waits for a transaction has an
entry that runs, and a pass that has read a lane has that lane left.  A lane changes
in two ways.  Entries join it (`AppendKeepsGuards`): what a pass adds has different
kinds, none of a kind whose guard is held, since the guards are read when it
decides, not when it reads the chain (`EnqueuedTasks`).  Or its first entry settles
(`TailKeepsGuards`), and since it is the only one of its kind, the guard it releases
is its own.

The other two theorems concern what a pass never sees.  `OneSourcePerLane`:
`Spec => []OneRequestPerLane`; the configuration does not change while a daemon
runs, so the argument is about `routeIntent` and what `validate` accepted of the
destinations that share a lane.  `MeterIsTrue`: `Spec => []MeterTrue`; the counts
compare a table with the chain, so the invariant speaks of the difference, step by
step: a task that landed and is not yet metered is still in flight, one whose
failure was counted never lands uncounted, and a wipe or a failing write is on
record.

*`DispatchProofs`.*  `CacheIsBehind`: `Spec => []CacheFollowsChain`;
`LogTellsTheTruth`: `Spec => []ConfirmedMeansLanded`; `NobodyPaysForAReplay`:
`Spec => []SubmittedOncePerFailure`.  The price cache, the pair file and the rows
of the log are three copies of what the lane reported, refreshed at a start from
one another; the invariant says of each what it may know (nothing the chain does
not carry), of the tasks in flight that at most one holds an intent unless an
earlier submission of it failed, and what each step of a start leaves for the
next one.

*`LaneProofs`.*  `LaneIsSound`: `Spec => []LaneInv`, for any number of intents,
any batch size, any number of halvings and retries.  `LaneInv` says where an
intent is: in the buffer, aged, in exactly one batch of the round, or answered;
that the pieces of a batch that are still open, together with the results that
are known, are that batch in its order (halving a piece keeps this, which is why
it is stated of positions and not of sets); that the job at work carries the
first open piece; and that the results of a piece answer its requests one by one.
From it follow

- `NoRequestLost`: `Spec => []NothingLost`;
- `FlightIsMarked`: `Spec => []MarksCoverFlight`;
- `LaneKeepsContract`: `Spec => KeepsContract`, the refinement: each action maps
  to `Take`, to `Answer` of one intent, to a landing, or to a stutter.

The refinement did not hold when its proof was first attempted.  The contract did
not count `BatchSizeExceeded` among the answers after which an intent may still
land; with the size fallback off, a batch whose answer was lost, retried and then
found too big is such a case (two losses; TLC confirms it, and `lane` has a budget
of one).  `mayLand` was corrected.

*`LaneSafetyProofs`.*  Two invariants over `LaneInv`.  `ChainInv` (`ChainIsSound`)
is about what reaches the chain.  What the bridge read of a pair is true of the
version at which it read (`ReadOnce`); a transaction that spends a later state
than that is built with inputs that are spent, so

- `SubmitsOnlyAcceptable`: `Spec => []OnlyAcceptable`, with losses too.

Without a loss it adds that the lane's own transaction is alone in the mempool
(`Alone`), that between two jobs the indexer has shown all that the lane did
(`Quiet`, `QuietRead`), and that a pair is minted only by a job whose reading
found none, while no other job can mint (`Minted`, `Mints`):

- `LaneNeverContends`: `Spec => []NoContention`;
- `PairIsMintedOnce`: `Spec => []PairMintedOnce`.

`AnswersInv` (`AnswersAreSound`) is about what is reported.  Each error is one
that the step it comes from can return; what a job published it holds as a success
or is about to; a `NonMonotonicNonce` has a rival on chain, and, as a batch is
answered as a whole, so has one of each batch that carries it.  A request with a
success in it is never retried, so a published intent is not answered twice:

- `SupersededCostsNothing`: `Spec => []NoTransactionWhenSuperseded`;
- `SupersededHasRival`: `Spec => []SupersededByNewer`.

*`CliProofs`.*  `FilesNeverLead`: `Spec => []RecordedWasLive`, for any number of
clients, symbols and operators, any agenda, and with any command that stops between
its transaction and its files.  The property is not inductive.  A file may be
written by a command that read it long ago, while other commands wrote it and
abandoned transactions landed; and a file names the coin that a bootstrap will
spend, from which the identity of what it deploys follows.  The invariant,
`ArtifactsAreSound`: `Spec => []ArtifactsInv`, therefore speaks of every copy of
a file: on disk (`FilesSound`), as a command has read it (`SeenSound`), and as a
command will write it (`WritesSound`, which holds of the chain as it will be after
the command's own transaction).  Of each copy (`CopySound`) it says that

- what it calls deployed, confirmed or updated is in `was`;
- the coin of a bootstrap it calls done is gone from the chain, and so cannot be
  bootstrapped from again;
- if it records the burn of a receiver, nobody has yet to parameterize it
  (`Burned`; queues only advance, `AgendaSound`).

A plan is sound if its transactions and its files are (`PlanSound`); there is one
lemma per command (`ReceiverBootstrapIsSound`, `SettleIsSound`, ...), gathered in
`PlansAreSound`.  That a name never comes back takes three more: there always is a
free one, because everything that is remembered is finite (`TakenIsFinite`,
`SomeNameIsFree`); the change of a transaction that lands is in no copy
(`ChangeIsFresh`); hence what is gone stays gone (`StillGone`), and a landing keeps
every copy, those of other commands too (`LandedCopy`, `BystanderIsSound`).

The converse needs that nobody interferes.  `SoloFilesKeepUp`:
`Spec => []SoloFilesMirrorChain`, for an operator who works alone and meets no
fault, whatever commands it runs in whatever order.  A file mirrors the chain if it
holds the live Config, PaymentHook and the one copy of its pair (`Mirrors`).  Again that is
not inductive: a live Config must not be drafted again, which `config:parameterize`
would do if the coin that the file records were still there, so `Mirrors` also says
that this coin is gone; and a PaymentHook must not be, so it is among the completed
steps.  `SoloInv` follows the one command that runs (`Stage`): until it submits, its
copies mirror the chain; while it waits, what it will write mirrors the chain its
transaction leaves (`Confirming`, with `After`), or its transactions touch nothing
that a file records and it writes nothing (`Pruning`, a `pair:dedup`); once
confirmed, the files mirror the chain but for what is still to be written
(`Settled`), and what the command waits to see is there (`LandedIsRefreshed`), so
the wait never fails.  One lemma per command shows that what it writes is what it leaves
(`HookMoveMirrors`, `SettleMirrors`, `UpdateBatchMirrors`, ..., gathered in
`PlansMirror`).  TLC checked `ArtifactsInv` and `SoloInv` first, on the scenarios of
`cli`.

*Only model-checked.*  The CLI's `AcceptedWhenCurrent` needs that the deposits of a
merge add up to more than nothing, and that the fees of a settlement, summed over
clients, are those its validator sums over inputs: induction over data.
`NewestSurvives` is about the agenda of `pairs`, with its one `pair:dedup`; it does
not hold of every agenda.  Copies are sorted by nonce alone
(`pair-dedup.ts:185`) and those with equal nonces stay in the provider's order, so
two de-duplications at once may each keep the copy that the other burns.  Liveness
(`EveryRequestResolved`, `EveryLogProcessed`, `PairCatchesUp`, `FeesComeHome`,
`PoisonedRestarts`, `DeployCompletes`).  Liveness under fairness, ENABLED and
induction over data are out of this prover's reach.

## Not modelled

Enrichment and transformation (decoding and RPC reads, whose outcome `Ingest`
has), the intent injector, API, metrics, alerting and logs (views and I/O), the
one-shot commands of the feeder, the CLI's providers and wallet derivation, the
emulator, the indexer, the reference holder and the example consumer: none keeps
state that another part depends on.

## Plan

Next: two destinations on one lane in `Dispatch` (composing `routeIntent` with the
policy), two pool wallets in `WalletArbiter`, a rollback of Cardano in
`FeederLane`.
