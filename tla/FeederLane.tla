----------------------------- MODULE FeederLane -----------------------------
(***************************************************************************)
(* One submission lane of the feeder: the coalescer, the serial queue with *)
(* its retry policy, the bridge that builds and submits transactions, and  *)
(* what it sees of Cardano through an indexer that lags and calls that     *)
(* fail.                                                                   *)
(*                                                                         *)
(* The chain is the sequence of transactions that spent the Receiver: the  *)
(* Receiver UTxO has version Len(chain), and a transaction is valid while  *)
(* the version it spends is the live one.  An update [intent, pair] writes *)
(* the intent into the Pair UTxO that was minted by transaction `pair`;    *)
(* pair = 0 mints one.  Rollbacks are not modelled.                        *)
(***************************************************************************)
EXTENDS Coalescer

CONSTANTS
  Fits,               \* updates that fit in one transaction
  MaxRetries,         \* worker_pool.max_retries
  ReconcileAttempts,  \* STALE_INPUT_RECONCILE_ATTEMPTS
  Budgets             \* bounds of a behaviour: [intents, tasks, topUps, losses]

ASSUME LaneParameters ==
  /\ {Fits, ReconcileAttempts} \subseteq Nat \ {0}
  /\ MaxRetries \in Nat
  /\ Budgets \subseteq
       [intents : SUBSET Intents, tasks : Nat, topUps : Nat, losses : Nat]

VARIABLES
  pending,  \* entries of the serial queue: the requests, or <<>> for a task
  job,      \* the entry the queue is executing, and how far the bridge is
  merging,  \* the daemon's guard: a task of this lane is queued or running
  tasks,    \* lane tasks (merge, settle) enqueued so far
  chain,    \* the transactions that spent the Receiver, oldest first
  mempool,  \* transactions submitted and not yet landed
  indexed,  \* how much of the chain the provider's indexer shows
  topUps,   \* Receiver spends by others (CLI, client) so far
  losses,   \* answers lost or transactions evicted so far
  budget    \* how many of each this behaviour has, and what arrives

queueVars == <<pending, job, merging, tasks>>
cardanoVars == <<chain, mempool, indexed, topUps, losses, budget>>
vars == <<coalescerVars, queueVars, cardanoVars>>

Versions == Nat
Updates == [intent : Intents, pair : Versions]
\* nr tells apart the contenders for one Receiver version; others' have -1.
Transactions == [input : Versions, updates : SUBSET Updates, nr : Nat \cup {-1}]
NoTransaction == [input |-> 0, updates |-> {}, nr |-> 0]

Jobs ==
  [step : {"idle", "start", "fetch", "submit", "confirm", "answered"},
   requests : Seq(Intents),  \* <<>> for a task
   attempt : Nat,            \* retries of the queue so far
   updates : SUBSET Updates, \* what the bridge decided to write
   pairsAt : Versions,       \* version at which it read the pairs it spends
   receiverAt : Versions,    \* version of the Receiver it spends
   fold : BOOLEAN,           \* the transaction absorbs deposits
   tries : Nat,              \* stale-input rejections so far
   tx : Transactions,        \* what it submitted
   codes : Seq(Results)]     \* the results, once answered

Idle ==
  [step |-> "idle", requests |-> <<>>, attempt |-> 0, updates |-> {},
   pairsAt |-> 0, receiverAt |-> 0, fold |-> FALSE, tries |-> 0,
   tx |-> NoTransaction, codes |-> <<>>]

Init ==
  /\ CoalescerInit
  /\ pending = <<>> /\ job = Idle
  /\ merging = FALSE /\ tasks = 0
  /\ chain = <<>> /\ mempool = {} /\ indexed = 0
  /\ topUps = 0 /\ losses = 0
  /\ budget \in Budgets

-----------------------------------------------------------------------------
(* The Pair UTxOs at a version of the chain *)

LivePairs(version, symbol) ==
  {p \in 1 .. version :
     \E u \in chain[p].updates : u.pair = 0 /\ u.intent.symbol = symbol}

writes(v, pair, symbol) ==
  {u \in chain[v].updates :
     u.intent.symbol = symbol /\ (u.pair = pair \/ (u.pair = 0 /\ v = pair))}

\* The intent in the datum of a pair.
PairDatum(version, pair, symbol) ==
  LET last == CHOOSE v \in 1 .. version :
                /\ writes(v, pair, symbol) # {}
                /\ \A w \in v + 1 .. version : writes(w, pair, symbol) = {}
  IN  (CHOOSE u \in writes(last, pair, symbol) : TRUE).intent

\* utxosAtWithUnit(...)[0]: any of the live pairs, or none.
ReadPair(version, symbol) ==
  IF LivePairs(version, symbol) = {} THEN {0} ELSE LivePairs(version, symbol)

\* assertOracleIntentTimestampAndNonceMonotonic, skipped for a create.
beatsOnChain(version, u) ==
  u.pair # 0 => isNewer(u.intent, PairDatum(version, u.pair, u.intent.symbol))

Landed(tx) == Len(chain) > tx.input /\ chain[tx.input + 1] = tx

-----------------------------------------------------------------------------
(* The serial queue *)

\* accept: an intent arrives.
IntentArrives(i) ==
  /\ accept(i)
  /\ UNCHANGED <<queueVars, cardanoVars>>

enqueueBatch ==
  /\ SubmitChunk
  /\ pending' = Append(pending, Head(chunks'))
  /\ UNCHANGED <<job, merging, tasks, cardanoVars>>

\* maybeAutoMergeDeposits and maybeAutoSettle on a refresh tick.
maybeAutoMergeDeposits ==
  /\ ~merging /\ tasks < budget.tasks
  /\ merging' = TRUE
  /\ tasks' = tasks + 1
  /\ pending' = Append(pending, <<>>)
  /\ UNCHANGED <<coalescerVars, job, cardanoVars>>

\* Mutant: the queue starts an entry while another is executing.
drainWhileBusy ==
  /\ pending # <<>>
  /\ job' = [Idle EXCEPT !.step = "start", !.requests = Head(pending)]
  /\ pending' = Tail(pending)
  /\ UNCHANGED <<coalescerVars, merging, tasks, cardanoVars>>

drain ==
  /\ job.step = "idle" /\ pending # <<>>
  /\ job' = [Idle EXCEPT !.step = "start", !.requests = Head(pending)]
  /\ pending' = Tail(pending)
  /\ UNCHANGED <<coalescerVars, merging, tasks, cardanoVars>>

failures == {k \in DOMAIN job.codes : job.codes[k] # "ok"}

\* Mutant: deterministic failures are retried as well.
shouldRetryAnyCode ==
  /\ job.requests # <<>>
  /\ failures # {}
  /\ job.attempt < MaxRetries

shouldRetry ==
  /\ job.requests # <<>>
  /\ failures # {}
  /\ LET first == CHOOSE k \in failures : \A l \in failures : k <= l
     IN  job.codes[first] \notin NON_RETRIABLE_CODES
  /\ job.attempt < MaxRetries

Retry ==
  /\ job.step = "answered" /\ shouldRetry
  /\ job' = [Idle EXCEPT !.step = "start", !.requests = job.requests,
                         !.attempt = job.attempt + 1]
  /\ UNCHANGED <<coalescerVars, pending, merging, tasks, cardanoVars>>

Resolve ==
  /\ job.step = "answered" /\ ~shouldRetry
  /\ job' = Idle
  /\ IF job.requests = <<>>
       THEN merging' = FALSE /\ UNCHANGED coalescerVars
       ELSE ChunkAnswered(job.codes) /\ UNCHANGED merging
  /\ UNCHANGED <<pending, tasks, cardanoVars>>

-----------------------------------------------------------------------------
(* The bridge *)

answered(codes) == [job EXCEPT !.step = "answered", !.codes = codes]

\* wrapErrorResults and submitBatch: one error for every request of an entry.
allOf(code) == [k \in DOMAIN job.requests |-> code]

isBatch == Len(job.requests) > 1

\* Mutant: one request that is superseded refuses the whole batch.
PrepareAllOrNothing ==
  /\ job.step = "start"
  /\ \E pairs \in [Elements(job.requests) -> 0 .. indexed] :
       /\ \A i \in DOMAIN pairs : pairs[i] \in ReadPair(indexed, i.symbol)
       /\ LET all == {[intent |-> i, pair |-> pairs[i]] : i \in DOMAIN pairs}
          IN  job' = IF \E u \in all : ~beatsOnChain(indexed, u)
                       THEN answered(allOf("NonMonotonicNonce"))
                       ELSE [job EXCEPT !.step = "fetch", !.updates = all,
                                        !.pairsAt = indexed]
  /\ UNCHANGED <<coalescerVars, pending, merging, tasks, cardanoVars>>

\* Each request is checked against the pair the provider shows; those that do
\* not beat it are skipped, and if none is left no transaction is built.
Prepare ==
  /\ job.step = "start"
  /\ \E pairs \in [Elements(job.requests) -> 0 .. indexed] :
       /\ \A i \in DOMAIN pairs : pairs[i] \in ReadPair(indexed, i.symbol)
       /\ LET all == {[intent |-> i, pair |-> pairs[i]] : i \in DOMAIN pairs}
              fresh == {u \in all : beatsOnChain(indexed, u)}
          IN  job' = IF job.requests # <<>> /\ fresh = {}
                       THEN answered(allOf("NonMonotonicNonce"))
                       ELSE [job EXCEPT !.step = "fetch", !.updates = fresh,
                                        !.pairsAt = indexed]
  /\ UNCHANGED <<coalescerVars, pending, merging, tasks, cardanoVars>>

\* The pair an update is to spend when the transaction is built: a batch looks
\* it up again, but not one that it is to mint.
lookedUpAgain(u) ==
  IF isBatch /\ u.pair # 0 THEN ReadPair(indexed, u.intent.symbol) ELSE {u.pair}

\* Mutant: the builder does not assert what it builds against fresh pairs.
FetchUnchecked ==
  /\ job.step = "fetch"
  /\ \E pairs \in [job.updates -> 0 .. indexed], fold \in BOOLEAN :
       /\ \A u \in job.updates : pairs[u] \in lookedUpAgain(u)
       /\ fold => Len(job.requests) = 1
       /\ job' = [job EXCEPT !.step = "submit", !.receiverAt = indexed,
                     !.updates = {[u EXCEPT !.pair = pairs[u]] : u \in @},
                     !.fold = fold, !.pairsAt = IF isBatch THEN indexed ELSE @]
  /\ UNCHANGED <<coalescerVars, pending, merging, tasks, cardanoVars>>

\* Read the Receiver and build.  The builder refuses the whole of a batch if
\* one pair is not beaten; a single update may fold deposits.
Fetch ==
  /\ job.step = "fetch"
  /\ \E pairs \in [job.updates -> 0 .. indexed], fold \in BOOLEAN :
       /\ \A u \in job.updates : pairs[u] \in lookedUpAgain(u)
       /\ fold => Len(job.requests) = 1
       /\ LET updates == {[u EXCEPT !.pair = pairs[u]] : u \in job.updates}
          IN  job' =
            IF isBatch /\ \E u \in updates : ~beatsOnChain(indexed, u)
              THEN answered(allOf("NonMonotonicNonce"))
            ELSE IF Cardinality(updates) > Fits
              THEN answered(allOf("BatchSizeExceeded"))
            ELSE [job EXCEPT !.step = "submit", !.updates = updates,
                             !.receiverAt = indexed, !.fold = fold,
                             !.pairsAt = IF isBatch THEN indexed ELSE @]
  /\ UNCHANGED <<coalescerVars, pending, merging, tasks, cardanoVars>>

\* An attempt threw.  A folded single update is tried once more without the
\* deposits, on the UTxOs already read; anything else fails the whole entry.
thrown(code) ==
  IF job.step = "submit" /\ job.fold
    THEN [job EXCEPT !.fold = FALSE]
    ELSE answered(allOf(code))

\* A provider or wallet call failed before anything was submitted.
BuildFails ==
  /\ job.step \in {"start", "fetch", "submit"}
  /\ \E code \in {"BuilderError", "InsufficientFunds"} : job' = thrown(code)
  /\ UNCHANGED <<coalescerVars, pending, merging, tasks, cardanoVars>>

InputsUnspent ==
  /\ job.receiverAt = Len(chain)
  /\ \A u \in job.updates, v \in job.pairsAt + 1 .. Len(chain) :
       u.pair # 0 => writes(v, u.pair, u.intent.symbol) = {}

Contenders == {t \in mempool : t.input = job.receiverAt}

built == [input |-> job.receiverAt, updates |-> job.updates,
          nr |-> CHOOSE n \in 0 .. Cardinality(Contenders) :
                   \A t \in Contenders : t.nr # n]

\* A node takes the transaction; the answer may get lost on the way back.
Submit ==
  /\ job.step = "submit" /\ InputsUnspent
  /\ mempool' = mempool \cup {built}
  /\ \/ /\ job' = [job EXCEPT !.step = "confirm", !.tx = built]
        /\ UNCHANGED losses
     \/ /\ losses < budget.losses
        /\ losses' = losses + 1
        /\ job' = thrown("BuilderError")
  /\ UNCHANGED <<coalescerVars, pending, merging, tasks, chain, indexed, topUps, budget>>

\* A node refuses it: an input is spent on chain or in its own mempool.
SubmitStale ==
  /\ job.step = "submit"
  /\ ~InputsUnspent \/ Contenders # {}
  /\ job' = IF isBatch /\ job.tries + 1 < ReconcileAttempts
              THEN [job EXCEPT !.step = "fetch", !.tries = @ + 1]
              ELSE thrown("BuilderError")
  /\ UNCHANGED <<coalescerVars, pending, merging, tasks, cardanoVars>>

\* Mutant: the entry is answered before the indexer shows the transaction.
ConfirmedUnindexed ==
  /\ job.step = "confirm" /\ Landed(job.tx)
  /\ LET written == {u.intent : u \in job.tx.updates}
     IN  job' = answered([k \in DOMAIN job.requests |->
                  IF job.requests[k] \in written THEN "ok" ELSE "NonMonotonicNonce"])
  /\ UNCHANGED <<coalescerVars, pending, merging, tasks, cardanoVars>>

\* Mutant: the requests that were skipped are confirmed with the others.
ConfirmedAll ==
  /\ job.step = "confirm"
  /\ Landed(job.tx) /\ indexed > job.tx.input
  /\ job' = answered(allOf("ok"))
  /\ UNCHANGED <<coalescerVars, pending, merging, tasks, cardanoVars>>

\* awaitTxConfirmation, then waitForUnitUtxoReplacement.
Confirmed ==
  /\ job.step = "confirm"
  /\ Landed(job.tx) /\ indexed > job.tx.input
  /\ LET written == {u.intent : u \in job.tx.updates}
     IN  job' = answered([k \in DOMAIN job.requests |->
                  IF job.requests[k] \in written THEN "ok" ELSE "NonMonotonicNonce"])
  /\ UNCHANGED <<coalescerVars, pending, merging, tasks, cardanoVars>>

\* No provider ever showed the transaction.
NeverConfirmed ==
  /\ job.step = "confirm"
  /\ \/ /\ job.tx \notin mempool /\ ~Landed(job.tx)
        /\ UNCHANGED losses
     \/ /\ losses < budget.losses
        /\ losses' = losses + 1
  /\ job' = answered(allOf("BuilderError"))
  /\ UNCHANGED <<coalescerVars, pending, merging, tasks, chain, mempool, indexed, topUps, budget>>

-----------------------------------------------------------------------------
(* Cardano *)

spend(tx) ==
  /\ chain' = Append(chain, tx)
  /\ mempool' = {t \in mempool : t.input # tx.input}

Land ==
  /\ \E tx \in mempool : tx.input = Len(chain) /\ spend(tx)
  /\ UNCHANGED <<coalescerVars, queueVars, indexed, topUps, losses, budget>>

TopUp ==
  /\ topUps < budget.topUps
  /\ topUps' = topUps + 1
  /\ spend([input |-> Len(chain), updates |-> {}, nr |-> -1])
  /\ UNCHANGED <<coalescerVars, queueVars, indexed, losses, budget>>

Evict ==
  /\ losses < budget.losses
  /\ losses' = losses + 1
  /\ \E tx \in mempool : mempool' = mempool \ {tx}
  /\ UNCHANGED <<coalescerVars, queueVars, chain, indexed, topUps, budget>>

IndexerCatchesUp ==
  /\ indexed < Len(chain)
  /\ indexed' \in indexed + 1 .. Len(chain)
  /\ UNCHANGED <<coalescerVars, queueVars, chain, mempool, topUps, losses, budget>>

-----------------------------------------------------------------------------

\* The coalescer's steps that do not involve the queue.
CoalescerAlone ==
  /\ \/ TimerFires \/ ReportAged \/ MarkInFlight
     \/ ReportResult \/ ClearMark \/ RoundEnds
  /\ UNCHANGED <<queueVars, cardanoVars>>

QueueStep == enqueueBatch \/ drain \/ Retry \/ Resolve

BridgeStep ==
  \/ Prepare \/ Fetch \/ BuildFails
  \/ Submit \/ SubmitStale
  \/ Confirmed \/ NeverConfirmed

Next ==
  \/ \E i \in budget.intents : IntentArrives(i)
  \/ CoalescerAlone
  \/ QueueStep
  \/ BridgeStep
  \/ maybeAutoMergeDeposits
  \/ Land \/ TopUp \/ Evict \/ IndexerCatchesUp

\* The event loop goes on, the mempool is mined, and the indexer catches up.
Fairness ==
  /\ WF_vars(CoalescerAlone) /\ WF_vars(QueueStep) /\ WF_vars(BridgeStep)
  /\ WF_vars(Land) /\ WF_vars(IndexerCatchesUp)

Spec == Init /\ [][Next]_vars /\ Fairness

=============================================================================
