------------------------------ MODULE Dispatch ------------------------------
(***************************************************************************)
(* From a verified intent to its lane and back: the routing policy over    *)
(* the price cache, the update worker pool, the cron heartbeat with the    *)
(* latest-intent cache and the in-flight marks, the results that come back *)
(* from the lane, the transaction log, and a restart with its crash        *)
(* recovery, reconciliation and hydration.                                 *)
(*                                                                         *)
(* One router with one destination and one lane.  The lane appears by what *)
(* FeederLane shows of it: serial, it declines what the chain has passed,  *)
(* and may lose or report as failed what lands later.  Clocks are kept as  *)
(* ages that stop at AgeCap, so that time never has to end.                *)
(***************************************************************************)
EXTENDS Integers, FiniteSets, Sequences, SequencesExt

CONSTANTS
  Intents,      \* intents of this destination that DIA may register
  NoIntent,     \* no intent
  Openings,     \* what the Pair UTxOs may carry when the daemon first starts
  Modes,        \* configurations explored, see Mode
  Period,       \* the wall clock is known modulo this time_threshold
  InflightTtl,  \* inflight_timeout_ms
  AgeCap,       \* ages are not told apart from here on
  MaxWorkers,   \* worker_pool.max_workers
  QueueSize     \* worker_pool.task_queue_size

Symbols == {i.symbol : i \in Intents}

\* An option that is not configured is the empty set, else it holds its value.
\* Bounds: DIA registers the intents of feed, and there are at most so many
\* crashes, failing calls, lost answers and evictions together.
Mode ==
  [threshold : SUBSET (0 .. AgeCap - 1), staleness : SUBSET (0 .. AgeCap - 1),
   deviation : SUBSET Nat, aligned : BOOLEAN, inOrder : BOOLEAN,
   feed : SUBSET Intents, faults : Nat]

ASSUME DispatchParameters ==
  /\ NoIntent \notin Intents
  /\ Openings \subseteq [Symbols -> Intents \cup {NoIntent}]
  /\ \A i \in Intents : {i.nonce, i.timestamp, i.price} \subseteq Nat
  /\ {Period, InflightTtl, AgeCap, MaxWorkers, QueueSize} \subseteq Nat \ {0}
  /\ \A m \in Modes : /\ m \in Mode
                      /\ \A option \in {m.threshold, m.staleness, m.deviation} :
                           Cardinality(option) <= 1
                      /\ m.aligned => m.threshold = {Period}

VARIABLES
  mode,       \* how the destination is configured
  life,       \* "up", or the step of the startup the daemon is at
  faults,     \* faults so far
  phase,      \* wall clock modulo Period
  chain,      \* the intent each Pair UTxO carries
  pending,    \* submitted transactions that may still land
  landed,     \* history: transactions that did
  file,       \* the intent in each pair-state file
  rows,       \* transaction_log: the rows of each intent, oldest first
  seen,       \* the dedup cache
  cache,      \* price cache: last confirmed intent of a pair, and its age
  latest,     \* latest-intent cache
  heartbeat,  \* the cron's in-flight map: age of its last dispatch, -1 for none
  mark,       \* symbol in-flight tracker: time a mark still has
  handling,   \* intents that passed the policy, in processEnrichedIntent's awaits
  runtime,    \* intentRuntime
  tasks,      \* queue of the update worker pool
  busy,       \* tasks its workers hold
  buffer,     \* what the coalescer holds
  flight,     \* what the lane is submitting
  attempts,   \* history: transactions submitted for an intent
  boot        \* transactions of the rows that crash recovery has still to judge

chainVars == <<chain, pending, landed>>
diskVars == <<file, rows>>
cronVars == <<latest, heartbeat>>
poolVars == <<tasks, busy>>
laneVars == <<buffer, flight, mark>>
bootVars == <<life, boot>>
vars == <<mode, faults, phase, chainVars, diskVars, seen, cache, cronVars,
          handling, runtime, poolVars, laneVars, attempts, bootVars>>

NoTx == [intent |-> NoIntent, n |-> 0]

Nothing == [intent |-> NoIntent, n |-> 0, step |-> "none"]
Unknown == [intent |-> NoIntent, age |-> 0]
perSymbol(x) == [s \in Symbols |-> x]
perIntent(x) == [i \in Intents |-> x]

\* A first start, beside a chain that may have the pairs already.
Init ==
  /\ mode \in Modes
  /\ life = "reconcile" /\ faults = 0 /\ phase = 0 /\ boot = perIntent(<<>>)
  /\ chain \in Openings /\ pending = {} /\ landed = {}
  /\ file = perSymbol(NoIntent) /\ rows = perIntent(<<>>)
  /\ seen = {} /\ cache = perSymbol(Unknown)
  /\ latest = perSymbol(NoIntent) /\ heartbeat = perSymbol(-1)
  /\ mark = perSymbol(0) /\ handling = {} /\ runtime = perIntent("none")
  /\ tasks = <<>> /\ busy = {}
  /\ buffer = perSymbol(NoIntent) /\ flight = perSymbol(Nothing)
  /\ attempts = perIntent(0)

Up == life = "up"
Fault == faults < mode.faults /\ faults' = faults + 1

\* The contract's rule, and the coalescer's: both fields must grow.
beats(i, other) ==
  other # NoIntent => i.timestamp > other.timestamp /\ i.nonce > other.nonce

-----------------------------------------------------------------------------
(* Routing *)

\* |new - old| / old, in percent, is at least pct; an old price of 0 passes.
moved(old, new, pct) ==
  LET diff == IF new > old THEN new - old ELSE old - new
  IN  old = 0 \/ diff * 100 >= pct * old

deviationOnly == mode.threshold \subseteq {0} /\ mode.staleness # {}

allowed(i) ==
  LET last == cache[i.symbol]
      deviates == \E pct \in mode.deviation : moved(last.intent.price, i.price, pct)
  IN  \/ last.intent = NoIntent
      \/ /\ i.timestamp > last.intent.timestamp
         /\ IF deviationOnly
            THEN deviates \/ \E bound \in mode.staleness : last.age > bound
            ELSE \/ mode.threshold \cup mode.deviation = {}
                 \/ deviates
                 \/ \E bound \in mode.threshold : last.age >= bound

\* The caches keep the payload whatever the policy says, so that the cron has it.
remember(i) == latest' = [latest EXCEPT ![i.symbol] = i]

\* Without parallel workers and a second scanner, intents come in DIA's order.
isNext(i) ==
  mode.inOrder => \A j \in seen : j.symbol = i.symbol => i.timestamp > j.timestamp

\* processOneEvent up to its first await past the caches.
RouteIntent(i) ==
  /\ Up /\ i \in mode.feed \ seen /\ isNext(i)
  /\ seen' = seen \cup {i}
  /\ remember(i)
  /\ handling' = (IF allowed(i) THEN handling \cup {i} ELSE handling)
  /\ UNCHANGED <<mode, faults, phase, chainVars, diskVars, cache, heartbeat,
                 runtime, poolVars, laneVars, attempts, bootVars>>

\* The preflight finds that the intent came too late, or its record cannot be written.
PreflightRejects(i) ==
  /\ Up /\ i \in handling /\ Fault
  /\ handling' = handling \ {i}
  /\ UNCHANGED <<mode, phase, chainVars, diskVars, seen, cache, cronVars,
                 runtime, poolVars, laneVars, attempts, bootVars>>

\* A full queue drops the task; a waiting worker takes it at once.
submitTask(i) ==
  IF Cardinality(busy) < MaxWorkers
  THEN busy' = busy \cup {i} /\ UNCHANGED tasks
  ELSE tasks' = (IF Len(tasks) < QueueSize THEN Append(tasks, i) ELSE tasks)
       /\ UNCHANGED busy

\* The intent has been recorded in processed_events, which no step reads.
HandOver(i) ==
  /\ Up /\ i \in handling
  /\ handling' = handling \ {i}
  /\ runtime' = [runtime EXCEPT ![i] = "known"]
  /\ submitTask(i)
  /\ UNCHANGED <<mode, faults, phase, chainVars, diskVars, seen, cache, cronVars,
                 laneVars, attempts, bootVars>>

\* What the coalescer holds of a pair once it is offered i.
accepted(i, held) == IF beats(i, held) THEN i ELSE held

\* A worker runs onTask, and takes the next task.
RunTask(i) ==
  /\ Up /\ i \in busy
  /\ buffer' = [buffer EXCEPT ![i.symbol] = accepted(i, @)]
  /\ busy' = (busy \ {i}) \cup (IF tasks = <<>> THEN {} ELSE {Head(tasks)})
  /\ tasks' = (IF tasks = <<>> THEN tasks ELSE Tail(tasks))
  /\ UNCHANGED <<mode, faults, phase, chainVars, diskVars, seen, cache, cronVars,
                 handling, runtime, flight, mark, attempts, bootVars>>

-----------------------------------------------------------------------------
(* The cron heartbeat *)

\* The resubmission ceiling, where there is one.
ceiling ==
  IF mode.threshold \subseteq {0} THEN mode.staleness \ {0} ELSE mode.threshold

\* As guarding, were a dispatch remembered for ever.
guardingForever(s) == heartbeat[s] # -1

\* The guard of an earlier dispatch that a tick finds still standing.
guarding(s) ==
  /\ heartbeat[s] # -1
  /\ cache[s].age > heartbeat[s]
  /\ \A bound \in ceiling : heartbeat[s] < bound

\* The pair is older than its ceiling, or than the last shared boundary.
stale(s) == \E bound \in ceiling :
  IF mode.aligned THEN cache[s].age > phase ELSE cache[s].age > bound

resubmits(s) ==
  /\ cache[s].intent # NoIntent
  /\ stale(s)
  /\ latest[s] # NoIntent
  /\ latest[s] # cache[s].intent
  /\ latest[s].nonce > cache[s].intent.nonce
  /\ ~guarding(s)
  /\ mark[s] = 0

RunOneTick ==
  /\ Up /\ ceiling # {}
  /\ heartbeat' = [s \in Symbols |->
       IF resubmits(s) THEN 0
       ELSE IF cache[s].intent = NoIntent \/ guarding(s) THEN heartbeat[s] ELSE -1]
  /\ buffer' = [s \in Symbols |->
       IF resubmits(s) THEN accepted(latest[s], buffer[s]) ELSE buffer[s]]
  /\ runtime' = [i \in Intents |->
       IF resubmits(i.symbol) /\ latest[i.symbol] = i /\ runtime[i] = "none"
       THEN "known" ELSE runtime[i]]
  /\ UNCHANGED <<mode, faults, phase, chainVars, diskVars, seen, cache, latest,
                 handling, poolVars, flight, mark, attempts, bootVars>>

older(age) == IF age \in 0 .. AgeCap - 1 THEN age + 1 ELSE age

\* Time passes; ages, the wall clock and the marks follow.  A dispatch that guards
\* no longer is forgotten here already.  A worker's task is over before any timer.
Tick ==
  /\ busy = {}
  /\ phase' = (phase + 1) % Period
  /\ cache' = [s \in Symbols |->
       IF cache[s].intent = NoIntent THEN cache[s] ELSE [cache[s] EXCEPT !.age = older(@)]]
  /\ heartbeat' = [s \in Symbols |-> IF guarding(s) THEN older(heartbeat[s]) ELSE -1]
  /\ mark' = [s \in Symbols |-> IF mark[s] = 0 THEN 0 ELSE mark[s] - 1]
  /\ UNCHANGED <<mode, faults, chainVars, diskVars, seen, latest, handling, runtime,
                 poolVars, buffer, flight, attempts, bootVars>>

-----------------------------------------------------------------------------
(* The lane, and the chain behind it *)

\* A flush takes the whole buffer and marks its pairs.
Flush ==
  /\ Up
  /\ flight = perSymbol(Nothing) /\ buffer # perSymbol(NoIntent)
  /\ flight' = [s \in Symbols |->
       IF buffer[s] = NoIntent THEN Nothing
       ELSE [intent |-> buffer[s], n |-> 0, step |-> "queued"]]
  /\ mark' = [s \in Symbols |-> IF buffer[s] = NoIntent THEN mark[s] ELSE InflightTtl]
  /\ buffer' = perSymbol(NoIntent)
  /\ UNCHANGED <<mode, faults, phase, chainVars, diskVars, seen, cache, cronVars,
                 handling, runtime, poolVars, attempts, bootVars>>

inFlight(s, step) == Up /\ flight[s].step = step

\* The bridge finds that the chain has an intent this one does not beat.
Decline(s) ==
  /\ inFlight(s, "queued")
  /\ ~beats(flight[s].intent, chain[s])
  /\ flight' = [flight EXCEPT ![s].step = "failed"]
  /\ UNCHANGED <<mode, faults, phase, chainVars, diskVars, seen, cache, cronVars,
                 handling, runtime, poolVars, buffer, mark, attempts, bootVars>>

\* onStep "submitted": one row per runtime entry; the insert may be lost.
recordSubmitted(i, n) ==
  IF runtime[i] = "known"
  THEN /\ runtime' = [runtime EXCEPT ![i] = "submitted"]
       /\ \/ /\ rows' = [rows EXCEPT ![i] = Append(@, [n |-> n, status |-> "submitted"])]
             /\ UNCHANGED faults
          \/ Fault /\ UNCHANGED rows
  ELSE UNCHANGED <<runtime, rows, faults>>

Submit(s) ==
  /\ inFlight(s, "queued")
  /\ beats(flight[s].intent, chain[s])
  /\ LET i == flight[s].intent
         n == attempts[i] + 1
     IN  /\ attempts' = [attempts EXCEPT ![i] = n]
         /\ pending' = pending \cup {[intent |-> i, n |-> n]}
         /\ flight' = [flight EXCEPT ![s] = [intent |-> i, n |-> n, step |-> "submitted"]]
         /\ recordSubmitted(i, n)
  /\ UNCHANGED <<mode, phase, chain, landed, file, seen, cache, cronVars,
                 handling, poolVars, buffer, mark, bootVars>>

\* A step of the bridge throws: the queue tries again, or the request has failed.
Throw(s) ==
  /\ Up /\ flight[s].step \in {"queued", "submitted"}
  /\ Fault
  /\ \E step \in {"queued", "failed"} \ {flight[s].step} :
       flight' = [flight EXCEPT ![s].step = step]
  /\ UNCHANGED <<mode, phase, chainVars, diskVars, seen, cache, cronVars, handling,
                 runtime, poolVars, buffer, mark, attempts, bootVars>>

\* As Confirm, did the bridge not wait for the chain.
ConfirmUnseen(s) ==
  /\ inFlight(s, "submitted")
  /\ file' = [file EXCEPT ![s] = flight[s].intent]
  /\ flight' = [flight EXCEPT ![s].step = "written"]
  /\ UNCHANGED <<mode, faults, phase, chainVars, rows, seen, cache, cronVars,
                 handling, runtime, poolVars, buffer, mark, attempts, bootVars>>

\* The transaction is seen on chain, and the pair-state file written.
Confirm(s) ==
  /\ inFlight(s, "submitted")
  /\ [intent |-> flight[s].intent, n |-> flight[s].n] \in landed
  /\ file' = [file EXCEPT ![s] = flight[s].intent]
  /\ flight' = [flight EXCEPT ![s].step = "written"]
  /\ UNCHANGED <<mode, faults, phase, chainVars, rows, seen, cache, cronVars,
                 handling, runtime, poolVars, buffer, mark, attempts, bootVars>>

\* onResult, "ok": the price cache first, the log after an await.
CacheConfirmed(s) ==
  /\ inFlight(s, "written")
  /\ cache' = [cache EXCEPT ![s] = [intent |-> flight[s].intent, age |-> 0]]
  /\ flight' = [flight EXCEPT ![s].step = "confirmed"]
  /\ UNCHANGED <<mode, faults, phase, chainVars, diskVars, seen, cronVars, handling,
                 runtime, poolVars, buffer, mark, attempts, bootVars>>

\* updateTransactionLog: every row of the intent, whichever attempt it is about.
judged(i, status) == [k \in DOMAIN rows[i] |-> [rows[i][k] EXCEPT !.status = status]]

resolved(s) ==
  /\ flight' = [flight EXCEPT ![s] = Nothing]
  /\ mark' = [mark EXCEPT ![s] = 0]
  /\ runtime' = [runtime EXCEPT ![flight[s].intent] = "none"]

RecordConfirmed(s) ==
  /\ inFlight(s, "confirmed")
  /\ resolved(s)
  /\ LET i == flight[s].intent
     IN  rows' = [rows EXCEPT ![i] = [k \in DOMAIN rows[i] |->
                   [judged(i, "confirmed")[k] EXCEPT !.n = flight[s].n]]]
  /\ UNCHANGED <<mode, faults, phase, chainVars, file, seen, cache, cronVars,
                 handling, poolVars, buffer, attempts, bootVars>>

\* onResult, not "ok": a row of its own beside those already there.  Of rows
\* that are alike one is kept.
RecordFailed(s) ==
  /\ inFlight(s, "failed")
  /\ resolved(s)
  /\ LET row == [n |-> 0, status |-> "failed"]
     IN  rows' = [rows EXCEPT ![flight[s].intent] =
                    IF Contains(@, row) THEN @ ELSE Append(@, row)]
  /\ UNCHANGED <<mode, faults, phase, chainVars, file, seen, cache, cronVars,
                 handling, poolVars, buffer, attempts, bootVars>>

\* A block takes a transaction, whose rivals spent the same Pair UTxO.
Land(tx) ==
  /\ tx \in pending
  /\ beats(tx.intent, chain[tx.intent.symbol])
  /\ chain' = [chain EXCEPT ![tx.intent.symbol] = tx.intent]
  /\ landed' = landed \cup {tx}
  /\ pending' = {other \in pending : other.intent.symbol # tx.intent.symbol}
  /\ UNCHANGED <<mode, faults, phase, diskVars, seen, cache, cronVars, handling,
                 runtime, poolVars, laneVars, attempts, bootVars>>

Evict(tx) ==
  /\ tx \in pending /\ Fault
  /\ pending' = pending \ {tx}
  /\ UNCHANGED <<mode, phase, chain, landed, diskVars, seen, cache, cronVars, handling,
                 runtime, poolVars, laneVars, attempts, bootVars>>

\* As TimesOut, did the wait end while the transaction may still land.
TimesOutEarly(s) ==
  /\ inFlight(s, "submitted")
  /\ \E step \in {"queued", "failed"} : flight' = [flight EXCEPT ![s].step = step]
  /\ UNCHANGED <<mode, faults, phase, chainVars, diskVars, seen, cache, cronVars,
                 handling, runtime, poolVars, buffer, mark, attempts, bootVars>>

\* An evicted transaction is never confirmed: the wait ends in an error.
TimesOut(s) ==
  /\ inFlight(s, "submitted")
  /\ [intent |-> flight[s].intent, n |-> flight[s].n] \notin pending \cup landed
  /\ \E step \in {"queued", "failed"} : flight' = [flight EXCEPT ![s].step = step]
  /\ UNCHANGED <<mode, faults, phase, chainVars, diskVars, seen, cache, cronVars,
                 handling, runtime, poolVars, buffer, mark, attempts, bootVars>>

-----------------------------------------------------------------------------
(* Restart *)

\* The transactions of the rows of i that are still "submitted", oldest first.
submittedRows(i) ==
  LET isSubmitted(row) == row.status = "submitted"
      left == SelectSeq(rows[i], isSubmitted)
  IN  [k \in DOMAIN left |-> left[k].n]

\* The process dies, at any point of its life: what it kept in memory is gone.
Crash ==
  /\ Fault
  /\ life' = "recover"
  /\ boot' = [i \in Intents |-> Reverse(submittedRows(i))]
  /\ seen' = {} /\ cache' = perSymbol(Unknown)
  /\ latest' = perSymbol(NoIntent) /\ heartbeat' = perSymbol(-1)
  /\ handling' = {} /\ runtime' = perIntent("none")
  /\ tasks' = <<>> /\ busy' = {}
  /\ buffer' = perSymbol(NoIntent) /\ flight' = perSymbol(Nothing) /\ mark' = perSymbol(0)
  /\ UNCHANGED <<mode, phase, chainVars, diskVars, attempts>>

\* As RecoverRow, were a transaction that the provider knows already confirmed.
RecoverHopefully(i) ==
  /\ life = "recover" /\ boot[i] # <<>>
  /\ IF [intent |-> i, n |-> Head(boot[i])] \in landed \cup pending
     THEN rows' = [rows EXCEPT ![i] = judged(i, "confirmed")]
     ELSE rows' = [rows EXCEPT ![i] = judged(i, "failed")]
  /\ boot' = [boot EXCEPT ![i] = Tail(@)]
  /\ UNCHANGED <<mode, life, faults, phase, chainVars, file, seen, cache, cronVars,
                 handling, runtime, poolVars, laneVars, attempts>>

\* recoverSubmittedTx: confirmed only if the provider answers and shows it.
RecoverRow(i) ==
  /\ life = "recover" /\ boot[i] # <<>>
  /\ LET n == Head(boot[i])
     IN  \/ /\ [intent |-> i, n |-> n] \in landed
            /\ rows' = [rows EXCEPT ![i] = judged(i, "confirmed")]
            /\ UNCHANGED faults
         \/ /\ [intent |-> i, n |-> n] \notin landed
            /\ rows' = [rows EXCEPT ![i] = judged(i, "failed")]
            /\ UNCHANGED faults
         \/ /\ Fault
            /\ rows' = [rows EXCEPT ![i] = judged(i, "failed")]
  /\ boot' = [boot EXCEPT ![i] = Tail(@)]
  /\ UNCHANGED <<mode, life, phase, chainVars, file, seen, cache, cronVars,
                 handling, runtime, poolVars, laneVars, attempts>>

Recovered ==
  /\ life = "recover" /\ boot = perIntent(<<>>)
  /\ life' = "reconcile"
  /\ UNCHANGED <<mode, faults, phase, chainVars, diskVars, seen, cache, cronVars, handling,
                 runtime, poolVars, laneVars, attempts, boot>>

\* A file that differs from the Pair UTxO is rewritten, unless the read fails.
Reconcile ==
  /\ life = "reconcile"
  /\ \/ file' = chain /\ UNCHANGED faults
     \/ Fault /\ UNCHANGED file
  /\ life' = "hydrate"
  /\ UNCHANGED <<mode, phase, chainVars, rows, seen, cache, cronVars, handling,
                 runtime, poolVars, laneVars, attempts, boot>>

\* The price cache is filled from the files, the age taken from their mtime.
Hydrate ==
  /\ life = "hydrate"
  /\ \E age \in [Symbols -> 0 .. AgeCap] :
       cache' = [s \in Symbols |->
         IF file[s] = NoIntent THEN Unknown ELSE [intent |-> file[s], age |-> age[s]]]
  /\ life' = "up"
  /\ UNCHANGED <<mode, faults, phase, chainVars, diskVars, seen, cronVars, handling,
                 runtime, poolVars, laneVars, attempts, boot>>

-----------------------------------------------------------------------------
EachIntent(i) ==
  \/ RouteIntent(i) \/ PreflightRejects(i) \/ HandOver(i)
  \/ RunTask(i) \/ RecoverRow(i)

EachSymbol(s) ==
  \/ Decline(s) \/ Submit(s) \/ Throw(s) \/ TimesOut(s)
  \/ Confirm(s) \/ CacheConfirmed(s) \/ RecordConfirmed(s) \/ RecordFailed(s)

Next ==
  \/ \E i \in Intents : EachIntent(i)
  \/ \E s \in Symbols : EachSymbol(s)
  \/ \E tx \in pending : Land(tx) \/ Evict(tx)
  \/ Flush \/ RunOneTick \/ Tick
  \/ Crash \/ Recovered \/ Reconcile \/ Hydrate

\* The event loop, its timers and workers run; a pending transaction lands in
\* the end.  Nothing obliges DIA to register an intent, or a fault to happen.
Fairness ==
  /\ WF_vars(RunOneTick) /\ WF_vars(Tick) /\ WF_vars(Flush)
  /\ WF_vars(\E i \in Intents : HandOver(i) \/ RunTask(i))
  /\ WF_vars(\E s \in Symbols :
       \/ Decline(s) \/ Submit(s) \/ TimesOut(s)
       \/ Confirm(s) \/ CacheConfirmed(s) \/ RecordConfirmed(s) \/ RecordFailed(s))
  /\ WF_vars(\E tx \in pending : Land(tx))
  /\ WF_vars((\E i \in Intents : RecoverRow(i)) \/ Recovered \/ Reconcile \/ Hydrate)

Spec == Init /\ [][Next]_vars /\ Fairness

=============================================================================
