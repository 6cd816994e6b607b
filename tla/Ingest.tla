------------------------------- MODULE Ingest -------------------------------
(***************************************************************************)
(* How the feeder takes IntentRegistered logs off DIA's chain: the polling *)
(* HTTP scanner, the WebSocket subscription beside it, the checkpoint and  *)
(* the dedup cache they share, the handling of one event, in the scanner   *)
(* (sequential mode) or by the event worker pool (parallel mode), and the  *)
(* restart that keeps the checkpoint only.                                 *)
(*                                                                         *)
(* A block carries one log at most.  What happens to an intent after it    *)
(* was handed to its lane is the subject of FeederLane.  The TTL of the    *)
(* dedup cache is not modelled; its capacity is.                           *)
(***************************************************************************)
EXTENDS Integers, FiniteSets, Sequences

CONSTANTS
  Logs,           \* IntentRegistered logs, each with an intent hash of its own
  NoLog,          \* the content of a block without one
  Modes,          \* what is explored: subset of [ws : BOOLEAN, parallel : BOOLEAN]
  BlockRange,     \* block_range
  BackfillRange,  \* backfillChunkBlocks
  MaxBlockGap,    \* maxBlockGap
  Confirmations,  \* confirmations
  DedupCapacity,  \* dedup_cache_size
  WorkerCount,    \* parallel_worker_count
  QueueSize,      \* parallel_queue_size
  MaxBlocks,      \* bound: height of DIA's chain
  MaxPushed,      \* bound: WebSocket deliveries being handled at a time
  MaxFaults       \* bound: reorganisations, restarts and failing calls together

ASSUME IngestParameters ==
  /\ NoLog \notin Logs
  /\ Modes \subseteq [ws : BOOLEAN, parallel : BOOLEAN]
  /\ {BlockRange, BackfillRange, DedupCapacity, WorkerCount, QueueSize} \subseteq Nat \ {0}
  /\ {MaxBlockGap, Confirmations, MaxBlocks, MaxPushed, MaxFaults} \subseteq Nat

VARIABLES
  mode,        \* how the daemon is configured
  blocks,      \* DIA's chain: blocks[n] is the log of block n
  top,         \* history: the height it once had
  reorg,       \* "hidden" once one replaced blocks already scanned, "seen" when noticed
  checkpoint,  \* the persisted checkpoint, 0 when there is none
  faults,      \* faults so far
  restarted,   \* the daemon was restarted
  http,        \* the HTTP scanner
  pushed,      \* handleIncomingLogs calls of the WebSocket scanner
  dedup,       \* the dedup cache, oldest entry first
  queue,       \* the event worker pool's queue
  calls,       \* processOneEvent calls past the dedup cache
  recent,      \* history: the logs of the last calls, since the restart
  handled      \* history: logs accepted, or counted as invalid, failed or dropped

sourceVars == <<mode, blocks, top>>
historyVars == <<recent, handled>>
vars == <<sourceVars, reorg, checkpoint, faults, restarted,
          http, pushed, dedup, queue, calls, historyVars>>

Contents == Logs \cup {NoLog}
Heights == Nat

Scanner ==
  [step : {"poll", "fetch", "deliver", "await", "save"},
   cursor : Heights,          \* next block to scan
   highWaterHead : Heights,   \* highest head seen in this life
   rangeEnd : Heights,        \* last block of the range being scanned
   todo : Seq(Contents)]      \* its blocks whose logs are not yet handled

Deliveries == [log : Logs, block : Heights, step : {"start", "await", "save"}]
Callers == {"http", "ws", "worker", "detached"}
Calls == [log : Logs, by : Callers]

IngestTypeOK ==
  /\ mode \in Modes
  /\ blocks \in Seq(Contents) /\ Len(blocks) <= MaxBlocks /\ top \in Len(blocks) .. MaxBlocks
  /\ reorg \in {"none", "hidden", "seen"}
  /\ checkpoint \in Heights
  /\ faults \in 0 .. MaxFaults /\ restarted \in BOOLEAN
  /\ http \in Scanner
  /\ pushed \subseteq Deliveries
  /\ dedup \in Seq(Logs) /\ Len(dedup) <= DedupCapacity
  /\ queue \in Seq(Logs) /\ Len(queue) <= QueueSize + WorkerCount
  /\ calls \subseteq Calls
  /\ recent \in Seq(Logs) /\ Len(recent) <= DedupCapacity + 1
  /\ handled \subseteq Logs

\* resolveStartCursor: a scanner that has just started.
startAt(saved) ==
  [step |-> "poll", cursor |-> saved + 1, highWaterHead |-> 0,
   rangeEnd |-> 0, todo |-> <<>>]

Init ==
  /\ mode \in Modes
  /\ blocks = <<>> /\ top = 0 /\ reorg = "none"
  /\ checkpoint = 0 /\ faults = 0 /\ restarted = FALSE
  /\ http = startAt(0)
  /\ pushed = {} /\ dedup = <<>> /\ queue = <<>> /\ calls = {}
  /\ recent = <<>> /\ handled = {}

smaller(a, b) == IF a < b THEN a ELSE b
larger(a, b) == IF a > b THEN a ELSE b
Fault == faults < MaxFaults /\ faults' = faults + 1

Canonical == {blocks[n] : n \in DOMAIN blocks} \ {NoLog}

-----------------------------------------------------------------------------
(* DIA's chain *)

\* A block is mined; a live subscription pushes its log, a broken one does not.
Mine ==
  /\ Len(blocks) < MaxBlocks
  /\ \E content \in Contents \ Canonical :
       /\ blocks' = Append(blocks, content)
       /\ top' = larger(top, Len(blocks) + 1)
       /\ \/ UNCHANGED pushed
          \/ /\ mode.ws /\ content # NoLog /\ Cardinality(pushed) < MaxPushed
             /\ pushed' = pushed \cup
                  {[log |-> content, block |-> Len(blocks) + 1, step |-> "start"]}
  /\ UNCHANGED <<mode, reorg, checkpoint, faults, restarted,
                 http, dedup, queue, calls, historyVars>>

\* The last block that a scan, or a restart, will not read again as things stand.
scanned ==
  larger(checkpoint, IF http.step = "poll" THEN http.cursor - 1 ELSE http.rangeEnd)

\* The last blocks are replaced by others, to be mined.  More of them than
\* Confirmations may be, and the scanner may have scanned some of those.
Reorganise ==
  /\ Fault
  /\ \E height \in 0 .. Len(blocks) - 1 :
       /\ Len(blocks) - height <= Confirmations + BlockRange
       /\ blocks' = SubSeq(blocks, 1, height)
       /\ reorg' = IF height < scanned /\ height + Confirmations < top
                     THEN "hidden" ELSE reorg
  /\ UNCHANGED <<mode, top, checkpoint, restarted, http, pushed, dedup,
                 queue, calls, historyVars>>

-----------------------------------------------------------------------------
(* processOneEvent *)

remember(l) ==
  Append(IF Len(recent) > DedupCapacity THEN Tail(recent) ELSE recent, l)

\* Mutant: an intent enters the dedup cache once it was handled.
addLate(l, caller) ==
  /\ calls' = calls \cup {[log |-> l, by |-> caller]}
  /\ recent' = remember(l)
  /\ UNCHANGED dedup

\* dedupCache.add and the call that follows: eviction is in insertion order.
\* There is no await between them.
add(l, caller) ==
  /\ dedup' = Append(IF Len(dedup) >= DedupCapacity THEN Tail(dedup) ELSE dedup, l)
  /\ calls' = calls \cup {[log |-> l, by |-> caller]}
  /\ recent' = remember(l)

isDuplicate(l) == \E k \in DOMAIN dedup : dedup[k] = l

Workers == Cardinality({c \in calls : c.by = "worker"})

\* Mutant: the queue takes whatever comes.
submitUnbounded(events) ==
  /\ queue' = queue \o events
  /\ UNCHANGED handled

\* eventWorkerPool.submit for each event of a batch, without an await between:
\* what neither a free worker nor the queue can take is dropped.
submitAll(events) ==
  LET room == QueueSize + (WorkerCount - Workers) - Len(queue)
      taken == smaller(room, Len(events))
  IN  /\ queue' = queue \o SubSeq(events, 1, taken)
      /\ handled' = handled \cup {events[k] : k \in taken + 1 .. Len(events)}

-----------------------------------------------------------------------------
(* runHttpScanner *)

\* Mutant: blocks are scanned without waiting for their confirmations.
PollUnconfirmed ==
  /\ http.step = "poll"
  /\ LET head == Len(blocks)
     IN  http' = [http EXCEPT
              !.highWaterHead = IF head > @ THEN head ELSE @,
              !.step = IF http.cursor > head THEN "poll" ELSE "fetch",
              !.rangeEnd = smaller(http.cursor + BlockRange - 1, head)]
  /\ UNCHANGED <<sourceVars, reorg, checkpoint, faults, restarted, pushed,
                 dedup, queue, calls, historyVars>>

\* One poll: read the head, rewind on a reorganisation, choose the range.
Poll ==
  /\ http.step = "poll"
  /\ LET head == Len(blocks)
         finalizedHead == IF head > Confirmations THEN head - Confirmations ELSE 0
         target == IF finalizedHead > BlockRange THEN finalizedHead - BlockRange ELSE 0
         rewinds == /\ head + Confirmations < http.highWaterHead
                    /\ http.cursor > finalizedHead
                    /\ target < http.cursor
         cursor == IF rewinds THEN target ELSE http.cursor
         chunk == IF finalizedHead - cursor > MaxBlockGap THEN BackfillRange ELSE BlockRange
     IN  /\ http' = [http EXCEPT
              !.cursor = cursor,
              !.highWaterHead = IF head > @ THEN head ELSE @,
              !.step = IF cursor > finalizedHead THEN "poll" ELSE "fetch",
              !.rangeEnd = smaller(cursor + chunk - 1, finalizedHead)]
         /\ reorg' = IF rewinds /\ reorg = "hidden" THEN "seen" ELSE reorg
  /\ UNCHANGED <<sourceVars, checkpoint, faults, restarted, pushed, dedup,
                 queue, calls, historyVars>>

\* The blocks of the range, as far as the chain has them.
read ==
  SubSeq(blocks, IF http.cursor = 0 THEN 1 ELSE http.cursor,
         smaller(http.rangeEnd, Len(blocks)))

\* Mutant: the checkpoint is saved when the range is read.
FetchSavesFirst ==
  /\ http.step = "fetch"
  /\ checkpoint' = http.rangeEnd
  /\ http' = [http EXCEPT !.step = "deliver", !.todo = read]
  /\ UNCHANGED <<sourceVars, reorg, faults, restarted, pushed, dedup, queue,
                 calls, historyVars>>

\* getIntentRegisteredLogs: the chain may have changed since the head was read.
Fetch ==
  /\ http.step = "fetch"
  /\ http' = [http EXCEPT !.step = "deliver", !.todo = read]
  /\ UNCHANGED <<sourceVars, reorg, checkpoint, faults, restarted, pushed,
                 dedup, queue, calls, historyVars>>

\* handleBatch, sequential mode: one event, which the scanner awaits.
HandleNext ==
  /\ http.step = "deliver" /\ ~mode.parallel /\ http.todo # <<>>
  /\ \/ /\ Head(http.todo) = NoLog \/ isDuplicate(Head(http.todo))
        /\ http' = [http EXCEPT !.todo = Tail(@)]
        /\ UNCHANGED <<dedup, calls, recent>>
     \/ /\ Head(http.todo) # NoLog /\ ~isDuplicate(Head(http.todo))
        /\ add(Head(http.todo), "http")
        /\ http' = [http EXCEPT !.todo = Tail(@), !.step = "await"]
  /\ UNCHANGED <<sourceVars, reorg, checkpoint, faults, restarted, pushed,
                 queue, handled>>

\* The one way to count some places in their order.
inOrder(places) ==
  {f \in [1 .. Cardinality(places) -> places] :
     \A j, k \in DOMAIN f : j < k => f[j] < f[k]}

\* handleBatch, parallel mode: the batch goes to the pool.
SubmitBatch ==
  /\ http.step = "deliver" /\ mode.parallel
  /\ \E place \in inOrder({k \in DOMAIN http.todo : http.todo[k] # NoLog}) :
       submitAll([n \in DOMAIN place |-> http.todo[place[n]]])
  /\ http' = [http EXCEPT !.todo = <<>>, !.step = "save"]
  /\ UNCHANGED <<sourceVars, reorg, checkpoint, faults, restarted, pushed,
                 dedup, calls, recent>>

BatchHandled ==
  /\ http.step = "deliver" /\ ~mode.parallel /\ http.todo = <<>>
  /\ http' = [http EXCEPT !.step = "save"]
  /\ UNCHANGED <<sourceVars, reorg, checkpoint, faults, restarted, pushed,
                 dedup, queue, calls, historyVars>>

Save ==
  /\ http.step = "save"
  /\ checkpoint' = http.rangeEnd
  /\ http' = [http EXCEPT !.step = "poll", !.cursor = http.rangeEnd + 1]
  /\ UNCHANGED <<sourceVars, reorg, faults, restarted, pushed, dedup, queue,
                 calls, historyVars>>

-----------------------------------------------------------------------------
(* handleIncomingLogs of the WebSocket scanner *)

WsDeliver ==
  /\ \E d \in pushed :
       /\ d.step = "start"
       /\ \/ /\ mode.parallel
             /\ submitAll(<<d.log>>)
             /\ pushed' = (pushed \ {d}) \cup {[d EXCEPT !.step = "save"]}
             /\ UNCHANGED <<dedup, calls, recent>>
          \/ /\ ~mode.parallel /\ isDuplicate(d.log)
             /\ pushed' = (pushed \ {d}) \cup {[d EXCEPT !.step = "save"]}
             /\ UNCHANGED <<dedup, calls, recent, queue, handled>>
          \/ /\ ~mode.parallel /\ ~isDuplicate(d.log)
             /\ add(d.log, "ws")
             /\ pushed' = (pushed \ {d}) \cup {[d EXCEPT !.step = "await"]}
             /\ UNCHANGED <<queue, handled>>
  /\ UNCHANGED <<sourceVars, reorg, checkpoint, faults, restarted, http>>

WsSave ==
  /\ \E d \in pushed :
       /\ d.step = "save"
       /\ checkpoint' = d.block
       /\ pushed' = pushed \ {d}
  /\ UNCHANGED <<sourceVars, reorg, faults, restarted, http, dedup, queue,
                 calls, historyVars>>

-----------------------------------------------------------------------------
(* The event worker pool *)

WorkerStarts ==
  /\ queue # <<>> /\ Workers < WorkerCount
  /\ queue' = Tail(queue)
  /\ \/ /\ isDuplicate(Head(queue))
        /\ UNCHANGED <<dedup, calls, recent>>
     \/ /\ ~isDuplicate(Head(queue))
        /\ add(Head(queue), "worker")
  /\ UNCHANGED <<sourceVars, reorg, checkpoint, faults, restarted, http,
                 pushed, handled>>

\* The timeout wins the race: the worker goes on, and so does its call.
TimesOut ==
  /\ Fault
  /\ \E c \in calls :
       /\ c.by = "worker"
       /\ calls' = (calls \ {c}) \cup {[c EXCEPT !.by = "detached"]}
  /\ UNCHANGED <<sourceVars, reorg, checkpoint, restarted, http, pushed, dedup,
                 queue, historyVars>>

-----------------------------------------------------------------------------
(* The end of a processOneEvent call *)

\* A call returns to whoever awaits it.
resume(c) ==
  /\ calls' = calls \ {c}
  /\ http' = IF c.by = "http" THEN [http EXCEPT !.step = "deliver"] ELSE http
  /\ pushed' = IF c.by = "ws"
                 THEN {IF d.log = c.log /\ d.step = "await"
                         THEN [d EXCEPT !.step = "save"] ELSE d : d \in pushed}
                 ELSE pushed

\* The intent was enriched and processEnrichedIntent ran to its end.
Accepts ==
  /\ \E c \in calls :
       /\ resume(c)
       /\ handled' = handled \cup {c.log}
  /\ UNCHANGED <<sourceVars, reorg, checkpoint, faults, restarted, dedup,
                 queue, recent>>

\* The enricher threw: the event counts as invalid.
EnrichmentFails ==
  /\ Fault
  /\ \E c \in calls :
       /\ resume(c)
       /\ handled' = handled \cup {c.log}
  /\ UNCHANGED <<sourceVars, reorg, checkpoint, restarted, dedup, queue, recent>>

\* processEnrichedIntent threw: a WebSocket call reconnects, a worker counts it.
HandlingFails ==
  /\ Fault
  /\ \E c \in calls :
       /\ c.by # "http"
       /\ calls' = calls \ {c}
       /\ pushed' = IF c.by = "ws"
                      THEN {d \in pushed : ~(d.log = c.log /\ d.step = "await")}
                      ELSE pushed
       /\ handled' = handled \cup {c.log}
  /\ UNCHANGED <<sourceVars, reorg, checkpoint, restarted, http, dedup, queue, recent>>

-----------------------------------------------------------------------------

\* The daemon crashes, or its HTTP scanner fails and it exits: the supervisor
\* starts it again, with the checkpoint and nothing else.
Restart ==
  /\ Fault /\ restarted' = TRUE
  /\ http' = startAt(checkpoint)
  /\ pushed' = {} /\ dedup' = <<>> /\ queue' = <<>> /\ calls' = {}
  /\ recent' = <<>>
  /\ UNCHANGED <<sourceVars, reorg, checkpoint, handled>>

HttpStep == Poll \/ Fetch \/ HandleNext \/ SubmitBatch \/ BatchHandled \/ Save
WsStep == WsDeliver \/ WsSave
Failure == EnrichmentFails \/ HandlingFails \/ TimesOut

Next ==
  \/ Mine \/ Reorganise
  \/ HttpStep \/ WsStep \/ WorkerStarts
  \/ Accepts \/ Failure
  \/ Restart

\* RPC calls are retried until they answer, and awaited calls return.
Fairness ==
  /\ WF_vars(HttpStep) /\ WF_vars(WsStep)
  /\ WF_vars(WorkerStarts) /\ WF_vars(Accepts)

Spec == Init /\ [][Next]_vars /\ Fairness

-----------------------------------------------------------------------------

\* Both transports, rescans after a reorganisation and the workers may bring the
\* same intent several times, also while it is being handled.  In one life of
\* the daemon it is handled again only if DedupCapacity others came between.
HandledAgainOnlyAfterEviction ==
  \A p, q \in DOMAIN recent :
    p < q /\ recent[p] = recent[q] =>
      Cardinality({recent[k] : k \in p + 1 .. q - 1}) >= DedupCapacity

\* The logs up to the checkpoint have been handled, so a restart, which starts
\* after it, misses none: with the HTTP scanner alone, in sequential mode, as
\* long as DIA's chain replaces no block that it scanned.
CheckpointCovers ==
  ~mode.ws /\ ~mode.parallel /\ reorg = "none" =>
    \A n \in 1 .. smaller(checkpoint, Len(blocks)) :
      blocks[n] # NoLog => blocks[n] \in handled

Final == {blocks[n] : n \in 1 .. Len(blocks) - Confirmations} \ {NoLog}

\* What the design gives up: a deep reorganisation that no poll noticed, and the
\* logs in memory, or below a checkpoint that the WebSocket or a reorganisation
\* left too high, at a restart.
Excused ==
  \/ reorg = "hidden"
  \/ restarted /\ (mode.ws \/ mode.parallel \/ reorg # "none")

\* Otherwise no log is skipped silently: while it has its confirmations, the
\* intent is handled in the end, or counted as invalid, failed or dropped,
\* across backfill, overlapping deliveries, reorganisations and restarts.
EveryLogProcessed ==
  \A l \in Logs :
    l \in Final ~> (l \in handled \/ l \notin Final \/ Excused)

\* What a comment says, and the code does not do.  scanner-ws.ts:22: "A
\* subsequent HTTP scan starting from the checkpoint will pick up anything
\* missed during a reconnect."
BaselineCoversGaps ==
  \A l \in Logs :
    l \in Final ~> (l \in handled \/ l \notin Final \/ reorg # "none")

=============================================================================
