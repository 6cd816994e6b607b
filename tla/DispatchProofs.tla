---------------------------- MODULE DispatchProofs ----------------------------
(***************************************************************************)
(* What the feeder believes, logs and pays for, through every restart and  *)
(* failure: for any intents, clocks, pool and queue sizes and configured   *)
(* options, proved by one inductive invariant.                             *)
(***************************************************************************)
EXTENDS DispatchProperties, SequenceTheorems, TLAPS

Known == Intents \cup {NoIntent}
Txs == [intent : Intents, n : Nat]
Rows == [n : Nat, status : {"submitted", "confirmed", "failed"}]
Steps == {"none", "queued", "submitted", "written", "confirmed", "failed"}
Flights == [intent : Known, n : Nat, step : Steps]

\* What a lane carries for a pair is an intent of that pair.
ownIntent(s, i) == i # NoIntent => i.symbol = s

ownFlight(s) ==
  flight[s].step # "none" => flight[s].intent \in Intents /\ flight[s].intent.symbol = s

Shapes ==
  /\ faults \in Nat /\ attempts \in [Intents -> Nat]
  /\ chain \in [Symbols -> Known] /\ file \in [Symbols -> Known]
  /\ pending \subseteq Txs /\ landed \subseteq Txs
  /\ rows \in [Intents -> Seq(Rows)]
  /\ cache \in [Symbols -> [intent : Known, age : Nat]]
  /\ latest \in [Symbols -> Known] /\ buffer \in [Symbols -> Known]
  /\ \A s \in Symbols : ownIntent(s, latest[s]) /\ ownIntent(s, buffer[s])
  /\ handling \subseteq Intents /\ busy \subseteq Intents /\ tasks \in Seq(Intents)
  /\ flight \in [Symbols -> Flights]
  /\ \A s \in Symbols : ownFlight(s)

\* The transaction whose confirmation the lane waits for.
awaited(s) == [intent |-> flight[s].intent, n |-> flight[s].n]

\* The chain has passed every transaction that landed, and every file.
ChainPassed ==
  /\ \A tx \in landed : notAhead(tx.intent, chain[tx.intent.symbol])
  /\ \A s \in Symbols : notAhead(file[s], chain[s])

\* What is submitted is no older than the file it will replace, which then holds it.
FileReady == \A s \in Symbols :
  /\ flight[s].step = "submitted" => notAhead(file[s], flight[s].intent)
  /\ flight[s].step = "written" => file[s] = flight[s].intent

\* A start finds no transaction of its own under way.
NothingBeforeUp == life # "up" => flight = perSymbol(Nothing)

\* What is written or confirmed has landed.
WrittenLanded == \A s \in Symbols :
  flight[s].step \in {"written", "confirmed"} =>
    \E tx \in landed : tx.intent = flight[s].intent

FollowInv ==
  ChainPassed /\ FileReady /\ NothingBeforeUp /\ WrittenLanded
    /\ CacheFollowsChain /\ ConfirmedMeansLanded

-----------------------------------------------------------------------------
(* Who pays for a second attempt *)

\* An intent that the chain has not passed may still be submitted.
open(i) == beats(i, chain[i.symbol])

\* It is under way: the lane waits for a transaction that may land.
underWay(i) ==
  /\ flight[i.symbol].step = "submitted" /\ flight[i.symbol].intent = i
  /\ awaited(i.symbol) \in pending

\* An older intent of the pair may land although no lane waits for it; i's own
\* transaction, which spends the same Pair UTxO, is then void, at no fault of its own.
rival(i, tx) ==
  /\ tx.intent.symbol = i.symbol /\ beats(i, tx.intent) /\ open(tx.intent)
  /\ flight[i.symbol].step = "submitted" => tx # awaited(i.symbol)

threatened(i) == \E tx \in pending : rival(i, tx)

\* One fault was paid for each attempt that came to nothing, and one in advance
\* for the attempt that a rival may void.
Paid(i) ==
  /\ attempts[i] <= 1 + faults
  /\ open(i) /\ ~underWay(i) => attempts[i] <= faults
  /\ open(i) /\ threatened(i) =>
       attempts[i] <= faults /\ (~underWay(i) => attempts[i] < faults)

Accounted == \A i \in Intents : Paid(i)

Inv == Shapes /\ FollowInv /\ Accounted

-----------------------------------------------------------------------------
(* Shapes *)

LEMMA SymbolOf == ASSUME NEW i \in Intents PROVE i.symbol \in Symbols
BY DEF Symbols

\* Rewriting each element of a sequence leaves a sequence.
LEMMA MappedSeq ==
  ASSUME NEW S, NEW T, NEW s \in Seq(S), NEW f, f = [k \in DOMAIN s |-> f[k]],
         \A k \in DOMAIN s : f[k] \in T
  PROVE  f \in Seq(T)
<1>1. Len(s) \in Nat /\ DOMAIN s = 1 .. Len(s)
  BY LenProperties
<1>2. f \in [1 .. Len(s) -> T]
  BY <1>1
<1> QED
  BY <1>1, <1>2, SeqDef

LEMMA InitShapes == Init => Shapes
BY DispatchParameters, SymbolOf
   DEF Init, Shapes, Known, Txs, Rows, Flights, Steps, ownIntent, ownFlight,
       perSymbol, perIntent, Unknown, Nothing

LEMMA RoutingShapes ==
  ASSUME Shapes, NEW i \in Intents,
         RouteIntent(i) \/ PreflightRejects(i) \/ HandOver(i) \/ RunTask(i)
  PROVE  Shapes'
<1> USE SymbolOf DEF Shapes, chainVars, diskVars, cronVars, poolVars, laneVars, bootVars
<1>1. CASE RouteIntent(i)
  BY <1>1 DEF RouteIntent, remember, Known, ownIntent, ownFlight
<1>2. CASE PreflightRejects(i)
  BY <1>2 DEF PreflightRejects, Fault, ownIntent, ownFlight
<1>3. CASE HandOver(i)
  <2>1. busy' \subseteq Intents /\ tasks' \in Seq(Intents)
    <3>1. CASE Cardinality(busy) < MaxWorkers
      BY <1>3, <3>1 DEF HandOver, submitTask
    <3>2. CASE ~(Cardinality(busy) < MaxWorkers)
      <4>1. busy' = busy /\ (tasks' = tasks \/ tasks' = Append(tasks, i))
        BY <1>3, <3>2 DEF HandOver, submitTask
      <4>2. tasks \in Seq(Intents) /\ busy \subseteq Intents
        OBVIOUS
      <4> HIDE DEF Shapes
      <4>3. Append(tasks, i) \in Seq(Intents)
        BY <4>2, AppendProperties
      <4> QED
        BY <4>1, <4>2, <4>3
    <3> QED
      BY <3>1, <3>2
  <2> QED
    BY <1>3, <2>1 DEF HandOver, ownIntent, ownFlight
<1>4. CASE RunTask(i)
  <2>1. buffer' \in [Symbols -> Known]
        /\ \A s \in Symbols : ownIntent(s, buffer'[s])
    BY <1>4 DEF RunTask, accepted, Known, ownIntent
  <2>2. tasks' \in Seq(Intents) /\ busy' \subseteq Intents
    BY <1>4 DEF RunTask
  <2> QED
    BY <1>4, <2>1, <2>2 DEF RunTask, ownIntent, ownFlight
<1> QED
  BY <1>1, <1>2, <1>3, <1>4

LEMMA TimerShapes == ASSUME Shapes, RunOneTick \/ Tick PROVE Shapes'
<1> USE DEF Shapes, chainVars, diskVars, cronVars, poolVars, laneVars, bootVars
<1>1. CASE RunOneTick
  <2>1. buffer' \in [Symbols -> Known] /\ \A s \in Symbols : ownIntent(s, buffer'[s])
    BY <1>1 DEF RunOneTick, accepted, Known, ownIntent
  <2> QED
    BY <1>1, <2>1 DEF RunOneTick, ownIntent, ownFlight
<1>2. CASE Tick
  <2>1. cache' \in [Symbols -> [intent : Known, age : Nat]]
    <3>1. ASSUME NEW age \in Nat PROVE older(age) \in Nat
      BY DEF older
    <3> QED
      BY ZenonT(60), <1>2, <3>1 DEF Tick
  <2> QED
    BY <1>2, <2>1 DEF Tick, ownIntent, ownFlight
<1> QED
  BY <1>1, <1>2

LEMMA LaneShapes ==
  ASSUME Shapes, NEW s \in Symbols,
         Decline(s) \/ Throw(s) \/ TimesOut(s) \/ Confirm(s) \/ CacheConfirmed(s)
  PROVE  Shapes'
<1> USE DEF Shapes, chainVars, diskVars, cronVars, poolVars, laneVars, bootVars
<1>1. flight[s].step # "none" => flight[s].intent \in Intents
  BY DEF ownFlight
<1>2. flight' \in [Symbols -> Flights] /\ \A t \in Symbols : ownFlight(t)'
  <2>1. PICK step \in Steps : flight' = [flight EXCEPT ![s].step = step]
    BY DEF Decline, Throw, TimesOut, Confirm, CacheConfirmed, Steps
  <2>2. flight[s].step # "none"
    BY DEF Decline, Throw, TimesOut, Confirm, CacheConfirmed, inFlight
  <2>3. flight' \in [Symbols -> Flights]
    BY <2>1 DEF Flights
  <2>4. \A t \in Symbols : flight'[t].intent = flight[t].intent
                            /\ (flight'[t].step # "none" => flight[t].step # "none")
    BY <2>1, <2>2 DEF Flights
  <2> QED
    BY <2>3, <2>4 DEF ownFlight
<1>3. /\ file' = file \/ file' = [file EXCEPT ![s] = flight[s].intent]
      /\ cache' = cache \/ cache' = [cache EXCEPT ![s] = [intent |-> flight[s].intent, age |-> 0]]
  BY DEF Decline, Throw, TimesOut, Confirm, CacheConfirmed
<1>4. flight[s].intent \in Known /\ [intent |-> flight[s].intent, age |-> 0] \in [intent : Known, age : Nat]
  BY DEF Flights
<1>7. file' \in [Symbols -> Known] /\ cache' \in [Symbols -> [intent : Known, age : Nat]]
  BY ZenonT(60), <1>3, <1>4
<1>5. faults' \in Nat
  BY DEF Decline, Throw, TimesOut, Confirm, CacheConfirmed, Fault
<1>6. UNCHANGED <<attempts, chain, pending, landed, rows, latest, buffer, handling,
                  busy, tasks>>
  BY DEF Decline, Throw, TimesOut, Confirm, CacheConfirmed
<1> QED
  BY <1>2, <1>5, <1>6, <1>7 DEF ownIntent

LEMMA SubmitShapes == ASSUME Shapes, NEW s \in Symbols, Submit(s) PROVE Shapes'
<1> USE DEF Shapes, chainVars, diskVars, cronVars, poolVars, laneVars, bootVars
<1> DEFINE i == flight[s].intent
           n == attempts[i] + 1
<1>1. i \in Intents /\ i.symbol = s /\ n \in Nat
  BY DEF Submit, inFlight, ownFlight
<1>2. flight' \in [Symbols -> Flights] /\ \A t \in Symbols : ownFlight(t)'
  BY <1>1 DEF Submit, Flights, Steps, Known, ownFlight
<1>3. pending' \subseteq Txs /\ attempts' \in [Intents -> Nat]
  BY <1>1 DEF Submit, Txs
<1>4. rows' \in [Intents -> Seq(Rows)] /\ faults' \in Nat
  <2>1. [n |-> n, status |-> "submitted"] \in Rows
    BY <1>1 DEF Rows
  <2>2. rows[i] \in Seq(Rows) /\ Append(rows[i], [n |-> n, status |-> "submitted"]) \in Seq(Rows)
    BY <1>1, <2>1, AppendProperties
  <2>3. recordSubmitted(i, n)
    BY DEF Submit
  <2> HIDE DEF i, n
  <2>4. rows' = rows \/ rows' = [rows EXCEPT ![i] = Append(@, [n |-> n, status |-> "submitted"])]
    BY <2>3 DEF recordSubmitted
  <2>5. faults' = faults \/ faults' = faults + 1
    BY <2>3 DEF recordSubmitted, Fault
  <2>6. rows \in [Intents -> Seq(Rows)] /\ faults \in Nat
    OBVIOUS
  <2> HIDE DEF Shapes
  <2>7. faults' \in Nat
    BY <2>5, <2>6
  <2>8. rows' \in [Intents -> Seq(Rows)]
    BY <2>2, <2>4, <2>6
  <2> QED
    BY <2>7, <2>8
<1>5. UNCHANGED <<chain, landed, file, cache, latest, buffer, handling, busy, tasks>>
  BY DEF Submit
<1> QED
  BY <1>2, <1>3, <1>4, <1>5 DEF ownIntent

LEMMA JudgedShape ==
  ASSUME Shapes, NEW i \in Intents, NEW status \in {"confirmed", "failed"}
  PROVE  judged(i, status) \in Seq(Rows)
<1> DEFINE f == judged(i, status)
<1>1. rows[i] \in Seq(Rows) /\ f = [k \in DOMAIN rows[i] |-> f[k]]
  BY DEF Shapes, judged
<1>2. \A k \in DOMAIN rows[i] : rows[i][k] \in Rows
  BY <1>1, LenProperties, ElementOfSeq
<1>3. \A k \in DOMAIN rows[i] : f[k] \in Rows
  BY <1>2 DEF judged, Rows
<1> HIDE DEF f
<1> QED
  BY <1>1, <1>3, MappedSeq DEF f

LEMMA RecordShapes ==
  ASSUME Shapes, NEW s \in Symbols, RecordConfirmed(s) \/ RecordFailed(s)
  PROVE  Shapes'
<1> USE DEF Shapes, chainVars, diskVars, cronVars, poolVars, laneVars, bootVars
<1> DEFINE i == flight[s].intent
<1>1. i \in Intents /\ flight[s].n \in Nat
  BY DEF RecordConfirmed, RecordFailed, inFlight, ownFlight, Flights
<1>2. flight' \in [Symbols -> Flights] /\ \A t \in Symbols : ownFlight(t)'
  <2>1. flight' = [flight EXCEPT ![s] = Nothing]
    BY DEF RecordConfirmed, RecordFailed, resolved
  <2>2. Nothing \in Flights /\ Nothing.step = "none"
    BY DEF Nothing, Flights, Steps, Known
  <2>3. flight \in [Symbols -> Flights] /\ \A t \in Symbols : ownFlight(t)
    OBVIOUS
  <2> HIDE DEF Shapes
  <2> QED
    BY <2>1, <2>2, <2>3 DEF ownFlight
<1>3. rows' \in [Intents -> Seq(Rows)]
  <2>1. CASE RecordConfirmed(s)
    <3> DEFINE old == judged(i, "confirmed")
               f == [k \in DOMAIN rows[i] |-> [old[k] EXCEPT !.n = flight[s].n]]
    <3>1. old \in Seq(Rows) /\ DOMAIN old = DOMAIN rows[i]
      BY <1>1, JudgedShape DEF judged
    <3>2. \A k \in DOMAIN old : old[k] \in Rows
      BY <3>1, LenProperties, ElementOfSeq
    <3>3. f = [k \in DOMAIN old |-> f[k]] /\ \A k \in DOMAIN old : f[k] \in Rows
      BY <1>1, <3>1, <3>2 DEF Rows
    <3>4. rows' = [rows EXCEPT ![i] = f]
      BY <2>1 DEF RecordConfirmed
    <3> HIDE DEF f, old, Shapes
    <3>5. f \in Seq(Rows)
      BY <3>1, <3>3, MappedSeq
    <3> QED
      BY <1>1, <3>4, <3>5 DEF Shapes
  <2>2. CASE RecordFailed(s)
    <3>1. [n |-> 0, status |-> "failed"] \in Rows
      BY DEF Rows
    <3>2. rows[i] \in Seq(Rows) /\ Append(rows[i], [n |-> 0, status |-> "failed"]) \in Seq(Rows)
      BY <1>1, <3>1, AppendProperties
    <3>3. rows' = [rows EXCEPT ![i] = rows[i]]
          \/ rows' = [rows EXCEPT ![i] = Append(rows[i], [n |-> 0, status |-> "failed"])]
      BY <2>2 DEF RecordFailed
    <3> QED
      BY <1>1, <3>2, <3>3
  <2> QED
    BY <2>1, <2>2
<1>4. UNCHANGED <<faults, attempts, chain, pending, landed, file, cache, latest,
                  buffer, handling, busy, tasks>>
  BY DEF RecordConfirmed, RecordFailed
<1> QED
  BY <1>2, <1>3, <1>4 DEF ownIntent

LEMMA FlushShapes == ASSUME Shapes, Flush PROVE Shapes'
<1> USE DEF Shapes, chainVars, diskVars, cronVars, poolVars, laneVars, bootVars
<1>1. flight' \in [Symbols -> Flights] /\ \A t \in Symbols : ownFlight(t)'
  BY DispatchParameters
     DEF Flush, Flights, Steps, Nothing, Known, ownFlight, ownIntent
<1>2. buffer' \in [Symbols -> Known] /\ \A t \in Symbols : ownIntent(t, buffer'[t])
  BY DEF Flush, perSymbol, Known, ownIntent
<1> QED
  BY <1>1, <1>2 DEF Flush, ownIntent

LEMMA ChainShapes ==
  ASSUME Shapes, NEW tx \in pending, Land(tx) \/ Evict(tx)
  PROVE  Shapes'
<1> USE DEF Shapes, chainVars, diskVars, cronVars, poolVars, laneVars, bootVars
<1>1. tx \in Txs
  OBVIOUS
<1>2. CASE Land(tx)
  BY <1>1, <1>2 DEF Land, Txs, Known, ownIntent, ownFlight
<1>3. CASE Evict(tx)
  BY <1>1, <1>3 DEF Evict, Fault, ownIntent, ownFlight
<1> QED
  BY <1>2, <1>3

LEMMA RestartShapes ==
  ASSUME Shapes,
         Crash \/ Recovered \/ Reconcile \/ Hydrate \/ \E i \in Intents : RecoverRow(i)
  PROVE  Shapes'
<1> USE DEF Shapes, chainVars, diskVars, cronVars, poolVars, laneVars, bootVars
<1>1. CASE Crash
  <2>1. flight' \in [Symbols -> Flights] /\ \A t \in Symbols : ownFlight(t)'
    BY <1>1 DEF Crash, perSymbol, Nothing, Flights, Steps, Known, ownFlight
  <2>2. /\ cache' \in [Symbols -> [intent : Known, age : Nat]]
        /\ latest' \in [Symbols -> Known] /\ buffer' \in [Symbols -> Known]
        /\ \A t \in Symbols : ownIntent(t, latest'[t]) /\ ownIntent(t, buffer'[t])
    BY <1>1 DEF Crash, perSymbol, Unknown, Known, ownIntent
  <2>3. handling' \subseteq Intents /\ busy' \subseteq Intents /\ tasks' \in Seq(Intents)
    BY <1>1 DEF Crash
  <2> QED
    BY <1>1, <2>1, <2>2, <2>3 DEF Crash, Fault
<1>2. CASE Recovered
  BY <1>2 DEF Recovered, ownIntent, ownFlight
<1>3. CASE Reconcile
  BY <1>3 DEF Reconcile, Fault, ownIntent, ownFlight
<1>4. CASE Hydrate
  <2>1. cache' \in [Symbols -> [intent : Known, age : Nat]]
    BY <1>4, DispatchParameters DEF Hydrate, Unknown, Known
  <2> QED
    BY <1>4, <2>1 DEF Hydrate, ownIntent, ownFlight
<1>5. ASSUME NEW i \in Intents, RecoverRow(i) PROVE Shapes'
  <2>1. \E status \in {"confirmed", "failed"} : rows' = [rows EXCEPT ![i] = judged(i, status)]
    BY <1>5 DEF RecoverRow
  <2>2. rows' \in [Intents -> Seq(Rows)]
    BY <2>1, JudgedShape
  <2>3. faults' \in Nat
    BY <1>5 DEF RecoverRow, Fault
  <2> QED
    BY <1>5, <2>2, <2>3 DEF RecoverRow, ownIntent, ownFlight
<1> QED
  BY <1>1, <1>2, <1>3, <1>4, <1>5

LEMMA NextShapes == Shapes /\ [Next]_vars => Shapes'
<1> SUFFICES ASSUME Shapes, [Next]_vars PROVE Shapes'
  OBVIOUS
<1>1. CASE \E i \in Intents : EachIntent(i)
  BY <1>1, RoutingShapes, RestartShapes DEF EachIntent
<1>2. CASE \E s \in Symbols : EachSymbol(s)
  BY <1>2, LaneShapes, SubmitShapes, RecordShapes DEF EachSymbol
<1>3. CASE \E tx \in pending : Land(tx) \/ Evict(tx)
  BY <1>3, ChainShapes
<1>4. CASE Flush \/ RunOneTick \/ Tick
  BY <1>4, FlushShapes, TimerShapes
<1>5. CASE Crash \/ Recovered \/ Reconcile \/ Hydrate
  BY <1>5, RestartShapes
<1>6. CASE UNCHANGED vars
  BY <1>6 DEF vars, chainVars, diskVars, cronVars, poolVars, laneVars, bootVars, Shapes,
              ownIntent, ownFlight
<1> QED
  BY <1>1, <1>2, <1>3, <1>4, <1>5, <1>6 DEF Next

-----------------------------------------------------------------------------
(* The order of intents *)

LEMMA NotAheadSelf == ASSUME NEW i \in Intents PROVE notAhead(i, i)
BY DispatchParameters DEF notAhead

LEMMA NotAheadTransitive ==
  ASSUME NEW a \in Known, NEW b \in Known, NEW c \in Known,
         notAhead(a, b), notAhead(b, c)
  PROVE  notAhead(a, c)
BY DispatchParameters DEF notAhead, Known

LEMMA BeatenIsBehind ==
  ASSUME NEW i \in Intents, NEW c \in Known, beats(i, c)
  PROVE  notAhead(c, i)
BY DispatchParameters DEF notAhead, beats, Known

LEMMA PassedCannotBeat ==
  ASSUME NEW i \in Intents, NEW c \in Known, notAhead(i, c)
  PROVE  ~beats(i, c)
BY DispatchParameters DEF notAhead, beats, Known

LEMMA BeatsTransitive ==
  ASSUME NEW i \in Intents, NEW j \in Intents, NEW c \in Known, beats(i, j), beats(j, c)
  PROVE  beats(i, c)
BY DispatchParameters DEF beats, Known

-----------------------------------------------------------------------------
(* What the feeder believes and logs *)

LEMMA InitFollows == Init => FollowInv
BY DEF Init, FollowInv, ChainPassed, FileReady, NothingBeforeUp, WrittenLanded,
       CacheFollowsChain, ConfirmedMeansLanded, notAhead, perSymbol, perIntent, Nothing

\* Steps that only start, decline or give up a submission, or touch none of it.
LEMMA FollowFrame ==
  ASSUME Shapes, FollowInv,
         UNCHANGED <<life, chain, landed, file, rows>>,
         \A s \in Symbols : cache'[s].intent = cache[s].intent,
         \A s \in Symbols :
           flight'[s] = flight[s] \/ flight'[s].step \notin {"submitted", "written", "confirmed"},
         life # "up" => flight' = flight
  PROVE  FollowInv'
<1>1. ChainPassed' /\ ConfirmedMeansLanded' /\ NothingBeforeUp'
  BY DEF FollowInv, ChainPassed, ConfirmedMeansLanded, NothingBeforeUp
<1>2. FileReady' /\ WrittenLanded'
  BY DEF FollowInv, FileReady, WrittenLanded
<1>3. CacheFollowsChain'
  BY DEF FollowInv, CacheFollowsChain
<1> QED
  BY <1>1, <1>2, <1>3 DEF FollowInv

LEMMA QuietFollows ==
  ASSUME Shapes, FollowInv,
         \/ \E i \in Intents : RouteIntent(i) \/ PreflightRejects(i) \/ HandOver(i) \/ RunTask(i)
         \/ RunOneTick \/ Tick \/ Flush
         \/ \E s \in Symbols : Decline(s) \/ Throw(s) \/ TimesOut(s)
         \/ \E tx \in pending : Evict(tx)
         \/ UNCHANGED vars
  PROVE  FollowInv'
<1> USE DEF chainVars, diskVars, cronVars, poolVars, laneVars, bootVars
<1>1. CASE \E i \in Intents : RouteIntent(i) \/ PreflightRejects(i) \/ HandOver(i) \/ RunTask(i)
  BY <1>1, FollowFrame DEF RouteIntent, PreflightRejects, HandOver, RunTask
<1>2. CASE RunOneTick
  BY <1>2, FollowFrame DEF RunOneTick
<1>3. CASE Tick
  <2>1. \A s \in Symbols : cache'[s].intent = cache[s].intent
    BY <1>3 DEF Tick, Shapes
  <2> QED
    BY <1>3, <2>1, FollowFrame DEF Tick
<1>4. CASE Flush
  <2>1. \A s \in Symbols : flight'[s].step \notin {"submitted", "written", "confirmed"}
    BY <1>4 DEF Flush, Nothing
  <2> QED
    BY <1>4, <2>1, FollowFrame DEF Flush, Up
<1>5. ASSUME NEW s \in Symbols, Decline(s) \/ Throw(s) \/ TimesOut(s) PROVE FollowInv'
  <2>1. \E step \in {"queued", "failed"} : flight' = [flight EXCEPT ![s].step = step]
    BY <1>5 DEF Decline, Throw, TimesOut
  <2>2. \A t \in Symbols :
          flight'[t] = flight[t] \/ flight'[t].step \notin {"submitted", "written", "confirmed"}
    BY <2>1 DEF Shapes, Flights
  <2>3. life = "up" /\ UNCHANGED <<life, chain, landed, file, rows, cache>>
    BY <1>5 DEF Decline, Throw, TimesOut, inFlight, Up
  <2> QED
    BY <2>2, <2>3, FollowFrame
<1>6. CASE \E tx \in pending : Evict(tx)
  BY <1>6, FollowFrame DEF Evict
<1>7. CASE UNCHANGED vars
  BY <1>7, FollowFrame DEF vars
<1> QED
  BY <1>1, <1>2, <1>3, <1>4, <1>5, <1>6, <1>7

\* A row that does not say "confirmed" claims nothing.
LEMMA AppendedRowClaimsNothing ==
  ASSUME Shapes, ConfirmedMeansLanded, landed' = landed,
         NEW i \in Intents, NEW row \in Rows, row.status # "confirmed",
         rows' = [rows EXCEPT ![i] = Append(rows[i], row)]
  PROVE  ConfirmedMeansLanded'
<1>1. rows[i] \in Seq(Rows)
  BY DEF Shapes
<1>2. /\ DOMAIN Append(rows[i], row) = 1 .. Len(rows[i]) + 1 /\ DOMAIN rows[i] = 1 .. Len(rows[i])
      /\ Append(rows[i], row)[Len(rows[i]) + 1] = row
      /\ \A k \in 1 .. Len(rows[i]) : Append(rows[i], row)[k] = rows[i][k]
      /\ Len(rows[i]) \in Nat
  BY <1>1, AppendProperties, LenProperties
<1>3. SUFFICES ASSUME NEW j \in Intents, NEW k \in DOMAIN rows'[j], rows'[j][k].status = "confirmed"
               PROVE  \E tx \in landed : tx.intent = j
  BY DEF ConfirmedMeansLanded
<1>4. CASE j # i
  BY <1>3, <1>4 DEF ConfirmedMeansLanded, Shapes
<1>5. CASE j = i
  <2>1. rows'[i] = Append(rows[i], row)
    BY DEF Shapes
  <2>2. k \in 1 .. Len(rows[i]) /\ rows[i][k].status = "confirmed"
    BY <1>2, <1>3, <1>5, <2>1
  <2> QED
    BY <1>2, <1>5, <2>2 DEF ConfirmedMeansLanded
<1> QED
  BY <1>4, <1>5

\* The rows of an intent all become alike.
LEMMA JudgedRowsFollow ==
  ASSUME Shapes, ConfirmedMeansLanded, landed' = landed,
         NEW i \in Intents, NEW f, rows' = [rows EXCEPT ![i] = f],
         \A k \in DOMAIN f :
           f[k].status = "confirmed" => \E tx \in landed : tx.intent = i
  PROVE  ConfirmedMeansLanded'
BY DEF ConfirmedMeansLanded, Shapes

LEMMA SubmitFollows ==
  ASSUME Shapes, FollowInv, NEW s \in Symbols, Submit(s)
  PROVE  FollowInv'
<1> USE DEF chainVars, diskVars, cronVars, poolVars, laneVars, bootVars
<1> DEFINE i == flight[s].intent
           n == attempts[i] + 1
<1>1. i \in Intents /\ n \in Nat /\ Up /\ beats(i, chain[s]) /\ chain[s] \in Known /\ file[s] \in Known
  BY DEF Submit, inFlight, ownFlight, Shapes
<1>2. UNCHANGED <<life, chain, landed, file, cache>>
  BY DEF Submit
<1>3. flight' = [flight EXCEPT ![s] = [intent |-> i, n |-> n, step |-> "submitted"]]
  BY DEF Submit
<1>4. ChainPassed' /\ NothingBeforeUp' /\ CacheFollowsChain'
  BY <1>1, <1>2 DEF FollowInv, ChainPassed, NothingBeforeUp, CacheFollowsChain, Up
<1>5. notAhead(file[s], i)
  BY <1>1, BeatenIsBehind, NotAheadTransitive DEF FollowInv, ChainPassed, Known
<1>6. FileReady' /\ WrittenLanded'
  BY <1>2, <1>3, <1>5 DEF FollowInv, FileReady, WrittenLanded, Shapes
<1>7. ConfirmedMeansLanded'
  <2>1. recordSubmitted(i, n)
    BY DEF Submit
  <2>2. rows' = rows \/ rows' = [rows EXCEPT ![i] = Append(rows[i], [n |-> n, status |-> "submitted"])]
    BY <2>1 DEF recordSubmitted
  <2>3. [n |-> n, status |-> "submitted"] \in Rows
    BY <1>1 DEF Rows
  <2>4. CASE rows' = rows
    BY <1>2, <2>4 DEF FollowInv, ConfirmedMeansLanded
  <2> QED
    BY <1>1, <1>2, <2>2, <2>3, <2>4, AppendedRowClaimsNothing DEF FollowInv
<1> QED
  BY <1>4, <1>6, <1>7 DEF FollowInv

LEMMA ConfirmFollows ==
  ASSUME Shapes, FollowInv, NEW s \in Symbols, Confirm(s)
  PROVE  FollowInv'
<1> USE DEF chainVars, diskVars, cronVars, poolVars, laneVars, bootVars
<1> DEFINE i == flight[s].intent
<1>1. /\ i \in Intents /\ i.symbol = s /\ Up /\ flight[s].step = "submitted"
      /\ awaited(s) \in landed /\ awaited(s).intent = i
  BY DEF Confirm, inFlight, ownFlight, Shapes, awaited
<1>2. UNCHANGED <<life, chain, landed, rows, cache>>
  BY DEF Confirm
<1>3. /\ flight' = [flight EXCEPT ![s].step = "written"]
      /\ file' = [file EXCEPT ![s] = i]
  BY DEF Confirm
<1>4. flight'[s].step = "written" /\ flight'[s].intent = i
      /\ \A t \in Symbols \ {s} : flight'[t] = flight[t] /\ file'[t] = file[t]
  BY <1>3 DEF Shapes, Flights
<1>5. file'[s] = i
  BY <1>3 DEF Shapes
<1>6. ChainPassed'
  BY <1>1, <1>2, <1>4, <1>5 DEF FollowInv, ChainPassed
<1>7. FileReady' /\ WrittenLanded'
  BY <1>1, <1>2, <1>4, <1>5 DEF FollowInv, FileReady, WrittenLanded
<1>8. notAhead(cache[s].intent, i)
  <2>1. notAhead(cache[s].intent, file[s]) /\ notAhead(file[s], i)
    BY <1>1 DEF FollowInv, CacheFollowsChain, FileReady, Up
  <2>2. cache[s].intent \in Known /\ file[s] \in Known /\ i \in Known
    BY <1>1 DEF Shapes, Known
  <2> QED
    BY <2>1, <2>2, NotAheadTransitive
<1>9. CacheFollowsChain'
  BY <1>2, <1>4, <1>5, <1>6, <1>8 DEF FollowInv, CacheFollowsChain, ChainPassed
<1>10. NothingBeforeUp' /\ ConfirmedMeansLanded'
  BY <1>1, <1>2 DEF FollowInv, NothingBeforeUp, Up, ConfirmedMeansLanded
<1> QED
  BY <1>6, <1>7, <1>9, <1>10 DEF FollowInv

LEMMA CacheConfirmedFollows ==
  ASSUME Shapes, FollowInv, NEW s \in Symbols, CacheConfirmed(s)
  PROVE  FollowInv'
<1> USE DEF chainVars, diskVars, cronVars, poolVars, laneVars, bootVars
<1> DEFINE i == flight[s].intent
<1>1. i \in Intents /\ Up /\ flight[s].step = "written"
  BY DEF CacheConfirmed, inFlight, ownFlight, Shapes
<1>2. UNCHANGED <<life, chain, landed, rows, file>>
  BY DEF CacheConfirmed
<1>3. flight'[s].step = "confirmed" /\ flight'[s].intent = i /\ cache'[s].intent = i
      /\ \A t \in Symbols \ {s} : flight'[t] = flight[t] /\ cache'[t] = cache[t]
  BY DEF CacheConfirmed, Shapes, Flights
<1>4. ChainPassed' /\ NothingBeforeUp' /\ ConfirmedMeansLanded'
  BY <1>1, <1>2 DEF FollowInv, ChainPassed, NothingBeforeUp, Up, ConfirmedMeansLanded
<1>5. FileReady' /\ WrittenLanded'
  BY <1>1, <1>2, <1>3 DEF FollowInv, FileReady, WrittenLanded
<1>6. notAhead(cache'[s].intent, file[s])
  BY <1>1, <1>3, NotAheadSelf DEF FollowInv, FileReady
<1>7. CacheFollowsChain'
  BY <1>2, <1>3, <1>6 DEF FollowInv, CacheFollowsChain
<1> QED
  BY <1>4, <1>5, <1>7 DEF FollowInv

LEMMA RecordFollows ==
  ASSUME Shapes, FollowInv, NEW s \in Symbols, RecordConfirmed(s) \/ RecordFailed(s)
  PROVE  FollowInv'
<1> USE DEF chainVars, diskVars, cronVars, poolVars, laneVars, bootVars
<1> DEFINE i == flight[s].intent
<1>1. i \in Intents /\ flight[s].n \in Nat /\ Up
  BY DEF RecordConfirmed, RecordFailed, inFlight, ownFlight, Shapes, Flights
<1>2. UNCHANGED <<life, chain, landed, file, cache>>
  BY DEF RecordConfirmed, RecordFailed
<1>3. flight'[s].step = "none" /\ \A t \in Symbols \ {s} : flight'[t] = flight[t]
  BY DEF RecordConfirmed, RecordFailed, resolved, Shapes, Nothing
<1>4. ChainPassed' /\ NothingBeforeUp' /\ CacheFollowsChain'
  BY <1>1, <1>2 DEF FollowInv, ChainPassed, NothingBeforeUp, Up, CacheFollowsChain
<1>5. FileReady' /\ WrittenLanded'
  BY <1>2, <1>3 DEF FollowInv, FileReady, WrittenLanded
<1>6. ConfirmedMeansLanded'
  <2>1. CASE RecordConfirmed(s)
    <3>1. \E tx \in landed : tx.intent = i
      BY <2>1 DEF RecordConfirmed, inFlight, FollowInv, WrittenLanded
    <3>2. PICK f : rows' = [rows EXCEPT ![i] = f]
      BY <2>1 DEF RecordConfirmed
    <3> QED
      BY <1>1, <1>2, <3>1, <3>2, JudgedRowsFollow DEF FollowInv
  <2>2. CASE RecordFailed(s)
    <3> DEFINE row == [n |-> 0, status |-> "failed"]
    <3>1. row \in Rows /\ row.status # "confirmed"
      BY DEF Rows
    <3>2. rows' = [rows EXCEPT ![i] = rows[i]] \/ rows' = [rows EXCEPT ![i] = Append(rows[i], row)]
      BY <2>2 DEF RecordFailed
    <3>3. CASE rows' = [rows EXCEPT ![i] = rows[i]]
      BY <1>1, <1>2, <3>3 DEF FollowInv, ConfirmedMeansLanded, Shapes
    <3> QED
      BY <1>1, <1>2, <3>1, <3>2, <3>3, AppendedRowClaimsNothing DEF FollowInv
  <2> QED
    BY <2>1, <2>2
<1> QED
  BY <1>4, <1>5, <1>6 DEF FollowInv

LEMMA LandFollows ==
  ASSUME Shapes, FollowInv, NEW tx \in pending, Land(tx)
  PROVE  FollowInv'
<1> USE DEF chainVars, diskVars, cronVars, poolVars, laneVars, bootVars
<1> DEFINE s == tx.intent.symbol
<1>1. tx.intent \in Intents /\ s \in Symbols /\ beats(tx.intent, chain[s])
  BY SymbolOf DEF Land, Shapes, Txs
<1>2. UNCHANGED <<life, file, rows, cache, flight>> /\ landed' = landed \cup {tx}
  BY DEF Land
<1>3. chain' = [chain EXCEPT ![s] = tx.intent]
  BY DEF Land
<1>4. \A t \in Symbols : notAhead(chain[t], chain'[t])
  <2> SUFFICES ASSUME NEW t \in Symbols PROVE notAhead(chain[t], chain'[t])
    OBVIOUS
  <2>1. CASE t = s
    BY <1>1, <1>3, <2>1, BeatenIsBehind DEF Shapes
  <2>2. CASE t # s
    BY <1>3, <2>2, NotAheadSelf DEF Shapes, Known, notAhead
  <2> QED
    BY <2>1, <2>2
<1>5. chain' \in [Symbols -> Known] /\ chain'[s] = tx.intent
  BY <1>1, <1>3 DEF Shapes, Known
<1>6. ChainPassed'
  <2>1. ASSUME NEW t \in landed' PROVE notAhead(t.intent, chain'[t.intent.symbol])
    <3>1. CASE t = tx
      BY <1>1, <1>5, <3>1, NotAheadSelf
    <3>2. CASE t \in landed
      <4>1. t.intent \in Intents /\ t.intent.symbol \in Symbols /\ t.intent \in Known
        BY <3>2, SymbolOf DEF Shapes, Txs, Known
      <4>2. notAhead(t.intent, chain[t.intent.symbol]) /\ chain[t.intent.symbol] \in Known
            /\ chain'[t.intent.symbol] \in Known
        BY <1>5, <3>2, <4>1 DEF FollowInv, ChainPassed, Shapes
      <4> QED
        BY <1>4, <4>1, <4>2, NotAheadTransitive
    <3> QED
      BY <1>2, <2>1, <3>1, <3>2
  <2>2. ASSUME NEW t \in Symbols PROVE notAhead(file'[t], chain'[t])
    <3>1. notAhead(file[t], chain[t]) /\ file[t] \in Known /\ chain[t] \in Known /\ chain'[t] \in Known
      BY <1>5 DEF FollowInv, ChainPassed, Shapes
    <3> QED
      BY <1>2, <1>4, <3>1, NotAheadTransitive
  <2> QED
    BY <2>1, <2>2 DEF ChainPassed
<1>7. CacheFollowsChain'
  BY <1>2, <1>6 DEF FollowInv, CacheFollowsChain, ChainPassed
<1>8. FileReady' /\ NothingBeforeUp' /\ WrittenLanded' /\ ConfirmedMeansLanded'
  BY <1>2 DEF FollowInv, FileReady, NothingBeforeUp, WrittenLanded, ConfirmedMeansLanded
<1> QED
  BY <1>6, <1>7, <1>8 DEF FollowInv

LEMMA RestartFollows ==
  ASSUME Shapes, FollowInv,
         Crash \/ Recovered \/ Reconcile \/ Hydrate \/ \E i \in Intents : RecoverRow(i)
  PROVE  FollowInv'
<1> USE DEF chainVars, diskVars, cronVars, poolVars, laneVars, bootVars
<1>1. CASE Crash
  <2>1. /\ UNCHANGED <<chain, landed, file, rows>> /\ life' = "recover"
        /\ flight' = perSymbol(Nothing)
    BY <1>1 DEF Crash
  <2>2. \A s \in Symbols : flight'[s].step = "none"
    BY <2>1 DEF perSymbol, Nothing
  <2>3. FileReady' /\ WrittenLanded'
    BY <2>2 DEF FileReady, WrittenLanded
  <2> QED
    BY <2>1, <2>3 DEF FollowInv, ChainPassed, NothingBeforeUp, CacheFollowsChain, ConfirmedMeansLanded, perSymbol
<1>2. CASE Recovered
  <2>1. UNCHANGED <<chain, landed, file, rows, flight, cache>> /\ life = "recover" /\ life' = "reconcile"
    BY <1>2 DEF Recovered
  <2> QED
    BY <2>1 DEF FollowInv, ChainPassed, FileReady, NothingBeforeUp, WrittenLanded,
                CacheFollowsChain, ConfirmedMeansLanded, perSymbol
<1>3. CASE Reconcile
  <2>1. /\ UNCHANGED <<chain, landed, rows, flight, cache>>
        /\ life = "reconcile" /\ life' = "hydrate" /\ (file' = chain \/ file' = file)
    BY <1>3 DEF Reconcile
  <2>2. \A s \in Symbols : flight[s].step = "none"
    BY <2>1 DEF FollowInv, NothingBeforeUp, perSymbol, Nothing
  <2>3. \A s \in Symbols : notAhead(file'[s], chain'[s])
    BY <2>1, NotAheadSelf DEF FollowInv, ChainPassed, Shapes, Known, notAhead
  <2> QED
    BY <2>1, <2>2, <2>3 DEF FollowInv, ChainPassed, FileReady, NothingBeforeUp, WrittenLanded,
                CacheFollowsChain, ConfirmedMeansLanded, perSymbol
<1>4. CASE Hydrate
  <2>1. UNCHANGED <<chain, landed, file, rows, flight>> /\ life = "hydrate" /\ life' = "up"
    BY <1>4 DEF Hydrate
  <2>2. \A s \in Symbols : cache'[s].intent = file[s]
    BY <1>4 DEF Hydrate, Unknown
  <2>3. \A s \in Symbols : notAhead(cache'[s].intent, file'[s])
    BY <2>1, <2>2, NotAheadSelf DEF Shapes, Known, notAhead
  <2> QED
    BY <2>1, <2>3 DEF FollowInv, ChainPassed, FileReady, NothingBeforeUp, WrittenLanded,
                      CacheFollowsChain, ConfirmedMeansLanded
<1>5. ASSUME NEW i \in Intents, RecoverRow(i) PROVE FollowInv'
  <2>1. UNCHANGED <<life, chain, landed, file, flight, cache>>
    BY <1>5 DEF RecoverRow
  <2>2. ConfirmedMeansLanded'
    <3>1. PICK status \in {"confirmed", "failed"} :
            /\ rows' = [rows EXCEPT ![i] = judged(i, status)]
            /\ status = "confirmed" => \E tx \in landed : tx.intent = i
      BY <1>5 DEF RecoverRow
    <3>2. \A k \in DOMAIN judged(i, status) : judged(i, status)[k].status = status
      <4> SUFFICES ASSUME NEW k \in DOMAIN rows[i]
                   PROVE  [rows[i][k] EXCEPT !.status = status].status = status
        BY DEF judged
      <4>1. rows[i] \in Seq(Rows)
        BY DEF Shapes
      <4>2. rows[i][k] \in Rows
        BY <4>1, LenProperties, ElementOfSeq
      <4> QED
        BY <4>2 DEF Rows
    <3>3. PICK f : f = judged(i, status)
      OBVIOUS
    <3>4. /\ rows' = [rows EXCEPT ![i] = f] /\ ConfirmedMeansLanded /\ landed' = landed
          /\ \A k \in DOMAIN f : f[k].status = "confirmed" => \E tx \in landed : tx.intent = i
      BY <2>1, <3>1, <3>2, <3>3 DEF FollowInv
    <3> QED
      BY <3>4, JudgedRowsFollow
  <2> QED
    BY <2>1, <2>2 DEF FollowInv, ChainPassed, FileReady, NothingBeforeUp, WrittenLanded,
                      CacheFollowsChain, perSymbol
<1> QED
  BY <1>1, <1>2, <1>3, <1>4, <1>5

LEMMA NextFollows == Shapes /\ FollowInv /\ [Next]_vars => FollowInv'
<1> SUFFICES ASSUME Shapes, FollowInv, [Next]_vars PROVE FollowInv'
  OBVIOUS
<1>1. CASE \E i \in Intents : EachIntent(i)
  BY <1>1, QuietFollows, RestartFollows DEF EachIntent
<1>2. CASE \E s \in Symbols : EachSymbol(s)
  BY <1>2, QuietFollows, SubmitFollows, ConfirmFollows, CacheConfirmedFollows, RecordFollows
     DEF EachSymbol
<1>3. CASE \E tx \in pending : Land(tx) \/ Evict(tx)
  BY <1>3, QuietFollows, LandFollows
<1>4. CASE Flush \/ RunOneTick \/ Tick \/ UNCHANGED vars
  BY <1>4, QuietFollows
<1>5. CASE Crash \/ Recovered \/ Reconcile \/ Hydrate
  BY <1>5, RestartFollows
<1> QED
  BY <1>1, <1>2, <1>3, <1>4, <1>5 DEF Next

-----------------------------------------------------------------------------
(* Who pays *)

LEMMA InitAccounted == Init => Accounted
BY DEF Init, Accounted, Paid, threatened, underWay, perSymbol, perIntent, Nothing

\* A fault pays for every wait that ends although its transaction may land.
LEMMA WaitsAreAccounted ==
  ASSUME Shapes, ChainPassed, Accounted,
         UNCHANGED <<attempts, chain, pending>>, faults' \in Nat, faults' >= faults,
         \A s \in Symbols :
           \/ flight'[s] = flight[s]
           \/ /\ flight'[s].step # "submitted"
              /\ \/ flight[s].step # "submitted"
                 \/ awaited(s) \notin pending \/ awaited(s) \in landed \/ faults' > faults
  PROVE  Accounted'
<1> SUFFICES ASSUME NEW i \in Intents PROVE Paid(i)'
  BY DEF Accounted
<1> DEFINE s == i.symbol
<1>1. /\ s \in Symbols /\ attempts[i] \in Nat /\ attempts'[i] = attempts[i]
      /\ Paid(i) /\ faults \in Nat /\ faults' \in Nat /\ faults' >= faults
  BY SymbolOf DEF Shapes, Accounted
<1>2. open(i)' <=> open(i)
  BY DEF open, beats
<1>3. CASE flight'[s] = flight[s]
  <2>1. (underWay(i)' <=> underWay(i)) /\ (threatened(i)' <=> threatened(i))
    BY <1>3 DEF underWay, threatened, rival, awaited, open, beats
  <2> QED
    BY <1>1, <1>2, <2>1 DEF Paid
<1>4. CASE /\ flight'[s].step # "submitted"
           /\ flight[s].step # "submitted" \/ awaited(s) \notin pending \/ awaited(s) \in landed
  <2>1. ~underWay(i)'
    BY <1>4 DEF underWay
  <2>2. CASE flight[s].step # "submitted" \/ awaited(s) \notin pending
    <3>1. ~underWay(i) /\ (threatened(i)' => threatened(i))
      BY <1>4, <2>2 DEF underWay, threatened, rival, awaited, open, beats
    <3> QED
      BY <1>1, <1>2, <2>1, <3>1 DEF Paid
  <2>3. CASE awaited(s) \in landed /\ flight[s].step = "submitted"
    <3>1. awaited(s).intent \in Intents /\ awaited(s).intent.symbol = s
      BY <1>1, <2>3 DEF Shapes, ownFlight, awaited
    <3>2. ~open(awaited(s).intent)
      BY <1>1, <2>3, <3>1, PassedCannotBeat DEF ChainPassed, Shapes, open
    <3>3. underWay(i) => ~open(i)
      BY <3>2 DEF underWay, awaited
    <3>4. threatened(i)' => threatened(i)
      BY <3>2, <2>3 DEF threatened, rival, open, beats
    <3> QED
      BY <1>1, <1>2, <2>1, <3>3, <3>4 DEF Paid
  <2> QED
    BY <1>4, <2>2, <2>3
<1>5. CASE flight'[s].step # "submitted" /\ flight[s].step = "submitted" /\ faults' > faults
  <2>1. ~underWay(i)' /\ faults' >= faults + 1
    BY <1>1, <1>5 DEF underWay
  <2>2. CASE underWay(i)
    \* i does not beat itself.
    <3>1. threatened(i)' => threatened(i)
      BY <2>2, <1>5, DispatchParameters DEF underWay, threatened, rival, awaited, beats, open
    <3> QED
      BY <1>1, <1>2, <2>1, <3>1 DEF Paid
  <2>3. CASE ~underWay(i)
    BY <1>1, <1>2, <2>1, <2>3 DEF Paid
  <2> QED
    BY <2>2, <2>3
<1> QED
  BY <1>1, <1>3, <1>4, <1>5

LEMMA SubmitAccounted ==
  ASSUME Shapes, Accounted, NEW s \in Symbols, Submit(s)
  PROVE  Accounted'
<1> USE DEF chainVars, diskVars, cronVars, poolVars, laneVars, bootVars
<1> DEFINE j == flight[s].intent
           n == attempts[j] + 1
           tx == [intent |-> j, n |-> n]
<1>1. /\ j \in Intents /\ j.symbol = s /\ n \in Nat /\ beats(j, chain[s])
      /\ flight[s].step = "queued"
  BY DEF Submit, inFlight, ownFlight, Shapes
<1>2. /\ attempts' = [attempts EXCEPT ![j] = n] /\ chain' = chain
      /\ pending' = pending \cup {tx}
      /\ flight' = [flight EXCEPT ![s] = [intent |-> j, n |-> n, step |-> "submitted"]]
  BY DEF Submit
<1>3. faults \in Nat /\ faults' \in Nat /\ faults' >= faults
  <2>1. recordSubmitted(j, n)
    BY DEF Submit
  <2>2. faults' = faults \/ faults' = faults + 1
    BY <2>1 DEF recordSubmitted, Fault
  <2>3. faults \in Nat
    BY DEF Shapes
  <2> QED
    BY <2>2, <2>3
<1>4. flight'[s] = [intent |-> j, n |-> n, step |-> "submitted"] /\ awaited(s)' = tx
  BY <1>2 DEF Shapes, awaited
<1> SUFFICES ASSUME NEW i \in Intents PROVE Paid(i)'
  BY DEF Accounted
<1>5. /\ attempts[i] \in Nat /\ Paid(i) /\ (open(i)' <=> open(i)) /\ i.symbol \in Symbols
  BY <1>2, SymbolOf DEF Shapes, Accounted, open, beats
<1>6. CASE i.symbol # s
  <2>1. attempts'[i] = attempts[i] /\ flight'[i.symbol] = flight[i.symbol]
    BY <1>1, <1>2, <1>5, <1>6 DEF Shapes
  <2>2. underWay(i)' <=> underWay(i)
    BY <1>1, <1>2, <1>6, <2>1 DEF underWay, awaited
  <2>3. threatened(i)' => threatened(i)
    BY <1>1, <1>2, <1>6, <2>1 DEF threatened, rival, awaited, open, beats
  <2> QED
    BY <1>3, <1>5, <2>1, <2>2, <2>3 DEF Paid
<1>7. CASE i.symbol = s
  <2>1. ~underWay(i)
    BY <1>1, <1>7 DEF underWay
  <2>2. threatened(i)' => threatened(i)
    BY <1>1, <1>2, <1>4, <1>7 DEF threatened, rival, open, beats
  <2>3. CASE i = j
    <3>1. underWay(i)' /\ open(i) /\ attempts'[i] = attempts[i] + 1
      BY <1>1, <1>2, <1>4, <2>3 DEF underWay, open, Shapes
    <3> QED
      BY <1>3, <1>5, <2>1, <2>2, <3>1 DEF Paid
  <2>4. CASE i # j
    <3>1. attempts'[i] = attempts[i] /\ ~underWay(i)'
      BY <1>1, <1>2, <1>4, <1>7, <2>4 DEF underWay, Shapes
    <3> QED
      BY <1>3, <1>5, <2>1, <2>2, <3>1 DEF Paid
  <2> QED
    BY <2>3, <2>4
<1> QED
  BY <1>6, <1>7

\* What lands voids its rivals, which one of them has paid for.
LEMMA LandAccounted ==
  ASSUME Shapes, Accounted, NEW tx \in pending, Land(tx)
  PROVE  Accounted'
<1> USE DEF chainVars, diskVars, cronVars, poolVars, laneVars, bootVars
<1> DEFINE j == tx.intent
           s == j.symbol
<1>1. j \in Intents /\ s \in Symbols /\ open(j) /\ chain[s] \in Known
  BY SymbolOf DEF Land, Shapes, Txs, open
<1>2. /\ UNCHANGED <<attempts, faults, flight>>
      /\ chain' = [chain EXCEPT ![s] = j]
      /\ pending' = {other \in pending : other.intent.symbol # s}
  BY DEF Land
<1> SUFFICES ASSUME NEW i \in Intents PROVE Paid(i)'
  BY DEF Accounted
<1>3. /\ attempts[i] \in Nat /\ faults \in Nat /\ Paid(i) /\ i.symbol \in Symbols
  BY SymbolOf DEF Shapes, Accounted
<1>4. CASE i.symbol # s
  <2>1. open(i)' <=> open(i)
    BY <1>2, <1>3, <1>4 DEF open, beats, Shapes
  <2>2. underWay(i)' <=> underWay(i)
    <3>1. awaited(i.symbol)' = awaited(i.symbol)
      BY <1>2 DEF awaited
    <3>2. flight[i.symbol].intent = i => awaited(i.symbol).intent.symbol # s
      BY <1>4 DEF awaited
    <3> QED
      BY <1>2, <3>1, <3>2 DEF underWay
  <2>3. threatened(i)' => threatened(i)
    <3>1. ASSUME NEW t \in pending', rival(i, t)' PROVE rival(i, t)
      <4>1. t.intent.symbol = i.symbol /\ (open(t.intent)' <=> open(t.intent))
        BY <1>2, <1>3, <1>4, <3>1 DEF rival, open, beats, Shapes
      <4> QED
        BY <1>2, <3>1, <4>1 DEF rival, awaited, beats
    <3> QED
      BY <1>2, <3>1 DEF threatened
  <2> QED
    BY <1>2, <1>3, <2>1, <2>2, <2>3 DEF Paid
<1>5. CASE i.symbol = s
  <2>1. chain'[s] = j /\ (open(i)' <=> beats(i, j))
    BY <1>1, <1>2, <1>5 DEF Shapes, open, beats
  <2>2. ~threatened(i)' /\ ~underWay(i)'
    <3>1. ~threatened(i)'
      BY <1>2, <1>5 DEF threatened, rival
    <3>2. ~underWay(i)'
      BY <1>2, <1>5 DEF underWay, awaited
    <3> QED
      BY <3>1, <3>2
  <2>3. ASSUME beats(i, j) PROVE attempts[i] <= faults
    <3>1. open(i)
      BY <1>1, <1>5, <2>3, BeatsTransitive DEF open
    <3>2. CASE underWay(i)
      <4>1. tx # awaited(s)
        BY <1>1, <2>3, <3>2, <1>5, DispatchParameters DEF underWay, awaited, beats
      <4>2. threatened(i)
        BY <1>1, <1>5, <2>3, <4>1 DEF threatened, rival
      <4> QED
        BY <1>3, <3>1, <4>2 DEF Paid
    <3>3. CASE ~underWay(i)
      BY <1>3, <3>1, <3>3 DEF Paid
    <3> QED
      BY <3>2, <3>3
  <2> QED
    BY <1>2, <1>3, <2>1, <2>2, <2>3 DEF Paid
<1> QED
  BY <1>4, <1>5

LEMMA EvictAccounted ==
  ASSUME Shapes, Accounted, NEW tx \in pending, Evict(tx)
  PROVE  Accounted'
<1> USE DEF chainVars, diskVars, cronVars, poolVars, laneVars, bootVars
<1>1. UNCHANGED <<attempts, chain, flight>> /\ pending' = pending \ {tx} /\ faults' = faults + 1
  BY DEF Evict, Fault
<1> SUFFICES ASSUME NEW i \in Intents PROVE Paid(i)'
  BY DEF Accounted
<1>2. attempts[i] \in Nat /\ faults \in Nat /\ Paid(i) /\ (open(i)' <=> open(i))
  BY <1>1 DEF Shapes, Accounted, open, beats
<1>3. threatened(i)' => threatened(i)
  BY <1>1 DEF threatened, rival, awaited, open, beats
<1>4. underWay(i)' => underWay(i)
  BY <1>1 DEF underWay, awaited
<1> QED
  BY <1>1, <1>2, <1>3, <1>4 DEF Paid

LEMMA QuietAccounted ==
  ASSUME Shapes, ChainPassed, Accounted,
         \/ \E i \in Intents : RouteIntent(i) \/ PreflightRejects(i) \/ HandOver(i) \/ RunTask(i)
         \/ \E i \in Intents : RecoverRow(i)
         \/ RunOneTick \/ Tick \/ Recovered \/ Reconcile \/ Hydrate
         \/ UNCHANGED vars
  PROVE  Accounted'
<1> USE DEF chainVars, diskVars, cronVars, poolVars, laneVars, bootVars
<1>1. UNCHANGED <<attempts, chain, pending, flight>>
  BY DEF RouteIntent, PreflightRejects, HandOver, RunTask, RecoverRow, RunOneTick, Tick,
         Recovered, Reconcile, Hydrate, vars
<1>2. faults' = faults \/ faults' = faults + 1
  BY DEF RouteIntent, PreflightRejects, HandOver, RunTask, RecoverRow, RunOneTick, Tick,
         Recovered, Reconcile, Hydrate, vars, Fault
<1>3. faults' \in Nat /\ faults' >= faults
  BY <1>2 DEF Shapes
<1> QED
  BY <1>1, <1>3, WaitsAreAccounted

LEMMA LaneAccounted ==
  ASSUME Shapes, ChainPassed, Accounted, NEW s \in Symbols,
         \/ Decline(s) \/ Throw(s) \/ TimesOut(s) \/ Confirm(s) \/ CacheConfirmed(s)
         \/ RecordConfirmed(s) \/ RecordFailed(s)
  PROVE  Accounted'
<1> USE DEF chainVars, diskVars, cronVars, poolVars, laneVars, bootVars
<1>1. UNCHANGED <<attempts, chain, pending>> /\ (faults' = faults \/ faults' = faults + 1)
  BY DEF Decline, Throw, TimesOut, Confirm, CacheConfirmed, RecordConfirmed, RecordFailed, Fault
<1>2. faults' \in Nat /\ faults' >= faults
  BY <1>1 DEF Shapes
<1>3. \A t \in Symbols \ {s} : flight'[t] = flight[t]
  BY DEF Decline, Throw, TimesOut, Confirm, CacheConfirmed, RecordConfirmed, RecordFailed,
         resolved, Shapes
<1>4. flight'[s].step # "submitted"
  BY DEF Decline, Throw, TimesOut, Confirm, CacheConfirmed, RecordConfirmed, RecordFailed,
         resolved, Nothing, Shapes, Flights
<1>5. \/ flight[s].step # "submitted" \/ awaited(s) \notin pending \/ awaited(s) \in landed
      \/ faults' > faults
  <2>1. CASE Throw(s)
    BY <2>1 DEF Throw, Fault, Shapes
  <2>2. CASE TimesOut(s) \/ Confirm(s)
    BY <2>2 DEF TimesOut, Confirm, awaited
  <2>3. CASE Decline(s) \/ CacheConfirmed(s) \/ RecordConfirmed(s) \/ RecordFailed(s)
    BY <2>3 DEF Decline, CacheConfirmed, RecordConfirmed, RecordFailed, inFlight
  <2> QED
    BY <2>1, <2>2, <2>3
<1> QED
  BY <1>1, <1>2, <1>3, <1>4, <1>5, WaitsAreAccounted

LEMMA FlushCrashAccounted ==
  ASSUME Shapes, ChainPassed, Accounted, Flush \/ Crash
  PROVE  Accounted'
<1> USE DEF chainVars, diskVars, cronVars, poolVars, laneVars, bootVars
<1>1. CASE Flush
  <2>1. \A s \in Symbols : flight[s].step # "submitted" /\ flight'[s].step # "submitted"
    BY <1>1 DEF Flush, perSymbol, Nothing
  <2>2. UNCHANGED <<attempts, chain, pending, faults>> /\ faults \in Nat
    BY <1>1 DEF Flush, Shapes
  <2> QED
    BY <2>1, <2>2, WaitsAreAccounted
<1>2. CASE Crash
  <2>1. \A s \in Symbols : flight'[s].step # "submitted"
    BY <1>2 DEF Crash, perSymbol, Nothing
  <2>2. UNCHANGED <<attempts, chain, pending>> /\ faults' = faults + 1 /\ faults \in Nat
    BY <1>2 DEF Crash, Fault, Shapes
  <2> QED
    BY <2>1, <2>2, WaitsAreAccounted
<1> QED
  BY <1>1, <1>2

LEMMA NextAccounted == Shapes /\ ChainPassed /\ Accounted /\ [Next]_vars => Accounted'
<1> SUFFICES ASSUME Shapes, ChainPassed, Accounted, [Next]_vars PROVE Accounted'
  OBVIOUS
<1>1. CASE \E i \in Intents : EachIntent(i)
  BY <1>1, QuietAccounted DEF EachIntent
<1>2. CASE \E s \in Symbols : EachSymbol(s)
  BY <1>2, LaneAccounted, SubmitAccounted DEF EachSymbol
<1>3. CASE \E tx \in pending : Land(tx) \/ Evict(tx)
  BY <1>3, LandAccounted, EvictAccounted
<1>4. CASE RunOneTick \/ Tick \/ Recovered \/ Reconcile \/ Hydrate \/ UNCHANGED vars
  BY <1>4, QuietAccounted
<1>5. CASE Flush \/ Crash
  BY <1>5, FlushCrashAccounted
<1> QED
  BY <1>1, <1>2, <1>3, <1>4, <1>5 DEF Next

-----------------------------------------------------------------------------

LEMMA InvHolds == Spec => []Inv
<1>1. Init => Inv
  BY InitShapes, InitFollows, InitAccounted DEF Inv
<1>2. Inv /\ [Next]_vars => Inv'
  BY NextShapes, NextFollows, NextAccounted DEF Inv, FollowInv
<1> QED
  BY <1>1, <1>2, PTL DEF Spec

\* The price cache is never ahead of the pair-state files, nor these of the Pair
\* UTxOs, whatever crashes, lost answers and failing calls come between.
THEOREM CacheIsBehind == Spec => []CacheFollowsChain
<1>1. Inv => CacheFollowsChain
  BY DEF Inv, FollowInv
<1> QED
  BY <1>1, InvHolds, PTL

\* The transaction log calls no intent confirmed of which nothing landed.
THEOREM LogTellsTheTruth == Spec => []ConfirmedMeansLanded
<1>1. Inv => ConfirmedMeansLanded
  BY DEF Inv, FollowInv
<1> QED
  BY <1>1, InvHolds, PTL

\* An intent is submitted once, and once more for each fault at most, over
\* retries, heartbeats, replays and restarts.
THEOREM NobodyPaysForAReplay == Spec => []SubmittedOncePerFailure
<1>1. Inv => SubmittedOncePerFailure
  BY DEF Inv, Accounted, Paid, SubmittedOncePerFailure
<1> QED
  BY <1>1, InvHolds, PTL
=============================================================================
