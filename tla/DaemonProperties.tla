-------------------------- MODULE DaemonProperties --------------------------
(***************************************************************************)
(* What the daemon promises: the properties of Daemon.                     *)
(***************************************************************************)
EXTENDS Daemon

\* The dedup guards and the lanes agree, whatever settles, throws or is lost:
\* a lane holds one merge (settle) exactly while its guard is held, and all
\* lanes together one withdraw exactly while the process-wide guard is held,
\* with any number of overlapping refresh passes
\* (daemon-cmd.ts maybeAutoMergeDeposits, maybeAutoSettle, maybeAutoWithdraw).
GuardsMatchTasks ==
  /\ guards.merging = {c \in Clients : "merge" \in kindsOf(queue[c])}
  /\ guards.settling = {c \in Clients : "settle" \in kindsOf(queue[c])}
  /\ guards.withdrawing <=> \E c \in Clients : "withdraw" \in kindsOf(queue[c])
  /\ \A c, d \in Clients : \A i \in DOMAIN queue[c], j \in DOMAIN queue[d] :
       /\ queue[c][i].kind = queue[d][j].kind
       /\ \/ queue[c][i].kind = "withdraw"
          \/ c = d /\ queue[c][i].kind \in {"merge", "settle"}
       => c = d /\ i = j

\* The persisted totals never count a management transaction that the chain
\* does not have, and, as long as nothing failed and no start wiped them, miss
\* none but those whose write or answer is still under way
\* (daemon-cmd.ts meterManagementTx, db.ts bumpManagementTxTotal).
MeterTrue ==
  \A kind \in Management :
    LET answering == Cardinality({c \in waiting : /\ flight[c].tx.kind = kind
                                                  /\ flight[c].fate = "landed"})
        counted == totals[kind] + unwritten[kind] + answering
    IN /\ counted <= landed[kind]
       /\ faults = 0 /\ ~setup.clean => counted = landed[kind]

\* What a router may be handed: a symbol of some condition, at some price.
intentsOf(c) ==
  [symbol : UNION {extractRouterSymbols(r) : r \in routersOf(c)} \cup {"OTHER"},
   price : {100}]

\* In a configuration that the daemon runs with, no intent reaches a lane
\* through two destinations whose routers name their symbols: one Receiver,
\* one Pair and one coalescer buffer have one source.  A router that names no
\* symbol by eq or in is not compared (validate.ts
\* validateSharedLaneSymbolCollisions, router.ts routeIntent).
oneRequestPerLane(c) ==
  \A intent \in intentsOf(c) :
    \A rd, other \in routeIntent(c, intent) :
      /\ laneKey(rd[1].destinations[rd[2]]) = laneKey(other[1].destinations[other[2]])
      /\ {} \notin {extractRouterSymbols(rd[1]), extractRouterSymbols(other[1])}
      => rd = other

OneRequestPerLane == life = "running" => read(oneRequestPerLane)

starving(c) == account[c].deposit > 0 /\ account[c].balance < Low

\* While the daemon runs, fees come home: accrued fees that reach the threshold
\* are settled, what the PaymentHook accrued is withdrawn, and a starving
\* Receiver with deposits is topped up, in spite of stale snapshots, of two
\* settles contending for the PaymentHook, of lost answers and of restarts,
\* unless the WASM module goes bad (daemon-cmd.ts refreshBalanceGauges,
\* auto-remediation.ts).
FeesComeHome ==
  /\ \A c \in Clients :
       /\ life = "running" /\ account[c].accrued >= AutoSettle
            ~> account[c].accrued < AutoSettle \/ poisoned
       /\ life = "running" /\ starving(c) ~> ~starving(c) \/ poisoned
  /\ life = "running" /\ hook >= AutoWithdraw ~> hook < AutoWithdraw \/ poisoned

funded(c) == account[c].balance >= Fee * MaxBatch

\* The WASM module does not stay bad in a daemon that serves: as long as
\* intents keep coming for a lane whose Receiver can pay, the process gives way
\* to a fresh one.  Only the builds of updates are counted, and a Receiver
\* without balance fails before its build (wasm-failure-guard.ts, daemon-cmd.ts
\* onResult).
PoisonedRestarts ==
  \A c \in Clients : poisoned /\ funded(c) ~> ~(poisoned /\ funded(c))
=============================================================================
