------------------------------- MODULE Upkeep -------------------------------
(***************************************************************************)
(* The fee loop of a running daemon: clients pay deposits in, merges fold  *)
(* them into a Receiver, updates turn balance into accrued fees, settles   *)
(* move those to the PaymentHook and withdraws take them to the wallet.    *)
(* Refresh passes read the chain, decide from what they read and put tasks *)
(* on the clients' serial lanes, which the updates share; the meter counts *)
(* what was confirmed.                                                     *)
(*                                                                         *)
(* A lane's update is what FeederLane details; here it builds, lands and   *)
(* answers.  A transaction is named by what it spends: a client's Receiver *)
(* with its deposits, the PaymentHook, or both.  The admin wallet's inputs *)
(* are WalletArbiter's subject.                                            *)
(***************************************************************************)
EXTENDS Integers, FiniteSets, Sequences

CONSTANTS
  Clients,       \* one lane each
  None,          \* no value
  Fee,           \* what an update costs its Receiver
  Low,           \* alerting.receiver_balance_low_lovelace
  PendingMerge,  \* alerting.deposit_pending_merge_lovelace
  AutoSettle,    \* alerting.auto_settle_lovelace
  AutoWithdraw,  \* alerting.auto_withdraw_lovelace
  Passes,        \* refresh passes that may overlap
  WasmFatal,     \* wasmFatalThreshold
  MaxPerMerge,   \* configState.depositMaxPerMerge, 0 for no merge
  MaxPerFold     \* configState.depositMaxPerUpdateFold, 0 for no fold

ASSUME UpkeepParameters ==
  /\ {Fee, Low, PendingMerge, AutoSettle, AutoWithdraw, WasmFatal} \subseteq Nat \ {0}
  /\ {MaxPerMerge, MaxPerFold} \subseteq Nat
  /\ None \notin Clients /\ IsFiniteSet(Clients)

Management == {"merge", "settle", "withdraw"}

\* amount: the intents of an update, or what a withdraw was told to take.
Task == [kind : Management \cup {"update"}, amount : Int]

\* amount: the fee of an update, else what is moved; fold: deposits folded in.
Tx == [kind : Management \cup {"update"}, client : Clients, amount : Int, fold : Int]

Flight == [tx : Tx, fate : {"pending", "landed", "outrun"}]

ASSUME NoneIsNoFlight == None \notin Flight

VARIABLES
  purse,      \* what a client will still pay in
  account,    \* clean deposits of a client, its Receiver's balance and accrued
  hook,       \* accrued at the PaymentHook
  adrift,     \* submitted transactions that no lane waits for any more
  landed,     \* history: management transactions on chain, by kind
  queue,      \* each lane's entries; the first is the one that runs
  flight,     \* the transaction a lane waits for, and what became of it
  guards,     \* mergeInProgress, settleInProgress, withdrawInProgress
  passes,     \* refresh passes under way: lanes left, and what was read of the first
  unwritten,  \* meterManagementTx calls whose write is not done
  totals,     \* management_tx_totals: confirmed, by kind
  poisoned,   \* lucid's WASM module traps on every build
  streak,     \* consecutiveWasmFailures
  faults      \* failures so far

chainVars == <<purse, account, hook, adrift, landed>>
laneVars == <<queue, flight, guards>>
meterVars == <<unwritten, totals>>
wasmVars == <<poisoned, streak>>
upkeepVars == <<chainVars, laneVars, passes, meterVars, wasmVars, faults>>

none == [k \in Management |-> 0]
noGuards == [merging |-> {}, settling |-> {}, withdrawing |-> FALSE]
idle == [left |-> <<>>, seen |-> None]

\* A pass goes over the lanes in the order of the configuration.
Order == CHOOSE s \in [1 .. Cardinality(Clients) -> Clients] :
           \A i, j \in DOMAIN s : s[i] = s[j] => i = j

UpkeepInit(setup) ==
  /\ purse = setup.purse /\ account = setup.account /\ hook = setup.hook
  /\ adrift = {} /\ landed = none
  /\ queue = [c \in Clients |-> <<>>] /\ flight = [c \in Clients |-> None]
  /\ guards = noGuards
  /\ passes = [p \in 1 .. Passes |-> idle]
  /\ unwritten = none /\ totals = none
  /\ poisoned = FALSE /\ streak = 0
  /\ faults = 0

----------------------------------------------------------------------------
\* The decisions a pass takes from what it read

shouldAutoMergeDeposits(seen, inProgress) ==
  /\ ~inProgress
  /\ seen.deposit > 0
  /\ seen.balance < Low \/ seen.deposit >= PendingMerge

\* Mutant: fees exactly at the threshold stay.  Breaks FeesComeHome.
MutShouldAutoSettle(seen, inProgress) == ~inProgress /\ seen.accrued > AutoSettle

shouldAutoSettle(seen, inProgress) == ~inProgress /\ seen.accrued >= AutoSettle

shouldAutoWithdraw(seen, inProgress) == ~inProgress /\ seen.hook >= AutoWithdraw

task(kind, amount) == <<[kind |-> kind, amount |-> amount]>>

\* maybeAutoMergeDeposits, maybeAutoSettle, maybeAutoWithdraw: the tasks that a
\* pass adds to the lane of c, in this order.
enqueued(c, seen) ==
  (IF shouldAutoMergeDeposits(seen, c \in guards.merging) THEN task("merge", 0) ELSE <<>>) \o
  (IF shouldAutoSettle(seen, c \in guards.settling) THEN task("settle", 0) ELSE <<>>) \o
  (IF shouldAutoWithdraw(seen, guards.withdrawing) THEN task("withdraw", seen.hook) ELSE <<>>)

kindsOf(tasks) == {tasks[i].kind : i \in DOMAIN tasks}

held(c, kinds) ==
  [merging |-> guards.merging \cup (IF "merge" \in kinds THEN {c} ELSE {}),
   settling |-> guards.settling \cup (IF "settle" \in kinds THEN {c} ELSE {}),
   withdrawing |-> guards.withdrawing \/ "withdraw" \in kinds]

\* Mutant: a settle keeps its guard.  Breaks GuardsMatchTasks.
MutReleased(c, kind) ==
  [guards EXCEPT !.merging = @ \ (IF kind = "merge" THEN {c} ELSE {}),
                 !.withdrawing = @ /\ kind # "withdraw"]

released(c, kind) ==
  [merging |-> guards.merging \ (IF kind = "merge" THEN {c} ELSE {}),
   settling |-> guards.settling \ (IF kind = "settle" THEN {c} ELSE {}),
   withdrawing |-> guards.withdrawing /\ kind # "withdraw"]

----------------------------------------------------------------------------
\* refreshBalanceGauges: setInterval starts a pass although another still runs.

Tick(p) ==
  /\ passes[p] = idle
  /\ passes' = [passes EXCEPT ![p] = [left |-> Order, seen |-> None]]
  /\ UNCHANGED <<chainVars, laneVars, meterVars, wasmVars, faults>>

snapshotBalances(c) ==
  [deposit |-> account[c].deposit, balance |-> account[c].balance,
   accrued |-> account[c].accrued, hook |-> hook]

Read(p) ==
  /\ passes[p].left # <<>> /\ passes[p].seen = None
  /\ passes' = [passes EXCEPT ![p].seen = snapshotBalances(Head(passes[p].left))]
  /\ UNCHANGED <<chainVars, laneVars, meterVars, wasmVars, faults>>

moveOn(p) == passes' = [passes EXCEPT ![p] = [left |-> Tail(passes[p].left), seen |-> None]]

ReadFails(p) ==
  /\ passes[p].left # <<>> /\ passes[p].seen = None
  /\ moveOn(p)
  /\ faults' = faults + 1
  /\ UNCHANGED <<chainVars, laneVars, meterVars, wasmVars>>

Decide(p) ==
  /\ passes[p].seen # None
  /\ LET c == Head(passes[p].left)
         tasks == enqueued(c, passes[p].seen)
     IN /\ queue' = [queue EXCEPT ![c] = @ \o tasks]
        /\ guards' = held(c, kindsOf(tasks))
  /\ moveOn(p)
  /\ UNCHANGED <<chainVars, flight, meterVars, wasmVars, faults>>

----------------------------------------------------------------------------
\* The lanes

\* Intents arrive: a batch is put on the lane unless one waits there already.
Request(c, intents) ==
  /\ "update" \notin kindsOf(queue[c])
  /\ queue' = [queue EXCEPT ![c] = @ \o task("update", intents)]
  /\ UNCHANGED <<chainVars, flight, guards, passes, meterVars, wasmVars, faults>>

running(c) == Head(queue[c])

\* What the builder checks on the chain before it builds; an update may fold
\* deposits into the balance it pays from.
admits(c, fold) ==
  CASE running(c).kind = "update" -> account[c].balance + fold >= Fee * running(c).amount
    [] running(c).kind = "merge" -> account[c].deposit > 0 /\ MaxPerMerge > 0
    [] running(c).kind = "settle" -> account[c].accrued > 0
    [] OTHER -> running(c).amount <= hook

\* Up to limit clean deposits, each worth one or more: all that there are, or at
\* least limit.
swept(c, limit) == {n \in 0 .. account[c].deposit : n = account[c].deposit \/ n >= limit}

\* The deposits that a transaction may take in.
folds(c) ==
  CASE running(c).kind = "merge" -> swept(c, MaxPerMerge)
    [] running(c).kind = "update" /\ MaxPerFold > 0 -> {0} \cup swept(c, MaxPerFold)
    [] OTHER -> {0}

built(c, fold) ==
  [kind |-> running(c).kind, client |-> c,
   fold |-> IF running(c).kind = "update" THEN fold ELSE 0,
   amount |-> CASE running(c).kind = "update" -> Fee * running(c).amount
                [] running(c).kind = "merge" -> fold
                [] running(c).kind = "settle" -> account[c].accrued
                [] OTHER -> running(c).amount]

\* runWithFoldFallback: with the deposits, or without when that fails.
Build(c) ==
  /\ queue[c] # <<>> /\ flight[c] = None
  /\ ~poisoned
  /\ \E fold \in folds(c) :
       /\ admits(c, fold)
       /\ flight' = [flight EXCEPT ![c] = [tx |-> built(c, fold), fate |-> "pending"]]
  /\ UNCHANGED <<chainVars, queue, guards, passes, meterVars, wasmVars, faults>>

\* The entry settles: its guard is released whether it resolved or threw.
settles(c) ==
  /\ queue' = [queue EXCEPT ![c] = Tail(@)]
  /\ flight' = [flight EXCEPT ![c] = None]
  /\ guards' = released(c, running(c).kind)

\* Nothing to merge or settle, more asked for than there is, or no balance: the
\* attempt without deposits is the last, and its error the one that counts.
Refuse(c) ==
  /\ queue[c] # <<>> /\ flight[c] = None
  /\ ~admits(c, 0)
  /\ poisoned \/ \A fold \in folds(c) : ~admits(c, fold)
  /\ settles(c)
  /\ UNCHANGED <<chainVars, passes, meterVars, wasmVars, faults>>

\* The wallet cannot back the task, or the submission fails.
Fail(c) ==
  /\ queue[c] # <<>> /\ flight[c] = None
  /\ settles(c)
  /\ faults' = faults + 1
  /\ UNCHANGED <<chainVars, passes, meterVars, wasmVars>>

\* Mutant: a trap does not count.  Breaks PoisonedRestarts.
MutNextWasmFailureCount(c) == streak

\* nextWasmFailureCount over the members of the failed batch; tasks do not count.
nextWasmFailureCount(c) ==
  IF running(c).kind = "update" THEN streak + running(c).amount ELSE streak

shouldExitOnWasmFailures(count) == count >= WasmFatal

Trap(c) ==
  /\ queue[c] # <<>> /\ flight[c] = None
  /\ admits(c, 0) /\ poisoned
  /\ ~shouldExitOnWasmFailures(nextWasmFailureCount(c))
  /\ streak' = nextWasmFailureCount(c)
  /\ settles(c)
  /\ UNCHANGED <<chainVars, passes, meterVars, poisoned, faults>>

Poison ==
  /\ ~poisoned
  /\ poisoned' = TRUE
  /\ faults' = faults + 1
  /\ UNCHANGED <<chainVars, laneVars, passes, meterVars, streak>>

\* The awaited transaction is confirmed; a management task is metered.
Confirm(c) ==
  /\ flight[c] # None /\ flight[c].fate = "landed"
  /\ settles(c)
  /\ IF running(c).kind = "update"
     THEN /\ streak' = 0
          /\ UNCHANGED unwritten
     ELSE /\ unwritten' = [unwritten EXCEPT ![running(c).kind] = @ + 1]
          /\ UNCHANGED streak
  /\ UNCHANGED <<chainVars, passes, totals, poisoned, faults>>

\* Another transaction spent its inputs.
Outrun(c) ==
  /\ flight[c] # None /\ flight[c].fate = "outrun"
  /\ settles(c)
  /\ UNCHANGED <<chainVars, passes, meterVars, wasmVars, faults>>

\* Mutant: a lost answer is metered like a confirmed one.  Breaks MeterTrue.
MutLoseAnswer(c) ==
  /\ flight[c] # None /\ flight[c].fate \in {"pending", "landed"}
  /\ adrift' = IF flight[c].fate = "pending" THEN adrift \cup {flight[c].tx} ELSE adrift
  /\ settles(c)
  /\ unwritten' = IF running(c).kind = "update" THEN unwritten
                  ELSE [unwritten EXCEPT ![running(c).kind] = @ + 1]
  /\ faults' = faults + 1
  /\ UNCHANGED <<purse, account, hook, landed, passes, totals, wasmVars>>

\* The confirmation does not come: the transaction may land all the same.
LoseAnswer(c) ==
  /\ flight[c] # None /\ flight[c].fate \in {"pending", "landed"}
  /\ adrift' = IF flight[c].fate = "pending" THEN adrift \cup {flight[c].tx} ELSE adrift
  /\ settles(c)
  /\ faults' = faults + 1
  /\ UNCHANGED <<purse, account, hook, landed, passes, meterVars, wasmVars>>

----------------------------------------------------------------------------
\* The chain

spends(tx) ==
  (IF tx.kind # "withdraw" THEN {tx.client} ELSE {}) \cup
  (IF tx.kind \in {"settle", "withdraw"} THEN {"PaymentHook"} ELSE {})

conflict(tx, other) == spends(tx) \cap spends(other) # {}

effect(a, tx) ==
  CASE tx.kind = "update" -> [deposit |-> a.deposit - tx.fold,
                              balance |-> a.balance - tx.amount + tx.fold,
                              accrued |-> a.accrued + tx.amount]
    [] tx.kind = "merge" -> [a EXCEPT !.deposit = @ - tx.amount, !.balance = @ + tx.amount]
    [] tx.kind = "settle" -> [a EXCEPT !.accrued = 0]
    [] OTHER -> a

lands(tx) ==
  /\ account' = [account EXCEPT ![tx.client] = effect(@, tx)]
  /\ hook' = CASE tx.kind = "settle" -> hook + tx.amount
               [] tx.kind = "withdraw" -> hook - tx.amount
               [] OTHER -> hook
  /\ adrift' = {other \in adrift : ~conflict(tx, other)}
  /\ landed' = IF tx.kind = "update" THEN landed ELSE [landed EXCEPT ![tx.kind] = @ + 1]

\* What becomes of the transactions that lanes wait for when tx lands.
fates(tx, lanes) ==
  [c \in Clients |->
     IF c \in lanes /\ flight[c].fate = "pending" /\ conflict(tx, flight[c].tx)
     THEN [flight[c] EXCEPT !.fate = "outrun"] ELSE flight[c]]

waiting == {c \in Clients : flight[c] # None}

Land(c) ==
  /\ flight[c] # None /\ flight[c].fate = "pending"
  /\ lands(flight[c].tx)
  /\ flight' = [fates(flight[c].tx, waiting \ {c}) EXCEPT ![c] =
                  [flight[c] EXCEPT !.fate = "landed"]]
  /\ UNCHANGED <<purse, queue, guards, passes, meterVars, wasmVars, faults>>

LandAdrift ==
  \E tx \in adrift :
    /\ lands(tx)
    /\ flight' = fates(tx, waiting)
    /\ UNCHANGED <<purse, queue, guards, passes, meterVars, wasmVars, faults>>

Expire ==
  \E tx \in adrift :
    /\ adrift' = adrift \ {tx}
    /\ UNCHANGED <<purse, account, hook, landed, laneVars, passes, meterVars, wasmVars, faults>>

PayIn(c) ==
  /\ \E lovelace \in 1 .. purse[c] :
       /\ purse' = [purse EXCEPT ![c] = @ - lovelace]
       /\ account' = [account EXCEPT ![c].deposit = @ + lovelace]
  /\ UNCHANGED <<hook, adrift, landed, laneVars, passes, meterVars, wasmVars, faults>>

----------------------------------------------------------------------------
\* meterManagementTx runs on its own; a write that fails is only logged.

WriteMeter(kind) ==
  /\ unwritten[kind] > 0
  /\ unwritten' = [unwritten EXCEPT ![kind] = @ - 1]
  /\ totals' = [totals EXCEPT ![kind] = @ + 1]
  /\ UNCHANGED <<chainVars, laneVars, passes, wasmVars, faults>>

MeterFails(kind) ==
  /\ unwritten[kind] > 0
  /\ unwritten' = [unwritten EXCEPT ![kind] = @ - 1]
  /\ faults' = faults + 1
  /\ UNCHANGED <<chainVars, laneVars, passes, totals, wasmVars>>

\* The process ends: what it held in memory is gone, what it submitted is not.
Forget ==
  /\ adrift' = adrift \cup {flight[c].tx : c \in {d \in waiting : flight[d].fate = "pending"}}
  /\ queue' = [c \in Clients |-> <<>>]
  /\ flight' = [c \in Clients |-> None]
  /\ guards' = noGuards
  /\ passes' = [p \in 1 .. Passes |-> idle]
  /\ unwritten' = none
  /\ poisoned' = FALSE /\ streak' = 0
  /\ UNCHANGED <<purse, account, hook, landed, totals>>
=============================================================================
