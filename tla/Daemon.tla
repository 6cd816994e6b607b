------------------------------- MODULE Daemon -------------------------------
(***************************************************************************)
(* The life of the daemon process around the fee loop of Upkeep: it loads  *)
(* and validates its configuration, refuses or starts, opens the database, *)
(* serves its API, reads its knobs, runs, and ends by a signal, a crash or *)
(* the WASM guard; a supervisor starts it again.                           *)
(*                                                                         *)
(* Crash recovery, reconciliation and the price cache of a start are       *)
(* Dispatch's; the scanners are Ingest's.                                  *)
(***************************************************************************)
EXTENDS Upkeep, FeederConfig

CONSTANTS
  Configs,    \* name -> configuration, see FeederConfig
  Setups,     \* what a daemon starts with: a configuration, money and budgets
  MaxBatch    \* event_processor.max_batch_size

Account == [deposit : Nat, balance : Nat, accrued : Nat]

\* What the model does not bound by itself: the failures (stops and crashes
\* among them) of a behaviour, the passes that overlap, whether the WASM module
\* may go bad, and the sizes of the update batches that intents bring a client.
SetupOK(s) ==
  /\ s.purse \in [Clients -> Nat] /\ s.account \in [Clients -> Account]
  /\ s.hook \in Nat /\ s.faults \in Nat
  /\ {s.poison, s.clean, s.bootstrapped} \subseteq BOOLEAN
  /\ s.config \in DOMAIN Configs
  /\ s.batches \in [Clients -> SUBSET (1 .. MaxBatch)]
  /\ s.passes \in 1 .. Passes

ASSUME DaemonParameters == MaxBatch \in Nat /\ \A s \in Setups : SetupOK(s)

VARIABLES
  setup,  \* what the daemon starts with
  life,   \* the step of runDaemon the process is at, or "down"
  code    \* exit code of the last process, 0 before any

vars == <<setup, life, code, upkeepVars>>

\* main.ts and constants.ts: 1 for a refused or failed start.
WASM_FATAL_EXIT_CODE == 17

Init ==
  /\ setup \in Setups
  /\ life = "down" /\ code = 0
  /\ UpkeepInit(setup)

mayFail == faults < setup.faults

----------------------------------------------------------------------------
\* runDaemon

\* --clean deletes the database before the configuration is read.
Start ==
  /\ life = "down"
  /\ life' = "loading"
  /\ totals' = IF setup.clean THEN none ELSE totals
  /\ UNCHANGED <<setup, code, chainVars, laneVars, passes, unwritten, wasmVars, faults>>

\* checkBootstrapStateFiles: the protocol's and every client's file are there.
checkBootstrapStateFiles == setup.bootstrapped

\* The configuration as it was read.
read(P(_)) == \E c \in {Configs[setup.config]} : P(c)

acceptable(c) ==
  /\ loadModularConfig(c)
  /\ validateModularConfig(c)
  /\ checkBootstrapStateFiles
  /\ resolvesSource(c)

accepts == read(acceptable)

exits(exitCode) == life' = "down" /\ code' = exitCode

Refused ==
  /\ life = "loading" /\ ~accepts
  /\ exits(1)
  /\ UNCHANGED <<setup, upkeepVars>>

\* The database is migrated and the API server starts before the knobs are read.
Serve ==
  /\ life = "loading" /\ accepts /\ read(resolveDbConfig)
  /\ life' = "serving"
  /\ UNCHANGED <<setup, code, upkeepVars>>

Throws ==
  /\ \/ life = "loading" /\ accepts /\ ~read(resolveDbConfig)
     \/ life = "serving" /\ ~read(resolvesKnobs)
  /\ exits(1)
  /\ UNCHANGED <<setup, upkeepVars>>

\* The first refresh pass starts at once.
Run ==
  /\ life = "serving" /\ read(resolvesKnobs)
  /\ life' = "running"
  /\ passes' = [passes EXCEPT ![1] = [left |-> Order, seen |-> None]]
  /\ UNCHANGED <<setup, code, chainVars, laneVars, meterVars, wasmVars, faults>>

\* The first signal aborts the scanners and the timers.
Signal ==
  /\ life = "running" /\ mayFail
  /\ life' = "stopping"
  /\ faults' = faults + 1
  /\ UNCHANGED <<setup, code, chainVars, laneVars, passes, meterVars, wasmVars>>

\* The pools stop, the server and the database close; lanes and meter writes
\* are not waited for.
Stop ==
  /\ life = "stopping"
  /\ exits(0)
  /\ Forget
  /\ UNCHANGED <<setup, faults>>

\* A crash, or a second signal.
Crash ==
  /\ life # "down" /\ mayFail
  /\ \E exitCode \in {1, 130} : exits(exitCode)
  /\ Forget
  /\ faults' = faults + 1
  /\ UNCHANGED setup

\* The failed batch brings the streak to the threshold.
WasmExit(c) ==
  /\ life \in {"running", "stopping"}
  /\ queue[c] # <<>> /\ flight[c] = None
  /\ admits(c, 0) /\ poisoned
  /\ running(c).kind = "update"
  /\ shouldExitOnWasmFailures(nextWasmFailureCount(c))
  /\ exits(WASM_FATAL_EXIT_CODE)
  /\ Forget
  /\ UNCHANGED <<setup, faults>>

Boot == Start \/ Refused \/ Serve \/ Throws \/ Run

----------------------------------------------------------------------------
alive == life \in {"running", "stopping"}

processUnchanged == UNCHANGED <<setup, life, code>>

Pass(p) == alive /\ (Read(p) \/ Decide(p)) /\ processUnchanged

Timer(p) == life = "running" /\ p <= setup.passes /\ Tick(p) /\ processUnchanged

Intents(c) ==
  /\ life = "running"
  /\ \E n \in setup.batches[c] : Request(c, n)
  /\ processUnchanged

Lane(c) ==
  /\ alive
  /\ Build(c) \/ Refuse(c) \/ Trap(c) \/ Confirm(c) \/ Outrun(c)
  /\ processUnchanged

Meter == alive /\ (\E kind \in Management : WriteMeter(kind)) /\ processUnchanged

Chain(c) == Land(c) /\ processUnchanged

Faults ==
  /\ alive /\ mayFail
  /\ \/ \E p \in 1 .. Passes : ReadFails(p)
     \/ \E c \in Clients : Fail(c) \/ LoseAnswer(c)
     \/ \E kind \in Management : MeterFails(kind)
     \/ setup.poison /\ Poison
  /\ processUnchanged

Outside == (LandAdrift \/ Expire \/ \E c \in Clients : PayIn(c)) /\ processUnchanged

Next ==
  \/ Boot \/ Signal \/ Stop \/ Crash
  \/ \E c \in Clients : WasmExit(c) \/ Intents(c) \/ Lane(c) \/ Chain(c)
  \/ \E p \in 1 .. Passes : Pass(p) \/ Timer(p)
  \/ Meter \/ Faults \/ Outside

\* The supervisor restarts the process, its timers fire and its promises settle;
\* what a lane waits for lands or is outrun; DIA keeps registering intents.
Fairness ==
  /\ WF_vars(Boot \/ Stop) /\ WF_vars(Meter)
  /\ \A p \in 1 .. Passes : WF_vars(Pass(p)) /\ WF_vars(Timer(p))
  /\ \A c \in Clients : /\ WF_vars(Lane(c) \/ WasmExit(c)) /\ WF_vars(Chain(c))
                        /\ WF_vars(Intents(c))

Spec == Init /\ [][Next]_vars /\ Fairness
=============================================================================
