----------------------------- MODULE CliSession -----------------------------
(***************************************************************************)
(* Operators (an admin at a shell, a deployment script, the upkeep of the  *)
(* feeder's daemon) running commands one after the other over the same     *)
(* chain and the same artifacts.  A command reads its files, later reads   *)
(* the chain, builds and submits, waits for the confirmation and for the   *)
(* UTxOs it left to be the only ones of their NFTs, and then rewrites      *)
(* whole files from the copies it read at the start.  Nothing locks the    *)
(* files.  The updates here are the CLI's; the feeder's own find the pair  *)
(* on chain and wait for their own outputs (FeederLane).                   *)
(*                                                                         *)
(* A transaction lands only while everything it spends or reads is still   *)
(* unspent.  The fault of this module is a command that stops between its  *)
(* submission and its last write: a crash, or a confirmation that was not  *)
(* observed; its transaction may still land.                               *)
(***************************************************************************)
EXTENDS CliClient

CONSTANT Scenarios  \* [name, utxo, files, agenda, faults]

(* ---------------------- the teardown script's verbs -------------------- *)

\* run-teardown-cli.sh reads its amounts from the artifacts.
teardownSettle(seen, cmd) ==
  LET accrued == seen[Client(cmd.client)].state.accrued
      done(p) == [p EXCEPT !.writes =
                    Append(@, write(Recovered, seen[Recovered] + accrued))]
  IN  IF accrued = 0 THEN {}
      ELSE {done(p) : p \in settle(seen, [clients |-> {cmd.client}])}

teardownReceiverWithdraw(seen, cmd) ==
  receiverWithdraw(seen, [client |-> cmd.client,
                          amount |-> seen[Client(cmd.client)].state.balance])

teardownHookWithdraw(seen, cmd) ==
  paymentHookWithdraw(seen, [amount |-> seen[Recovered] + seen[Protocol].hook.accrued])

(* ------------------------------- dispatch ------------------------------ *)

initPlans(seen, cmd) ==
  CASE cmd.op = "protocol:init" -> protocolInit(seen, cmd)
    [] cmd.op = "client:init" -> clientInit(seen, cmd)
    [] OTHER -> {}

protocolPlans(seen, cmd) ==
  CASE cmd.op = "config:parameterize" -> configParameterize(seen, cmd)
    [] cmd.op = "config:reference-scripts" -> publishConfigReferenceScripts(seen, cmd)
    [] cmd.op = "config:bootstrap" -> configBootstrap(seen, cmd)
    [] cmd.op = "config:update" -> configUpdate(seen, cmd)
    [] cmd.op = "payment-hook:bootstrap" -> hookBootstrap(seen, cmd)
    [] cmd.op = "payment-hook:parameterize" -> hookParameterize(seen, cmd)
    [] cmd.op = "payment-hook:reference-script" -> publishPaymentHookReferenceScript(seen, cmd)
    [] cmd.op = "payment-hook:withdraw" -> paymentHookWithdraw(seen, cmd)
    [] cmd.op = "payment-hook:update" -> hookUpdate(seen, cmd)
    [] cmd.op = "settle" -> settle(seen, cmd)
    [] OTHER -> {}

clientPlans(seen, cmd) ==
  CASE cmd.op = "deposit:fund" -> depositFund(seen, cmd)
    [] cmd.op = "deposit:merge" -> depositMerge(seen, cmd)
    [] cmd.op = "receiver:bootstrap" -> receiverBootstrap(seen, cmd)
    [] cmd.op = "receiver:parameterize" -> receiverParameterize(seen, cmd)
    [] cmd.op = "reference-scripts:publish-client" -> publishClientReferenceScripts(seen, cmd)
    [] cmd.op = "receiver:top-up" -> receiverTopUp(seen, cmd)
    [] cmd.op = "receiver:withdraw" -> receiverWithdraw(seen, cmd)
    [] cmd.op = "receiver:update-min-utxo" -> receiverUpdateMinUtxo(seen, cmd)
    [] OTHER -> {}

pairAndBurnPlans(seen, cmd) ==
  CASE cmd.op = "pair:update-min-utxo" -> pairUpdateMinUtxo(seen, cmd)
    [] cmd.op = "pair:burn" -> pairBurn(seen, cmd)
    [] cmd.op = "pair:dedup" -> pairDedup(seen, cmd)
    [] cmd.op = "receiver:burn" -> receiverBurn(seen, cmd)
    [] cmd.op = "payment-hook:burn" -> paymentHookBurn(seen, cmd)
    [] cmd.op = "config:burn" -> configBurn(seen, cmd)
    [] OTHER -> {}

updatePlans(seen, cmd) ==
  CASE cmd.op = "update:batch" -> updateBatch(seen, cmd)
    [] cmd.op = "update" -> update(seen, cmd)
    [] cmd.op = "reclaim:global" -> reclaimGlobalReferenceScript(seen, cmd)
    [] cmd.op = "reclaim:client" -> reclaimClientReferenceScript(seen, cmd)
    [] OTHER -> {}

teardownPlans(seen, cmd) ==
  CASE cmd.op = "teardown:settle" -> teardownSettle(seen, cmd)
    [] cmd.op = "teardown:receiver:withdraw" -> teardownReceiverWithdraw(seen, cmd)
    [] cmd.op = "teardown:payment-hook:withdraw" -> teardownHookWithdraw(seen, cmd)
    [] OTHER -> {}

plans(seen, cmd) ==
  UNION {initPlans(seen, cmd), protocolPlans(seen, cmd), clientPlans(seen, cmd),
         pairAndBurnPlans(seen, cmd), updatePlans(seen, cmd), teardownPlans(seen, cmd)}

(* A builder evaluates the scripts: what they refuse is never signed.      *)
buildable(seen, cmd) ==
  {p \in plans(seen, cmd) : p.txs # <<>> => Accepts(Head(p.txs))}

-----------------------------------------------------------------------------

Idle == [at |-> "idle", cmd |-> None, seen |-> None, txs |-> <<>>, awaits |-> {},
         writes |-> <<>>]

(* The NFTs a transaction leaves, and every datum one of them had.         *)
stateOf(n) == IF n[1] = "pair" THEN Pair(n[2], n[3]) ELSE n
lived(puts) == {<<stateOf(n), puts[n]>> :
                  n \in {m \in DOMAIN puts :
                           m[1] \in {"config", "hook", "receiver", "pair"}}}
awaited(puts) == {state[1] : state \in lived(puts)}

Init ==
  \E s \in Scenarios :
    /\ scenario = [name |-> s.name, faults |-> s.faults, calm |-> s.faults = 0]
    /\ utxo = s.utxo
    /\ files = s.files
    /\ agenda = s.agenda
    /\ sessions = [o \in Operators |-> Idle]
    /\ adrift = {}
    /\ was = lived(s.utxo)

become(o, session) == sessions' = [sessions EXCEPT ![o] = session]

(* A command starts and reads its artifacts. *)
Open(o) ==
  /\ sessions[o].at = "idle" /\ agenda[o] # <<>>
  /\ \E cmd \in Head(agenda[o]) :
       become(o, [Idle EXCEPT !.at = "ready", !.cmd = cmd, !.seen = files])
  /\ agenda' = [agenda EXCEPT ![o] = Tail(@)]
  /\ UNCHANGED <<utxo, files, adrift, was, scenario>>

(* A check throws, or the scripts refuse what was built. *)
Refuse(o) ==
  /\ sessions[o].at = "ready"
  /\ buildable(sessions[o].seen, sessions[o].cmd) = {}
  /\ become(o, Idle)
  /\ UNCHANGED <<utxo, files, agenda, adrift, was, scenario>>

(* The wallet pays: from the UTxO the transaction already spends, or any. *)
paidBy(t, coin) == [t EXCEPT !.spends = beside(@, one(coin, "key"))]
funded(t) ==
  IF coins = {} \/ coins \cap DOMAIN t.spends # {} THEN {t}
  ELSE {paidBy(t, coin) : coin \in coins}

fundedTxs(txs) ==
  IF txs = <<>> THEN {<<>>} ELSE {<<t>> \o Tail(txs) : t \in funded(Head(txs))}

\* Mutant: a submission counts as a confirmation.  Breaks RecordedWasLive.
mut_submit_unconfirmed(o) ==
  /\ sessions[o].at = "ready"
  /\ \E p \in buildable(sessions[o].seen, sessions[o].cmd) :
       \E txs \in fundedTxs(p.txs) :
         /\ become(o, [Idle EXCEPT !.at = "landed", !.cmd = sessions[o].cmd,
                                   !.writes = p.writes])
         /\ adrift' = adrift \cup ToSet(txs)
  /\ UNCHANGED <<utxo, files, agenda, was, scenario>>

(* Build from the artifacts read and the chain as it is, sign and submit. *)
Submit(o) ==
  /\ sessions[o].at = "ready"
  /\ \E p \in buildable(sessions[o].seen, sessions[o].cmd) :
       \E txs \in fundedTxs(p.txs) :
         become(o, [Idle EXCEPT !.at = IF txs = <<>> THEN "landed" ELSE "sent",
                                !.cmd = sessions[o].cmd, !.txs = txs,
                                !.writes = p.writes])
  /\ UNCHANGED <<utxo, files, agenda, adrift, was, scenario>>

(* What a landing leaves of the transactions that compete with it. *)
conflicts(t, u) == touches(u) \cap DOMAIN t.spends # {}
survivors(t, txs) ==
  [i \in DOMAIN txs |-> IF txs[i] # None /\ conflicts(t, txs[i]) THEN None ELSE txs[i]]

landing(t) ==
  /\ utxo' = applied(t)
  /\ was' = was \cup lived(t.puts)
  /\ adrift' = {u \in adrift \ {t} : ~conflicts(t, u)}

(* The head of the queue is confirmed and seen by the provider. *)
Land(o) ==
  LET s == sessions[o]  t == Head(s.txs)
  IN  /\ s.at = "sent" /\ t # None
      /\ landing(t)
      /\ sessions' =
           [q \in Operators |->
              IF q # o THEN [sessions[q] EXCEPT !.txs = survivors(t, @)]
              ELSE [s EXCEPT !.at = IF Len(s.txs) = 1 THEN "landed" ELSE "sent",
                             !.txs = survivors(t, Tail(@)),
                             !.awaits = awaited(t.puts)]]
      /\ UNCHANGED <<files, agenda, scenario>>

(* Somebody spent an input first: the wait times out and the command throws. *)
Lose(o) ==
  /\ sessions[o].at = "sent" /\ Head(sessions[o].txs) = None
  /\ become(o, Idle)
  /\ UNCHANGED <<utxo, files, agenda, adrift, was, scenario>>

(* The command stops; the operator may run it again.                       *)
Stop(o) ==
  LET s == sessions[o]
  IN  /\ scenario.faults > 0
      /\ s.at \in {"sent", "landed"}
      /\ become(o, Idle)
      /\ adrift' = IF s.at = "sent" THEN adrift \cup ({Head(s.txs)} \ {None}) ELSE adrift
      /\ agenda' \in {agenda, [agenda EXCEPT ![o] = <<{s.cmd}>> \o @]}
      /\ scenario' = [scenario EXCEPT !.faults = @ - 1]
      /\ UNCHANGED <<utxo, files, was>>

(* A transaction nobody waits for lands. *)
LandAdrift ==
  \E t \in adrift :
    /\ landing(t)
    /\ sessions' = [q \in Operators |->
                      [sessions[q] EXCEPT !.txs = survivors(t, @)]]
    /\ UNCHANGED <<files, agenda, scenario>>

(* An awaited NFT is seen in one UTxO only.                                *)
alone(n) == IF n[1] = "pair" THEN Cardinality(copies(n[2], n[3])) = 1 ELSE live(n)
refreshed(s) == \A n \in s.awaits : alone(n)

(* Two UTxOs hold it, or none: the wait times out and the command throws.  *)
NoRefresh(o) ==
  /\ sessions[o].at = "landed" /\ ~refreshed(sessions[o])
  /\ become(o, Idle)
  /\ UNCHANGED <<utxo, files, agenda, adrift, was, scenario>>

(* One file is rewritten; after the last one the command returns. *)
Write(o) ==
  LET s == sessions[o]
  IN  /\ s.at = "landed" /\ refreshed(s)
      /\ IF s.writes = <<>> THEN UNCHANGED files
         ELSE files' = [files EXCEPT ![Head(s.writes).file] = Head(s.writes).content]
      /\ become(o, IF Len(s.writes) <= 1 THEN Idle
                   ELSE [s EXCEPT !.writes = Tail(@), !.awaits = {}])
      /\ UNCHANGED <<utxo, agenda, adrift, was, scenario>>

Next ==
  \/ \E o \in Operators :
       Open(o) \/ Refuse(o) \/ Submit(o) \/ Land(o) \/ Lose(o) \/ Stop(o)
         \/ NoRefresh(o) \/ Write(o)
  \/ LandAdrift

(* A command that runs goes on, and blocks are produced.  Whether a        *)
(* transaction whose command died ever lands is not assumed.               *)
Fairness ==
  \A o \in Operators :
    WF_vars(Open(o) \/ Refuse(o) \/ Submit(o) \/ Land(o) \/ Lose(o)
              \/ NoRefresh(o) \/ Write(o))

Spec == Init /\ [][Next]_vars /\ Fairness
=============================================================================
