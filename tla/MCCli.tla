------------------------------- MODULE MCCli --------------------------------
(* Two clients, two symbols, an operator and a peer beside it: another     *)
(* shell, or the daemon's upkeep.                                          *)
EXTENDS CliProperties

CONSTANTS c1, c2, ada, btc, op, peer, treasury, vault

MCDraftConfig == [fee |-> 1, min |-> 2, linked |-> FALSE]
MCDraftHook == [to |-> treasury, min |-> 2, accrued |-> 0]

cmd(name) == [op |-> name]
of(name, c) == [op |-> name, client |-> c]
amount(name, c, n) == [op |-> name, client |-> c, amount |-> n]
updateTo(nonce, fold) ==
  [op |-> "update", client |-> c1, symbol |-> ada, nonce |-> nonce, fold |-> fold]
batchTo(nonce) == [op |-> "update:batch", client |-> c1, intents |-> (ada :> nonce) @@ (btc :> nonce)]
onPair(name) == [op |-> name, client |-> c1, symbol |-> ada]
minOf(name, n) == [op |-> name, client |-> c1, symbol |-> ada, min |-> n]

only(cmds) == [i \in DOMAIN cmds |-> {cmds[i]}]

-----------------------------------------------------------------------------
(* scripts/run-all-cli.sh on an empty chain *)

NoFiles == [f \in Files |-> IF f = Recovered THEN 0 ELSE None]

protocolRunbook ==
  <<cmd("protocol:init"), cmd("config:parameterize"), cmd("config:bootstrap"),
    cmd("config:reference-scripts"), cmd("payment-hook:parameterize"),
    cmd("payment-hook:bootstrap"), cmd("payment-hook:reference-script")>>
clientRunbook(c) ==
  <<of("client:init", c), of("receiver:parameterize", c), of("receiver:bootstrap", c),
    of("reference-scripts:publish-client", c)>>
firstUpdates == <<amount("receiver:top-up", c1, 5), updateTo(1, FALSE), batchTo(2)>>

run(name, opening, disk, agendas, faults) ==
  [name |-> name, utxo |-> opening, files |-> disk, agenda |-> agendas,
   faults |-> faults]

deploy(cmds, faults) ==
  run("deploy", (<<"coin", 1>> :> None) @@ (<<"coin", 2>> :> None), NoFiles,
      (op :> only(cmds)) @@ (peer :> <<>>), faults)

wholeDeploy ==
  deploy(protocolRunbook \o clientRunbook(c1) \o clientRunbook(c2) \o firstUpdates, 0)
brokenDeploy == deploy(protocolRunbook \o clientRunbook(c1), 1)

-----------------------------------------------------------------------------
(* A deployment that runs *)

config == [MCDraftConfig EXCEPT !.linked = TRUE]
receiver(balance, accrued) == [balance |-> balance, accrued |-> accrued, min |-> ReceiverMin]
pair(nonce) == [nonce |-> nonce, min |-> 2]

running(accrued, balance, owed, nonce) ==
  (Config :> config) @@ (Hook :> [MCDraftHook EXCEPT !.accrued = accrued])
    @@ (Receiver(c1) :> receiver(balance, owed)) @@ (Receiver(c2) :> receiver(0, owed))
    @@ (<<"script", "config", 1>> :> None) @@ (<<"script", "hook", 1>> :> None)
    @@ (<<"script", c1, 1>> :> None) @@ (<<"script", c2, 1>> :> None)
    @@ (IF nonce = 0 THEN <<>> ELSE <<"pair", c1, ada, 1>> :> pair(nonce))

disk(opening) ==
  [f \in Files |->
     CASE f = Protocol ->
            [config |-> opening[Config], configRef |-> <<"coin", 1>>,
             hook |-> opening[Hook], hookRef |-> <<"coin", 2>>,
             scripts |-> [config |-> 1, hook |-> 1], done |-> {"config", "hook"}]
       [] f = Recovered -> 0
       [] f[1] = "client" ->
            [ref |-> <<"coin", 3>>, state |-> opening[Receiver(f[2])],
             script |-> 1, done |-> {"receiver"}]
       [] f[1] = "pair" ->
            IF Append(f, 1) \in DOMAIN opening THEN opening[Append(f, 1)] ELSE None]

mature(name, opening, agendas, faults) ==
  run(name, opening, disk(opening), agendas, faults)

protocolCommands ==
  {[op |-> "config:update", change |-> [fee |-> 2]],
   [op |-> "config:update", change |-> [min |-> 3]],
   cmd("payment-hook:reference-script"),
   [op |-> "payment-hook:update", change |-> [to |-> vault]],
   [op |-> "payment-hook:withdraw", amount |-> 1],
   [op |-> "settle", clients |-> Clients],
   [op |-> "reclaim:global", script |-> "config"]}
clientCommands ==
  {amount("receiver:top-up", c1, 2), amount("receiver:withdraw", c1, 1),
   [op |-> "receiver:update-min-utxo", client |-> c1, min |-> 3],
   amount("deposit:fund", c1, 1), of("deposit:merge", c1),
   minOf("pair:update-min-utxo", 3), onPair("pair:burn"),
   of("reclaim:client", c1), of("reference-scripts:publish-client", c1), batchTo(3), updateTo(2, TRUE)}
burns == {cmd("payment-hook:burn"), cmd("config:burn"), of("receiver:burn", c1)}
peerCommands == {updateTo(2, TRUE), [op |-> "settle", clients |-> Clients],
                   [op |-> "payment-hook:withdraw", amount |-> 1]}

solo ==
  LET every == protocolCommands \cup clientCommands \cup burns
  IN  mature("solo", running(1, 2, 1, 1) @@ (<<"deposit", c1, 1>> :> 1),
             (op :> <<every, every>>) @@ (peer :> <<>>), 0)

admin(faults) ==
  LET opening == running(1, 3, 1, 1)
  IN  mature("admin", opening,
             (op :> <<protocolCommands \cup clientCommands>>)
               @@ (peer :> <<peerCommands, peerCommands>>), faults)

(* A mint whose artifact was never written, done again, then deduplicated. *)
pairs ==
  mature("pairs", running(0, 4, 0, 0),
         (op :> <<{updateTo(1, FALSE)}, {updateTo(2, FALSE)}, {of("pair:dedup", c1)}>>)
           @@ (peer :> <<{updateTo(3, FALSE)}>>), 1)

teardown ==
  mature("teardown", running(0, 3, 0, 1),
         (op :> only(<<updateTo(2, FALSE), of("deposit:merge", c1),
                       of("teardown:settle", c1), of("teardown:settle", c2),
                       of("teardown:receiver:withdraw", c1), of("teardown:receiver:withdraw", c2),
                       cmd("teardown:payment-hook:withdraw"), onPair("pair:burn"),
                       of("receiver:burn", c1), of("receiver:burn", c2),
                       cmd("payment-hook:burn"),
                       of("reclaim:client", c1), of("reclaim:client", c2),
                       [op |-> "reclaim:global", script |-> "hook"],
                       [op |-> "reclaim:global", script |-> "config"],
                       cmd("config:burn")>>)) @@ (peer :> <<>>), 0)

MCScenarios == {wholeDeploy, brokenDeploy, solo, admin(0), admin(1), pairs}
MCTeardown == {teardown}
=============================================================================
