------------------------------ MODULE CliDeploy -----------------------------
(***************************************************************************)
(* The commands that create a deployment (src/offchain/cli/src/init and    *)
(* deploys): each maps the artifacts it has read, and the chain it finds   *)
(* when it builds, to its plans.  Two plans differ in the wallet UTxO a    *)
(* one-shot policy is bound to.                                            *)
(***************************************************************************)
EXTENDS CliState

(* --------------------------- init: no chain ---------------------------- *)

protocolInit(seen, cmd) ==
  plan(TRUE, <<>>,
       <<write(Protocol,
               [config |-> DraftConfig, configRef |-> None,
                hook |-> None, hookRef |-> None,
                scripts |-> [config |-> 0, hook |-> 0], done |-> {}])>>)

(* Only after the bootstrap of the PaymentHook, which links the Config.     *)
clientInit(seen, cmd) ==
  LET p == seen[Protocol]
  IN  plan(p # None /\ p.configRef # None /\ p.hookRef # None /\ p.config.linked, <<>>,
           <<write(Client(cmd.client),
                   [ref |-> None, state |-> None, script |-> 0, done |-> {}])>>)

(* ------------------------ parameterize: no tx -------------------------- *)

(* The recorded wallet UTxO, which must still be there, or any other.      *)
bootstrapChoices(ref, reserved) ==
  IF ref # None THEN coins \cap {ref} ELSE coins \ reserved

configDraft(p) == [p.config EXCEPT !.linked = FALSE]
configParameterize(seen, cmd) ==
  LET p == seen[Protocol]
  IN  UNION {plan(TRUE, <<>>,
                  <<write(Protocol, [p EXCEPT !.configRef = coin, !.done = {},
                                              !.config = configDraft(p)])>>)
             : coin \in IF p = None THEN {} ELSE bootstrapChoices(p.configRef, {})}

hookDraft(p) == [(IF p.hook = None THEN DraftHook ELSE p.hook) EXCEPT !.accrued = 0]
hookParameterize(seen, cmd) ==
  LET p == seen[Protocol]
  IN  UNION {plan(TRUE, <<>>,
                  <<write(Protocol, [p EXCEPT !.hookRef = coin, !.hook = hookDraft(p)])>>)
             : coin \in IF p = None \/ p.configRef = None THEN {}
                        ELSE bootstrapChoices(p.hookRef, {p.configRef})}

receiverDraft == [balance |-> 0, accrued |-> 0, min |-> ReceiverMin]
receiverParameterize(seen, cmd) ==
  LET p == seen[Protocol]  c == seen[Client(cmd.client)]
  IN  UNION {plan(TRUE, <<>>,
                  <<write(Client(cmd.client),
                          [c EXCEPT !.ref = coin, !.state = receiverDraft])>>)
             : coin \in IF c = None \/ p = None \/ p.hookRef = None THEN {}
                        ELSE bootstrapChoices(c.ref, {p.configRef, p.hookRef})}

(* ---------------------- bootstrap: mint one NFT ------------------------ *)

bootstrapConfig(p) == [p.config EXCEPT !.linked = FALSE]
configBootstrap(seen, cmd) ==
  LET p == seen[Protocol]
      next == bootstrapConfig(p)
  IN  plan(/\ p # None /\ "config" \notin p.done
           /\ p.configRef # None /\ p.configRef \in coins,
           <<transaction(one(p.configRef, "key"), {}, one(Config, next))>>,
           <<write(Protocol, [p EXCEPT !.config = next, !.done = @ \cup {"config"}])>>)

bootstrapHook(p) == [p.hook EXCEPT !.accrued = 0]

\* Mutant: the Config the PaymentHook is linked from keeps its old fields.
\* Breaks DeployCompletes.
mut_hook_unlinked(seen, cmd) ==
  LET p == seen[Protocol]
      hook == bootstrapHook(p)
  IN  plan(/\ p # None /\ "hook" \notin p.done /\ p.configRef # None
           /\ live(Config) /\ p.hook # None /\ p.hookRef # None /\ p.hookRef \in coins,
           <<transaction(beside(one(Config, "AdminUpdate"), one(p.hookRef, "key")), {},
                         beside(one(Config, p.config), one(Hook, hook)))>>,
           <<write(Protocol, [p EXCEPT !.hook = hook, !.done = @ \cup {"hook"}])>>)

(* The PaymentHook is minted, and the Config of the file becomes the live  *)
(* one, linked to it.                                                      *)
hookBootstrap(seen, cmd) ==
  LET p == seen[Protocol]
      next == [p.config EXCEPT !.linked = TRUE]
      hook == bootstrapHook(p)
  IN  plan(/\ p # None /\ "hook" \notin p.done /\ p.configRef # None
           /\ live(Config) /\ p.hook # None /\ p.hookRef # None /\ p.hookRef \in coins,
           <<transaction(beside(one(Config, "AdminUpdate"), one(p.hookRef, "key")), {},
                         beside(one(Config, next), one(Hook, hook)))>>,
           <<write(Protocol, [p EXCEPT !.config = next, !.hook = hook,
                                       !.done = @ \cup {"hook"}])>>)

bootstrapReceiver(c) == [c.state EXCEPT !.balance = 0, !.accrued = 0]
receiverBootstrap(seen, cmd) ==
  LET p == seen[Protocol]  c == seen[Client(cmd.client)]
      state == bootstrapReceiver(c)
  IN  plan(/\ c # None /\ "receiver" \notin c.done
           /\ p.config.linked /\ live(Config)
           /\ c.ref # None /\ c.ref \in coins,
           <<transaction(one(c.ref, "key"), {Config},
                         one(Receiver(cmd.client), state))>>,
           <<write(Client(cmd.client),
                   [c EXCEPT !.state = state, !.done = @ \cup {"receiver"}])>>)

(* ------------- reference scripts: publish and read again --------------- *)

publishing(name) == <<transaction(nothing, {}, one(name, None))>>

publishProtocolScript(seen, kind, checks) ==
  LET p == seen[Protocol]  name == newScript(kind)
  IN  plan(p # None /\ checks, publishing(name),
           <<write(Protocol, [p EXCEPT !.scripts = [@ EXCEPT ![kind] = name[3]]])>>)

publishConfigReferenceScripts(seen, cmd) ==
  publishProtocolScript(seen, "config", seen[Protocol].configRef # None)

publishPaymentHookReferenceScript(seen, cmd) ==
  publishProtocolScript(seen, "hook", /\ seen[Protocol].configRef # None
                                      /\ seen[Protocol].hookRef # None)

publishClientReferenceScripts(seen, cmd) ==
  LET c == seen[Client(cmd.client)]  name == newScript(cmd.client)
  IN  plan(c # None /\ seen[Protocol].config.linked /\ c.ref # None,
           publishing(name), <<write(Client(cmd.client), [c EXCEPT !.script = name[3]])>>)

(* The recorded reference scripts that are still there: a transaction that *)
(* finds none attaches the validator itself.                               *)
script(seen, kind) ==
  Script(kind, IF kind \in {"config", "hook"} THEN seen[Protocol].scripts[kind]
                                              ELSE seen[Client(kind)].script)
loadReferenceScriptUtxos(seen, kinds) ==
  {script(seen, k) : k \in kinds} \cap DOMAIN utxo

(* Unpublished or already reclaimed: refused.                              *)
reclaims(seen, kind, file, writes) ==
  plan(seen[file] # None /\ live(script(seen, kind)) /\ live(Config),
       <<transaction(one(script(seen, kind), "Reclaim"), {Config}, nothing)>>, writes)

reclaimGlobalReferenceScript(seen, cmd) ==
  reclaims(seen, cmd.script, Protocol,
           <<write(Protocol, [seen[Protocol] EXCEPT !.scripts = [@ EXCEPT ![cmd.script] = 0]])>>)

reclaimClientReferenceScript(seen, cmd) ==
  reclaims(seen, cmd.client, Client(cmd.client),
           <<write(Client(cmd.client), [seen[Client(cmd.client)] EXCEPT !.script = 0])>>)
=============================================================================
