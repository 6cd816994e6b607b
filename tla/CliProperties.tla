---------------------------- MODULE CliProperties ---------------------------
(***************************************************************************)
(* What the artifacts and the admin commands promise.                      *)
(***************************************************************************)
EXTENDS CliSession

(* What a file says of the chain: what it calls deployed, confirmed or     *)
(* updated has a past in W, and the wallet UTxO a bootstrap has consumed   *)
(* is not in N.                                                            *)
Backed(f, x, W) ==
  x # None =>
    /\ f = Protocol =>
         /\ "config" \in x.done => <<Config, x.config>> \in W
         /\ "hook" \in x.done /\ x.hook # None => <<Hook, x.hook>> \in W
    /\ f[1] = "client" =>
         ("receiver" \in x.done /\ x.ref # None => <<Receiver(f[2]), x.state>> \in W)
    /\ f[1] = "pair" => <<f, x>> \in W

gone(ref, N) == ref # None /\ ref[1] = "coin" /\ ref \notin N
Consumed(f, x, N) ==
  x # None =>
    /\ f = Protocol /\ "hook" \in x.done => gone(x.hookRef, N)
    /\ f[1] = "client" /\ "receiver" \in x.done /\ x.ref # None => gone(x.ref, N)

Shaped(f, x) ==
  x # None =>
    /\ f = Protocol =>
         DOMAIN x = {"config", "configRef", "hook", "hookRef", "scripts", "done"}
    /\ f[1] = "client" => DOMAIN x = {"ref", "state", "script", "done"}

(* A client's file after receiver:burn: bootstrapped, and no receiver.     *)
Burned(f, x) ==
  f[1] = "client" /\ x # None /\ "receiver" \in x.done /\ x.ref = None

(* The commands an operator has before it, as a sequence of choices.       *)
Offers(queue, i, op, c) == \E cmd \in queue[i] : cmd.op = op /\ cmd.client = c
Ordered(queues) ==
  \A c \in Clients, o, q \in Operators :
    \A i \in DOMAIN queues[o], j \in DOMAIN queues[q] :
      Offers(queues[o], i, "receiver:burn", c)
        /\ Offers(queues[q], j, "receiver:parameterize", c) => o = q /\ j < i
NoneOffers(queues, op, c) ==
  \A o \in Operators : \A i \in DOMAIN queues[o] : ~Offers(queues[o], i, op, c)

ClientOps ==
  {"client:init", "receiver:parameterize", "receiver:bootstrap",
   "reference-scripts:publish-client", "reclaim:client", "deposit:fund", "deposit:merge",
   "receiver:top-up", "receiver:withdraw", "receiver:update-min-utxo", "receiver:burn",
   "update", "update:batch", "pair:update-min-utxo", "pair:burn", "pair:dedup",
   "teardown:settle", "teardown:receiver:withdraw"}
Command(cmd) ==
  /\ cmd.op \in ClientOps => cmd.client \in Clients
  /\ cmd.op \in {"update", "pair:update-min-utxo", "pair:burn"} => cmd.symbol \in Symbols
  /\ cmd.op = "update" => cmd.nonce \in Nat
  /\ cmd.op = "update:batch" =>
       DOMAIN cmd.intents \subseteq Symbols /\ \A s \in DOMAIN cmd.intents : cmd.intents[s] \in Nat
  /\ cmd.op = "pair:update-min-utxo" => cmd.min \in Int
  /\ cmd.op = "settle" => cmd.clients \subseteq Clients

(* Every scenario opens with files the chain bears out, and parameterizes  *)
(* no receiver after its burn.                                             *)
ASSUME ScenariosAreSound ==
  \A s \in Scenarios :
    /\ DOMAIN s.files = Files /\ DOMAIN s.agenda = Operators
    /\ IsFiniteSet(DOMAIN s.utxo)
    /\ \A f \in Files :
         /\ Shaped(f, s.files[f])
         /\ Backed(f, s.files[f], lived(s.utxo))
         /\ Consumed(f, s.files[f], DOMAIN s.utxo)
         /\ Burned(f, s.files[f]) => NoneOffers(s.agenda, "receiver:parameterize", f[2])
    /\ Ordered(s.agenda)
    /\ \A o \in Operators :
         /\ s.agenda[o] \in Seq(ToSet(s.agenda[o]))
         /\ \A i \in DOMAIN s.agenda[o] : \A cmd \in s.agenda[o][i] : Command(cmd)

(* A file holds what is live in U: the Config, the PaymentHook, the one    *)
(* copy of its pair.  The coin that a live Config was minted from is gone. *)
PairDatums == [nonce : Int, min : Int]
IsCopy(n, pair) == n[1] = "pair" /\ n[2] = pair[2] /\ n[3] = pair[3]
Mirrors(f, x, U) ==
  /\ f = Protocol =>
       /\ Config \in DOMAIN U => x.config = U[Config]
       /\ Hook \in DOMAIN U => x.hook = U[Hook] /\ "hook" \in x.done
       /\ x # None /\ {Config, Hook} \cap DOMAIN U # {} => gone(x.configRef, DOMAIN U)
  /\ f[1] = "pair" =>
       \A n \in DOMAIN U : IsCopy(n, f) =>
         x \in PairDatums /\ x = U[n] /\ \A m \in DOMAIN U : IsCopy(m, f) => m = n

ASSUME NoneIsNoPair == None \notin PairDatums

(* Nobody drafts a protocol anew (protocol:init overwrites its file) that  *)
(* has a Config on chain.                                                  *)
Calls(queue, i, op) == \E cmd \in queue[i] : cmd.op = op
DraftsFirst(queue) ==
  \A i, j \in DOMAIN queue :
    Calls(queue, i, "config:bootstrap") /\ Calls(queue, j, "protocol:init") => j < i
NoDraft(queue) == \A i \in DOMAIN queue : ~Calls(queue, i, "protocol:init")

Alone == {"deploy", "solo"}  \* scenarios of one operator

(* An operator alone begins with files that mirror the chain.              *)
ASSUME SolosAreSound ==
  \A s \in Scenarios : s.name \in Alone /\ s.faults = 0 =>
    /\ \A f \in Files : Mirrors(f, s.files[f], s.utxo)
    /\ \E o \in Operators :
         /\ \A q \in Operators \ {o} : s.agenda[q] = <<>>
         /\ DraftsFirst(s.agenda[o])
         /\ {Config, Hook} \cap DOMAIN s.utxo # {} => NoDraft(s.agenda[o])

-----------------------------------------------------------------------------

(* Whatever an artifact calls deployed, confirmed or updated was once on   *)
(* chain exactly as recorded: no crash, lost confirmation or competing     *)
(* transaction makes a file lead the chain.  (A receiver parameterized     *)
(* again after its burn would: ScenariosAreSound leaves that out.)         *)
RecordedWasLive == \A f \in Files : Backed(f, files[f], was)

(* The fields the builders take from an artifact: the Config, the hook's   *)
(* withdraw address and the pairs' min-UTxO.                               *)
current(seen) ==
  LET p == seen[Protocol]
  IN  /\ p # None /\ live(Config) => p.config = utxo[Config]
      /\ p # None /\ p.hook # None /\ live(Hook) => p.hook.to = utxo[Hook].to
      /\ \A c \in Clients, s \in Symbols :
           seen[Pair(c, s)] # None =>
             \A n \in copies(c, s) : utxo[n].min = seen[Pair(c, s)].min

(* A command whose checks pass over a current artifact is never refused by *)
(* the validators: the commands' own checks imply every rule of CliState   *)
(* (of the rules for a new Config, that is the positive minimum only).     *)
AcceptedWhenCurrent ==
  \A o \in Operators :
    sessions[o].at = "ready" /\ current(sessions[o].seen) =>
      \A p \in plans(sessions[o].seen, sessions[o].cmd) :
        \A t \in ToSet(p.txs) : Accepts(t)

(* One operator, no fault: between commands the artifacts hold the live    *)
(* Config, PaymentHook and pairs.  (A receiver's goes stale: an update     *)
(* writes the pair's alone.)                                               *)
SoloFilesMirrorChain ==
  LET p == files[Protocol]
  IN  scenario.name \in Alone /\ scenario.calm
        /\ (\A o \in Operators : sessions[o].at = "idle") =>
      /\ live(Config) => p.config = utxo[Config]
      /\ live(Hook) => p.hook = utxo[Hook]
      /\ \A c \in Clients, s \in Symbols :
           \A n \in copies(c, s) : files[Pair(c, s)] = utxo[n]

newest(c, s) == Max({utxo[n].nonce : n \in copies(c, s)} \cup {0})

(* Deduplicating a pair that others keep updating or minting never burns   *)
(* the newest price.                                                       *)
NewestSurvives ==
  [][scenario.name = "pairs" =>
       \A c \in Clients, s \in Symbols : newest(c, s)' >= newest(c, s)]_vars

deployed ==
  /\ live(Config) /\ utxo[Config].linked /\ live(Hook)
  /\ \A c \in Clients : /\ live(Receiver(c))
                        /\ files[Client(c)].state.min = utxo[Receiver(c)].min
  /\ files[Protocol].done = {"config", "hook"}

(* The deployment runbook, run once without a fault, ends with everything  *)
(* minted, linked and recorded: no step takes the wallet UTxO another one  *)
(* has reserved.                                                           *)
DeployCompletes ==
  scenario.name = "deploy" /\ scenario.calm => <>[]deployed

-----------------------------------------------------------------------------
(* Refuted *)

(* run-teardown-cli.sh:21: the ordered sequence strands no ADA: once the   *)
(* Config is burned, nothing of the deployment is left.                    *)
NothingStranded ==
  scenario.name = "teardown" /\ ~live(Config) => DOMAIN utxo = {}
=============================================================================
