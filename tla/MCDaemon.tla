------------------------------- MODULE MCDaemon -------------------------------
(***************************************************************************)
(* Daemon on small instances: the fee loop under failures, a Receiver that *)
(* starves, a WASM module that goes bad, and every configuration that      *)
(* differs from a sound one in one field, or in the layout of its routers. *)
(***************************************************************************)
EXTENDS DaemonProperties, TLC

CONSTANTS a, b

MCClients == {a, b}

----------------------------------------------------------------------------
\* Configurations

durations == UNION {ScannerDurations, WorkerDurations, ProcessorDurations, HealthDurations,
                    MonitorDurations, CronDurations, {"api.readiness.max_last_confirmed_age"}}

soundInfra ==
  [f \in InfraFields |-> CASE f \in durations -> "duration"
                           [] f \in AlertRatios -> "fraction"
                           [] OTHER -> "integer"]

router(key, client, symbols, operator) ==
  [key |-> key, under |-> key, enabled |-> TRUE, customer |-> "customer",
   events |-> {"IntentRegistered"},
   conditions |-> IF operator = "none" THEN <<>>
                  ELSE <<[field |-> "enrichment.fullIntent.Symbol", operator |-> operator,
                          value |-> symbols]>>,
   destinations |-> <<[variant |-> {"cardano"}, network |-> "Preview", client |-> client,
                       protocol |-> "protocol", contract |-> {}, threshold |-> "unset",
                       staleness |-> "duration"]>>,
   processing |-> {}, key_source |-> {"env"}, unknown |-> {}]

getIntent ==
  [method |-> "getIntent", abi |-> {<< <<"function", "getIntent">> >>},
   components |-> {"intentType", "version", "chainId", "nonce", "expiry", "symbol", "price",
                   "timestamp", "source", "signature", "signer"}]

sound ==
  [infra |-> soundInfra, reversed |-> {}, wallets |-> {<<[id |-> "main", role |-> "main",
                                                         private_key_env |-> "KEY"]>>},
   driver |-> "sqlite", sourceChain |-> "1",
   chains |-> {[chain_id |-> "1", name |-> "DIA", rpc_urls |-> "url"]},
   contracts |-> {[id |-> "registry", chain_id |-> "1", address |-> "0x",
                   type |-> "registry", enabled |-> TRUE,
                   abi |-> {<< <<"function", "getIntent">>, <<"constructor", "unset">> >>}]},
   events |-> {[name |-> "IntentRegistered", data_extraction |-> "fields",
                abi |-> {<< <<"event", "IntentRegistered">> >>},
                inputs |-> EXPECTED_INTENT_REGISTERED_INPUTS,
                enrichment |-> {getIntent}]},
   malformed |-> {}, env |-> [driver |-> "sqlite", dsn |-> "unset"],
   state |-> [depositMinLovelace |-> "integer", depositMaxPerUpdateFold |-> "integer"],
   files |-> << <<router("r1", "a", {"BTC"}, "in")>>, <<router("r2", "b", {"BTC"}, "eq")>> >>]

\* One field of the infrastructure file, one other block, or two routers with
\* the conditions that matter, the second in one of the variants; a
\* configuration is known by the choices made for it.
wallet(id, role) == [id |-> id, role |-> role, private_key_env |-> "KEY"]

abis == <<{}, {<<>>}, {<< <<"event", "Other">> >>}, {<< <<"unset", "unset">> >>},
          {<< <<"event", "Other">>, <<"event", "IntentRegistered">> >>}>>

enrichments ==
  <<{}, {[getIntent EXCEPT !.components = {"symbol"}]}, {[getIntent EXCEPT !.abi = {}]},
    {[getIntent EXCEPT !.method = "unset"]}, {[getIntent EXCEPT !.abi = {<<>>}]},
    {[getIntent EXCEPT !.abi = {}, !.method = "unset"]}>>

blocks ==
  <<sound,
    [sound EXCEPT !.reversed = {"wallet_shape"}], [sound EXCEPT !.reversed = {"wallet_pool"}],
    [sound EXCEPT !.driver = "mysql"], [sound EXCEPT !.driver = "postgres"],
    [sound EXCEPT !.driver = "postgres", !.infra["database.dsn"] = "unset"],
    [sound EXCEPT !.wallets = {}], [sound EXCEPT !.wallets = {<<>>}],
    [sound EXCEPT !.wallets = {<<wallet("p", "pool")>>}],
    [sound EXCEPT !.wallets = {<<wallet("m", "main"), wallet("p", "pool")>>}],
    [sound EXCEPT !.wallets = {<<wallet("m", "main"), wallet("m", "pool")>>}],
    [sound EXCEPT !.chains = {}], [sound EXCEPT !.contracts = {}],
    [sound EXCEPT !.sourceChain = "2"], [sound EXCEPT !.events = {}],
    [sound EXCEPT !.contracts = {[c EXCEPT !.enabled = FALSE] : c \in @}],
    [sound EXCEPT !.contracts = {[c EXCEPT !.type = "unset"] : c \in @}],
    [sound EXCEPT !.events = {[e EXCEPT !.inputs = Tail(@)] : e \in @}],
    [sound EXCEPT !.malformed = {"events"}], [sound EXCEPT !.env.driver = "postgres"],
    [sound EXCEPT !.env = [driver |-> "postgres", dsn |-> "text"]],
    [sound EXCEPT !.state.depositMinLovelace = "text"],
    [sound EXCEPT !.state.depositMaxPerUpdateFold = "unset"]>> \o
  [i \in DOMAIN abis |-> [sound EXCEPT !.events = {[e EXCEPT !.abi = abis[i]] : e \in @}]] \o
  [i \in DOMAIN abis |-> [sound EXCEPT !.contracts = {[e EXCEPT !.abi = abis[i]] : e \in @}]] \o
  [i \in DOMAIN enrichments |->
     [sound EXCEPT !.events = {[e EXCEPT !.enrichment = enrichments[i]] : e \in @}]]

priced(operator, value) ==
  [field |-> "enrichment.fullIntent.Price", operator |-> operator, value |-> value]

\* What decides which intents a router takes, and where it sends them.
conditionVariants(r) ==
  <<r, [r EXCEPT !.destinations = @ \o <<[@[1] EXCEPT !.client = "b"]>>],
    [r EXCEPT !.conditions = [i \in DOMAIN @ |-> [@[i] EXCEPT !.operator = "contains"]]],
    [r EXCEPT !.conditions = [i \in DOMAIN @ |-> [@[i] EXCEPT !.field = "event.symbol"]]],
    [r EXCEPT !.conditions = Append(@, priced("gte", {100}))],
    [r EXCEPT !.conditions = Append(@, priced("lt", {}))],
    [r EXCEPT !.conditions = <<priced("gt", {100})>> \o @]>>

\* The other fields of a router.
layoutVariants(r) ==
  <<[r EXCEPT !.enabled = FALSE], [r EXCEPT !.customer = "other"],
    [r EXCEPT !.customer = "unset"], [r EXCEPT !.events = {}],
    [r EXCEPT !.events = {"OrderRegistered"}], [r EXCEPT !.key = "r1", !.under = "r1"],
    [r EXCEPT !.key_source = {}], [r EXCEPT !.unknown = {"field"}],
    [r EXCEPT !.processing = {"transformations"}], [r EXCEPT !.destinations = <<>>],
    [r EXCEPT !.destinations = @ \o @],
    [r EXCEPT !.destinations = @ \o <<[@[1] EXCEPT !.protocol = "another"]>>],
    [r EXCEPT !.destinations[1].network = "Mainnet"],
    [r EXCEPT !.destinations[1].variant = {"cardano", "method"}],
    [r EXCEPT !.destinations[1].contract = {"unknown"}],
    [r EXCEPT !.destinations[1].staleness = "integer"],
    [r EXCEPT !.destinations[1].threshold = "text"],
    [r EXCEPT !.conditions = [i \in DOMAIN @ |-> [@[i] EXCEPT !.operator = "like"]]]>>

routerVariants(r) == conditionVariants(r) \o layoutVariants(r)

\* The second file: a variant alone, or files that list the router otherwise.
routerFiles(r) ==
  [i \in DOMAIN routerVariants(r) |-> <<routerVariants(r)[i]>>] \o
  << <<>>, <<r, r>>, <<[r EXCEPT !.under = "r1"]>>, <<[r EXCEPT !.under = "unset"]>>,
     <<[r EXCEPT !.key = "unset", !.under = "unset"]>>,
     <<r, [r EXCEPT !.key = "r3", !.under = "r3"]>> >>

\* A value of exactly 1 matters to ratios only.
fieldNames ==
  {"field"} \X ((InfraFields \X (Values \ {"one"})) \cup (AlertRatios \X {"one"}))

blockNames == {"block"} \X DOMAIN blocks

\* Every pair of conditions with the variants they decide about, and a few with
\* the layouts.
example == router("r2", "a", {}, "none")

routerNames ==
  {"routers"} \X (({"none", "in", "not_in"} \X {"none", "eq", "in", "not_in"} \X
                   {"a", "b"} \X {{"BTC"}, {"ETH"}} \X DOMAIN conditionVariants(example))
                  \cup
                  ({"in"} \X {"none", "in"} \X {"a", "b"} \X {{"BTC"}, {"ETH"}} \X
                   DOMAIN routerFiles(example)))

MCConfigs ==
  [n \in fieldNames \cup blockNames \cup routerNames |->
     CASE n[1] = "field" -> [sound EXCEPT !.infra[n[2][1]] = n[2][2]]
       [] n[1] = "block" -> blocks[n[2]]
       [] OTHER -> [sound EXCEPT !.files =
                      << <<router("r1", "a", {"BTC"}, n[2][1])>>,
                         routerFiles(router("r2", n[2][3], n[2][4], n[2][2]))[n[2][5]]>>]]

----------------------------------------------------------------------------
\* Setups

empty == [deposit |-> 0, balance |-> 0, accrued |-> 0]

quiet ==
  [purse |-> [c \in MCClients |-> 0], account |-> [c \in MCClients |-> empty], hook |-> 0,
   faults |-> 0, passes |-> 1, poison |-> FALSE, clean |-> FALSE, bootstrapped |-> TRUE,
   batches |-> [c \in MCClients |-> {}], config |-> <<"block", 1>>]

\* Two Receivers to settle through one PaymentHook.
feeLoop == [quiet EXCEPT !.account = [c \in MCClients |-> [empty EXCEPT !.accrued = 2]]]

\* Two passes that overlap over one Receiver's fees.
overlap == [quiet EXCEPT !.account[a].accrued = 2, !.passes = 2, !.faults = 1]

\* Updates wait for a deposit, which a merge or an update itself folds in.
starve == [quiet EXCEPT !.purse[a] = 1, !.batches[a] = {1}, !.faults = 1]

\* More deposits than one merge or one update may take in.
backlog == [quiet EXCEPT !.account[a].deposit = 2, !.batches[a] = {1}]

goesBad == [quiet EXCEPT !.account[a].balance = 2, !.batches[a] = {1, 2}, !.poison = TRUE,
                         !.faults = 1]

MCSetups ==
  {feeLoop, overlap, starve, backlog, goesBad, [overlap EXCEPT !.clean = TRUE, !.passes = 1],
   [quiet EXCEPT !.bootstrapped = FALSE]} \cup
  {[quiet EXCEPT !.config = n] : n \in DOMAIN MCConfigs}
=============================================================================
