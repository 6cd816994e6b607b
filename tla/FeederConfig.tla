---------------------------- MODULE FeederConfig ----------------------------
(***************************************************************************)
(* The feeder's configuration: what the loader assembles, what             *)
(* validateModularConfig accepts, what the daemon reads from the knobs,    *)
(* and which routers hand an intent to which lane.                         *)
(*                                                                         *)
(* A scalar is one of the classes of value that some check tells apart; a  *)
(* block that is missing is one whose fields are all "unset", which fails  *)
(* the same checks.  validateX is TRUE when X reports no error; warnings   *)
(* stop nothing and are left out.  Texts of messages and paths are too.    *)
(***************************************************************************)
EXTENDS Integers, FiniteSets, Sequences, Functions

CONSTANT Network   \* the active CARDANO_NETWORK

\* "integer" is one above 1, "fraction" lies between 0 and 1.
Values == {"unset", "integer", "one", "zero", "fraction", "text", "duration", "0s"}

Integral == {"integer", "one"}

Numbers == Integral \cup {"zero", "fraction"}

----------------------------------------------------------------------------
\* issues.ts and the scalar checks

required(v) == v # "unset"

validatePositiveInteger(v) == v \in {"unset"} \cup Integral

validatePositiveNumber(v) == v \in {"unset", "fraction"} \cup Integral

validateRatio(v) == v \in {"unset", "fraction", "one"}

\* A bare number is refused; a text that parses to nothing is not looked at.
requiresDurationSuffix(v) == v \notin Numbers

\* The daemon's own parseDurationMs: a text that starts with no number is read
\* as the default; a number has no trim() and throws.
parseDurationMs(v, default) ==
  CASE v \in {"unset", "text", "zero"} -> default
    [] OTHER -> v

parseThrows(v) == v \in Numbers \ {"zero"}

\* router/policy.ts parses a destination's gates with another parser, which
\* throws on such a text.
gateThrows(v) == v = "text" \/ parseThrows(v)

bigIntThrows(v) == v \in {"fraction", "text", "duration", "0s"}

----------------------------------------------------------------------------
\* infrastructure.<network>.yaml

ShapeFields ==
  {"wallet_shape.working_utxo_count", "wallet_shape.working_utxo_lovelace",
   "wallet_shape.collateral_utxo_count", "wallet_shape.collateral_utxo_lovelace",
   "wallet_shape.min_usable_utxos"}

PoolFields ==
  {"wallet_pool.pool_wallet_low_lovelace", "wallet_pool.pool_wallet_target_lovelace",
   "wallet_pool.main_wallet_reserve_lovelace", "wallet_pool.pool_fund_min_interval_ms"}

ScannerFields == {"block_scanner.block_range", "block_scanner.confirmations"}

ApiFields == {"api.port"}

CardanoFields == {"cardano.confirmation_depth"}

AlertIntegers ==
  {"alerting." \o f : f \in
     {"receiver_balance_low_lovelace", "settle_overdue_lovelace",
      "payment_hook_withdraw_ready_lovelace", "admin_wallet_low_lovelace",
      "oracle_pair_stale_seconds", "price_age_high_seconds",
      "reorg_rate_high_per_hour", "deposit_pending_merge_lovelace",
      "provider_primary_unhealthy_seconds", "provider_secondary_unhealthy_seconds",
      "provider_request_quota_per_day_blockfrost",
      "provider_request_quota_per_day_koios"}}

AlertRatios == {"alerting.provider_request_quota_warn_ratio",
                "alerting.provider_error_rate_warn_ratio"}

AlertFields == AlertIntegers \cup AlertRatios \cup {"alerting.price_deviation_high_percent"}

AutoFields ==
  {"alerting.auto_settle_lovelace", "alerting.auto_withdraw_lovelace",
   "alerting.auto_consolidate_below_lovelace",
   "alerting.admin_wallet_min_collateral_lovelace"}

WorkerFields == {"worker_pool.inflight_timeout_ms", "worker_pool.max_retries",
                 "worker_pool.retry_delay"}

ScannerDurations == {"block_scanner.scan_interval", "block_scanner.head_tracker_interval",
                     "block_scanner.gap_detection_interval"}

WorkerDurations == {"worker_pool.task_timeout", "worker_pool.retry_delay"}

ProcessorDurations ==
  {"event_processor.dedup_cache_ttl", "event_processor.parallel_timeout",
   "event_processor.coalesce_window", "event_processor.max_intent_age"}

HealthDurations == {"health_check.check_interval", "health_check.max_processing_lag"}

MonitorDurations == {"event_monitor.reconnect_interval"}

CronDurations == {"cron_service.tick_interval"}

\* Read by the daemon and not validated.
UncheckedFields == AutoFields \cup {"api.readiness.max_last_confirmed_age",
                                    "block_scanner.max_block_gap", "source.start_block"}

SourceFields == {"source.chain_id", "source.name", "source.rpc_urls"}

InfraFields ==
  UNION {ShapeFields, PoolFields, ScannerFields, ApiFields, CardanoFields, AlertFields,
         WorkerFields, ScannerDurations, WorkerDurations, ProcessorDurations,
         HealthDurations, MonitorDurations, CronDurations, UncheckedFields, SourceFields,
         {"database.dsn"}}

\* The two sizes are compared only when both are given.
validateWalletShape(c) ==
  /\ \A f \in ShapeFields : validatePositiveInteger(c.infra[f])
  /\ \/ "unset" \in {c.infra["wallet_shape.collateral_utxo_lovelace"],
                     c.infra["wallet_shape.working_utxo_lovelace"]}
     \/ "wallet_shape" \notin c.reversed

validateWalletPoolFunding(c) ==
  /\ \A f \in PoolFields : validatePositiveInteger(c.infra[f])
  /\ \/ "unset" \in {c.infra["wallet_pool.pool_wallet_low_lovelace"],
                     c.infra["wallet_pool.pool_wallet_target_lovelace"]}
     \/ "wallet_pool" \notin c.reversed

\* c.wallets is empty for a config without the key, else it holds the list.
validateWallets(c) ==
  \A ws \in c.wallets :
    /\ ws # <<>>
    /\ \A i, j \in DOMAIN ws : ws[i].id = ws[j].id => i = j
    /\ \A i \in DOMAIN ws : /\ ws[i].role \in {"main", "pool"}
                            /\ required(ws[i].id)
                            /\ required(ws[i].private_key_env)
    /\ Cardinality({i \in DOMAIN ws : ws[i].role = "main"}) = 1

validateDatabase(c) ==
  \/ c.driver = "sqlite"
  \/ c.driver = "postgres" /\ required(c.infra["database.dsn"])

validateSource(c) == \A f \in SourceFields : required(c.infra[f])

validateBlockScanner(c) == \A f \in ScannerFields : validatePositiveInteger(c.infra[f])

validateApiConfig(c) == \A f \in ApiFields : validatePositiveInteger(c.infra[f])

validateCardanoRuntime(c) == \A f \in CardanoFields : validatePositiveInteger(c.infra[f])

validateWorkerPool(c) ==
  /\ c.infra["worker_pool.inflight_timeout_ms"] \in Integral
  /\ c.infra["worker_pool.max_retries"] \in {"zero"} \cup Integral
  /\ required(c.infra["worker_pool.retry_delay"])

validateAlerting(c) ==
  /\ \A f \in AlertIntegers : validatePositiveInteger(c.infra[f])
  /\ validatePositiveNumber(c.infra["alerting.price_deviation_high_percent"])
  /\ \A f \in AlertRatios : validateRatio(c.infra[f])
  /\ \A f \in AlertFields : required(c.infra[f])

validateDurationsBlockScanner(c) == \A f \in ScannerDurations : requiresDurationSuffix(c.infra[f])

validateDurationsWorkerPool(c) == \A f \in WorkerDurations : requiresDurationSuffix(c.infra[f])

validateDurationsEventProcessor(c) ==
  \A f \in ProcessorDurations : requiresDurationSuffix(c.infra[f])

validateDurationsHealthCheck(c) == \A f \in HealthDurations : requiresDurationSuffix(c.infra[f])

validateDurationsEventMonitor(c) == \A f \in MonitorDurations : requiresDurationSuffix(c.infra[f])

validateDurationsCronService(c) == \A f \in CronDurations : requiresDurationSuffix(c.infra[f])

validateInfrastructure(c) ==
  /\ validateDatabase(c)
  /\ validateSource(c)
  /\ validateBlockScanner(c)
  /\ validateDurationsBlockScanner(c)
  /\ validateApiConfig(c)
  /\ validateCardanoRuntime(c)
  /\ validateWorkerPool(c)
  /\ validateDurationsWorkerPool(c)
  /\ validateDurationsEventProcessor(c)
  /\ validateDurationsHealthCheck(c)
  /\ validateDurationsEventMonitor(c)
  /\ validateDurationsCronService(c)
  /\ validateAlerting(c)
  /\ validateWallets(c)
  /\ validateWalletPoolFunding(c)
  /\ validateWalletShape(c)

----------------------------------------------------------------------------
\* abi-parser.ts, called while the files are loaded.  An abi is {} where the
\* key is missing, else {fragments}, each fragment a <<type, name>>; a text that
\* is no JSON reads as an empty list, which is refused as well.

assertEveryFragmentValid(fragments) ==
  /\ fragments # <<>>
  /\ \A i \in DOMAIN fragments :
       /\ required(fragments[i][1])
       /\ fragments[i][1] \in {"event", "function"} => required(fragments[i][2])

parseAbiArray(abi) == \E fragments \in abi : assertEveryFragmentValid(fragments)

declares(abi, fragment) ==
  \E fragments \in abi : \E i \in DOMAIN fragments : fragments[i] = fragment

\* Of one or several event fragments, one carries the key of the definition.
parseSingleEventFragment(abi, name) == parseAbiArray(abi) /\ declares(abi, <<"event", name>>)

parseSingleFunctionFragment(abi, method) ==
  parseAbiArray(abi) /\ declares(abi, <<"function", method>>)

\* event.enrichment is {} or holds the one enrichment.
parseEventDefinitions(events) ==
  \A event \in events :
    /\ parseSingleEventFragment(event.abi, event.name)
    /\ \A enrichment \in event.enrichment :
         enrichment.abi # {} => parseSingleFunctionFragment(enrichment.abi, enrichment.method)

parseContracts(contracts) == \A contract \in contracts : parseAbiArray(contract.abi)

parseAllAbis(c) == parseEventDefinitions(c.events) /\ parseContracts(c.contracts)

requireEvent(c, name) == {event \in c.events : event.name = name}

----------------------------------------------------------------------------
\* chains.yaml, contracts.yaml, events.yaml

\* c.malformed: the files that are no YAML, or hold no map under their top key.
readYamlTopLevelMap(c) == c.malformed = {}

validateChainsMap(c) ==
  \A chain \in c.chains :
    required(chain.chain_id) /\ required(chain.name) /\ required(chain.rpc_urls)

validateContractsMap(c) ==
  \A contract \in c.contracts :
    /\ required(contract.address) /\ required(contract.type)
    /\ contract.chain_id \in {chain.chain_id : chain \in c.chains}

EXPECTED_INTENT_REGISTERED_INPUTS ==
  << <<"intentHash", "bytes32", TRUE>>, <<"symbol", "string", TRUE>>,
     <<"price", "uint256", TRUE>>, <<"timestamp", "uint256", FALSE>>,
     <<"signer", "address", FALSE>> >>

\* Length, then name, type and indexed of each: equality.
validateIntentRegisteredShape(inputs) == inputs = EXPECTED_INTENT_REGISTERED_INPUTS

\* What getIntent returns is a tuple with at least these components; no tuple
\* is one without components.
validateGetIntentShape(components) ==
  {"intentType", "version", "chainId", "nonce", "expiry", "symbol", "price",
   "timestamp", "source", "signature", "signer"} \subseteq components

validateEventDefinitionsMap(c) ==
  \A event \in c.events :
    /\ event.abi # {} /\ required(event.data_extraction)
    /\ \A enrichment \in event.enrichment : required(enrichment.method)
    /\ event.name = "IntentRegistered" =>
         /\ validateIntentRegisteredShape(event.inputs)
         /\ \A enrichment \in event.enrichment :
              enrichment.abi # {} => validateGetIntentShape(enrichment.components)

\* The contracts the registry client may read.
registries(c) ==
  {contract \in c.contracts : /\ contract.type = "registry" /\ contract.enabled
                              /\ contract.chain_id = c.sourceChain}

validateSourceContractBinding(c) ==
  required(c.infra["source.chain_id"]) => registries(c) # {}

\* Called after validation: the event has an enrichment, and that an abi.
resolvesSource(c) ==
  /\ registries(c) # {}
  /\ \E event \in requireEvent(c, "IntentRegistered") :
       \E enrichment \in event.enrichment : enrichment.abi # {}

----------------------------------------------------------------------------
\* routers/<network>/*.yaml

SymbolFields == {"event.symbol", "enrichment.fullIntent.Symbol", "enrichment.fullIntent.symbol"}

Comparisons == {"gt", "lt", "gte", "lte"}

Operators == {"in", "not_in", "eq", "neq", "contains"} \cup Comparisons

\* The symbols that conditions name by eq or in.
extractRouterSymbols(router) ==
  UNION {d.value : d \in {x \in Range(router.conditions) :
                            x.field \in SymbolFields /\ x.operator \in {"eq", "in"}}}

laneKey(destination) == <<destination.client, destination.protocol>>

validateRouterDestinationsUseOneClient(router) ==
  \A i, j \in DOMAIN router.destinations :
    router.destinations[i].client = router.destinations[j].client

validateClientCustomerOwnership(routers) ==
  \A r, q \in routers :
    \A i \in DOMAIN r.destinations, j \in DOMAIN q.destinations :
      r.destinations[i].client = q.destinations[j].client =>
        \/ r.customer = q.customer
        \/ "unset" \in {r.customer, q.customer}

\* Mutant: the destinations of one router are not compared.  Breaks
\* OneRequestPerLane.
MutCollisions(routers) ==
  LET enabled == {r \in routers : r.enabled}
  IN \A r, q \in enabled :
       \A i \in DOMAIN r.destinations, j \in DOMAIN q.destinations :
         /\ r.key # q.key
         /\ laneKey(r.destinations[i]) = laneKey(q.destinations[j])
         => extractRouterSymbols(r) \cap extractRouterSymbols(q) = {}

\* Two destinations of enabled routers on one lane name no symbol in common.
validateSharedLaneSymbolCollisions(routers) ==
  LET enabled == {r \in routers : r.enabled}
  IN \A r, q \in enabled :
       \A i \in DOMAIN r.destinations, j \in DOMAIN q.destinations :
         /\ <<r.key, i>> # <<q.key, j>>
         /\ laneKey(r.destinations[i]) = laneKey(q.destinations[j])
         => extractRouterSymbols(r) \cap extractRouterSymbols(q) = {}

validateProcessing(router) ==
  router.processing \cap {"transformations", "processed", "validationDisabled"} = {}

validateTriggers(c, router) ==
  /\ router.events # {}
  /\ router.events \subseteq {event.name : event \in c.events}
  /\ \A condition \in Range(router.conditions) : condition.operator \in Operators

validatePrivateKey(router) == router.key_source # {}

\* method: an EVM destination; both or neither of method and cardano are refused.
validateDestination(c, destination) ==
  /\ destination.variant = {"cardano"}
  /\ required(destination.client) /\ required(destination.protocol)
  /\ destination.contract \subseteq {contract.id : contract \in c.contracts}
  /\ requiresDurationSuffix(destination.staleness)

validateDestinations(c, destinations) ==
  /\ destinations # <<>>
  /\ \A i \in DOMAIN destinations : validateDestination(c, destinations[i])

validateRouter(c, router) ==
  /\ router.unknown = {}
  /\ required(router.customer)
  /\ validateTriggers(c, router)
  /\ validatePrivateKey(router)
  /\ validateProcessing(router)
  /\ validateDestinations(c, router.destinations)
  /\ validateRouterDestinationsUseOneClient(router)

\* router.under: the key a router is listed under, or "unset" for one that is a
\* file's top-level `router`; c.files: per file, its routers.
collectRoutersFromFile(file) ==
  /\ file # <<>>
  /\ \A i \in DOMAIN file : /\ required(file[i].key)
                           /\ file[i].under \in {"unset", file[i].key}

\* A router of another network is left out of the map; an id that is defined
\* twice throws.
targetsNetwork(router) ==
  \A d \in DOMAIN router.destinations :
    "cardano" \in router.destinations[d].variant => router.destinations[d].network = Network

listed(files) ==
  {at \in UNION {{i} \X DOMAIN files[i] : i \in DOMAIN files} :
     targetsNetwork(files[at[1]][at[2]])}

loadRouterDirectory(files) == {files[at[1]][at[2]] : at \in listed(files)}

duplicates(files) ==
  \E at, to \in listed(files) : at # to /\ files[at[1]][at[2]].key = files[to[1]][to[2]].key

\* Nothing throws; a config directory, a folder and a file may be missing.
loadModularConfig(c) ==
  /\ readYamlTopLevelMap(c)
  /\ \A i \in DOMAIN c.files : collectRoutersFromFile(c.files[i])
  /\ ~duplicates(c.files)
  /\ parseAllAbis(c)

routersOf(c) == loadRouterDirectory(c.files)

validateRoutersMap(c) ==
  /\ \A router \in routersOf(c) : validateRouter(c, router)
  /\ validateClientCustomerOwnership(routersOf(c))
  /\ validateSharedLaneSymbolCollisions(routersOf(c))

validateModularConfig(c) ==
  /\ validateInfrastructure(c)
  /\ validateChainsMap(c)
  /\ validateContractsMap(c)
  /\ validateEventDefinitionsMap(c)
  /\ validateRoutersMap(c)
  /\ validateSourceContractBinding(c)

----------------------------------------------------------------------------
\* What the daemon reads once its API server is up

ParsedDurations ==
  {"block_scanner.scan_interval", "event_processor.dedup_cache_ttl",
   "event_monitor.reconnect_interval", "health_check.max_processing_lag",
   "api.readiness.max_last_confirmed_age", "worker_pool.retry_delay"}

BigIntFields ==
  ScannerFields \cup AutoFields \cup
  {"block_scanner.max_block_gap", "source.start_block",
   "alerting.receiver_balance_low_lovelace", "alerting.deposit_pending_merge_lovelace"}

\* The database the daemon opens is the environment's, whatever the file names;
\* a driver that is not PostgreSQL is SQLite.
resolveDbConfig(c) == c.env.driver = "postgres" => required(c.env.dsn)

\* c.state: what config-bootstrap.json holds of configState.
readDepositMinLovelace(c) ==
  required(c.state.depositMinLovelace) /\ ~bigIntThrows(c.state.depositMinLovelace)

readDepositMaxPerUpdateFold(c) == required(c.state.depositMaxPerUpdateFold)

\* A delay of 0 reads as missing, and so does a text; the other required knobs
\* were validated.
resolvesKnobs(c) ==
  /\ readDepositMinLovelace(c) /\ readDepositMaxPerUpdateFold(c)
  /\ \A f \in ParsedDurations : ~parseThrows(c.infra[f])
  /\ parseDurationMs(c.infra["worker_pool.retry_delay"], "0s") # "0s"
  /\ \A f \in BigIntFields : ~bigIntThrows(c.infra[f])

----------------------------------------------------------------------------
\* routing: the registry, the conditions and the destinations' gates

\* Enabled routers subscribed to the event.
forEvent(c) == {r \in routersOf(c) : r.enabled /\ "IntentRegistered" \in r.events}

PriceFields == {"event.price", "enrichment.fullIntent.Price"}

\* The value of a field, or nothing: the symbol is "Symbol" in the full intent,
\* and the event has its hash only.  Conditions here are about symbol and price.
resolveField(field, intent) ==
  CASE field = "enrichment.fullIntent.Symbol" -> {intent.symbol}
    [] field \in PriceFields -> {intent.price}
    [] OTHER -> {}

\* condition.value is the set of values compared with; for contains, the set of
\* symbols that contain the text; for a comparison, no value is not a number.
\* Comparing what is missing, or no number, throws.
compareNumericThrows(condition) ==
  /\ condition.operator \in Comparisons
  /\ condition.field \notin PriceFields \/ condition.value = {}

evaluateCondition(condition, actual) ==
  CASE condition.operator \in {"eq", "in", "contains"} -> actual \cap condition.value # {}
    [] condition.operator \in {"neq", "not_in"} -> actual \cap condition.value = {}
    [] compareNumericThrows(condition) -> FALSE
    [] condition.operator = "gt" -> \A a \in actual, v \in condition.value : a > v
    [] condition.operator = "gte" -> \A a \in actual, v \in condition.value : a >= v
    [] condition.operator = "lt" -> \A a \in actual, v \in condition.value : a < v
    [] condition.operator = "lte" -> \A a \in actual, v \in condition.value : a <= v

holds(router, intent, n) ==
  evaluateCondition(router.conditions[n], resolveField(router.conditions[n].field, intent))

evaluateConditions(router, intent) ==
  \A n \in DOMAIN router.conditions : holds(router, intent, n)

\* The conditions are evaluated in order, up to the first that fails.
conditionsThrow(router, intent) ==
  \E n \in DOMAIN router.conditions :
    /\ compareNumericThrows(router.conditions[n])
    /\ \A i \in 1 .. n - 1 : holds(router, intent, i)

\* A condition that cannot be compared, or a destination whose threshold does
\* not parse, throws, and with it the routing of the intent to every router.
routeThrows(c, intent) ==
  \E r \in forEvent(c) :
    \/ conditionsThrow(r, intent)
    \/ /\ evaluateConditions(r, intent)
       /\ \E i \in DOMAIN r.destinations :
            \/ gateThrows(r.destinations[i].threshold)
            \/ gateThrows(r.destinations[i].staleness)

\* The (router, destination) pairs the intent is handed to when every gate opens.
routeIntent(c, intent) ==
  IF routeThrows(c, intent) THEN {}
  ELSE UNION {{<<r, i>> : i \in DOMAIN r.destinations} :
                     r \in {q \in forEvent(c) : evaluateConditions(q, intent)}}
=============================================================================
