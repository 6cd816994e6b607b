---------------------------- MODULE OracleLedger ----------------------------
(***************************************************************************)
(* The oracle on chain: the state UTxOs of one deployment and one action   *)
(* for each kind of transaction the off-chain builders submit.  A step is  *)
(* one accepted transaction.  The transaction proposes its outputs and the *)
(* validators of src/contracts/aiken/validators, all the ones it runs      *)
(* together, are the guard.                                                *)
(*                                                                         *)
(* Config, PaymentHook and Receiver NFTs are minted by one-shot policies:  *)
(* Absent -> a live UTxO -> Spent.  Pair NFTs are not: a pair that is      *)
(* burned may be minted again, and copy distinguishes Pair UTxOs that      *)
(* carry the same token name.                                              *)
(***************************************************************************)
EXTENDS OracleData

CONSTANTS
  Clients,     \* every client has one Receiver and its own pair policy
  Copies,      \* Pair UTxOs that may carry one token name at a time (bound)
  DepositIds,  \* side deposits sent during a behaviour (bound)
  MaxTime,     \* last value of the clock, in milliseconds (bound)
  ValidityBackoff,  \* TX_VALIDITY_START_BACK_SLOTS, in milliseconds
  ValidityTtl,      \* how long after it is built an update stays valid
  ExpiryMargin,     \* how long before an intent expires it stops being valid
  Absent,      \* not on chain yet
  Spent        \* consumed for good

VARIABLES
  config,    \* the Config UTxO
  hook,      \* hook[h]: the PaymentHook UTxO of NFT h
  receiver,  \* receiver[c]: the Receiver UTxO of client c
  pair,      \* pair[c, s, k]: a Pair UTxO of client c and symbol s
  deposit,   \* deposit[d]: an output at the deposit address of a client
  now        \* the ledger's time

vars == <<config, hook, receiver, pair, deposit, now>>

PairSlots == Clients \X Symbols \X Copies

Deposit == [client : Clients, lovelace : Coin]

ASSUME MarkersAreNotUtxos ==
  /\ Absent # Spent
  /\ {Absent, Spent} \cap
       (ConfigUtxo \cup PaymentHookUtxo \cup ReceiverUtxo \cup PairUtxo
          \cup Deposit) = {}
  /\ None \notin HookIds /\ None # Coordinator

ASSUME TimesAreNatural ==
  {MaxTime, ValidityBackoff, ValidityTtl, ExpiryMargin} \subseteq Nat

TypeOK ==
  /\ config \in ConfigUtxo \cup {Absent, Spent}
  /\ hook \in [HookIds -> PaymentHookUtxo \cup {Absent, Spent}]
  /\ receiver \in [Clients -> ReceiverUtxo \cup {Absent, Spent}]
  /\ pair \in [PairSlots -> PairUtxo \cup {Absent}]
  /\ deposit \in [DepositIds -> Deposit \cup {Absent, Spent}]
  /\ now \in 0 .. MaxTime

Live(utxo) == utxo \notin {Absent, Spent}

Init ==
  /\ config = Absent
  /\ hook = [h \in HookIds |-> Absent]
  /\ receiver = [c \in Clients |-> Absent]
  /\ pair = [p \in PairSlots |-> Absent]
  /\ deposit = [d \in DepositIds |-> Absent]
  /\ now = 0

\* The Config a transaction shows to the validators, signed by one admin.
ConfigVisible == Live(config)

AdminSigns(signer) ==
  ConfigVisible /\ has_config_signer(config.datum, signer)

-----------------------------------------------------------------------------
(* config_state *)

BootstrapConfig ==
  /\ config = Absent
  /\ \E next \in ConfigUtxo :
       /\ next.datum.payment_hook_ref = None
       /\ valid_config_state(next.datum)
       /\ config_exact_lovelace(next)
       /\ config' = next
  /\ UNCHANGED <<hook, receiver, pair, deposit, now>>

\* The Config output a transaction that spends the Config may create.
ConfigAdminUpdateOutputs(signer) ==
  { next \in ConfigUtxo :
      /\ AdminSigns(signer)
      /\ valid_config_state(config.datum)
      /\ valid_config_state(next.datum)
      /\ config_exact_lovelace(config)
      /\ config_exact_lovelace(next) }

ConfigAdminUpdate(signer) ==
  /\ Live(config)
  /\ config' \in ConfigAdminUpdateOutputs(signer)
  /\ UNCHANGED <<hook, receiver, pair, deposit, now>>

BurnConfig(signer) ==
  /\ AdminSigns(signer)
  /\ config' = Spent
  /\ UNCHANGED <<hook, receiver, pair, deposit, now>>

-----------------------------------------------------------------------------
(* payment_hook.  The bootstrap spends the Config too, to reference the    *)
(* new hook; the builder starts every counter at zero.                     *)

BootstrapHook(h, signer) ==
  /\ hook[h] = Absent
  /\ Live(config)
  /\ config.datum.payment_hook_ref = None
  /\ config.datum.update_coordinator_credential = None
  /\ \E next \in ConfigAdminUpdateOutputs(signer) :
       /\ next.datum.payment_hook_ref = h
       /\ next.datum.update_coordinator_credential = Coordinator
       /\ config' = next
  /\ \E next \in PaymentHookUtxo :
       /\ next.accrued_fees_lovelace = 0
       /\ next.lifetime_collected_lovelace = 0
       /\ next.lifetime_withdrawn_lovelace = 0
       /\ valid_payment_hook_state(next)
       /\ hook_exact_locked(next)
       /\ hook' = [hook EXCEPT ![h] = next]
  /\ UNCHANGED <<receiver, pair, deposit, now>>

\* The checks every spend of a hook that recreates it makes.
HookContinues(previous, next) ==
  /\ valid_payment_hook_state(previous)
  /\ valid_payment_hook_state(next)
  /\ hook_exact_locked(previous)
  /\ hook_exact_locked(next)

HookAdminUpdate(h, signer) ==
  /\ Live(hook[h])
  /\ AdminSigns(signer)
  /\ \E next \in PaymentHookUtxo :
       /\ hook_admin_update_transition(hook[h], next)
       /\ HookContinues(hook[h], next)
       /\ hook' = [hook EXCEPT ![h] = next]
  /\ UNCHANGED <<config, receiver, pair, deposit, now>>

HookWithdraw(h, signer) ==
  /\ Live(hook[h])
  /\ AdminSigns(signer)
  /\ \E next \in PaymentHookUtxo, amount \in Amount :
       /\ hook_withdraw_transition(hook[h], next, amount)
       /\ HookContinues(hook[h], next)
       /\ hook' = [hook EXCEPT ![h] = next]
  /\ UNCHANGED <<config, receiver, pair, deposit, now>>

BurnHook(h, signer) ==
  /\ Live(hook[h])
  /\ AdminSigns(signer)
  /\ hook[h].accrued_fees_lovelace = 0
  /\ hook' = [hook EXCEPT ![h] = Spent]
  /\ UNCHANGED <<config, receiver, pair, deposit, now>>

-----------------------------------------------------------------------------
(* receiver, and the deposits that a spend of it sweeps *)

BootstrapReceiver(c, signer) ==
  /\ receiver[c] = Absent
  /\ AdminSigns(signer)
  /\ valid_config_state(config.datum)
  /\ \E next \in ReceiverUtxo :
       /\ next.balance_lovelace = 0
       /\ next.accrued_to_hook_lovelace = 0
       /\ valid_receiver_state(next)
       /\ receiver_exact_locked(next)
       /\ receiver' = [receiver EXCEPT ![c] = next]
  /\ UNCHANGED <<config, hook, pair, deposit, now>>

\* Mutant: the locked amount of the output is not checked.  Breaks
\* StateUtxosSound.
MutReceiverLooseOutput(previous, next) ==
  /\ valid_receiver_state(previous)
  /\ valid_receiver_state(next)
  /\ receiver_exact_locked(previous)

\* The checks every spend of a Receiver that recreates it makes.
ReceiverContinues(previous, next) ==
  /\ valid_receiver_state(previous)
  /\ valid_receiver_state(next)
  /\ receiver_exact_locked(previous)
  /\ receiver_exact_locked(next)

Swept(D) == SumFunctionOnSet([d \in DepositIds |->
              IF Live(deposit[d]) THEN deposit[d].lovelace ELSE 0], D)

PendingDeposits(c) ==
  { d \in DepositIds : Live(deposit[d]) /\ deposit[d].client = c }

SpendDeposits(D) ==
  deposit' = [d \in DepositIds |-> IF d \in D THEN Spent ELSE deposit[d]]

SendDeposit(d, c) ==
  /\ deposit[d] = Absent
  /\ \E lovelace \in Coin \ {0} :
       deposit' = [deposit EXCEPT ![d] = [client |-> c, lovelace |-> lovelace]]
  /\ UNCHANGED <<config, hook, receiver, pair, now>>

TopUp(c) ==
  /\ Live(receiver[c])
  /\ \E next \in ReceiverUtxo :
       /\ top_up_transition(receiver[c], next)
       /\ ReceiverContinues(receiver[c], next)
       /\ receiver' = [receiver EXCEPT ![c] = next]
  /\ UNCHANGED <<config, hook, pair, deposit, now>>

MergeDeposits(c) ==
  /\ Live(receiver[c])
  /\ \E D \in SUBSET PendingDeposits(c), next \in ReceiverUtxo :
       /\ top_up_transition(receiver[c], next)
       /\ ReceiverContinues(receiver[c], next)
       /\ collect_deposit_ok(receiver[c], next, Swept(D))
       /\ receiver' = [receiver EXCEPT ![c] = next]
       /\ SpendDeposits(D)
  /\ UNCHANGED <<config, hook, pair, now>>

ReceiverWithdraw(c, signer) ==
  /\ Live(receiver[c])
  /\ AdminSigns(signer)
  /\ valid_config_state(config.datum)
  /\ \E next \in ReceiverUtxo, amount \in Amount :
       /\ receiver_withdraw_transition(receiver[c], next, amount)
       /\ ReceiverContinues(receiver[c], next)
       /\ receiver' = [receiver EXCEPT ![c] = next]
  /\ UNCHANGED <<config, hook, pair, deposit, now>>

ReceiverUpdateMinUtxo(c, signer) ==
  /\ Live(receiver[c])
  /\ AdminSigns(signer)
  /\ valid_config_state(config.datum)
  /\ \E next \in ReceiverUtxo, new_min_utxo \in MinUtxo :
       /\ receiver_update_min_utxo_transition(receiver[c], next, new_min_utxo)
       /\ ReceiverContinues(receiver[c], next)
       /\ receiver' = [receiver EXCEPT ![c] = next]
  /\ UNCHANGED <<config, hook, pair, deposit, now>>

BurnReceiver(c, signer) ==
  /\ Live(receiver[c])
  /\ AdminSigns(signer)
  /\ valid_config_state(config.datum)
  /\ receiver[c].balance_lovelace = 0
  /\ receiver[c].accrued_to_hook_lovelace = 0
  /\ receiver' = [receiver EXCEPT ![c] = Spent]
  /\ UNCHANGED <<config, hook, pair, deposit, now>>

-----------------------------------------------------------------------------
(* update_coordinator, with the pair_state, receiver and deposit scripts   *)
(* the same transaction runs.  A witness is the intent it carries; slot    *)
(* says which Pair UTxO the builder found for it, one still Absent meaning *)
(* that it found none and mints the NFT.                                   *)

CoordinatorRuns ==
  /\ Live(config)
  /\ valid_config_state(config.datum)
  /\ config.datum.update_coordinator_credential = Coordinator

\* The Pair outputs the validators accept for one witness.
PairCreateOutputs(intent, lower) ==
  { next \in PairUtxo :
      /\ pair_exact_locked(next)
      /\ initial_pair_matches_witness(next, config.datum, intent)
      /\ intent_freshness_satisfied(intent, lower,
                                    config.datum.max_bootstrap_drift_seconds) }

\* pair_state checks both locked amounts against the current datum.
PairUpdateOutputs(previous, intent) ==
  { next \in PairUtxo :
      /\ previous.lovelace = previous.min_utxo_lovelace
      /\ next.lovelace = previous.min_utxo_lovelace
      /\ next_pair_matches_witness(previous, next, config.datum, intent) }

PairOutputs(utxo, intent, lower) ==
  IF utxo = Absent THEN PairCreateOutputs(intent, lower)
                   ELSE PairUpdateOutputs(utxo, intent)

\* Mutant: a batch pays for one update.  Breaks FeeIsExact.
MutAccrueFeeOnce(c, pair_count, D) ==
  /\ Live(receiver[c])
  /\ \E next \in ReceiverUtxo :
       /\ accrue_fee_transition(receiver[c], next,
                      calculate_protocol_fee(config.datum, 1))
       /\ ReceiverContinues(receiver[c], next)
       /\ D # {} => collect_deposit_ok(receiver[c], next, Swept(D))
       /\ receiver' = [receiver EXCEPT ![c] = next]
  /\ SpendDeposits(D)

\* The Receiver pays for pair_count updates and absorbs the deposits D.
AccrueFee(c, pair_count, D) ==
  /\ Live(receiver[c])
  /\ \E next \in ReceiverUtxo :
       /\ accrue_fee_transition(receiver[c], next,
                      calculate_protocol_fee(config.datum, pair_count))
       /\ ReceiverContinues(receiver[c], next)
       /\ D # {} => collect_deposit_ok(receiver[c], next, Swept(D))
       /\ receiver' = [receiver EXCEPT ![c] = next]
  /\ SpendDeposits(D)

\* The validity range of an update built when the chain tip was at time built;
\* its end is the least of the bounds.
ValidFrom(built) ==
  IF built > ValidityBackoff THEN built - ValidityBackoff ELSE 0

ValidTo(built, W) ==
  LET bounds == {built + ValidityTtl}
                  \cup {i.expiry * Millis - ExpiryMargin : i \in W}
  IN  {t \in bounds : \A other \in bounds : t <= other}

\* One transaction that applies the intents W to pairs of client c.
ApplyIntents(c, W, slot, D, built, signer) ==
  LET target(i) == <<c, i.symbol, slot[i]>>
      accepted(i) == PairOutputs(pair[target(i)], i, ValidFrom(built))
  IN  /\ CoordinatorRuns
      /\ \E upper \in ValidTo(built, W) :
           /\ ValidFrom(built) <= now /\ now < upper
           /\ \A i \in W : intent_expiry_satisfied(i, upper)
      /\ (\E i \in W : pair[target(i)] = Absent) => AdminSigns(signer)
      /\ AccrueFee(c, Cardinality(W), D)
      /\ \E next \in [W -> UNION {accepted(i) : i \in W}] :
           /\ \A i \in W : next[i] \in accepted(i)
           /\ pair' = [p \in PairSlots |->
                         IF \E i \in W : p = target(i)
                         THEN next[CHOOSE i \in W : p = target(i)]
                         ELSE pair[p]]
      /\ UNCHANGED <<config, hook, now>>

ApplySingle(c, signer) ==
  \E intent \in Intents, k \in Copies, D \in SUBSET PendingDeposits(c),
     built \in 0 .. now :
    ApplyIntents(c, {intent}, [i \in {intent} |-> k], D, built, signer)

\* The witnesses of a batch are in strict order of symbol: no symbol twice.
Batches == { W \in SUBSET Intents :
               W # {} /\ \A i, j \in W : i.symbol = j.symbol => i = j }

ApplyBatch(c, signer) ==
  \E W \in Batches, D \in SUBSET PendingDeposits(c), built \in 0 .. now :
    \E slot \in [W -> Copies] : ApplyIntents(c, W, slot, D, built, signer)

-----------------------------------------------------------------------------
(* ApplySettle drains the Receivers of the manifest S into the hook that   *)
(* the Config references.                                                  *)

Drained(S) == SumFunctionOnSet([c \in Clients |->
                IF Live(receiver[c])
                THEN receiver[c].accrued_to_hook_lovelace ELSE 0], S)

SettleOutputs(c) ==
  { next \in ReceiverUtxo :
      /\ settle_transition(receiver[c], next)
      /\ ReceiverContinues(receiver[c], next) }

ApplySettle(S, h, signer) ==
  /\ CoordinatorRuns
  /\ AdminSigns(signer)
  /\ config.datum.payment_hook_ref = h
  /\ Live(hook[h])
  /\ S # {} /\ \A c \in S : Live(receiver[c])
  /\ \E next \in PaymentHookUtxo :
       /\ apply_settle_transition(hook[h], next,
            next.accrued_fees_lovelace - hook[h].accrued_fees_lovelace)
       /\ HookContinues(hook[h], next)
       /\ Drained(S) = next.accrued_fees_lovelace - hook[h].accrued_fees_lovelace
       /\ hook' = [hook EXCEPT ![h] = next]
  /\ \E next \in [S -> UNION {SettleOutputs(c) : c \in S}] :
       /\ \A c \in S : next[c] \in SettleOutputs(c)
       /\ receiver' = [c \in Clients |-> IF c \in S THEN next[c]
                                                   ELSE receiver[c]]
  /\ UNCHANGED <<config, pair, deposit, now>>

-----------------------------------------------------------------------------
(* pair_state, outside updates *)

PairUpdateMinUtxo(p, signer) ==
  /\ pair[p] # Absent
  /\ AdminSigns(signer)
  /\ valid_config_state(config.datum)
  /\ \E next \in PairUtxo :
       /\ next.min_utxo_lovelace > 0
       /\ next.intent = pair[p].intent
       /\ valid_pair_state(pair[p])
       /\ valid_pair_state(next)
       /\ pair_exact_locked(pair[p])
       /\ pair_exact_locked(next)
       /\ pair' = [pair EXCEPT ![p] = next]
  /\ UNCHANGED <<config, hook, receiver, deposit, now>>

\* Mutant: a pair NFT treated as the one-shot NFTs are.  Breaks TypeOK.
MutBurnPairForGood(p, signer) ==
  /\ pair[p] # Absent
  /\ AdminSigns(signer)
  /\ valid_config_state(config.datum)
  /\ pair' = [pair EXCEPT ![p] = Spent]
  /\ UNCHANGED <<config, hook, receiver, deposit, now>>

BurnPair(p, signer) ==
  /\ pair[p] # Absent
  /\ AdminSigns(signer)
  /\ valid_config_state(config.datum)
  /\ pair' = [pair EXCEPT ![p] = Absent]
  /\ UNCHANGED <<config, hook, receiver, deposit, now>>

-----------------------------------------------------------------------------

Tick ==
  /\ now < MaxTime
  /\ now' = now + 1
  /\ UNCHANGED <<config, hook, receiver, pair, deposit>>

ConfigTx(signer) ==
  \/ ConfigAdminUpdate(signer)
  \/ BurnConfig(signer)

HookTx(h, signer) ==
  \/ BootstrapHook(h, signer)
  \/ HookAdminUpdate(h, signer)
  \/ HookWithdraw(h, signer)
  \/ BurnHook(h, signer)

ReceiverTx(c, signer) ==
  \/ BootstrapReceiver(c, signer)
  \/ ReceiverWithdraw(c, signer)
  \/ ReceiverUpdateMinUtxo(c, signer)
  \/ BurnReceiver(c, signer)

PairTx(p, signer) ==
  \/ PairUpdateMinUtxo(p, signer)
  \/ BurnPair(p, signer)

SignedTx(signer) ==
  \/ ConfigTx(signer)
  \/ \E h \in HookIds : HookTx(h, signer)
  \/ \E c \in Clients : ReceiverTx(c, signer)
  \/ \E c \in Clients : ApplySingle(c, signer) \/ ApplyBatch(c, signer)
  \/ \E S \in SUBSET Clients, h \in HookIds : ApplySettle(S, h, signer)
  \/ \E p \in PairSlots : PairTx(p, signer)

Next ==
  \/ BootstrapConfig
  \/ Tick
  \/ \E d \in DepositIds, c \in Clients : SendDeposit(d, c)
  \/ \E c \in Clients : TopUp(c) \/ MergeDeposits(c)
  \/ \E signer \in Wallets : SignedTx(signer)

Spec == Init /\ [][Next]_vars

=============================================================================
