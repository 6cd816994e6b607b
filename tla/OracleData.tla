----------------------------- MODULE OracleData -----------------------------
(***************************************************************************)
(* The datums of the oracle's UTxOs and the pure validation rules of the   *)
(* contract library (src/contracts/aiken/lib/dia_cardano_oracle).          *)
(*                                                                         *)
(* A UTxO is its inline datum plus the field lovelace, the ADA physically  *)
(* locked in the output.  A datum may propose any integer of Amount and an *)
(* output any lovelace of Coin: it is the rules below that keep the two    *)
(* consistent.  A DIA intent stands for everything its hash covers, so the *)
(* seven fields a PairDatum copies from the intent are one field, intent.  *)
(***************************************************************************)
EXTENDS Integers, FiniteSets, Functions

CONSTANTS
  Wallets,       \* payment key hashes that may sign a transaction
  SignerKeys,    \* DIA public keys that sign intents
  Domains,       \* EIP-712 domains
  Symbols,       \* price symbols
  Intents,       \* the signed intents DIA has published
  ConfigDatums,  \* the Config datums an admin may propose
  HookIds,       \* PaymentHook NFTs, each minted by a one-shot policy
  Coordinator,   \* the update_coordinator's stake credential
  None,          \* the Option value None of a datum
  Amount,        \* integers proposed for an accounting field of a datum
  MinUtxo,       \* integers proposed for a min_utxo_lovelace field
  Coin,          \* lovelace proposed for an output
  Millis         \* milliseconds per second: 1000 in the code

ASSUME AmountsAreIntegers ==
  /\ Amount \subseteq Int
  /\ MinUtxo \subseteq Int
  /\ Coin \subseteq Nat
  /\ Millis \in Nat \ {0}

ASSUME IntentsAreSigned ==
  Intents \subseteq [symbol : Symbols, timestamp : Int, nonce : Int,
                     expiry : Int, signer : SignerKeys, domain : Domains]

ASSUME IntentsAreFinite == IsFiniteSet(Intents)

ASSUME ConfigDatumsAreWellTyped ==
  ConfigDatums \subseteq
    [config_admins : SUBSET Wallets,
     authorized_dia_public_keys : SUBSET SignerKeys,
     domain_data : Domains,
     base_fee_lovelace : Int,
     per_pair_fee_lovelace : Int,
     payment_hook_ref : HookIds \cup {None},
     update_coordinator_credential : {Coordinator, None},
     max_bootstrap_drift_seconds : Int,
     min_utxo_lovelace : Int]

-----------------------------------------------------------------------------
(* UTxOs an output of a transaction may propose *)

ConfigUtxo == [datum : ConfigDatums, lovelace : Coin]

PaymentHookUtxo ==
  [withdraw_address : Wallets, accrued_fees_lovelace : Amount,
   lifetime_collected_lovelace : Amount, lifetime_withdrawn_lovelace : Amount,
   min_utxo_lovelace : MinUtxo, lovelace : Coin]

ReceiverUtxo ==
  [balance_lovelace : Amount, accrued_to_hook_lovelace : Amount,
   min_utxo_lovelace : MinUtxo, lovelace : Coin]

PairUtxo == [intent : Intents, min_utxo_lovelace : MinUtxo, lovelace : Coin]

-----------------------------------------------------------------------------
(* config_logic *)

has_config_signer(datum, signer) == signer \in datum.config_admins

hook_and_coordinator_are_consistent(datum) ==
  (datum.payment_hook_ref = None) <=>
    (datum.update_coordinator_credential = None)

valid_config_state(datum) ==
  /\ datum.config_admins # {}
  /\ datum.authorized_dia_public_keys # {}
  /\ datum.base_fee_lovelace >= 0
  /\ datum.per_pair_fee_lovelace >= 0
  /\ hook_and_coordinator_are_consistent(datum)
  /\ datum.max_bootstrap_drift_seconds >= 0
  /\ datum.min_utxo_lovelace > 0

calculate_protocol_fee(datum, pair_count) ==
  datum.base_fee_lovelace + pair_count * datum.per_pair_fee_lovelace

config_exact_lovelace(utxo) == utxo.lovelace = utxo.datum.min_utxo_lovelace

-----------------------------------------------------------------------------
(* oracle_logic.  A validity range is [lower, upper), in milliseconds; the *)
(* times of an intent are in seconds.                                      *)

valid_pair_state(pair) ==
  /\ pair.intent.timestamp >= 0
  /\ pair.intent.nonce >= 0
  /\ pair.min_utxo_lovelace > 0

pair_exact_locked(pair) == pair.lovelace = pair.min_utxo_lovelace

\* Mutant: freshness by nonce alone.  Breaks PairAdvances.
mut_fresh_by_nonce(previous, intent) ==
  intent.nonce > previous.intent.nonce

is_fresh_update(previous, intent) ==
  /\ intent.timestamp > previous.intent.timestamp
  /\ intent.nonce > previous.intent.nonce

intent_expiry_satisfied(intent, upper) == intent.expiry * Millis >= upper

\* Mutant: milliseconds compared with seconds.  Breaks PublishedInTime.
mut_lower_in_seconds(intent, lower, max_drift_seconds) ==
  intent.timestamp * Millis >= lower \div Millis - max_drift_seconds * Millis

intent_freshness_satisfied(intent, lower, max_drift_seconds) ==
  intent.timestamp * Millis >= lower - max_drift_seconds * Millis

has_valid_signature(datum, intent) ==
  /\ intent.timestamp >= 0 /\ intent.nonce >= 0 /\ intent.expiry >= 0
  /\ intent.signer \in datum.authorized_dia_public_keys
  /\ intent.domain = datum.domain_data

next_pair_matches_witness(previous, next, datum, intent) ==
  /\ valid_pair_state(previous)
  /\ valid_pair_state(next)
  /\ previous.intent.symbol = next.intent.symbol
  /\ previous.min_utxo_lovelace = next.min_utxo_lovelace
  /\ next.intent = intent
  /\ is_fresh_update(previous, intent)
  /\ has_valid_signature(datum, intent)

\* Mutant: the new datum is not tied to the witness.  Breaks
\* PairsCarryTheirSymbol.
mut_initial_pair_free(next, datum, intent) ==
  valid_pair_state(next) /\ has_valid_signature(datum, intent)

initial_pair_matches_witness(next, datum, intent) ==
  /\ valid_pair_state(next)
  /\ next.intent = intent
  /\ has_valid_signature(datum, intent)

-----------------------------------------------------------------------------
(* receiver_logic *)

valid_receiver_state(receiver) ==
  /\ receiver.balance_lovelace >= 0
  /\ receiver.accrued_to_hook_lovelace >= 0
  /\ receiver.min_utxo_lovelace > 0

receiver_exact_locked(receiver) ==
  receiver.lovelace = receiver.min_utxo_lovelace + receiver.balance_lovelace
                        + receiver.accrued_to_hook_lovelace

top_up_transition(previous, next) ==
  LET added == next.lovelace - previous.lovelace
  IN  /\ added > 0
      /\ next.balance_lovelace = previous.balance_lovelace + added
      /\ next.accrued_to_hook_lovelace = previous.accrued_to_hook_lovelace
      /\ next.min_utxo_lovelace = previous.min_utxo_lovelace

\* Mutant: a fee may be charged while lovelace leaves.  Breaks KeepsBooks.
mut_accrue_and_leak(previous, next, fee) ==
  LET added == next.lovelace - previous.lovelace
  IN  /\ fee >= 0
      /\ fee <= previous.balance_lovelace + added
      /\ next.balance_lovelace = previous.balance_lovelace - fee + added
      /\ next.accrued_to_hook_lovelace = previous.accrued_to_hook_lovelace + fee
      /\ next.min_utxo_lovelace = previous.min_utxo_lovelace

accrue_fee_transition(previous, next, fee) ==
  LET added == next.lovelace - previous.lovelace
  IN  /\ fee >= 0
      /\ added >= 0
      /\ fee <= previous.balance_lovelace + added
      /\ next.balance_lovelace = previous.balance_lovelace - fee + added
      /\ next.accrued_to_hook_lovelace = previous.accrued_to_hook_lovelace + fee
      /\ next.min_utxo_lovelace = previous.min_utxo_lovelace

settle_transition(previous, next) ==
  /\ previous.accrued_to_hook_lovelace > 0
  /\ next.accrued_to_hook_lovelace = 0
  /\ next.balance_lovelace = previous.balance_lovelace
  /\ next.min_utxo_lovelace = previous.min_utxo_lovelace

receiver_withdraw_transition(previous, next, amount) ==
  /\ amount > 0
  /\ amount <= previous.balance_lovelace
  /\ next.balance_lovelace = previous.balance_lovelace - amount
  /\ next.accrued_to_hook_lovelace = previous.accrued_to_hook_lovelace
  /\ next.min_utxo_lovelace = previous.min_utxo_lovelace

receiver_update_min_utxo_transition(previous, next, new_min_utxo) ==
  /\ new_min_utxo > 0
  /\ next.min_utxo_lovelace = new_min_utxo
  /\ next.balance_lovelace = previous.balance_lovelace
  /\ next.accrued_to_hook_lovelace = previous.accrued_to_hook_lovelace

-----------------------------------------------------------------------------
(* payment_hook_logic *)

valid_payment_hook_state(hook) ==
  /\ hook.accrued_fees_lovelace >= 0
  /\ hook.lifetime_collected_lovelace >= 0
  /\ hook.lifetime_withdrawn_lovelace >= 0
  /\ hook.min_utxo_lovelace > 0

hook_exact_locked(hook) ==
  hook.lovelace = hook.min_utxo_lovelace + hook.accrued_fees_lovelace

hook_admin_update_transition(previous, next) ==
  /\ next.accrued_fees_lovelace = previous.accrued_fees_lovelace
  /\ next.lifetime_collected_lovelace = previous.lifetime_collected_lovelace
  /\ next.lifetime_withdrawn_lovelace = previous.lifetime_withdrawn_lovelace

apply_settle_transition(previous, next, delta) ==
  /\ delta > 0
  /\ next.withdraw_address = previous.withdraw_address
  /\ next.min_utxo_lovelace = previous.min_utxo_lovelace
  /\ next.accrued_fees_lovelace = previous.accrued_fees_lovelace + delta
  /\ next.lifetime_collected_lovelace =
       previous.lifetime_collected_lovelace + delta
  /\ next.lifetime_withdrawn_lovelace = previous.lifetime_withdrawn_lovelace

\* Mutant: a payout is not recorded.  Breaks HookBooksBalance.
mut_withdraw_unrecorded(previous, next, amount) ==
  /\ amount > 0
  /\ amount <= previous.accrued_fees_lovelace
  /\ next.withdraw_address = previous.withdraw_address
  /\ next.min_utxo_lovelace = previous.min_utxo_lovelace
  /\ next.accrued_fees_lovelace = previous.accrued_fees_lovelace - amount
  /\ next.lifetime_collected_lovelace = previous.lifetime_collected_lovelace
  /\ next.lifetime_withdrawn_lovelace = previous.lifetime_withdrawn_lovelace

hook_withdraw_transition(previous, next, amount) ==
  /\ amount > 0
  /\ amount <= previous.accrued_fees_lovelace
  /\ next.withdraw_address = previous.withdraw_address
  /\ next.min_utxo_lovelace = previous.min_utxo_lovelace
  /\ next.accrued_fees_lovelace = previous.accrued_fees_lovelace - amount
  /\ next.lifetime_collected_lovelace = previous.lifetime_collected_lovelace
  /\ next.lifetime_withdrawn_lovelace =
       previous.lifetime_withdrawn_lovelace + amount

-----------------------------------------------------------------------------
(* deposit_logic: a sweep must raise the Receiver by all that it takes *)

\* Mutant: any increase satisfies every swept deposit at once.  Breaks
\* DepositsReachTheirOwner.
mut_collect_any_increase(previous, next, swept) ==
  swept > 0 /\ next.lovelace > previous.lovelace

collect_deposit_ok(previous, next, swept) ==
  /\ swept > 0
  /\ next.lovelace - previous.lovelace >= swept

=============================================================================
