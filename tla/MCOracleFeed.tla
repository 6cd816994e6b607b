---------------------------- MODULE MCOracleFeed ----------------------------
(***************************************************************************)
(* OracleSafety for TLC, with the prices at the centre: one Receiver pays  *)
(* for two pairs, intents arrive late, out of order or signed by a key     *)
(* that the admin rotates away, and batches mix creations with updates.    *)
(***************************************************************************)
EXTENDS OracleSafety

CONSTANTS admin, other, k1, k2, dom, btc, eth, h1, c1, d1

\* Millis is 2 here: the clock advances in half seconds.
MCIntent(s, ts, n, exp, k) ==
  [symbol |-> s, timestamp |-> ts, nonce |-> n, expiry |-> exp,
   signer |-> k, domain |-> dom]

\* The second intent for btc is newer by its timestamp and older by its nonce.
MCIntents == { MCIntent(btc, 0, 1, 2, k1), MCIntent(btc, 1, 0, 2, k1),
               MCIntent(btc, 1, 2, 3, k2), MCIntent(eth, 0, 1, 3, k1) }

MCConfigDatum(admins, keys, ref) ==
  [config_admins |-> admins, authorized_dia_public_keys |-> keys,
   domain_data |-> dom, base_fee_lovelace |-> 1, per_pair_fee_lovelace |-> 1,
   payment_hook_ref |-> ref,
   update_coordinator_credential |-> IF ref = None THEN None ELSE Coordinator,
   max_bootstrap_drift_seconds |-> 0, min_utxo_lovelace |-> 1]

MCConfigDatums ==
  { MCConfigDatum({admin}, {k1}, None), MCConfigDatum({admin}, {k1}, h1),
    MCConfigDatum({other}, {k2}, h1) }

MCAmount == {0, 2, 3, 5}
MCMinUtxo == {1}
MCCoin == {1, 6}
=============================================================================
