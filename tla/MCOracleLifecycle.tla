------------------------- MODULE MCOracleLifecycle -------------------------
(***************************************************************************)
(* OracleSafety for TLC, with the UTxOs' life at the centre: bootstraps,   *)
(* admin updates that propose invalid Configs, changes of every minimum    *)
(* UTxO value, burns, a second hook after the first, and a second UTxO for *)
(* a pair.  One client, one intent, fees of 1.                             *)
(***************************************************************************)
EXTENDS OracleSafety

CONSTANTS admin, key, dom, btc, h1, h2, c1, d1

MCIntents == {[symbol |-> btc, timestamp |-> 1, nonce |-> 1, expiry |-> 4,
               signer |-> key, domain |-> dom]}

MCConfigDatum(admins, keys, fee, ref, coordinator, min_utxo) ==
  [config_admins |-> admins, authorized_dia_public_keys |-> keys,
   domain_data |-> dom, base_fee_lovelace |-> fee, per_pair_fee_lovelace |-> 1,
   payment_hook_ref |-> ref, update_coordinator_credential |-> coordinator,
   max_bootstrap_drift_seconds |-> 1, min_utxo_lovelace |-> min_utxo]

MCConfigDatums ==
  { MCConfigDatum({admin}, {key}, 0, None, None, 1),
    MCConfigDatum({admin}, {key}, 0, h1, Coordinator, 2),
    MCConfigDatum({admin}, {key}, 0, h2, Coordinator, 1),
    MCConfigDatum({}, {key}, 0, h1, Coordinator, 1),
    MCConfigDatum({admin}, {}, 0, h1, Coordinator, 1),
    MCConfigDatum({admin}, {key}, -1, h1, Coordinator, 1),
    MCConfigDatum({admin}, {key}, 0, h1, None, 1),
    MCConfigDatum({admin}, {key}, 0, None, None, 0) }

MCAmount == -1 .. 1
MCMinUtxo == 0 .. 2
MCCoin == 0 .. 3
=============================================================================
