--------------------------- MODULE MCOracleFunds ---------------------------
(***************************************************************************)
(* OracleSafety for TLC, with the money at the centre: two Receivers that  *)
(* settle into one hook, side deposits, withdrawals, burns and changes of  *)
(* the minimum UTxO value, and a single intent.                            *)
(***************************************************************************)
EXTENDS OracleSafety, TLC

CONSTANTS admin, key, dom, btc, h1, c1, c2, d1, d2

MCIntents == {[symbol |-> btc, timestamp |-> 1, nonce |-> 1, expiry |-> 4,
               signer |-> key, domain |-> dom]}

MCConfigDatums ==
  { [config_admins |-> {admin}, authorized_dia_public_keys |-> {key},
     domain_data |-> dom, base_fee_lovelace |-> 0, per_pair_fee_lovelace |-> 1,
     payment_hook_ref |-> ref,
     update_coordinator_credential |-> IF ref = None THEN None ELSE Coordinator,
     max_bootstrap_drift_seconds |-> 1, min_utxo_lovelace |-> 1]
    : ref \in {None, h1} }

MCSymmetry == Permutations(Clients) \cup Permutations(DepositIds)

MCAmount == -1 .. 2
MCMinUtxo == {1}
MCCoin == 0 .. 3
=============================================================================
