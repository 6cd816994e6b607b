------------------------------ MODULE MCWallet ------------------------------
(* A main wallet and one pool wallet under two lanes.                      *)
EXTENDS WalletProperties

utxos(amounts, first) ==
  {[ref |-> <<0, first + i>>, lovelace |-> amounts[i]] : i \in DOMAIN amounts}

opening(main, pool) ==
  [w \in Wallets |-> IF w = Main THEN utxos(main, 0) ELSE utxos(pool, 10)]

MCSymmetry == Permutations(Lanes)

MCOpenings == {opening(<<30, 3>>, <<2, 1>>), opening(<<18, 2, 2>>, <<3, 3, 2>>)}
=============================================================================
