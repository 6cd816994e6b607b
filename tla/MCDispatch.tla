----------------------------- MODULE MCDispatch -----------------------------
(* One pair and three intents: the second within the price deviation of    *)
(* the first, the third a larger move.                                        *)
EXTENDS DispatchProperties

oracleIntent(nonce, timestamp, price) ==
  [symbol |-> "ADA/USD", nonce |-> nonce, timestamp |-> timestamp, price |-> price]

MCIntents ==
  {oracleIntent(1, 1, 100), oracleIntent(2, 2, 101), oracleIntent(3, 3, 110)}

\* The pair is not minted yet.
MCOpenings == [{"ADA/USD"} -> {NoIntent}]

upTo(n) == {i \in MCIntents : i.nonce <= n}

config(threshold, staleness, aligned, inOrder, n, maxFaults) ==
  [threshold |-> threshold, staleness |-> staleness, deviation |-> {5},
   aligned |-> aligned, inOrder |-> inOrder, feed |-> upTo(n), faults |-> maxFaults]

\* An aligned heartbeat fed in order, and the deviation-only mode fed out of order.
MCModes == {config({2}, {}, TRUE, TRUE, 3, 0), config({2}, {}, TRUE, TRUE, 2, 1),
            config({0}, {1}, FALSE, FALSE, 2, 1)}
=============================================================================
