---------------------------- MODULE MCFeederLane ----------------------------
(* A lane for two symbols with two intents, in either order of arrival, and  *)
(* a lane for three symbols whose batches have to be halved twice.           *)
EXTENDS LaneProperties

intent(symbol, timestamp, nonce) ==
  [symbol |-> symbol, timestamp |-> timestamp, nonce |-> nonce]

BTC == "BTC/USD"
ETH == "ETH/USD"
SOL == "SOL/USD"

MCThreeIntents == {intent(BTC, 1, 1), intent(BTC, 2, 2), intent(ETH, 1, 1)}
MCFourIntents == MCThreeIntents \cup {intent(ETH, 2, 2)}

MCThreeSymbols == {intent(s, 1, 1) : s \in {BTC, ETH, SOL}}

allowing(intents, nTasks, nTopUps, nLosses) ==
  [intents |-> intents, tasks |-> nTasks, topUps |-> nTopUps, losses |-> nLosses]

\* Nothing is lost, beside a task and a spend by others; or something is.
MCReliableOrLossy ==
  {allowing(MCThreeIntents, 1, 1, 0), allowing(MCFourIntents, 1, 0, 0),
   allowing(MCFourIntents, 0, 1, 0), allowing(MCFourIntents, 0, 0, 1)}
MCLossy == {allowing(Intents, 0, 0, 1)}
=============================================================================
