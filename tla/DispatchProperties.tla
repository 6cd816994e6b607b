------------------------- MODULE DispatchProperties -------------------------
(* What must hold of dispatching, whatever the policy, the chain and the   *)
(* restarts do.                                                            *)
EXTENDS Dispatch

\* What the feeder believes is never ahead of what its files say, nor these of
\* the chain, across restarts too (CacheConfirmed, Confirm, Reconcile, Hydrate).
notAhead(a, b) == a = NoIntent \/ (b # NoIntent /\ a.nonce <= b.nonce)

CacheFollowsChain == \A s \in Symbols :
  /\ notAhead(file[s], chain[s])
  /\ life = "up" => notAhead(cache[s].intent, file[s])

\* An intent is never logged as confirmed unless a transaction of it landed.
ConfirmedMeansLanded == \A i \in Intents : \A k \in DOMAIN rows[i] :
  rows[i][k].status = "confirmed" => \E tx \in landed : tx.intent = i

\* Events, heartbeats, retries and restarts together submit an intent once, and
\* once more for each failure at most: nobody pays for a replay.
SubmittedOncePerFailure == \A i \in Intents : attempts[i] <= 1 + faults

\* "A maximum staleness per pair": a known pair with a ceiling that knows a
\* newer intent does not stay behind it, through whatever that intent was
\* suppressed, dropped or failed, until another intent or a crash replaces it.
PairCatchesUp == \A i \in Intents :
  (Up /\ ceiling # {} /\ latest[i.symbol] = i /\ cache[i.symbol].intent # NoIntent)
    ~> (~beats(i, chain[i.symbol]) \/ latest[i.symbol] # i)
=============================================================================
