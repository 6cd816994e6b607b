---------------------------- MODULE LaneContract ----------------------------
(***************************************************************************)
(* What a lane promises to the daemon that hands it intents, whatever the  *)
(* batching, the retries and the chain do in between: one answer for every *)
(* intent, given once; "ok" only for an intent that is published; and      *)
(* nothing published that the lane reported as given up for another intent *)
(* or for its age.                                                         *)
(***************************************************************************)
EXTENDS Integers

CONSTANT Intents

VARIABLES
  status,    \* what the daemon was told of each intent
  published  \* the intents that a Pair UTxO has carried

newer(i, j) == i.timestamp > j.timestamp /\ i.nonce > j.nonce

rivals(i) == {j \in Intents : status[j] = "held" /\ j.symbol = i.symbol}

Init ==
  /\ status = [i \in Intents |-> "unseen"]
  /\ published = {}

\* An intent is held, taking the place of at most one that it beats, or
\* discarded because it does not beat one that is held.
Take(i) ==
  /\ status[i] = "unseen"
  /\ \/ status' = [status EXCEPT ![i] = "held"]
     \/ \E j \in rivals(i) :
          /\ newer(i, j)
          /\ status' = [status EXCEPT ![i] = "held", ![j] = "superseded"]
     \/ /\ \E j \in rivals(i) : ~newer(i, j)
        /\ status' = [status EXCEPT ![i] = "discarded"]
  /\ UNCHANGED published

Answer(i, result) ==
  /\ status[i] = "held"
  /\ result = "ok" => i \in published
  /\ status' = [status EXCEPT ![i] = result]
  /\ UNCHANGED published

\* An intent may still land after its submission was reported as failed.
mayLand(i) ==
  status[i] \in {"held", "BuilderError", "InsufficientFunds", "NonMonotonicNonce",
                "BatchSizeExceeded"}

Publish(batch) ==
  /\ \A i \in batch : mayLand(i)
  /\ \A i, j \in batch : i.symbol = j.symbol => i = j
  /\ published' = published \cup batch
  /\ UNCHANGED status

Answers ==
  {"ok", "BuilderError", "InsufficientFunds", "NonMonotonicNonce",
   "BatchSizeExceeded", "IntentAgedOut"}

Next ==
  \/ \E i \in Intents : Take(i) \/ \E result \in Answers : Answer(i, result)
  \/ \E batch \in SUBSET Intents : Publish(batch)

Spec == Init /\ [][Next]_<<status, published>>

=============================================================================
