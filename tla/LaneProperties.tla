--------------------------- MODULE LaneProperties ---------------------------
(* What the lane of the feeder guarantees. *)
EXTENDS FeederLane

published == {u.intent : u \in UNION {chain[v].updates : v \in DOMAIN chain}}

Contract == INSTANCE LaneContract

\* The coalescer, the queue and the bridge implement the contract of a lane.
KeepsContract == Contract!Spec

-----------------------------------------------------------------------------
(* Whatever is lost *)

waiting ==
  LET unanswered == UNION {Elements(b) : b \in Elements(batches)}
  IN  Elements(buffer) \cup Elements(aged)
        \cup (IF flush = "clear" THEN unanswered \ {Head(Head(batches))} ELSE unanswered)

\* The parts cut the rest of the whole, from a position on, into pieces in order.
cuts(parts, whole, from) ==
  \E cut \in [0 .. Len(parts) -> from .. Len(whole)] :
    /\ cut[0] = from /\ cut[Len(parts)] = Len(whole)
    /\ \A k \in DOMAIN parts : /\ cut[k - 1] < cut[k]
                              /\ parts[k] = SubSeq(whole, cut[k - 1] + 1, cut[k])

\* Every intent that the lane holds is in exactly one place where the code will
\* find it again, and an intent that was answered is in none: splitting a
\* buffer into batches, and a batch into halves, loses and repeats nothing.
NothingLost ==
  /\ \A i \in Intents : status[i] = "held" <=> i \in waiting
  /\ Elements(aged) \cap UNION {Elements(b) : b \in Elements(batches)} = {}
  /\ flush \in {"chunk", "queue"} /\ chunks # <<>> => cuts(chunks, Head(batches), Len(results))

\* The in-flight tracker, which tells the cron to keep its hands off a pair,
\* covers every pair from before its batch is queued until after its own
\* result was reported, and is empty when the lane has nothing in flight.
MarksCoverFlight ==
  /\ marks = IF flush \in {"none", "age"} THEN {}
             ELSE {i.symbol : i \in UNION {Elements(b) : b \in Elements(batches)}}
  /\ job.step # "idle" => {i.symbol : i \in Elements(job.requests)} \subseteq marks

\* The feeder never submits an update that the contract would refuse: when the
\* inputs of the transaction it built are unspent, every update beats the datum
\* of the pair that it spends.
OnlyAcceptable ==
  job.step = "submit" /\ InputsUnspent =>
    \A u \in job.updates : beatsOnChain(Len(chain), u)

\* Every intent the lane took is answered in the end, whatever fails.
EveryRequestResolved ==
  \A i \in Intents : status[i] = "held" ~> status[i] # "held"

-----------------------------------------------------------------------------
(* As long as no answer was lost and no transaction evicted *)

\* No two transactions of the feeder contend for the same Receiver UTxO.
NoContention ==
  losses = 0 => \A t1, t2 \in mempool : t1.input = t2.input => t1 = t2

\* A symbol has one Pair UTxO at most.
PairMintedOnce ==
  losses = 0 => \A s \in Symbols : Cardinality(LivePairs(Len(chain), s)) <= 1

\* An intent that is reported as superseded cost no transaction.
NoTransactionWhenSuperseded ==
  losses = 0 => \A i \in Intents : status[i] = "NonMonotonicNonce" => i \notin published

\* An intent that is reported as superseded really is: the chain carries one of
\* its symbol that it does not beat.
SupersededByNewer ==
  losses = 0 => \A i \in Intents : status[i] = "NonMonotonicNonce" =>
    \E j \in published : j.symbol = i.symbol /\ ~isNewer(i, j)
=============================================================================
