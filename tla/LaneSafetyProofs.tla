--------------------------- MODULE LaneSafetyProofs ---------------------------
(***************************************************************************)
(* What a lane does to the chain: it submits only updates that the         *)
(* contract accepts, and, as long as nothing was lost, it never contends   *)
(* with itself, mints a pair once, and reports a request as superseded     *)
(* exactly when it cost no transaction and the chain carries a rival.      *)
(*                                                                         *)
(* The argument: what the bridge read of the pairs is true at the version  *)
(* at which it read them (ReadOnce), and the chain does not carry anything *)
(* of the lane beyond what it read (Quiet), for at most one transaction of *)
(* its own is under way (Alone), which has landed and is indexed before    *)
(* the next entry of the queue starts.                                     *)
(***************************************************************************)
EXTENDS LaneProofs

-----------------------------------------------------------------------------
(* The pairs of a chain, as functions of the chain *)

writesIn(c, v, pair, symbol) ==
  {u \in c[v].updates :
     u.intent.symbol = symbol /\ (u.pair = pair \/ (u.pair = 0 /\ v = pair))}

pairsIn(c, n, symbol) ==
  {p \in 1 .. n : \E u \in c[p].updates : u.pair = 0 /\ u.intent.symbol = symbol}

datumIn(c, n, pair, symbol) ==
  LET last == CHOOSE v \in 1 .. n :
                /\ writesIn(c, v, pair, symbol) # {}
                /\ \A w \in v + 1 .. n : writesIn(c, w, pair, symbol) = {}
  IN  (CHOOSE u \in writesIn(c, last, pair, symbol) : TRUE).intent

beatsIn(c, n, u) == u.pair # 0 => isNewer(u.intent, datumIn(c, n, u.pair, u.intent.symbol))

LEMMA OnThisChain ==
  /\ \A v, p, s : writes(v, p, s) = writesIn(chain, v, p, s)
  /\ \A n, s : LivePairs(n, s) = pairsIn(chain, n, s)
  /\ \A n, p, s : PairDatum(n, p, s) = datumIn(chain, n, p, s)
  /\ \A n, u : beatsOnChain(n, u) <=> beatsIn(chain, n, u)
<1>1. \A v, p, s : writes(v, p, s) = writesIn(chain, v, p, s)
  BY DEF writes, writesIn
<1>2. \A n, s : LivePairs(n, s) = pairsIn(chain, n, s)
  BY DEF LivePairs, pairsIn
<1>3. \A n, p, s : PairDatum(n, p, s) = datumIn(chain, n, p, s)
  BY DEF PairDatum, datumIn, writes, writesIn
<1>4. \A n, u : beatsOnChain(n, u) <=> beatsIn(chain, n, u)
  BY <1>3 DEF beatsOnChain, beatsIn
<1>. QED
  BY <1>1, <1>2, <1>3, <1>4

\* A transaction has one intent of a symbol.
oneEach(c) ==
  \A v \in DOMAIN c : \A i, j \in intentsOf(c[v].updates) : i.symbol = j.symbol => i = j

\* The datum of a pair is what the last transaction that wrote it wrote.
LEMMA DatumIsLastWrite ==
  ASSUME NEW c \in Seq(Transactions), oneEach(c), NEW n \in 0 .. Len(c), NEW p, NEW s,
         NEW v \in 1 .. n, NEW u \in writesIn(c, v, p, s),
         \A w \in v + 1 .. n : writesIn(c, w, p, s) = {}
  PROVE  datumIn(c, n, p, s) = u.intent
<1>. DEFINE isLast(x) == /\ writesIn(c, x, p, s) # {}
                         /\ \A w \in x + 1 .. n : writesIn(c, w, p, s) = {}
            last == CHOOSE x \in 1 .. n : isLast(x)
<1>1. last \in 1 .. n /\ isLast(last)
  <2>1. isLast(v)
    OBVIOUS
  <2>. HIDE DEF isLast
  <2>. QED
    BY <2>1
<1>2. datumIn(c, n, p, s) = (CHOOSE x \in writesIn(c, last, p, s) : TRUE).intent
  BY DEF datumIn
<1>. HIDE DEF last
<1>3. last = v
  <2>1. n \in Int /\ v \in Int /\ last \in Int
    BY <1>1
  <2>2. ASSUME last < v
        PROVE  FALSE
    <3>1. v \in last + 1 .. n
      BY <2>1, <2>2
    <3>. QED
      BY <1>1, <3>1
  <2>3. ASSUME v < last
        PROVE  FALSE
    <3>1. last \in v + 1 .. n
      BY <1>1, <2>1, <2>3
    <3>. QED
      BY <1>1, <3>1
  <2>. QED
    BY <2>1, <2>2, <2>3
<1>. DEFINE one == CHOOSE x \in writesIn(c, last, p, s) : TRUE
<1>4. one \in writesIn(c, v, p, s)
  BY <1>3
<1>5. v \in DOMAIN c
  OBVIOUS
<1>6. /\ one.intent \in intentsOf(c[v].updates) /\ one.intent.symbol = s
      /\ u.intent \in intentsOf(c[v].updates) /\ u.intent.symbol = s
  <2>. HIDE DEF one
  <2>. QED
    BY <1>4 DEF writesIn, intentsOf
<1>7. one.intent = u.intent
  <2>. HIDE DEF one
  <2>. QED
    BY <1>5, <1>6 DEF oneEach
<1>. QED
  BY <1>2, <1>7

\* A live pair has such a last write.
LEMMA LivePairHasDatum ==
  ASSUME NEW c \in Seq(Transactions), NEW n \in 0 .. Len(c), NEW s, NEW p \in pairsIn(c, n, s)
  PROVE  \E v \in 1 .. n : \E u \in writesIn(c, v, p, s) :
           \A w \in v + 1 .. n : writesIn(c, w, p, s) = {}
<1>. DEFINE W == {v \in 1 .. n : writesIn(c, v, p, s) # {}}
<1>1. n \in Nat /\ p \in 1 .. n /\ \E u \in c[p].updates : u.pair = 0 /\ u.intent.symbol = s
  BY DEF pairsIn
<1>2. p \in W
  BY <1>1 DEF writesIn
<1>3. W \in SUBSET Int /\ IsFiniteSet(W)
  <2>1. IsFiniteSet(1 .. n) /\ W \in SUBSET (1 .. n)
    BY <1>1, FS_Interval
  <2>2. IsFiniteSet(W)
    BY <2>1, FS_Subset
  <2>. QED
    BY <1>1, <2>2
<1>4. PICK v \in W : \A x \in W : x <= v
  <2>. HIDE DEF W
  <2>. QED
    BY <1>2, <1>3, GreatestElement
<1>5. ASSUME NEW w \in v + 1 .. n
      PROVE  writesIn(c, w, p, s) = {}
  <2>1. w \in 1 .. n /\ ~(w <= v)
    BY <1>1, <1>4, <1>5
  <2>. QED
    BY <1>4, <2>1
<1>. QED
  BY <1>4, <1>5

\* The datum stays while nothing is written into the pair.
LEMMA DatumStays ==
  ASSUME NEW c \in Seq(Transactions), oneEach(c),
         NEW m \in 0 .. Len(c), NEW n \in m .. Len(c), NEW s, NEW p \in pairsIn(c, m, s),
         \A w \in m + 1 .. n : writesIn(c, w, p, s) = {}
  PROVE  datumIn(c, n, p, s) = datumIn(c, m, p, s)
<1>1. m \in Nat /\ n \in Nat /\ m <= n /\ n <= Len(c) /\ n \in 0 .. Len(c)
  OBVIOUS
<1>2. PICK v \in 1 .. m : \E u \in writesIn(c, v, p, s) :
        \A w \in v + 1 .. m : writesIn(c, w, p, s) = {}
  BY <1>1, LivePairHasDatum
<1>3. PICK u \in writesIn(c, v, p, s) : \A w \in v + 1 .. m : writesIn(c, w, p, s) = {}
  BY <1>2
<1>4. datumIn(c, m, p, s) = u.intent
  BY <1>3, DatumIsLastWrite
<1>5. \A w \in v + 1 .. n : writesIn(c, w, p, s) = {}
  <2>. SUFFICES ASSUME NEW w \in v + 1 .. n
                PROVE  writesIn(c, w, p, s) = {}
    OBVIOUS
  <2>1. w \in v + 1 .. m \/ w \in m + 1 .. n
    BY <1>1, <1>3
  <2>. QED
    BY <1>3, <2>1
<1>6. v \in 1 .. n
  BY <1>1, <1>3
<1>7. datumIn(c, n, p, s) = u.intent
  BY <1>1, <1>3, <1>5, <1>6, DatumIsLastWrite
<1>. QED
  BY <1>4, <1>7

\* It is an intent of the symbol that the chain carries.
LEMMA DatumIsCarried ==
  ASSUME NEW c \in Seq(Transactions), oneEach(c), NEW n \in 0 .. Len(c), NEW s,
         NEW p \in pairsIn(c, n, s)
  PROVE  /\ datumIn(c, n, p, s).symbol = s
         /\ \E v \in DOMAIN c : datumIn(c, n, p, s) \in intentsOf(c[v].updates)
<1>1. PICK v \in 1 .. n : \E u \in writesIn(c, v, p, s) :
        \A w \in v + 1 .. n : writesIn(c, w, p, s) = {}
  BY LivePairHasDatum
<1>2. PICK u \in writesIn(c, v, p, s) : \A w \in v + 1 .. n : writesIn(c, w, p, s) = {}
  BY <1>1
<1>3. datumIn(c, n, p, s) = u.intent
  BY <1>2, DatumIsLastWrite
<1>4. v \in DOMAIN c /\ u \in c[v].updates /\ u.intent.symbol = s
  BY <1>2 DEF writesIn
<1>. QED
  BY <1>3, <1>4 DEF intentsOf

\* What a further transaction changes of what was there.
LEMMA NothingRewritten ==
  ASSUME NEW c \in Seq(Transactions), NEW d \in Seq(Transactions), oneEach(c), oneEach(d),
         Len(d) >= Len(c), \A v \in 1 .. Len(c) : d[v] = c[v],
         NEW n \in 0 .. Len(c), NEW s
  PROVE  /\ pairsIn(d, n, s) = pairsIn(c, n, s)
         /\ \A p \in pairsIn(c, n, s) : datumIn(d, n, p, s) = datumIn(c, n, p, s)
<1>0. Len(c) \in Nat /\ Len(d) \in Nat /\ n \in Nat /\ n \in 0 .. Len(d)
  OBVIOUS
<1>1. \A v \in 1 .. n : d[v] = c[v]
  BY <1>0
<1>2. pairsIn(d, n, s) = pairsIn(c, n, s)
  BY <1>1 DEF pairsIn
<1>3. \A v \in 1 .. n : \A p : writesIn(d, v, p, s) = writesIn(c, v, p, s)
  BY <1>1 DEF writesIn
<1>4. ASSUME NEW p \in pairsIn(c, n, s)
      PROVE  datumIn(d, n, p, s) = datumIn(c, n, p, s)
  <2>1. PICK v \in 1 .. n : \E u \in writesIn(c, v, p, s) :
          \A w \in v + 1 .. n : writesIn(c, w, p, s) = {}
    BY <1>4, LivePairHasDatum
  <2>2. PICK u \in writesIn(c, v, p, s) : \A w \in v + 1 .. n : writesIn(c, w, p, s) = {}
    BY <2>1
  <2>3. datumIn(c, n, p, s) = u.intent
    BY <2>2, DatumIsLastWrite
  <2>4. u \in writesIn(d, v, p, s) /\ \A w \in v + 1 .. n : writesIn(d, w, p, s) = {}
    <3>1. \A w \in v + 1 .. n : w \in 1 .. n
      BY <1>0, <2>2
    <3>. QED
      BY <1>3, <2>2, <3>1
  <2>5. datumIn(d, n, p, s) = u.intent
    BY <1>0, <2>2, <2>4, DatumIsLastWrite
  <2>. QED
    BY <2>3, <2>5
<1>. QED
  BY <1>2, <1>4

\* Transactions that carry nothing leave the pairs as they are.
LEMMA NothingWritten ==
  ASSUME NEW c \in Seq(Transactions), NEW m \in 0 .. Len(c), NEW n \in m .. Len(c),
         \A v \in m + 1 .. n : c[v].updates = {}
  PROVE  /\ \A s : pairsIn(c, n, s) = pairsIn(c, m, s)
         /\ \A v \in m + 1 .. n : \A p, s : writesIn(c, v, p, s) = {}
<1>1. m \in Nat /\ n \in Nat /\ m <= n
  OBVIOUS
<1>2. \A v \in m + 1 .. n : \A p, s : writesIn(c, v, p, s) = {}
  BY DEF writesIn
<1>3. ASSUME NEW s
      PROVE  pairsIn(c, n, s) = pairsIn(c, m, s)
  <2>1. ASSUME NEW p \in pairsIn(c, n, s)
        PROVE  p \in pairsIn(c, m, s)
    <3>1. p \in 1 .. n /\ \E u \in c[p].updates : u.pair = 0 /\ u.intent.symbol = s
      BY DEF pairsIn
    <3>2. p \notin m + 1 .. n
      BY <3>1
    <3>3. p \in 1 .. m
      BY <1>1, <3>1, <3>2
    <3>. QED
      BY <3>1, <3>3 DEF pairsIn
  <2>2. \A p \in pairsIn(c, m, s) : p \in pairsIn(c, n, s)
    BY <1>1 DEF pairsIn
  <2>. QED
    BY <2>1, <2>2
<1>. QED
  BY <1>2, <1>3

\* What a transaction adds to the pairs.
LEMMA PairsAdded ==
  ASSUME NEW c \in Seq(Transactions), NEW tx \in Transactions, NEW s
  PROVE  LET mints == \E u \in tx.updates : u.pair = 0 /\ u.intent.symbol = s
         IN  pairsIn(Append(c, tx), Len(c) + 1, s) =
               pairsIn(c, Len(c), s) \cup (IF mints THEN {Len(c) + 1} ELSE {})
<1>. DEFINE d == Append(c, tx)
            mints == \E u \in tx.updates : u.pair = 0 /\ u.intent.symbol = s
<1>1. /\ Len(c) \in Nat /\ d \in Seq(Transactions) /\ Len(d) = Len(c) + 1
      /\ \A v \in 1 .. Len(c) : d[v] = c[v]
      /\ d[Len(c) + 1] = tx
  BY AppendProperties
<1>. HIDE DEF d
<1>2. \A p \in 1 .. Len(c) : p \in pairsIn(d, Len(c) + 1, s) <=> p \in pairsIn(c, Len(c), s)
  BY <1>1 DEF pairsIn
<1>3. Len(c) + 1 \in pairsIn(d, Len(c) + 1, s) <=> mints
  BY <1>1 DEF pairsIn
<1>4. pairsIn(c, Len(c), s) \subseteq 1 .. Len(c) /\ pairsIn(d, Len(c) + 1, s) \subseteq 1 .. Len(c) + 1
  BY DEF pairsIn
<1>5. \A p \in 1 .. Len(c) + 1 : p \in 1 .. Len(c) \/ p = Len(c) + 1
  BY <1>1
<1>6. pairsIn(d, Len(c) + 1, s) = pairsIn(c, Len(c), s) \cup (IF mints THEN {Len(c) + 1} ELSE {})
  BY <1>2, <1>3, <1>4, <1>5
<1>. QED
  BY <1>6 DEF d

LEMMA OneEachAdded ==
  ASSUME NEW c \in Seq(Transactions), oneEach(c), NEW tx \in Transactions,
         \A i, j \in intentsOf(tx.updates) : i.symbol = j.symbol => i = j
  PROVE  oneEach(Append(c, tx))
<1>. DEFINE d == Append(c, tx)
<1>1. /\ Len(c) \in Nat /\ d \in Seq(Transactions) /\ Len(d) = Len(c) + 1
      /\ \A v \in 1 .. Len(c) : d[v] = c[v]
      /\ d[Len(c) + 1] = tx
  BY AppendProperties
<1>. HIDE DEF d
<1>2. DOMAIN d = 1 .. Len(c) + 1 /\ DOMAIN c = 1 .. Len(c)
  BY <1>1
<1>3. \A v \in DOMAIN d : (v \in DOMAIN c /\ d[v] = c[v]) \/ d[v] = tx
  BY <1>1, <1>2
<1>. HIDE DEF intentsOf
<1>4. oneEach(d)
  BY <1>3 DEF oneEach
<1>. QED
  BY <1>4 DEF d

-----------------------------------------------------------------------------
(* The invariant about the chain *)

USE DEF vars, coalescerVars, queueVars, cardanoVars

\* What the bridge read of the pairs is true at the version of that reading.
ReadOnce ==
  job.step \in {"fetch", "submit"} =>
    /\ job.pairsAt <= indexed
    /\ \A u \in job.updates :
         /\ u.pair # 0 => u.pair \in pairsIn(chain, job.pairsAt, u.intent.symbol)
         /\ beatsIn(chain, job.pairsAt, u)

\* One transaction at most is under way, and the queue waits for it.
Alone == \A t \in mempool : job.step = "confirm" /\ t = job.tx

\* Of the lane, the indexer lacks what the queue waits for, at most.
Quiet ==
  \A v \in indexed + 1 .. Len(chain) :
    \/ chain[v].updates = {}
    \/ job.step = "confirm" /\ v = job.tx.input + 1 /\ chain[v] = job.tx

\* Nothing was written since the bridge read the pairs.
QuietRead ==
  job.step \in {"fetch", "submit"} =>
    \A v \in job.pairsAt + 1 .. Len(chain) : chain[v].updates = {}

Minted == \A s : \A p, q \in pairsIn(chain, Len(chain), s) : p = q

\* A pair that is to be minted is not there yet.
notThereYet(updates) ==
  \A u \in updates : u.pair = 0 => pairsIn(chain, Len(chain), u.intent.symbol) = {}

Mints ==
  /\ job.step \in {"fetch", "submit"} => notThereYet(job.updates)
  /\ job.step = "confirm" /\ job.tx \in mempool => notThereYet(job.tx.updates)

ChainInv ==
  /\ oneEach(chain) /\ ReadOnce
  /\ losses = 0 => Alone /\ Quiet /\ QuietRead /\ Minted /\ Mints

LEMMA ChainInit ==
  ASSUME Init
  PROVE  ChainInv
<1>1. oneEach(<<>>) /\ \A s : pairsIn(<<>>, 0, s) = {}
  BY DEF oneEach, pairsIn
<1>. QED
  BY <1>1 DEF Init, ChainInv, ReadOnce, Alone, Quiet, QuietRead, Minted, Mints, Idle

\* Losses only grow.
LEMMA LossesGrow ==
  ASSUME LaneInv, losses' = losses \/ losses' = losses + 1, losses' = 0
  PROVE  losses = 0 /\ losses' = losses
<1>1. losses \in Nat
  BY DEF LaneInv, LaneTypes
<1>. QED
  BY <1>1

\* A step beside the bridge and the chain.
LEMMA ChainLeft ==
  ASSUME LaneInv, ChainInv, UNCHANGED <<job, chain, mempool, indexed, losses>>
  PROVE  ChainInv'
BY DEF ChainInv, ReadOnce, Alone, Quiet, QuietRead, Minted, Mints, notThereYet

\* A step by which the bridge is left without a transaction to wait for.
LEMMA BridgeDone ==
  ASSUME LaneInv, ChainInv, UNCHANGED <<chain, mempool, indexed>>,
         losses' = losses \/ losses' = losses + 1,
         job.step # "confirm", job'.step \notin {"fetch", "submit", "confirm"}
  PROVE  ChainInv'
<1>1. oneEach(chain') /\ ReadOnce'
  BY DEF ChainInv, ReadOnce
<1>2. ASSUME losses' = 0
      PROVE  Alone' /\ Quiet' /\ QuietRead' /\ Minted' /\ Mints'
  <2>1. losses = 0
    BY <1>2, LossesGrow
  <2>. QED
    BY <2>1 DEF ChainInv, Alone, Quiet, QuietRead, Minted, Mints
<1>. QED
  BY <1>1, <1>2 DEF ChainInv

\* A step by which it goes on with what it read.
LEMMA BridgeGoesOn ==
  ASSUME LaneInv, ChainInv, UNCHANGED <<chain, mempool, indexed>>,
         losses' = losses \/ losses' = losses + 1,
         job.step \in {"fetch", "submit"}, job'.step \in {"fetch", "submit"},
         job'.updates = job.updates, job'.pairsAt = job.pairsAt
  PROVE  ChainInv'
<1>1. oneEach(chain') /\ ReadOnce'
  BY DEF ChainInv, ReadOnce
<1>2. ASSUME losses' = 0
      PROVE  Alone' /\ Quiet' /\ QuietRead' /\ Minted' /\ Mints'
  <2>1. losses = 0
    BY <1>2, LossesGrow
  <2>. QED
    BY <2>1 DEF ChainInv, Alone, Quiet, QuietRead, Minted, Mints, notThereYet
<1>. QED
  BY <1>1, <1>2 DEF ChainInv

-----------------------------------------------------------------------------
(* The bridge keeps it *)

\* thrown drops the deposits, or ends the attempt.
LEMMA ThrownKeepsChain ==
  ASSUME LaneInv, ChainInv, UNCHANGED <<chain, mempool, indexed>>,
         losses' = losses \/ losses' = losses + 1,
         job.step \in {"start", "fetch", "submit"}, NEW code, job' = thrown(code)
  PROVE  ChainInv'
<1>1. job \in Jobs
  BY DEF LaneInv, LaneTypes
<1>2. CASE job.step = "submit" /\ job.fold
  <2>1. job'.step = "submit" /\ job'.updates = job.updates /\ job'.pairsAt = job.pairsAt
    BY <1>1, <1>2 DEF thrown, Jobs
  <2>. QED
    BY <1>2, <2>1, BridgeGoesOn
<1>3. CASE ~(job.step = "submit" /\ job.fold)
  <2>1. job'.step = "answered"
    BY <1>1, <1>3 DEF thrown, answered, Jobs
  <2>. QED
    BY <2>1, BridgeDone
<1>. QED
  BY <1>2, <1>3

\* What the bridge reads of a pair at a version.
LEMMA WhatIsRead ==
  ASSUME LaneInv, NEW s, NEW p \in ReadPair(indexed, s)
  PROVE  p # 0 <=> p \in pairsIn(chain, indexed, s)
<1>1. indexed \in Nat /\ pairsIn(chain, indexed, s) \subseteq 1 .. indexed
  BY DEF LaneInv, LaneTypes, pairsIn
<1>2. LivePairs(indexed, s) = pairsIn(chain, indexed, s)
  BY OnThisChain
<1>. QED
  BY <1>1, <1>2 DEF ReadPair

\* A pair that the indexer does not show is not there, as long as the lane
\* waits for nothing.
LEMMA NotShown ==
  ASSUME LaneInv, ChainInv, losses = 0, job.step # "confirm"
  PROVE  /\ \A v \in indexed + 1 .. Len(chain) : chain[v].updates = {}
         /\ \A s : pairsIn(chain, Len(chain), s) = pairsIn(chain, indexed, s)
<1>1. \A v \in indexed + 1 .. Len(chain) : chain[v].updates = {}
  BY DEF ChainInv, Quiet
<1>2. chain \in Seq(Transactions) /\ indexed \in 0 .. Len(chain)
  BY DEF LaneInv, LaneTypes
<1>3. indexed \in Int /\ Len(chain) \in Int /\ indexed <= Len(chain)
  BY <1>2
<1>4. Len(chain) \in indexed .. Len(chain)
  BY <1>3
<1>. QED
  BY <1>1, <1>2, <1>4, NothingWritten

LEMMA PrepareKeepsChain ==
  ASSUME LaneInv, ChainInv, Prepare
  PROVE  ChainInv'
<1>. USE DEF Prepare
<1>1. PICK pairs \in [Elements(job.requests) -> 0 .. indexed] :
        LET all == {[intent |-> i, pair |-> pairs[i]] : i \in DOMAIN pairs}
            fresh == {u \in all : beatsOnChain(indexed, u)}
        IN  /\ \A i \in DOMAIN pairs : pairs[i] \in ReadPair(indexed, i.symbol)
            /\ job' = IF job.requests # <<>> /\ fresh = {}
                        THEN answered(allOf("NonMonotonicNonce"))
                        ELSE [job EXCEPT !.step = "fetch", !.updates = fresh, !.pairsAt = indexed]
  OBVIOUS
<1>. DEFINE all == {[intent |-> i, pair |-> pairs[i]] : i \in DOMAIN pairs}
            fresh == {u \in all : beatsOnChain(indexed, u)}
<1>2. job \in Jobs /\ indexed \in Nat
  BY DEF LaneInv, LaneTypes
<1>3. CASE job' = answered(allOf("NonMonotonicNonce"))
  <2>1. job'.step = "answered"
    BY <1>2, <1>3 DEF answered, Jobs
  <2>. QED
    BY <2>1, BridgeDone
<1>4. CASE job' = [job EXCEPT !.step = "fetch", !.updates = fresh, !.pairsAt = indexed]
  <2>1. ASSUME NEW u \in fresh
        PROVE  /\ u.pair # 0 => u.pair \in pairsIn(chain, indexed, u.intent.symbol)
               /\ u.pair = 0 => pairsIn(chain, indexed, u.intent.symbol) = {}
               /\ beatsIn(chain, indexed, u)
    <3>1. PICK i \in DOMAIN pairs : u = [intent |-> i, pair |-> pairs[i]]
      OBVIOUS
    <3>2. u.pair \in ReadPair(indexed, u.intent.symbol)
      BY <1>1, <3>1
    <3>3. u.pair = 0 => pairsIn(chain, indexed, u.intent.symbol) = {}
      <4>1. LivePairs(indexed, u.intent.symbol) = pairsIn(chain, indexed, u.intent.symbol)
        BY OnThisChain
      <4>2. 0 \notin LivePairs(indexed, u.intent.symbol)
        BY <1>2 DEF LivePairs
      <4>. QED
        BY <3>2, <4>1, <4>2 DEF ReadPair
    <3>4. beatsIn(chain, indexed, u)
      BY OnThisChain
    <3>. QED
      BY <3>2, <3>3, <3>4, WhatIsRead
  <2>. HIDE DEF fresh
  <2>2. job'.step = "fetch" /\ job'.updates = fresh /\ job'.pairsAt = indexed
    BY <1>2, <1>4 DEF Jobs
  <2>3. oneEach(chain') /\ ReadOnce'
    BY SMTT(60), <1>2, <2>1, <2>2 DEF ChainInv, ReadOnce
  <2>4. ASSUME losses' = 0
        PROVE  Alone' /\ Quiet' /\ QuietRead' /\ Minted' /\ Mints'
    <3>1. /\ \A v \in indexed + 1 .. Len(chain) : chain[v].updates = {}
          /\ \A s : pairsIn(chain, Len(chain), s) = pairsIn(chain, indexed, s)
      BY <2>4, NotShown
    <3>2. Alone' /\ Quiet' /\ Minted'
      BY <2>2, <2>4 DEF ChainInv, Alone, Quiet, Minted
    <3>3. QuietRead' /\ Mints'
      BY ZenonT(60), <2>1, <2>2, <3>1 DEF QuietRead, Mints, notThereYet
    <3>. QED
      BY <3>2, <3>3
  <2>. QED
    BY <2>3, <2>4 DEF ChainInv
<1>. QED
  BY <1>1, <1>3, <1>4

LEMMA FetchKeepsChain ==
  ASSUME LaneInv, ChainInv, Fetch
  PROVE  ChainInv'
<1>. USE DEF Fetch
<1>1. PICK pairs \in [job.updates -> 0 .. indexed], fold \in BOOLEAN :
        LET updates == {[u EXCEPT !.pair = pairs[u]] : u \in job.updates}
        IN  /\ \A u \in job.updates : pairs[u] \in lookedUpAgain(u)
            /\ \/ job' = answered(allOf("NonMonotonicNonce"))
               \/ job' = answered(allOf("BatchSizeExceeded"))
               \/ /\ ~(isBatch /\ \E u \in updates : ~beatsOnChain(indexed, u))
                  /\ job' = [job EXCEPT !.step = "submit", !.updates = updates,
                                        !.receiverAt = indexed, !.fold = fold,
                                        !.pairsAt = IF isBatch THEN indexed ELSE @]
  OBVIOUS
<1>. DEFINE updates == {[u EXCEPT !.pair = pairs[u]] : u \in job.updates}
            at == IF isBatch THEN indexed ELSE job.pairsAt
<1>2. /\ job \in Jobs /\ job.updates \subseteq Updates /\ indexed \in Nat /\ job.pairsAt \in Nat
      /\ job.step = "fetch" /\ job.pairsAt <= indexed
  BY SMTT(60) DEF LaneInv, LaneTypes, Jobs, Versions, ChainInv, ReadOnce
<1>3. ASSUME NEW code, job' = answered(allOf(code))
      PROVE  ChainInv'
  <2>1. job'.step = "answered"
    BY <1>2, <1>3 DEF answered, Jobs
  <2>. QED
    BY <2>1, BridgeDone
<1>4. CASE /\ ~(isBatch /\ \E u \in updates : ~beatsOnChain(indexed, u))
           /\ job' = [job EXCEPT !.step = "submit", !.updates = updates, !.receiverAt = indexed,
                                 !.fold = fold, !.pairsAt = at]
  <2>1. CASE isBatch
    <3>0. at = indexed
      BY <2>1
    <3>1. ASSUME NEW w \in updates
          PROVE  /\ w.pair # 0 => w.pair \in pairsIn(chain, indexed, w.intent.symbol)
                 /\ beatsIn(chain, indexed, w)
                 /\ losses = 0 /\ w.pair = 0 => pairsIn(chain, indexed, w.intent.symbol) = {}
      <4>1. PICK u \in job.updates : w = [u EXCEPT !.pair = pairs[u]]
        OBVIOUS
      <4>2. u \in Updates /\ w.intent = u.intent /\ w.pair = pairs[u]
        BY <1>2, <4>1 DEF Updates
      <4>3. beatsIn(chain, indexed, w)
        BY <1>4, <2>1, OnThisChain
      <4>4. CASE u.pair # 0
        <5>1. w.pair \in ReadPair(indexed, w.intent.symbol)
          BY <1>1, <2>1, <4>2, <4>4 DEF lookedUpAgain
        <5>2. LivePairs(indexed, w.intent.symbol) = pairsIn(chain, indexed, w.intent.symbol)
          BY OnThisChain
        <5>3. 0 \notin LivePairs(indexed, w.intent.symbol)
          BY <1>2 DEF LivePairs
        <5>4. w.pair = 0 => pairsIn(chain, indexed, w.intent.symbol) = {}
          BY <5>1, <5>2, <5>3 DEF ReadPair
        <5>. QED
          BY <4>3, <5>1, <5>4, WhatIsRead
      <4>5. CASE u.pair = 0
        <5>1. w.pair = 0
          BY <1>1, <2>1, <4>2, <4>5 DEF lookedUpAgain
        <5>2. ASSUME losses = 0
              PROVE  pairsIn(chain, indexed, w.intent.symbol) = {}
          <6>1. pairsIn(chain, Len(chain), u.intent.symbol) = {}
            BY <1>2, <4>5, <5>2 DEF ChainInv, Mints, notThereYet
          <6>. QED
            BY <1>2, <4>2, <5>2, <6>1, NotShown
        <5>. QED
          BY <4>3, <5>1, <5>2
      <4>. QED
        BY <4>4, <4>5
    <3>. HIDE DEF updates, at
    <3>2. job'.step = "submit" /\ job'.updates = updates /\ job'.pairsAt = indexed
      BY <1>2, <1>4, <3>0 DEF Jobs
    <3>3. oneEach(chain') /\ ReadOnce'
      <4>1. chain' = chain /\ indexed' = indexed /\ indexed <= indexed
        BY <1>2
      <4>. HIDE DEF Fetch
      <4>2. ReadOnce'
        BY <3>1, <3>2, <4>1 DEF ReadOnce
      <4>. QED
        BY <4>1, <4>2 DEF ChainInv
    <3>4. ASSUME losses' = 0
          PROVE  Alone' /\ Quiet' /\ QuietRead' /\ Minted' /\ Mints'
      <4>1. /\ \A v \in indexed + 1 .. Len(chain) : chain[v].updates = {}
            /\ \A s : pairsIn(chain, Len(chain), s) = pairsIn(chain, indexed, s)
        BY <1>2, <3>4, NotShown
      <4>2. Alone' /\ Quiet' /\ Minted'
        BY <1>2, <3>2, <3>4 DEF ChainInv, Alone, Quiet, Minted
      <4>3. QuietRead' /\ Mints'
        BY <3>1, <3>2, <3>4, <4>1 DEF QuietRead, Mints, notThereYet
      <4>. QED
        BY <4>2, <4>3
    <3>. QED
      BY <3>3, <3>4 DEF ChainInv
  <2>2. CASE ~isBatch
    <3>0. at = job.pairsAt
      BY <2>2
    <3>1. updates = job.updates
      <4>1. ASSUME NEW u \in job.updates
            PROVE  [u EXCEPT !.pair = pairs[u]] = u
        <5>1. u \in Updates /\ pairs[u] = u.pair
          BY <1>1, <1>2, <2>2 DEF lookedUpAgain
        <5>. QED
          BY <5>1 DEF Updates
      <4>. QED
        BY <4>1
    <3>. HIDE DEF updates, at
    <3>2. job'.step = "submit" /\ job'.updates = updates /\ job'.pairsAt = job.pairsAt
      BY <1>2, <1>4, <3>0 DEF Jobs
    <3>. QED
      BY <1>2, <3>1, <3>2, BridgeGoesOn
  <2>. QED
    BY <2>1, <2>2
<1>. QED
  BY ZenonT(60), <1>1, <1>3, <1>4

LEMMA BuildFailsKeepsChain ==
  ASSUME LaneInv, ChainInv, BuildFails
  PROVE  ChainInv'
<1>1. PICK code \in {"BuilderError", "InsufficientFunds"} : job' = thrown(code)
  BY DEF BuildFails
<1>2. /\ UNCHANGED <<chain, mempool, indexed, losses>>
      /\ job.step \in {"start", "fetch", "submit"}
  BY DEF BuildFails
<1>. QED
  BY <1>1, <1>2, ThrownKeepsChain

LEMMA SubmitStaleKeepsChain ==
  ASSUME LaneInv, ChainInv, SubmitStale
  PROVE  ChainInv'
<1>. USE DEF SubmitStale
<1>1. job \in Jobs
  BY DEF LaneInv, LaneTypes
<1>2. CASE job' = [job EXCEPT !.step = "fetch", !.tries = @ + 1]
  <2>1. job'.step = "fetch" /\ job'.updates = job.updates /\ job'.pairsAt = job.pairsAt
    <3>. DEFINE n == job.tries + 1
    <3>1. job' = [job EXCEPT !.step = "fetch", !.tries = n]
      BY <1>2
    <3>. HIDE DEF n
    <3>. QED
      BY <1>1, <3>1 DEF Jobs
  <2>. QED
    BY <2>1, BridgeGoesOn
<1>3. CASE job' = thrown("BuilderError")
  BY <1>3, ThrownKeepsChain
<1>. QED
  BY <1>2, <1>3

LEMMA SubmitKeepsChain ==
  ASSUME LaneInv, ChainInv, Submit
  PROVE  ChainInv'
<1>. USE DEF Submit
<1>1. job \in Jobs /\ built \in Transactions /\ built.updates = job.updates
  BY BuiltTypes DEF LaneInv, LaneTypes
<1>2. CASE losses' = losses + 1 /\ job' = thrown("BuilderError")
  <2>1. losses' # 0
    <3>1. losses \in Nat
      BY DEF LaneInv, LaneTypes
    <3>. QED
      BY <1>2, <3>1
  <2>2. job' = thrown("BuilderError")
    BY <1>2
  <2>3. \/ job'.step = "submit" /\ job'.updates = job.updates /\ job'.pairsAt = job.pairsAt
        \/ job'.step = "answered"
    BY <1>1, <2>2 DEF thrown, answered, Jobs
  <2>4. ReadOnce'
    BY <2>3 DEF ChainInv, ReadOnce
  <2>. QED
    BY <2>1, <2>4 DEF ChainInv
<1>3. CASE losses' = losses /\ job' = [job EXCEPT !.step = "confirm", !.tx = built]
  <2>1. job'.step = "confirm" /\ job'.tx = built
    BY <1>1, <1>3 DEF Jobs
  <2>2. oneEach(chain') /\ ReadOnce'
    BY <2>1 DEF ChainInv, ReadOnce
  <2>3. ASSUME losses' = 0
        PROVE  Alone' /\ Quiet' /\ QuietRead' /\ Minted' /\ Mints'
    <3>1. losses = 0 /\ mempool = {}
      BY <1>3, <2>3 DEF ChainInv, Alone
    <3>2. Alone' /\ QuietRead'
      BY <2>1, <3>1 DEF Alone, QuietRead
    <3>3. Quiet' /\ Minted'
      BY <3>1 DEF ChainInv, Quiet, Minted
    <3>4. Mints'
      BY <1>1, <2>1, <3>1 DEF ChainInv, Mints, notThereYet
    <3>. QED
      BY <3>2, <3>3, <3>4
  <2>. QED
    BY <2>2, <2>3 DEF ChainInv
<1>. QED
  BY <1>2, <1>3

\* The bridge stops waiting for its transaction: nothing of it is under way.
LEMMA WaitEnds ==
  ASSUME LaneInv, ChainInv, UNCHANGED <<chain, mempool, indexed>>,
         losses' = losses \/ losses' = losses + 1,
         job.step = "confirm", job'.step = "answered",
         losses' = losses => job.tx \notin mempool /\ (indexed > job.tx.input \/ ~Landed(job.tx))
  PROVE  ChainInv'
<1>1. oneEach(chain') /\ ReadOnce'
  BY DEF ChainInv, ReadOnce
<1>2. ASSUME losses' = 0
      PROVE  Alone' /\ Quiet' /\ QuietRead' /\ Minted' /\ Mints'
  <2>1. losses = 0 /\ losses' = losses
    BY <1>2, LossesGrow
  <2>2. mempool = {}
    BY <2>1 DEF ChainInv, Alone
  <2>3. ASSUME NEW v \in indexed + 1 .. Len(chain)
        PROVE  chain[v].updates = {}
    <3>0. chain \in Seq(Transactions) /\ indexed \in 0 .. Len(chain) /\ job \in Jobs
      BY DEF LaneInv, LaneTypes
    <3>1. /\ indexed \in Nat /\ Len(chain) \in Nat /\ job.tx.input \in Nat
      BY SMTT(60), <3>0 DEF Jobs, Transactions, Versions
    <3>2. ASSUME v = job.tx.input + 1, chain[v] = job.tx
          PROVE  FALSE
      <4>1. ~(indexed > job.tx.input) /\ Len(chain) > job.tx.input
        BY <3>1, <3>2
      <4>. QED
        BY <2>1, <3>2, <4>1 DEF Landed
    <3>. QED
      BY <2>1, <3>2 DEF ChainInv, Quiet
  <2>4. Quiet' /\ Alone' /\ QuietRead' /\ Mints'
    BY <2>2, <2>3 DEF Quiet, Alone, QuietRead, Mints
  <2>5. Minted'
    BY <2>1 DEF ChainInv, Minted
  <2>. QED
    BY <2>4, <2>5
<1>. QED
  BY <1>1, <1>2 DEF ChainInv

LEMMA ConfirmedKeepsChain ==
  ASSUME LaneInv, ChainInv, Confirmed
  PROVE  ChainInv'
<1>. USE DEF Confirmed
<1>1. job \in Jobs /\ job.tx.input \in Nat /\ Len(chain) \in Nat
  <2>1. job \in Jobs /\ Len(chain) \in Nat
    BY DEF LaneInv, LaneTypes
  <2>2. job.tx \in Transactions
    BY <2>1 DEF Jobs
  <2>. QED
    BY <2>1, <2>2 DEF Transactions, Versions
<1>2. job'.step = "answered"
  BY <1>1 DEF answered, Jobs
<1>3. job.tx \notin mempool
  <2>1. Len(chain) > job.tx.input
    BY DEF Landed
  <2>. QED
    BY <1>1, <2>1 DEF LaneInv, Building
<1>. QED
  BY <1>2, <1>3, WaitEnds

LEMMA NeverConfirmedKeepsChain ==
  ASSUME LaneInv, ChainInv, NeverConfirmed
  PROVE  ChainInv'
<1>. USE DEF NeverConfirmed
<1>1. job \in Jobs /\ losses \in Nat
  BY DEF LaneInv, LaneTypes
<1>2. job'.step = "answered"
  BY <1>1 DEF answered, Jobs
<1>3. losses' = losses => job.tx \notin mempool /\ ~Landed(job.tx)
  BY <1>1
<1>4. losses' = losses \/ losses' = losses + 1
  OBVIOUS
<1>. QED
  BY <1>2, <1>3, <1>4, WaitEnds

-----------------------------------------------------------------------------
(* Cardano keeps it *)

LEMMA SpendKeepsChain ==
  ASSUME LaneInv, ChainInv, NEW tx \in Transactions, tx.input = Len(chain), spend(tx),
         UNCHANGED <<job, indexed, losses>>,
         \A i, j \in intentsOf(tx.updates) : i.symbol = j.symbol => i = j,
         \/ tx.updates = {}
         \/ losses = 0 => job.step = "confirm" /\ tx = job.tx /\ tx \in mempool
  PROVE  ChainInv'
<1>. DEFINE n == Len(chain)
<1>1. /\ chain \in Seq(Transactions) /\ n \in Nat /\ indexed \in 0 .. n /\ job.pairsAt \in Nat
      /\ oneEach(chain) /\ mempool' = {}
  BY SMTT(60) DEF LaneInv, LaneTypes, Jobs, Versions, ChainInv, spend, Afloat
<1>2. /\ chain' \in Seq(Transactions) /\ Len(chain') = n + 1
      /\ \A v \in 1 .. n : chain'[v] = chain[v]
      /\ chain'[n + 1] = tx
      /\ chain' = Append(chain, tx)
  BY <1>1, AppendProperties DEF spend
<1>3. oneEach(chain')
  BY <1>1, <1>2, OneEachAdded
<1>4. \A s : pairsIn(chain', n + 1, s) =
               pairsIn(chain, n, s) \cup
                 (IF \E u \in tx.updates : u.pair = 0 /\ u.intent.symbol = s THEN {n + 1} ELSE {})
  BY <1>1, <1>2, PairsAdded
<1>5. ReadOnce'
  <2>. SUFFICES ASSUME job.step \in {"fetch", "submit"}
                PROVE  ReadOnce'
    BY DEF ReadOnce
  <2>1. job.pairsAt \in 0 .. n /\ job.pairsAt <= indexed
    BY <1>1 DEF ChainInv, ReadOnce
  <2>2. n + 1 >= n
    BY <1>1
  <2>3. \A s : /\ pairsIn(chain', job.pairsAt, s) = pairsIn(chain, job.pairsAt, s)
               /\ \A p \in pairsIn(chain, job.pairsAt, s) :
                    datumIn(chain', job.pairsAt, p, s) = datumIn(chain, job.pairsAt, p, s)
    BY <1>1, <1>2, <1>3, <2>1, <2>2, NothingRewritten
  <2>4. \A u \in job.updates :
          /\ u.pair # 0 => u.pair \in pairsIn(chain, job.pairsAt, u.intent.symbol)
          /\ beatsIn(chain, job.pairsAt, u)
    BY DEF ChainInv, ReadOnce
  <2>. QED
    BY <2>1, <2>3, <2>4 DEF ReadOnce, beatsIn
<1>6. ASSUME losses' = 0
      PROVE  Alone' /\ Quiet' /\ QuietRead' /\ Minted' /\ Mints'
  <2>1. Alone /\ Quiet /\ QuietRead /\ Minted /\ Mints
    BY <1>6 DEF ChainInv
  <2>2. Alone'
    BY <1>1 DEF Alone
  <2>3. Quiet'
    <3>1. ASSUME NEW v \in indexed + 1 .. n + 1
          PROVE  \/ chain'[v].updates = {}
                 \/ job.step = "confirm" /\ v = job.tx.input + 1 /\ chain'[v] = job.tx
      <4>1. CASE v = n + 1
        BY <1>2, <1>6, <4>1
      <4>2. CASE v # n + 1
        <5>1. v \in indexed + 1 .. n /\ v \in 1 .. n
          BY <1>1, <4>2
        <5>. QED
          BY <1>2, <2>1, <5>1 DEF Quiet
      <4>. QED
        BY <4>1, <4>2
    <3>. QED
      BY <1>2, <3>1 DEF Quiet
  <2>4. CASE tx.updates = {}
    <3>1. \A s : pairsIn(chain', n + 1, s) = pairsIn(chain, n, s)
      BY <1>4, <2>4
    <3>2. Minted'
      BY <1>2, <2>1, <3>1 DEF Minted
    <3>3. Mints'
      BY <1>1, <1>2, <2>1, <3>1 DEF Mints, notThereYet
    <3>4. QuietRead'
      <4>1. ASSUME job.step \in {"fetch", "submit"}, NEW v \in job.pairsAt + 1 .. n + 1
            PROVE  chain'[v].updates = {}
        <5>1. CASE v = n + 1
          BY <1>2, <2>4, <5>1
        <5>2. CASE v # n + 1
          <6>1. v \in job.pairsAt + 1 .. n /\ v \in 1 .. n
            BY <1>1, <5>2
          <6>. QED
            BY <1>2, <2>1, <4>1, <6>1 DEF QuietRead
        <5>. QED
          BY <5>1, <5>2
      <4>. QED
        BY <1>2, <4>1 DEF QuietRead
    <3>. QED
      BY <2>2, <2>3, <3>2, <3>3, <3>4
  <2>5. CASE job.step = "confirm" /\ tx = job.tx /\ tx \in mempool
    <3>1. QuietRead' /\ Mints'
      BY <1>1, <2>5 DEF QuietRead, Mints
    <3>2. Minted'
      <4>1. ASSUME NEW s, NEW p \in pairsIn(chain', n + 1, s), NEW q \in pairsIn(chain', n + 1, s)
            PROVE  p = q
        <5>1. CASE \E u \in tx.updates : u.pair = 0 /\ u.intent.symbol = s
          <6>1. pairsIn(chain, n, s) = {}
            BY <2>1, <2>5, <5>1 DEF Mints, notThereYet
          <6>. QED
            BY <1>4, <6>1
        <5>2. CASE ~ \E u \in tx.updates : u.pair = 0 /\ u.intent.symbol = s
          BY <1>4, <2>1, <5>2 DEF Minted
        <5>. QED
          BY <5>1, <5>2
      <4>. QED
        BY <1>2, <4>1 DEF Minted
    <3>. QED
      BY <2>2, <2>3, <3>1, <3>2
  <2>. QED
    BY <1>6, <2>4, <2>5
<1>. QED
  BY <1>3, <1>5, <1>6 DEF ChainInv

LEMMA LandKeepsChain ==
  ASSUME LaneInv, ChainInv, Land
  PROVE  ChainInv'
<1>1. PICK tx \in mempool : tx.input = Len(chain) /\ spend(tx)
  BY DEF Land
<1>2. tx \in Transactions /\ \A i, j \in intentsOf(tx.updates) : i.symbol = j.symbol => i = j
  BY DEF LaneInv, LaneTypes, Afloat
<1>3. losses = 0 => job.step = "confirm" /\ tx = job.tx /\ tx \in mempool
  BY DEF ChainInv, Alone
<1>. QED
  BY <1>1, <1>2, <1>3, SpendKeepsChain DEF Land

LEMMA TopUpKeepsChain ==
  ASSUME LaneInv, ChainInv, TopUp
  PROVE  ChainInv'
<1>. DEFINE tx == [input |-> Len(chain), updates |-> {}, nr |-> -1]
<1>1. Len(chain) \in Nat
  BY DEF LaneInv, LaneTypes
<1>2. tx \in Transactions /\ tx.input = Len(chain) /\ tx.updates = {} /\ spend(tx)
  BY <1>1 DEF Transactions, Versions, TopUp
<1>. HIDE DEF tx
<1>3. intentsOf(tx.updates) = {}
  BY <1>2 DEF intentsOf
<1>. QED
  BY <1>2, <1>3, SpendKeepsChain DEF TopUp

LEMMA EvictKeepsChain ==
  ASSUME LaneInv, ChainInv, Evict
  PROVE  ChainInv'
<1>1. losses' # 0
  <2>1. losses \in Nat
    BY DEF LaneInv, LaneTypes
  <2>. QED
    BY <2>1 DEF Evict
<1>2. oneEach(chain') /\ ReadOnce'
  BY DEF Evict, ChainInv, ReadOnce
<1>. QED
  BY <1>1, <1>2 DEF ChainInv

LEMMA IndexerKeepsChain ==
  ASSUME LaneInv, ChainInv, IndexerCatchesUp
  PROVE  ChainInv'
<1>. USE DEF IndexerCatchesUp
<1>1. /\ indexed \in Nat /\ Len(chain) \in Nat /\ indexed' \in Nat /\ indexed < indexed'
      /\ job.pairsAt \in Nat
  BY DEF LaneInv, LaneTypes, Jobs, Versions
<1>2. oneEach(chain') /\ ReadOnce'
  BY <1>1 DEF ChainInv, ReadOnce
<1>3. ASSUME losses' = 0
      PROVE  Alone' /\ Quiet' /\ QuietRead' /\ Minted' /\ Mints'
  <2>1. ASSUME NEW v \in indexed' + 1 .. Len(chain)
        PROVE  v \in indexed + 1 .. Len(chain)
    <3>. DEFINE from == indexed'
                to == Len(chain)
    <3>1. indexed \in Nat /\ from \in Nat /\ to \in Nat /\ indexed < from /\ v \in from + 1 .. to
      BY <1>1, <2>1
    <3>. HIDE DEF IndexerCatchesUp, from, to
    <3>2. v \in indexed + 1 .. to
      BY <3>1
    <3>. QED
      BY <3>2 DEF to
  <2>2. Quiet'
    BY <1>3, <2>1 DEF ChainInv, Quiet
  <2>3. Alone' /\ QuietRead' /\ Minted' /\ Mints'
    BY <1>3 DEF ChainInv, Alone, QuietRead, Minted, Mints, notThereYet
  <2>. QED
    BY <2>2, <2>3
<1>. QED
  BY <1>2, <1>3 DEF ChainInv

-----------------------------------------------------------------------------
(* Every step keeps it *)

LEMMA ChainStep ==
  ASSUME LaneInv, ChainInv, [Next]_vars
  PROVE  ChainInv'
<1>1. ASSUME NEW i, IntentArrives(i)
      PROVE  ChainInv'
  BY <1>1, ChainLeft DEF IntentArrives
<1>2. ASSUME CoalescerAlone
      PROVE  ChainInv'
  BY <1>2, ChainLeft DEF CoalescerAlone
<1>3. ASSUME QueueStep
      PROVE  ChainInv'
  <2>1. CASE enqueueBatch
    BY <2>1, ChainLeft DEF enqueueBatch
  <2>2. CASE drain
    <3>1. job.step # "confirm" /\ job'.step = "start" /\ UNCHANGED <<chain, mempool, indexed, losses>>
      BY <2>2 DEF drain, Idle
    <3>. QED
      BY <3>1, BridgeDone
  <2>3. CASE Retry
    <3>1. job.step # "confirm" /\ job'.step = "start" /\ UNCHANGED <<chain, mempool, indexed, losses>>
      BY <2>3 DEF Retry, Idle
    <3>. QED
      BY <3>1, BridgeDone
  <2>4. CASE Resolve
    <3>1. job.step # "confirm" /\ job'.step = "idle" /\ UNCHANGED <<chain, mempool, indexed, losses>>
      BY <2>4 DEF Resolve, Idle
    <3>. QED
      BY <3>1, BridgeDone
  <2>. QED
    BY <1>3, <2>1, <2>2, <2>3, <2>4 DEF QueueStep
<1>4. ASSUME BridgeStep
      PROVE  ChainInv'
  BY <1>4, PrepareKeepsChain, FetchKeepsChain, BuildFailsKeepsChain, SubmitKeepsChain,
     SubmitStaleKeepsChain, ConfirmedKeepsChain, NeverConfirmedKeepsChain DEF BridgeStep
<1>5. ASSUME maybeAutoMergeDeposits \/ UNCHANGED vars
      PROVE  ChainInv'
  BY <1>5, ChainLeft DEF maybeAutoMergeDeposits
<1>. HIDE DEF vars, coalescerVars, queueVars, cardanoVars
<1>. QED
  BY <1>1, <1>2, <1>3, <1>4, <1>5, LandKeepsChain, TopUpKeepsChain, EvictKeepsChain,
     IndexerKeepsChain DEF Next

\* The invariant holds in every reachable state.
THEOREM ChainIsSound == Spec => []ChainInv
<1>. HIDE DEF vars, coalescerVars, queueVars, cardanoVars
<1>. QED
  BY ChainInit, ChainStep, LaneIsSound, PTL DEF Spec

-----------------------------------------------------------------------------
(* What it shows *)

\* The feeder never submits an update that the contract would refuse: what it
\* read of the pair is still the pair's datum when the pair it spends is
\* unspent, however long ago it was read.
THEOREM SubmitsOnlyAcceptable == Spec => []OnlyAcceptable
<1>1. ASSUME LaneInv, ChainInv
      PROVE  OnlyAcceptable
  <2>. SUFFICES ASSUME job.step = "submit", InputsUnspent, NEW u \in job.updates, u.pair # 0
                PROVE  isNewer(u.intent, PairDatum(Len(chain), u.pair, u.intent.symbol))
    BY DEF OnlyAcceptable, beatsOnChain
  <2>. DEFINE m == job.pairsAt
              n == Len(chain)
              p == u.pair
              s == u.intent.symbol
  <2>1. /\ chain \in Seq(Transactions) /\ n \in Nat /\ m \in Nat /\ m <= n /\ oneEach(chain)
    <3>1. chain \in Seq(Transactions) /\ indexed \in 0 .. Len(chain) /\ job \in Jobs
      BY <1>1 DEF LaneInv, LaneTypes
    <3>2. job.pairsAt <= indexed /\ oneEach(chain)
      BY <1>1 DEF ChainInv, ReadOnce
    <3>. QED
      BY <3>1, <3>2 DEF Jobs, Versions
  <2>2. p \in pairsIn(chain, m, s) /\ isNewer(u.intent, datumIn(chain, m, p, s))
    BY <1>1 DEF ChainInv, ReadOnce, beatsIn
  <2>3. \A v \in m + 1 .. n : writesIn(chain, v, p, s) = {}
    BY OnThisChain DEF InputsUnspent
  <2>4. m \in 0 .. n /\ n \in m .. n
    BY <2>1
  <2>. HIDE DEF m, n, p, s
  <2>5. datumIn(chain, n, p, s) = datumIn(chain, m, p, s)
    BY <2>1, <2>2, <2>3, <2>4, DatumStays DEF n
  <2>. QED
    BY <2>2, <2>5, OnThisChain DEF n, p, s
<1>. HIDE DEF vars, coalescerVars, queueVars, cardanoVars
<1>. QED
  BY <1>1, LaneIsSound, ChainIsSound, PTL

\* As long as nothing was lost, two transactions of the lane never contend for
\* the same Receiver UTxO: the serial queue waits for the one before.
THEOREM LaneNeverContends == Spec => []NoContention
<1>1. ChainInv => NoContention
  BY DEF ChainInv, Alone, NoContention
<1>. HIDE DEF vars, coalescerVars, queueVars, cardanoVars
<1>. QED
  BY <1>1, ChainIsSound, PTL

\* As long as nothing was lost, a symbol has one Pair UTxO at most: the queue
\* starts no entry before the indexer shows what the entry before it minted.
THEOREM PairIsMintedOnce == Spec => []PairMintedOnce
<1>1. ASSUME LaneInv, ChainInv
      PROVE  PairMintedOnce
  <2>. SUFFICES ASSUME losses = 0, NEW s \in Symbols
                PROVE  Cardinality(LivePairs(Len(chain), s)) <= 1
    BY DEF PairMintedOnce
  <2>. DEFINE pairs == pairsIn(chain, Len(chain), s)
  <2>1. \A p, q \in pairs : p = q
    BY <1>1 DEF ChainInv, Minted
  <2>2. LivePairs(Len(chain), s) = pairs
    BY OnThisChain
  <2>. HIDE DEF pairs
  <2>3. CASE pairs = {}
    BY <2>2, <2>3, FS_EmptySet
  <2>4. CASE pairs # {}
    <3>1. PICK p : pairs = {p}
      BY <2>1, <2>4
    <3>2. Cardinality({p}) = 1
      BY FS_Singleton
    <3>. QED
      BY <2>2, <3>1, <3>2
  <2>. QED
    BY <2>3, <2>4
<1>. HIDE DEF vars, coalescerVars, queueVars, cardanoVars
<1>. QED
  BY <1>1, LaneIsSound, ChainIsSound, PTL

-----------------------------------------------------------------------------
(* The invariant about the answers *)

\* The chain carries an intent of the symbol that this one does not beat.
rival(i) == \E j \in published : j.symbol = i.symbol /\ ~isNewer(i, j)

\* The transaction is the one of the updates; a success is never mixed with a
\* failure that the queue retries or the coalescer splits.
TxIsBuilt ==
  job.step = "confirm" => intentsOf(job.tx.updates) = intentsOf(job.updates)

OkCodes ==
  job.step = "answered" /\ (\E k \in DOMAIN job.codes : job.codes[k] = "ok") =>
    \A k \in DOMAIN job.codes : job.codes[k] \in {"ok", "NonMonotonicNonce"}

\* What the bridge skipped, or answered as superseded, has a rival.
jobRivals ==
  /\ job.step \in {"fetch", "submit", "confirm"} =>
       \A i \in Elements(job.requests) \ intentsOf(job.updates) : rival(i)
  /\ job.step = "answered" =>
       \A k \in DOMAIN job.codes : job.codes[k] = "NonMonotonicNonce" => rival(job.requests[k])

laneRivals ==
  /\ \A i \in Intents : status[i] = "NonMonotonicNonce" => rival(i)
  /\ \A k \in DOMAIN results : results[k] = "NonMonotonicNonce" => rival(Head(batches)[k])

\* The bridge, or the coalescer, knows that the intent is published.
bridgeKnows(i) ==
  \/ /\ job.step = "answered"
     /\ \E k \in DOMAIN job.codes : job.codes[k] = "ok" /\ job.requests[k] = i
  \/ job.step = "confirm" /\ Landed(job.tx) /\ i \in intentsOf(job.tx.updates)

coalescerKnows(i) ==
  \/ status[i] = "ok"
  \/ \E k \in DOMAIN results : results[k] = "ok" /\ Head(batches)[k] = i

Accounted == \A i \in published : bridgeKnows(i) \/ coalescerKnows(i)

AnswersInv ==
  /\ TxIsBuilt /\ OkCodes
  /\ losses = 0 => jobRivals /\ laneRivals /\ Accounted

LEMMA AnswersInit ==
  ASSUME Init
  PROVE  AnswersInv
<1>1. published = {}
  BY DEF Init, published
<1>2. DOMAIN results = {} /\ status = [i \in Intents |-> "unseen"]
  BY DEF Init, CoalescerInit
<1>. QED
  BY <1>1, <1>2 DEF Init, AnswersInv, TxIsBuilt, OkCodes, jobRivals, laneRivals, Accounted, Idle

LEMMA SameRivals ==
  ASSUME published' = published
  PROVE  \A i : rival(i)' <=> rival(i)
BY DEF rival

LEMMA PublishedIntents ==
  ASSUME LaneInv
  PROVE  published \subseteq Intents
<1>1. chain \in Seq(Transactions)
  BY DEF LaneInv, LaneTypes
<1>2. \A v \in DOMAIN chain : chain[v] \in Transactions
  BY <1>1
<1>3. \A v \in DOMAIN chain : \A u \in chain[v].updates : u.intent \in Intents
  BY <1>2 DEF Transactions, Updates
<1>. QED
  BY <1>3 DEF published

-----------------------------------------------------------------------------
(* The coalescer keeps it *)

\* A step of the coalescer that neither takes nor reports a result.
LEMMA AnswersLeft ==
  ASSUME LaneInv, AnswersInv, UNCHANGED <<job, chain, losses, results>>,
         results # <<>> => batches' = batches,
         \A i \in Intents :
           /\ status[i] = "ok" => status'[i] = "ok"
           /\ status'[i] = "NonMonotonicNonce" => status[i] = "NonMonotonicNonce"
  PROVE  AnswersInv'
<1>1. published' = published /\ (\A i : rival(i)' <=> rival(i)) /\ published \subseteq Intents
  BY SamePublished, SameRivals, PublishedIntents
<1>2. TxIsBuilt' /\ OkCodes'
  BY DEF AnswersInv, TxIsBuilt, OkCodes
<1>3. ASSUME losses = 0
      PROVE  jobRivals' /\ laneRivals' /\ Accounted'
  <2>1. DOMAIN results # {} => batches' = batches
    OBVIOUS
  <2>2. jobRivals'
    BY <1>1, <1>3 DEF AnswersInv, jobRivals
  <2>3. laneRivals'
    BY <1>1, <1>3, <2>1 DEF AnswersInv, laneRivals
  <2>4. ASSUME NEW i \in published
        PROVE  bridgeKnows(i)' \/ coalescerKnows(i)'
    <3>1. bridgeKnows(i) \/ coalescerKnows(i)
      BY <1>3 DEF AnswersInv, Accounted
    <3>2. bridgeKnows(i) => bridgeKnows(i)'
      BY DEF bridgeKnows, Landed
    <3>3. coalescerKnows(i) => coalescerKnows(i)'
      BY <1>1, <2>1 DEF coalescerKnows
    <3>. QED
      BY <3>1, <3>2, <3>3
  <2>5. Accounted'
    BY <1>1, <2>4 DEF Accounted
  <2>. QED
    BY <2>2, <2>3, <2>5
<1>. QED
  BY <1>2, <1>3 DEF AnswersInv

\* A round that starts finds no result left of the one before.
LEMMA NoResultsLeft ==
  ASSUME LaneInv, lane = "accumulating" \/ (flush = "chunk" /\ batches = <<>>)
  PROVE  results = <<>>
BY DEF LaneInv, LaneTypes, Phases

LEMMA ArrivalKeepsAnswers ==
  ASSUME LaneInv, AnswersInv, NEW i \in Intents, IntentArrives(i)
  PROVE  AnswersInv'
<1>1. Contract!Take(i) /\ status \in [Intents -> Statuses]
  BY ArrivalIsTaken DEF LaneInv, LaneTypes
<1>2. \A j \in Intents :
        /\ status[j] = "ok" => status'[j] = "ok"
        /\ status'[j] = "NonMonotonicNonce" => status[j] = "NonMonotonicNonce"
  BY <1>1 DEF Contract!Take, Contract!rivals
<1>. QED
  BY <1>2, AnswersLeft DEF IntentArrives, accept

LEMMA CoalescerKeepsAnswers ==
  ASSUME LaneInv, AnswersInv, UNCHANGED <<queueVars, cardanoVars>>,
         TimerFires \/ ReportAged \/ MarkInFlight \/ RoundEnds
  PROVE  AnswersInv'
<1>1. CASE TimerFires
  BY <1>1, NoResultsLeft, AnswersLeft DEF TimerFires
<1>2. CASE ReportAged
  <2>1. /\ Contract!Answer(Head(aged), "IntentAgedOut") /\ Head(aged) \in Intents
        /\ status \in [Intents -> Statuses]
    BY <1>2, AgedIsAnswered DEF LaneInv, LaneTypes
  <2>2. \A j \in Intents :
          /\ status[j] = "ok" => status'[j] = "ok"
          /\ status'[j] = "NonMonotonicNonce" => status[j] = "NonMonotonicNonce"
    BY <2>1 DEF Contract!Answer
  <2>. QED
    BY <1>2, <2>2, AnswersLeft DEF ReportAged
<1>3. CASE MarkInFlight
  BY <1>3, AnswersLeft DEF MarkInFlight
<1>4. CASE RoundEnds
  BY <1>4, NoResultsLeft, AnswersLeft DEF RoundEnds
<1>. QED
  BY <1>1, <1>2, <1>3, <1>4

LEMMA ReportResultKeepsAnswers ==
  ASSUME LaneInv, AnswersInv, ReportResult, UNCHANGED <<queueVars, cardanoVars>>
  PROVE  AnswersInv'
<1>. USE DEF ReportResult
<1>. DEFINE i == Head(Head(batches))
            code == Head(results)
<1>1. /\ i \in Intents /\ i = Head(batches)[1] /\ code = results[1] /\ 1 \in DOMAIN results
      /\ status[i] = "held"
  BY FirstRequest
<1>2. status \in [Intents -> Statuses] /\ status' = [status EXCEPT ![i] = code]
  BY DEF LaneInv, LaneTypes
<1>. HIDE DEF i, code
<1>3. /\ status'[i] = results[1]
      /\ \A j \in Intents : j # i => status'[j] = status[j]
  BY <1>1, <1>2
<1>4. published' = published /\ (\A j : rival(j)' <=> rival(j)) /\ published \subseteq Intents
  BY SamePublished, SameRivals, PublishedIntents
<1>5. TxIsBuilt' /\ OkCodes'
  BY DEF AnswersInv, TxIsBuilt, OkCodes
<1>6. ASSUME losses = 0
      PROVE  jobRivals' /\ laneRivals' /\ Accounted'
  <2>1. jobRivals'
    BY <1>4, <1>6 DEF AnswersInv, jobRivals
  <2>2. laneRivals'
    BY <1>1, <1>3, <1>4, <1>6 DEF AnswersInv, laneRivals
  <2>3. ASSUME NEW j \in published
        PROVE  bridgeKnows(j)' \/ coalescerKnows(j)'
    <3>1. bridgeKnows(j) \/ coalescerKnows(j)
      BY <1>6 DEF AnswersInv, Accounted
    <3>2. bridgeKnows(j) => bridgeKnows(j)'
      BY DEF bridgeKnows, Landed
    <3>3. coalescerKnows(j) => coalescerKnows(j)'
      BY <1>1, <1>3, <1>4 DEF coalescerKnows
    <3>. QED
      BY <3>1, <3>2, <3>3
  <2>4. Accounted'
    BY <1>4, <2>3 DEF Accounted
  <2>. QED
    BY <2>1, <2>2, <2>4
<1>. QED
  BY <1>5, <1>6 DEF AnswersInv

\* Clearing a mark drops the result that was reported.
LEMMA ClearMarkKeepsAnswers ==
  ASSUME LaneInv, AnswersInv, ClearMark, UNCHANGED <<queueVars, cardanoVars>>, LaneInv'
  PROVE  AnswersInv'
<1>. USE DEF ClearMark
<1>. DEFINE first == Head(batches)
<1>1. /\ batches # <<>> /\ results # <<>> /\ results \in Seq(Codes)
      /\ Len(results) = Len(first) /\ first \in Seq(Intents) /\ first # <<>>
      /\ status[first[1]] = results[1]
  <2>1. flush = "clear"
    OBVIOUS
  <2>2. batches # <<>> /\ results # <<>> /\ results \in Seq(Codes) /\ Len(results) = Len(first)
        /\ Head(first) = first[1] /\ Head(results) = results[1]
    BY <2>1, FirstRequest
  <2>3. first \in Seq(Intents) /\ first # <<>>
    BY <2>2, FirstBatch
  <2>4. status[Head(first)] = Head(results)
    BY <2>1 DEF LaneInv, Held
  <2>. QED
    BY <2>2, <2>3, <2>4
<1>2. /\ Tail(first) \in Seq(Intents) /\ Len(first) \in Nat \ {0}
      /\ \A k \in 1 .. Len(first) - 1 : Tail(first)[k] = first[k + 1]
  BY <1>1, ElementsSplit
<1>3. /\ results' \in Seq(Codes) /\ Len(results') = Len(results) - 1
      /\ \A k \in 1 .. Len(results) - 1 : results'[k] = results[k + 1]
  BY <1>1, ElementsSplit
<1>4. ASSUME results' # <<>>
      PROVE  Head(batches') = Tail(first)
  <2>1. batches' = <<Tail(first)>> \o Tail(batches)
    BY <1>4
  <2>2. batches \in Batches /\ Tail(batches) \in Batches
    BY <1>1, OtherBatches DEF LaneInv, LaneTypes, Held
  <2>. DEFINE one == <<Tail(first)>>
              rest == Tail(batches)
  <2>3. one \in Seq(Seq(Intents)) /\ Len(one) = 1 /\ one[1] = Tail(first) /\ rest \in Seq(Seq(Intents))
    BY <1>2, <2>2 DEF Batches
  <2>. HIDE DEF one, rest
  <2>4. /\ one \o rest \in Seq(Seq(Intents)) /\ Len(one \o rest) = Len(one) + Len(rest)
        /\ \A k \in 1 .. Len(one) + Len(rest) :
             (one \o rest)[k] = IF k <= Len(one) THEN one[k] ELSE rest[k - Len(one)]
    BY <2>3, ConcatProperties
  <2>5. Len(rest) \in Nat
    BY <2>3
  <2>6. (one \o rest)[1] = Tail(first) /\ one \o rest # <<>>
    BY <2>3, <2>4, <2>5
  <2>7. Head(one \o rest) = (one \o rest)[1]
    BY <2>4, <2>6, ElementsSplit
  <2>. QED
    BY <2>1, <2>6, <2>7 DEF one, rest
<1>. HIDE DEF first
<1>5. DOMAIN results' = 1 .. Len(results) - 1 /\ DOMAIN results = 1 .. Len(results)
      /\ Len(results) \in Nat \ {0}
  BY <1>1, <1>2, <1>3
<1>. HIDE DEF ClearMark
<1>6. \A k \in DOMAIN results' :
        /\ k + 1 \in DOMAIN results /\ results'[k] = results[k + 1]
        /\ Head(batches')[k] = first[k + 1]
  <2>. SUFFICES ASSUME NEW k \in DOMAIN results'
                PROVE  /\ k + 1 \in DOMAIN results /\ results'[k] = results[k + 1]
                       /\ Head(batches')[k] = first[k + 1]
    OBVIOUS
  <2>1. k \in 1 .. Len(first) - 1 /\ k + 1 \in DOMAIN results /\ results' # <<>>
    BY <1>1, <1>5
  <2>. QED
    BY <1>2, <1>3, <1>4, <1>5, <2>1
<1>7. \A k \in DOMAIN results :
        k = 1 \/ (k - 1 \in DOMAIN results' /\ (k - 1) + 1 = k)
  BY <1>5
<1>8. published' = published /\ (\A j : rival(j)' <=> rival(j)) /\ published \subseteq Intents
  BY SamePublished, SameRivals, PublishedIntents
<1>9. UNCHANGED <<status, job, chain, losses>>
  BY DEF ClearMark
<1>10. TxIsBuilt' /\ OkCodes'
  BY <1>9 DEF AnswersInv, TxIsBuilt, OkCodes
<1>11. ASSUME losses = 0
      PROVE  jobRivals' /\ laneRivals' /\ Accounted'
  <2>1. jobRivals'
    BY <1>8, <1>9, <1>11 DEF AnswersInv, jobRivals
  <2>2. laneRivals'
    BY <1>6, <1>8, <1>9, <1>11 DEF AnswersInv, laneRivals, first
  <2>3. ASSUME NEW j \in published
        PROVE  bridgeKnows(j)' \/ coalescerKnows(j)'
    <3>1. bridgeKnows(j) \/ coalescerKnows(j)
      BY <1>11 DEF AnswersInv, Accounted
    <3>2. bridgeKnows(j) => bridgeKnows(j)'
      BY <1>9 DEF bridgeKnows, Landed
    <3>3. ASSUME NEW k \in DOMAIN results, results[k] = "ok", first[k] = j
          PROVE  coalescerKnows(j)'
      <4>1. CASE k = 1
        BY <1>1, <1>9, <3>3, <4>1 DEF coalescerKnows
      <4>2. CASE k # 1
        <5>1. /\ k - 1 \in DOMAIN results' /\ results'[k - 1] = "ok"
              /\ Head(batches')[k - 1] = j
          BY <1>6, <1>7, <3>3, <4>2
        <5>. QED
          BY <5>1 DEF coalescerKnows
      <4>. QED
        BY <4>1, <4>2
    <3>4. coalescerKnows(j) => coalescerKnows(j)'
      BY <1>9, <3>3 DEF coalescerKnows, first
    <3>. QED
      BY <3>1, <3>2, <3>4
  <2>4. Accounted'
    BY <1>8, <2>3 DEF Accounted
  <2>. QED
    BY <2>1, <2>2, <2>4
<1>. QED
  BY <1>9, <1>10, <1>11 DEF AnswersInv

-----------------------------------------------------------------------------
(* The serial queue keeps it *)

\* A step of the queue or the bridge that tells the coalescer nothing.
LEMMA JobMoves ==
  ASSUME LaneInv, AnswersInv, UNCHANGED <<status, results, batches, chain>>,
         losses' = losses \/ losses' = losses + 1,
         TxIsBuilt', OkCodes',
         losses' = 0 => /\ jobRivals'
                        /\ \A i \in published : bridgeKnows(i) => bridgeKnows(i)'
  PROVE  AnswersInv'
<1>1. published' = published /\ (\A j : rival(j)' <=> rival(j))
  BY SamePublished, SameRivals
<1>2. ASSUME losses' = 0
      PROVE  jobRivals' /\ laneRivals' /\ Accounted'
  <2>1. losses = 0
    BY <1>2, LossesGrow
  <2>2. laneRivals'
    BY <1>1, <2>1 DEF AnswersInv, laneRivals
  <2>3. Accounted'
    BY <1>1, <1>2, <2>1 DEF AnswersInv, Accounted, coalescerKnows
  <2>. QED
    BY <1>2, <2>2, <2>3
<1>. QED
  BY <1>2 DEF AnswersInv

LEMMA DrainKeepsAnswers ==
  ASSUME LaneInv, AnswersInv, drain
  PROVE  AnswersInv'
<1>. USE DEF drain
<1>1. job.step = "idle" /\ job'.step = "start"
  BY DEF Idle
<1>2. TxIsBuilt' /\ OkCodes' /\ jobRivals'
  BY <1>1 DEF TxIsBuilt, OkCodes, jobRivals
<1>3. \A i : ~bridgeKnows(i)
  BY <1>1 DEF bridgeKnows
<1>. QED
  BY <1>2, <1>3, JobMoves

\* No entry is retried that has an intent on the chain.
LEMMA RetryKeepsAnswers ==
  ASSUME LaneInv, AnswersInv, Retry
  PROVE  AnswersInv'
<1>. USE DEF Retry
<1>1. job.step = "answered" /\ job'.step = "start"
  BY DEF Idle
<1>2. TxIsBuilt' /\ OkCodes' /\ jobRivals'
  BY <1>1 DEF TxIsBuilt, OkCodes, jobRivals
<1>3. \A k \in DOMAIN job.codes : job.codes[k] # "ok"
  <2>. DEFINE first == CHOOSE k \in failures : \A l \in failures : k <= l
  <2>1. failures # {} /\ job.codes[first] \notin NON_RETRIABLE_CODES
    BY DEF shouldRetry
  <2>2. job.codes \in Seq(Results)
    BY DEF LaneInv, LaneTypes, Jobs
  <2>3. failures \subseteq 1 .. Len(job.codes) /\ Len(job.codes) \in Nat
    BY <2>2 DEF failures
  <2>4. \E k \in failures : \A l \in failures : k <= l
    <3>1. failures \in SUBSET Int /\ IsFiniteSet(failures)
      <4>1. \A n \in Nat : IsFiniteSet(1 .. n)
        BY FS_Interval
      <4>2. IsFiniteSet(1 .. Len(job.codes))
        BY <2>3, <4>1
      <4>3. \A k \in failures : k \in Int
        BY <2>3
      <4>. QED
        BY <2>3, <4>2, <4>3, FS_Subset
    <3>. QED
      BY <2>1, <3>1, LeastElement
  <2>5. first \in failures
    BY <2>4
  <2>. HIDE DEF first
  <2>6. /\ first \in DOMAIN job.codes
        /\ job.codes[first] \notin {"ok", "NonMonotonicNonce"}
    BY <2>1, <2>5 DEF failures, NON_RETRIABLE_CODES
  <2>. QED
    BY <1>1, <2>6 DEF AnswersInv, OkCodes
<1>4. \A i : ~bridgeKnows(i)
  BY <1>1, <1>3 DEF bridgeKnows
<1>. QED
  BY <1>2, <1>4, JobMoves

\* The results of a chunk join those of its batch; a chunk that is halved has
\* nothing on the chain.
LEMMA ResolveKeepsAnswers ==
  ASSUME LaneInv, AnswersInv, Resolve
  PROVE  AnswersInv'
<1>. USE DEF Resolve
<1>1. job.step = "answered" /\ job' = Idle /\ job'.step = "idle"
  BY DEF Idle
<1>2. TxIsBuilt' /\ OkCodes' /\ jobRivals'
  BY <1>1 DEF TxIsBuilt, OkCodes, jobRivals
<1>3. CASE job.requests = <<>>
  <2>1. UNCHANGED <<status, results, batches, chain, losses>>
    BY <1>3
  <2>2. \A i : ~bridgeKnows(i)
    <3>1. job.codes \in Seq(Codes) /\ Len(job.codes) = 0
      <4>1. job.codes \in Seq(Codes) /\ Len(job.codes) = Len(job.requests) /\ Len(<<>>) = 0
        BY <1>1 DEF LaneInv, Building
      <4>. QED
        BY <1>3, <4>1
    <3>2. DOMAIN job.codes = {}
      BY <3>1
    <3>. QED
      BY <1>1, <3>2 DEF bridgeKnows
  <2>. QED
    BY <1>2, <2>1, <2>2, JobMoves
<1>4. CASE job.requests # <<>>
  <2>. DEFINE chunk == Head(chunks)
              codes == job.codes
              w == Head(batches)
              from == Len(results)
              split == SizeFallback /\ Len(chunk) > 1 /\ isBatchSizeFailure(codes)
  <2>1. ChunkAnswered(codes) /\ UNCHANGED cardanoVars
    BY <1>4
  <2>2. flush = "queue" /\ job.requests = chunk
    BY <1>4 DEF LaneInv, Queued
  <2>3. /\ from \in Nat /\ results \in Seq(Codes) /\ batches # <<>>
        /\ \A k \in DOMAIN chunk : chunk[k] = w[from + k]
        /\ chunk \in Seq(Intents) /\ Len(chunk) \in Nat
    BY <2>2, QueuedChunk DEF LaneInv, LaneTypes
  <2>4. codes \in Seq(Codes) /\ Len(codes) = Len(chunk)
    BY <1>1, <2>2 DEF LaneInv, Building
  <2>5. /\ results' = IF split THEN results ELSE results \o codes
        /\ UNCHANGED <<batches, status>>
    BY <2>1 DEF ChunkAnswered
  <2>6. published' = published /\ (\A j : rival(j)' <=> rival(j)) /\ chain' = chain /\ losses' = losses
    BY <2>1, SamePublished, SameRivals
  <2>. HIDE DEF chunk, w, from, split, codes, Resolve
  <2>7. CASE split
    <3>1. \A k \in DOMAIN codes : codes[k] # "ok"
      BY <2>7 DEF split, isBatchSizeFailure, Elements
    <3>2. \A i : ~bridgeKnows(i)
      BY <1>1, <3>1 DEF bridgeKnows, codes
    <3>. QED
      BY <1>2, <2>5, <2>6, <2>7, <3>2, JobMoves
  <2>8. CASE ~split
    <3>1. /\ results' \in Seq(Codes) /\ Len(results') = from + Len(codes)
          /\ \A k \in 1 .. from + Len(codes) :
               results'[k] = IF k <= from THEN results[k] ELSE codes[k - from]
      <4>1. results \in Seq(Codes) /\ codes \in Seq(Codes)
        BY <2>3, <2>4
      <4>2. /\ results \o codes \in Seq(Codes)
            /\ Len(results \o codes) = Len(results) + Len(codes)
            /\ \A k \in 1 .. Len(results) + Len(codes) :
                 (results \o codes)[k]
                   = IF k <= Len(results) THEN results[k] ELSE codes[k - Len(results)]
        BY ONLY <4>1, ConcatProperties
      <4>3. results' = results \o codes
        BY <2>5, <2>8
      <4>. QED
        BY ONLY <4>2, <4>3 DEF from
    <3>2. /\ DOMAIN results' = 1 .. from + Len(codes) /\ DOMAIN results = 1 .. from
          /\ DOMAIN codes = 1 .. Len(codes) /\ DOMAIN chunk = 1 .. Len(codes)
          /\ Len(codes) \in Nat
      BY <2>3, <2>4, <3>1 DEF from
    <3>3. \A k \in DOMAIN results : k \in DOMAIN results' /\ results'[k] = results[k]
      BY <2>3, <3>1, <3>2
    <3>4. \A k \in DOMAIN codes :
            from + k \in DOMAIN results' /\ results'[from + k] = codes[k] /\ w[from + k] = chunk[k]
      <4>. SUFFICES ASSUME NEW k \in DOMAIN codes
                    PROVE  /\ from + k \in DOMAIN results' /\ results'[from + k] = codes[k]
                           /\ w[from + k] = chunk[k]
        OBVIOUS
      <4>1. PICK n \in 1 .. from + Len(codes) : n = from + k /\ ~(n <= from) /\ n - from = k
        BY <2>3, <3>2
      <4>2. results'[n] = codes[n - from]
        BY <3>1, <4>1
      <4>. QED
        BY <2>3, <3>2, <4>1, <4>2
    <3>5. \A k \in DOMAIN results' :
            \/ k \in DOMAIN results
            \/ \E l \in DOMAIN codes : k = from + l
      <4>. SUFFICES ASSUME NEW k \in DOMAIN results', k \notin DOMAIN results
                    PROVE  \E l \in DOMAIN codes : k = from + l
        OBVIOUS
      <4>1. k - from \in DOMAIN codes /\ k = from + (k - from)
        BY <2>3, <3>2
      <4>. QED
        BY <4>1
    <3>6. ASSUME losses = 0
          PROVE  laneRivals' /\ Accounted'
      <4>1. ASSUME NEW k \in DOMAIN results', results'[k] = "NonMonotonicNonce"
            PROVE  rival(w[k])
        <5>1. CASE k \in DOMAIN results
          BY <3>3, <3>6, <4>1, <5>1 DEF AnswersInv, laneRivals, w
        <5>2. ASSUME NEW l \in DOMAIN codes, k = from + l
              PROVE  rival(w[k])
          BY <1>1, <2>2, <3>4, <3>6, <4>1, <5>2 DEF AnswersInv, jobRivals, codes
        <5>. QED
          BY <3>5, <5>1, <5>2
      <4>2. laneRivals'
        BY <2>5, <2>6, <3>6, <4>1 DEF AnswersInv, laneRivals, w
      <4>3. ASSUME NEW i \in published
            PROVE  coalescerKnows(i)'
        <5>1. bridgeKnows(i) \/ coalescerKnows(i)
          BY <3>6 DEF AnswersInv, Accounted
        <5>2. coalescerKnows(i) => coalescerKnows(i)'
          BY <2>5, <3>3 DEF coalescerKnows
        <5>3. ASSUME bridgeKnows(i)
              PROVE  coalescerKnows(i)'
          <6>1. PICK k \in DOMAIN codes : codes[k] = "ok" /\ chunk[k] = i
            BY <1>1, <2>2, <5>3 DEF bridgeKnows, codes
          <6>2. /\ from + k \in DOMAIN results' /\ results'[from + k] = "ok"
                /\ Head(batches')[from + k] = i
            BY <2>5, <3>4, <6>1 DEF w
          <6>. QED
            BY <6>2 DEF coalescerKnows
        <5>. QED
          BY <5>1, <5>2, <5>3
      <4>4. Accounted'
        BY <2>6, <4>3 DEF Accounted
      <4>. QED
        BY <4>2, <4>4
    <3>. QED
      BY <1>2, <2>6, <3>6 DEF AnswersInv
  <2>. QED
    BY <2>7, <2>8
<1>. QED
  BY <1>3, <1>4

-----------------------------------------------------------------------------
(* The bridge keeps it *)

\* One failure answers all of the entry.
LEMMA FailureKeepsAnswers ==
  ASSUME LaneInv, AnswersInv, UNCHANGED <<status, results, batches, chain>>,
         losses' = losses \/ losses' = losses + 1,
         NEW code \in Codes, code # "ok", job' = answered(allOf(code)), job.step # "answered",
         losses' = 0 => /\ job.step = "confirm" => ~Landed(job.tx)
                        /\ code = "NonMonotonicNonce" => \A i \in Elements(job.requests) : rival(i)
  PROVE  AnswersInv'
<1>1. job \in Jobs
  BY DEF LaneInv, LaneTypes
<1>2. /\ job'.step = "answered" /\ job'.requests = job.requests
      /\ job'.codes \in Seq(Codes) /\ Len(job'.codes) = Len(job.requests)
      /\ \A k \in DOMAIN job'.codes : job'.codes[k] = code
  BY <1>1, OneCodeForAll
<1>3. TxIsBuilt' /\ OkCodes'
  BY <1>2 DEF TxIsBuilt, OkCodes
<1>4. ASSUME losses' = 0
      PROVE  jobRivals' /\ \A i \in published : ~bridgeKnows(i)
  <2>1. DOMAIN job'.codes = DOMAIN job.requests
    <3>1. job.requests \in Seq(Intents)
      BY <1>1 DEF Jobs
    <3>2. DOMAIN job.requests = 1 .. Len(job.requests) /\ DOMAIN job'.codes = 1 .. Len(job'.codes)
      BY <1>2, <3>1
    <3>. QED
      BY <1>2, <3>2
  <2>2. \A k \in DOMAIN job'.codes :
          job'.codes[k] = "NonMonotonicNonce" => rival(job'.requests[k])
    BY <1>2, <1>4, <2>1 DEF Elements
  <2>3. \A i : rival(i)' <=> rival(i)
    BY SamePublished, SameRivals
  <2>4. jobRivals'
    BY <1>2, <2>2, <2>3 DEF jobRivals
  <2>. QED
    BY <1>4, <2>4 DEF bridgeKnows
<1>. QED
  BY <1>3, <1>4, JobMoves

LEMMA ThrownKeepsAnswers ==
  ASSUME LaneInv, AnswersInv, UNCHANGED <<status, results, batches, chain>>,
         losses' = losses \/ losses' = losses + 1,
         job.step \in {"start", "fetch", "submit"},
         NEW code \in {"BuilderError", "InsufficientFunds"}, job' = thrown(code)
  PROVE  AnswersInv'
<1>1. job \in Jobs /\ code \in Codes /\ code \notin {"ok", "NonMonotonicNonce"}
  BY DEF LaneInv, LaneTypes, Codes, Results, NON_RETRIABLE_CODES
<1>2. CASE job.step = "submit" /\ job.fold
  <2>1. job'.step = "submit" /\ job'.updates = job.updates /\ job'.requests = job.requests
    BY <1>1, <1>2 DEF thrown, Jobs
  <2>2. TxIsBuilt' /\ OkCodes'
    BY <2>1 DEF TxIsBuilt, OkCodes
  <2>3. ASSUME losses' = 0
        PROVE  jobRivals'
    <3>1. losses = 0 /\ \A i : rival(i)' <=> rival(i)
      BY <2>3, LossesGrow, SamePublished, SameRivals
    <3>. QED
      BY <1>2, <2>1, <3>1 DEF AnswersInv, jobRivals
  <2>4. \A i : ~bridgeKnows(i)
    BY <1>2 DEF bridgeKnows
  <2>. QED
    BY <2>2, <2>3, <2>4, JobMoves
<1>3. CASE ~(job.step = "submit" /\ job.fold)
  <2>1. job' = answered(allOf(code))
    BY <1>3 DEF thrown
  <2>. QED
    BY <1>1, <2>1, FailureKeepsAnswers
<1>. QED
  BY <1>2, <1>3

\* What does not beat the pair that was read has a rival there.
LEMMA BeatenHasRival ==
  ASSUME LaneInv, ChainInv, NEW u, u.pair \in ReadPair(indexed, u.intent.symbol),
         ~beatsOnChain(indexed, u)
  PROVE  rival(u.intent)
<1>. DEFINE s == u.intent.symbol
            datum == datumIn(chain, indexed, u.pair, s)
<1>1. u.pair # 0 /\ ~isNewer(u.intent, datum)
  BY OnThisChain DEF beatsIn
<1>2. u.pair \in pairsIn(chain, indexed, s)
  BY <1>1, WhatIsRead
<1>3. chain \in Seq(Transactions) /\ indexed \in 0 .. Len(chain) /\ oneEach(chain)
  BY DEF LaneInv, LaneTypes, ChainInv
<1>. HIDE DEF s
<1>4. datum.symbol = s /\ \E v \in DOMAIN chain : datum \in intentsOf(chain[v].updates)
  BY <1>2, <1>3, DatumIsCarried
<1>. HIDE DEF datum
<1>5. datum \in published
  BY <1>4 DEF published, intentsOf
<1>. QED
  BY <1>1, <1>4, <1>5 DEF rival, s

LEMMA PrepareKeepsAnswers ==
  ASSUME LaneInv, ChainInv, AnswersInv, Prepare
  PROVE  AnswersInv'
<1>1. PICK pairs \in [Elements(job.requests) -> 0 .. indexed] :
        LET all == {[intent |-> i, pair |-> pairs[i]] : i \in DOMAIN pairs}
            fresh == {u \in all : beatsOnChain(indexed, u)}
        IN  /\ \A i \in DOMAIN pairs : pairs[i] \in ReadPair(indexed, i.symbol)
            /\ job' = IF job.requests # <<>> /\ fresh = {}
                        THEN answered(allOf("NonMonotonicNonce"))
                        ELSE [job EXCEPT !.step = "fetch", !.updates = fresh, !.pairsAt = indexed]
  BY DEF Prepare
<1>. DEFINE all == {[intent |-> i, pair |-> pairs[i]] : i \in DOMAIN pairs}
            fresh == {u \in all : beatsOnChain(indexed, u)}
<1>2. job \in Jobs /\ job.step = "start" /\ UNCHANGED <<status, results, batches, chain, losses>>
  BY DEF LaneInv, LaneTypes, Prepare
<1>3. ASSUME NEW i \in Elements(job.requests), i \notin intentsOf(fresh)
      PROVE  rival(i)
  <2>. DEFINE u == [intent |-> i, pair |-> pairs[i]]
  <2>1. u \in all /\ u.intent = i /\ u.pair = pairs[i]
    OBVIOUS
  <2>2. u.pair \in ReadPair(indexed, u.intent.symbol)
    BY <1>1
  <2>. HIDE DEF u, all
  <2>3. u \notin fresh
    BY <1>3, <2>1 DEF intentsOf
  <2>4. ~beatsOnChain(indexed, u)
    BY <2>1, <2>3
  <2>. QED
    BY <2>1, <2>2, <2>4, BeatenHasRival
<1>4. CASE fresh = {} /\ job' = answered(allOf("NonMonotonicNonce"))
  <2>1. "NonMonotonicNonce" \in Codes
    BY DEF Codes, Results, NON_RETRIABLE_CODES
  <2>2. \A i \in Elements(job.requests) : rival(i)
    <3>1. intentsOf(fresh) = {}
      BY <1>4 DEF intentsOf
    <3>. HIDE DEF fresh
    <3>. QED
      BY <1>3, <3>1
  <2>. QED
    BY <1>2, <1>4, <2>1, <2>2, FailureKeepsAnswers
<1>5. CASE job' = [job EXCEPT !.step = "fetch", !.updates = fresh, !.pairsAt = indexed]
  <2>. HIDE DEF fresh
  <2>1. job'.step = "fetch" /\ job'.updates = fresh /\ job'.requests = job.requests
    BY <1>2, <1>5 DEF Jobs
  <2>2. TxIsBuilt' /\ OkCodes'
    BY <2>1 DEF TxIsBuilt, OkCodes
  <2>3. \A i : rival(i)' <=> rival(i)
    BY <1>2, SamePublished, SameRivals
  <2>4. jobRivals'
    BY <1>3, <2>1, <2>3 DEF jobRivals
  <2>5. \A i : ~bridgeKnows(i)
    BY <1>2 DEF bridgeKnows
  <2>. QED
    BY <1>2, <2>2, <2>4, <2>5, JobMoves
<1>. HIDE DEF fresh
<1>. QED
  BY <1>1, <1>4, <1>5 DEF fresh

\* A batch that was read before is found as it was, as long as nothing was lost.
LEMMA FoundAgain ==
  ASSUME LaneInv, ChainInv, losses = 0, job.step = "fetch", NEW u \in job.updates, NEW w,
         w.intent = u.intent, w.pair \in lookedUpAgain(u)
  PROVE  beatsOnChain(indexed, w)
<1>. DEFINE s == u.intent.symbol
            m == job.pairsAt
            n == indexed
<1>1. /\ chain \in Seq(Transactions) /\ oneEach(chain)
      /\ m \in Nat /\ n \in Nat /\ Len(chain) \in Nat /\ m <= n /\ n <= Len(chain)
  <2>1. chain \in Seq(Transactions) /\ indexed \in 0 .. Len(chain) /\ job \in Jobs
    BY DEF LaneInv, LaneTypes
  <2>2. job.pairsAt <= indexed /\ oneEach(chain)
    BY DEF ChainInv, ReadOnce
  <2>. QED
    BY <2>1, <2>2 DEF Jobs, Versions
<1>2. /\ u.pair # 0 => u.pair \in pairsIn(chain, m, s)
      /\ beatsIn(chain, m, u)
      /\ \A v \in m + 1 .. Len(chain) : chain[v].updates = {}
      /\ \A p, q \in pairsIn(chain, Len(chain), s) : p = q
  BY DEF ChainInv, ReadOnce, QuietRead, Minted
<1>3. CASE u.pair = 0
  <2>1. w.pair = 0
    BY <1>3 DEF lookedUpAgain
  <2>. QED
    BY <2>1 DEF beatsOnChain
<1>4. CASE u.pair # 0
  <2>. HIDE DEF s, m, n
  <2>1. m \in 0 .. Len(chain) /\ n \in m .. Len(chain) /\ Len(chain) \in m .. Len(chain)
    BY <1>1
  <2>2. \A v \in m + 1 .. n : chain[v].updates = {}
    <3>1. \A v \in m + 1 .. n : v \in m + 1 .. Len(chain)
      BY <1>1
    <3>. QED
      BY <1>2, <3>1
  <2>3. /\ pairsIn(chain, n, s) = pairsIn(chain, m, s)
        /\ \A v \in m + 1 .. n : \A p : writesIn(chain, v, p, s) = {}
    BY <1>1, <2>1, <2>2, NothingWritten
  <2>4. pairsIn(chain, Len(chain), s) = pairsIn(chain, m, s)
    BY <1>1, <1>2, <2>1, NothingWritten
  <2>5. w.pair = u.pair
    <3>1. CASE isBatch
      <4>1. w.pair \in ReadPair(n, s)
        BY <1>4, <3>1 DEF lookedUpAgain, n, s
      <4>2. LivePairs(n, s) = pairsIn(chain, n, s)
        BY OnThisChain
      <4>. QED
        BY <1>2, <1>4, <2>3, <2>4, <4>1, <4>2 DEF ReadPair
    <3>2. CASE ~isBatch
      BY <3>2 DEF lookedUpAgain
    <3>. QED
      BY <3>1, <3>2
  <2>6. datumIn(chain, n, u.pair, s) = datumIn(chain, m, u.pair, s)
    <3>. DEFINE p == u.pair
    <3>1. p \in pairsIn(chain, m, s)
      BY <1>2, <1>4
    <3>2. \A v \in m + 1 .. n : writesIn(chain, v, p, s) = {}
      BY <2>3
    <3>. HIDE DEF p
    <3>3. datumIn(chain, n, p, s) = datumIn(chain, m, p, s)
      BY <1>1, <2>1, <3>1, <3>2, DatumStays
    <3>. QED
      BY <3>3 DEF p
  <2>7. isNewer(w.intent, datumIn(chain, n, w.pair, w.intent.symbol))
    <3>1. isNewer(u.intent, datumIn(chain, m, u.pair, s))
      <4>1. beatsIn(chain, m, u) /\ u.pair # 0
        BY <1>2, <1>4
      <4>. QED
        BY ONLY <4>1 DEF beatsIn, s
    <3>2. w.intent = u.intent /\ w.intent.symbol = s
      BY <1>4 DEF s
    <3>. QED
      BY ONLY <2>5, <2>6, <3>1, <3>2
  <2>. QED
    BY <2>7, OnThisChain DEF beatsOnChain, n
<1>. QED
  BY <1>3, <1>4

LEMMA FetchKeepsAnswers ==
  ASSUME LaneInv, ChainInv, AnswersInv, Fetch
  PROVE  AnswersInv'
<1>1. PICK pairs \in [job.updates -> 0 .. indexed], fold \in BOOLEAN :
        LET updates == {[u EXCEPT !.pair = pairs[u]] : u \in job.updates}
        IN  /\ \A u \in job.updates : pairs[u] \in lookedUpAgain(u)
            /\ \/ /\ \E u \in updates : ~beatsOnChain(indexed, u)
                  /\ job' = answered(allOf("NonMonotonicNonce"))
               \/ job' = answered(allOf("BatchSizeExceeded"))
               \/ job' = [job EXCEPT !.step = "submit", !.updates = updates,
                                     !.receiverAt = indexed, !.fold = fold,
                                     !.pairsAt = IF isBatch THEN indexed ELSE @]
  BY DEF Fetch
<1>. DEFINE updates == {[u EXCEPT !.pair = pairs[u]] : u \in job.updates}
            at == IF isBatch THEN indexed ELSE job.pairsAt
<1>2. /\ job \in Jobs /\ job.updates \subseteq Updates /\ job.step = "fetch"
      /\ UNCHANGED <<status, results, batches, chain, losses>>
  BY DEF LaneInv, LaneTypes, Jobs, Fetch
<1>3. \A u \in job.updates : LET w == [u EXCEPT !.pair = pairs[u]]
                             IN  w.intent = u.intent /\ w.pair = pairs[u]
  BY <1>2 DEF Updates
<1>4. CASE (\E u \in updates : ~beatsOnChain(indexed, u)) /\ job' = answered(allOf("NonMonotonicNonce"))
  <2>1. ASSUME losses = 0
        PROVE  FALSE
    <3>1. PICK u \in job.updates : ~beatsOnChain(indexed, [u EXCEPT !.pair = pairs[u]])
      BY <1>4
    <3>. DEFINE w == [u EXCEPT !.pair = pairs[u]]
    <3>2. w.intent = u.intent /\ w.pair \in lookedUpAgain(u) /\ ~beatsOnChain(indexed, w)
      BY <1>1, <1>3, <3>1
    <3>. HIDE DEF w
    <3>. QED
      BY <1>2, <2>1, <3>2, FoundAgain
  <2>2. "NonMonotonicNonce" \in Codes
    BY DEF Codes, Results, NON_RETRIABLE_CODES
  <2>3. losses' = losses /\ losses' # 0 /\ job' = answered(allOf("NonMonotonicNonce"))
    BY <1>2, <1>4, <2>1
  <2>. QED
    BY <1>2, <2>2, <2>3, FailureKeepsAnswers
<1>5. CASE job' = answered(allOf("BatchSizeExceeded"))
  <2>1. "BatchSizeExceeded" \in Codes
    BY DEF Codes, Results, NON_RETRIABLE_CODES
  <2>. QED
    BY <1>2, <1>5, <2>1, FailureKeepsAnswers
<1>6. CASE job' = [job EXCEPT !.step = "submit", !.updates = updates, !.receiverAt = indexed,
                              !.fold = fold, !.pairsAt = at]
  <2>1. intentsOf(updates) = intentsOf(job.updates)
    <3>. DEFINE found(u) == [u EXCEPT !.pair = pairs[u]]
    <3>1. \A u \in job.updates : found(u).intent = u.intent
      BY <1>3
    <3>2. updates = {found(u) : u \in job.updates}
      OBVIOUS
    <3>. HIDE DEF found, updates
    <3>. QED
      BY <3>1, <3>2 DEF intentsOf
  <2>. HIDE DEF updates, at
  <2>2. job'.step = "submit" /\ job'.updates = updates /\ job'.requests = job.requests
    BY <1>2, <1>6 DEF Jobs
  <2>3. TxIsBuilt' /\ OkCodes'
    BY <2>2 DEF TxIsBuilt, OkCodes
  <2>4. losses' = 0 => jobRivals'
    <3>1. \A i : rival(i)' <=> rival(i)
      BY <1>2, SamePublished, SameRivals
    <3>. QED
      BY <1>2, <2>1, <2>2, <3>1 DEF AnswersInv, jobRivals
  <2>5. \A i : ~bridgeKnows(i)
    BY <1>2 DEF bridgeKnows
  <2>. QED
    BY <1>2, <2>3, <2>4, <2>5, JobMoves
<1>. HIDE DEF updates
<1>. QED
  BY SMTT(60), <1>1, <1>4, <1>5, <1>6 DEF updates

LEMMA SubmitKeepsAnswers ==
  ASSUME LaneInv, AnswersInv, Submit
  PROVE  AnswersInv'
<1>. USE DEF Submit
<1>1. job \in Jobs /\ built \in Transactions /\ built.updates = job.updates
  BY BuiltTypes DEF LaneInv, LaneTypes
<1>2. CASE losses' = losses + 1 /\ job' = thrown("BuilderError")
  BY <1>2, ThrownKeepsAnswers
<1>3. CASE losses' = losses /\ job' = [job EXCEPT !.step = "confirm", !.tx = built]
  <2>1. /\ job'.step = "confirm" /\ job'.tx = built /\ job'.updates = job.updates
        /\ job'.requests = job.requests
    BY <1>1, <1>3 DEF Jobs
  <2>2. TxIsBuilt' /\ OkCodes'
    BY <1>1, <2>1 DEF TxIsBuilt, OkCodes
  <2>3. losses' = 0 => jobRivals'
    <3>1. \A i : rival(i)' <=> rival(i)
      BY SamePublished, SameRivals
    <3>. QED
      BY <1>3, <2>1, <3>1 DEF AnswersInv, jobRivals
  <2>4. \A i : ~bridgeKnows(i)
    BY DEF bridgeKnows
  <2>. QED
    BY <1>3, <2>2, <2>3, <2>4, JobMoves
<1>. QED
  BY <1>2, <1>3

LEMMA SubmitStaleKeepsAnswers ==
  ASSUME LaneInv, AnswersInv, SubmitStale
  PROVE  AnswersInv'
<1>. USE DEF SubmitStale
<1>1. job \in Jobs
  BY DEF LaneInv, LaneTypes
<1>2. CASE job' = [job EXCEPT !.step = "fetch", !.tries = @ + 1]
  <2>1. job'.step = "fetch" /\ job'.updates = job.updates /\ job'.requests = job.requests
    <3>. DEFINE n == job.tries + 1
    <3>1. job' = [job EXCEPT !.step = "fetch", !.tries = n]
      BY <1>2
    <3>. HIDE DEF n
    <3>. QED
      BY <1>1, <3>1 DEF Jobs
  <2>2. TxIsBuilt' /\ OkCodes'
    BY <2>1 DEF TxIsBuilt, OkCodes
  <2>3. losses' = 0 => jobRivals'
    <3>1. \A i : rival(i)' <=> rival(i)
      BY SamePublished, SameRivals
    <3>. QED
      BY <2>1, <3>1 DEF AnswersInv, jobRivals
  <2>4. \A i : ~bridgeKnows(i)
    BY DEF bridgeKnows
  <2>. QED
    BY <2>2, <2>3, <2>4, JobMoves
<1>3. CASE job' = thrown("BuilderError")
  BY <1>3, ThrownKeepsAnswers
<1>. QED
  BY <1>2, <1>3

LEMMA BuildFailsKeepsAnswers ==
  ASSUME LaneInv, AnswersInv, BuildFails
  PROVE  AnswersInv'
<1>1. PICK code \in {"BuilderError", "InsufficientFunds"} : job' = thrown(code)
  BY DEF BuildFails
<1>2. /\ UNCHANGED <<status, results, batches, chain, losses>>
      /\ job.step \in {"start", "fetch", "submit"}
  BY DEF BuildFails
<1>. QED
  BY <1>1, <1>2, ThrownKeepsAnswers

\* What landed is answered with "ok", and the rest of the entry was skipped.
LEMMA ConfirmedKeepsAnswers ==
  ASSUME LaneInv, AnswersInv, Confirmed
  PROVE  AnswersInv'
<1>. DEFINE written == {u.intent : u \in job.tx.updates}
            codes == [k \in DOMAIN job.requests |->
                        IF job.requests[k] \in written THEN "ok" ELSE "NonMonotonicNonce"]
<1>1. /\ job \in Jobs /\ job.requests \in Seq(Intents) /\ job.step = "confirm"
      /\ intentsOf(job.tx.updates) \subseteq Elements(job.requests)
      /\ UNCHANGED <<status, results, batches, chain, losses>>
      /\ job' = answered(codes)
      /\ intentsOf(job.tx.updates) = intentsOf(job.updates)
  BY DEF LaneInv, LaneTypes, Building, Jobs, Confirmed, AnswersInv, TxIsBuilt
<1>2. /\ DOMAIN codes = DOMAIN job.requests
      /\ \A k \in DOMAIN codes :
           codes[k] = IF job.requests[k] \in written THEN "ok" ELSE "NonMonotonicNonce"
      /\ written = intentsOf(job.tx.updates)
  BY DEF intentsOf
<1>. HIDE DEF codes, written
<1>3. job'.step = "answered" /\ job'.codes = codes /\ job'.requests = job.requests
  BY <1>1 DEF answered, Jobs
<1>4. TxIsBuilt' /\ OkCodes'
  BY <1>2, <1>3 DEF TxIsBuilt, OkCodes
<1>5. losses' = 0 => jobRivals'
  <2>1. \A i : rival(i)' <=> rival(i)
    BY <1>1, SamePublished, SameRivals
  <2>2. ASSUME losses = 0, NEW k \in DOMAIN codes, codes[k] = "NonMonotonicNonce"
        PROVE  rival(job.requests[k])
    <3>1. job.requests[k] \in Elements(job.requests) \ intentsOf(job.updates)
      BY <1>1, <1>2, <2>2 DEF Elements
    <3>. QED
      BY <1>1, <2>2, <3>1 DEF AnswersInv, jobRivals
  <2>. QED
    BY <1>1, <1>3, <2>1, <2>2 DEF jobRivals
<1>6. ASSUME NEW i, bridgeKnows(i)
      PROVE  bridgeKnows(i)'
  <2>1. i \in written /\ i \in Elements(job.requests)
    BY <1>1, <1>2, <1>6 DEF bridgeKnows
  <2>2. PICK k \in DOMAIN job.requests : job.requests[k] = i
    BY <2>1 DEF Elements
  <2>3. k \in DOMAIN job'.codes /\ job'.codes[k] = "ok" /\ job'.requests[k] = i
    BY <1>2, <1>3, <2>1, <2>2
  <2>. QED
    BY <1>3, <2>3 DEF bridgeKnows
<1>. QED
  BY <1>1, <1>4, <1>5, <1>6, JobMoves

LEMMA NeverConfirmedKeepsAnswers ==
  ASSUME LaneInv, AnswersInv, NeverConfirmed
  PROVE  AnswersInv'
<1>. USE DEF NeverConfirmed
<1>1. "BuilderError" \in Codes /\ losses \in Nat
  BY DEF Codes, Results, LaneInv, LaneTypes
<1>2. losses' = 0 => ~Landed(job.tx)
  BY <1>1
<1>3. losses' = losses \/ losses' = losses + 1
  OBVIOUS
<1>. QED
  BY <1>1, <1>2, <1>3, FailureKeepsAnswers

-----------------------------------------------------------------------------
(* Cardano keeps it *)

LEMMA SpendKeepsAnswers ==
  ASSUME LaneInv, AnswersInv, NEW tx \in Transactions, tx.input = Len(chain), spend(tx),
         published' = published \cup intentsOf(tx.updates),
         UNCHANGED <<coalescerVars, job, losses>>,
         losses = 0 => intentsOf(tx.updates) = {} \/ (job.step = "confirm" /\ tx = job.tx)
  PROVE  AnswersInv'
<1>1. chain \in Seq(Transactions) /\ Len(chain) \in Nat /\ job.tx.input \in Nat
  <2>1. chain \in Seq(Transactions) /\ job \in Jobs
    BY DEF LaneInv, LaneTypes
  <2>. QED
    BY <2>1 DEF Jobs, Transactions, Versions
<1>2. /\ Len(chain') = Len(chain) + 1
      /\ \A v \in 1 .. Len(chain) : chain'[v] = chain[v]
      /\ chain'[Len(chain) + 1] = tx
  BY <1>1, AppendProperties DEF spend
<1>3. \A i : rival(i) => rival(i)'
  BY DEF rival
<1>4. TxIsBuilt' /\ OkCodes'
  BY DEF AnswersInv, TxIsBuilt, OkCodes
<1>5. Landed(job.tx) => Landed(job.tx)'
  <2>. SUFFICES ASSUME Landed(job.tx)
                PROVE  Landed(job.tx)'
    OBVIOUS
  <2>1. job.tx.input + 1 \in 1 .. Len(chain) /\ Len(chain') > job.tx.input
    BY <1>1, <1>2 DEF Landed
  <2>. QED
    BY <1>2, <2>1 DEF Landed
<1>6. tx = job.tx => Landed(job.tx)'
  BY <1>1, <1>2 DEF Landed
<1>7. ASSUME losses = 0
      PROVE  jobRivals' /\ laneRivals' /\ Accounted'
  <2>1. jobRivals' /\ laneRivals'
    BY <1>3, <1>7 DEF AnswersInv, jobRivals, laneRivals
  <2>2. ASSUME NEW i \in published'
        PROVE  bridgeKnows(i)' \/ coalescerKnows(i)'
    <3>1. CASE i \in published
      <4>1. bridgeKnows(i) \/ coalescerKnows(i)
        BY <1>7, <3>1 DEF AnswersInv, Accounted
      <4>2. bridgeKnows(i) => bridgeKnows(i)'
        BY <1>5 DEF bridgeKnows
      <4>3. coalescerKnows(i) => coalescerKnows(i)'
        BY DEF coalescerKnows
      <4>. QED
        BY <4>1, <4>2, <4>3
    <3>2. CASE i \in intentsOf(tx.updates)
      <4>1. job.step = "confirm" /\ tx = job.tx
        BY <1>7, <3>2
      <4>. QED
        BY <1>6, <3>2, <4>1 DEF bridgeKnows
    <3>. QED
      BY <3>1, <3>2
  <2>3. Accounted'
    BY <2>2 DEF Accounted
  <2>. QED
    BY <2>1, <2>3
<1>. QED
  BY <1>4, <1>7 DEF AnswersInv

LEMMA LandKeepsAnswers ==
  ASSUME LaneInv, ChainInv, AnswersInv, Land
  PROVE  AnswersInv'
<1>1. PICK tx \in mempool : tx.input = Len(chain) /\ spend(tx)
  BY DEF Land
<1>2. tx \in Transactions /\ UNCHANGED <<coalescerVars, queueVars, indexed, losses, budget>>
  BY DEF LaneInv, LaneTypes, Land
<1>3. published' = published \cup intentsOf(tx.updates)
  BY <1>1, <1>2, SpendKeeps
<1>4. losses = 0 => job.step = "confirm" /\ tx = job.tx
  BY DEF ChainInv, Alone
<1>. QED
  BY <1>1, <1>2, <1>3, <1>4, SpendKeepsAnswers

LEMMA TopUpKeepsAnswers ==
  ASSUME LaneInv, AnswersInv, TopUp
  PROVE  AnswersInv'
<1>. DEFINE tx == [input |-> Len(chain), updates |-> {}, nr |-> -1]
<1>1. Len(chain) \in Nat
  BY DEF LaneInv, LaneTypes
<1>2. tx \in Transactions /\ tx.input = Len(chain) /\ tx.updates = {} /\ spend(tx)
  BY <1>1 DEF Transactions, Versions, TopUp
<1>. HIDE DEF tx
<1>3. intentsOf(tx.updates) = {}
  BY <1>2 DEF intentsOf
<1>4. published' = published \cup intentsOf(tx.updates)
  BY <1>2, SpendKeeps DEF TopUp
<1>. QED
  BY <1>2, <1>3, <1>4, SpendKeepsAnswers DEF TopUp

LEMMA EvictKeepsAnswers ==
  ASSUME LaneInv, AnswersInv, Evict
  PROVE  AnswersInv'
<1>1. losses' # 0
  <2>1. losses \in Nat
    BY DEF LaneInv, LaneTypes
  <2>. QED
    BY <2>1 DEF Evict
<1>2. TxIsBuilt' /\ OkCodes'
  BY DEF Evict, AnswersInv, TxIsBuilt, OkCodes
<1>. QED
  BY <1>1, <1>2 DEF AnswersInv

-----------------------------------------------------------------------------
(* Every step keeps it *)

LEMMA AnswersStep ==
  ASSUME LaneInv, ChainInv, AnswersInv, [Next]_vars, LaneInv'
  PROVE  AnswersInv'
<1>1. ASSUME NEW i \in budget.intents, IntentArrives(i)
      PROVE  AnswersInv'
  <2>1. i \in Intents
    <3>1. budget \in Budgets
      BY DEF LaneInv, LaneTypes
    <3>2. budget.intents \in SUBSET Intents
      BY <3>1, LaneParameters
    <3>. QED
      BY <1>1, <3>2
  <2>. QED
    BY <1>1, <2>1, ArrivalKeepsAnswers
<1>2. ASSUME CoalescerAlone
      PROVE  AnswersInv'
  BY <1>2, CoalescerKeepsAnswers, ReportResultKeepsAnswers, ClearMarkKeepsAnswers
     DEF CoalescerAlone
<1>3. ASSUME QueueStep
      PROVE  AnswersInv'
  <2>1. CASE enqueueBatch
    BY <2>1, AnswersLeft DEF enqueueBatch, SubmitChunk
  <2>. QED
    BY <1>3, <2>1, DrainKeepsAnswers, RetryKeepsAnswers, ResolveKeepsAnswers DEF QueueStep
<1>4. ASSUME BridgeStep
      PROVE  AnswersInv'
  BY <1>4, PrepareKeepsAnswers, FetchKeepsAnswers, BuildFailsKeepsAnswers,
     SubmitKeepsAnswers, SubmitStaleKeepsAnswers, ConfirmedKeepsAnswers,
     NeverConfirmedKeepsAnswers DEF BridgeStep
<1>5. ASSUME maybeAutoMergeDeposits \/ IndexerCatchesUp \/ UNCHANGED vars
      PROVE  AnswersInv'
  BY <1>5, AnswersLeft DEF maybeAutoMergeDeposits, IndexerCatchesUp
<1>. HIDE DEF vars, coalescerVars, queueVars, cardanoVars
<1>. QED
  BY <1>1, <1>2, <1>3, <1>4, <1>5, LandKeepsAnswers, TopUpKeepsAnswers, EvictKeepsAnswers
     DEF Next

\* The invariant holds in every reachable state.
THEOREM AnswersAreSound == Spec => []AnswersInv
<1>. HIDE DEF vars, coalescerVars, queueVars, cardanoVars
<1>. QED
  BY AnswersInit, AnswersStep, LaneIsSound, ChainIsSound, PTL DEF Spec

-----------------------------------------------------------------------------
(* What it shows *)

\* As long as nothing was lost, an intent that is reported as superseded is
\* one that no transaction carried to the chain: whatever landed is on its way
\* to be reported as a success, and a request with a success is neither
\* retried nor halved.
THEOREM SupersededCostsNothing == Spec => []NoTransactionWhenSuperseded
<1>1. ASSUME LaneInv, AnswersInv, losses = 0, NEW i \in Intents,
             status[i] = "NonMonotonicNonce", i \in published
      PROVE  FALSE
  <2>1. bridgeKnows(i) \/ coalescerKnows(i)
    BY <1>1 DEF AnswersInv, Accounted
  <2>2. status[i] # "held" /\ i \notin waiting
    BY <1>1 DEF LaneInv, Held
  <2>3. ASSUME i \in Elements(job.requests)
        PROVE  FALSE
    <3>1. job.requests # <<>>
      BY <2>3 DEF Elements
    <3>2. flush = "queue" /\ job.requests = Head(chunks)
      BY <1>1, <3>1 DEF LaneInv, Queued
    <3>3. i \in Elements(Head(batches)) /\ batches # <<>>
      BY <1>1, <2>3, <3>2, QueuedChunk
    <3>4. i \in members(batches)
      BY <1>1, <3>3, FirstBatch
    <3>. QED
      BY <2>2, <3>2, <3>4, WaitingIs
  <2>4. CASE bridgeKnows(i)
    <3>1. ASSUME job.step = "answered", NEW k \in DOMAIN job.codes, job.requests[k] = i
          PROVE  FALSE
      <4>1. /\ job.codes \in Seq(Codes) /\ Len(job.codes) = Len(job.requests)
            /\ job \in Jobs
        BY <1>1, <3>1 DEF LaneInv, LaneTypes, Building
      <4>2. job.requests \in Seq(Intents)
        BY <4>1 DEF Jobs
      <4>3. k \in DOMAIN job.requests
        BY <3>1, <4>1, <4>2
      <4>. QED
        BY <2>3, <3>1, <4>3 DEF Elements
    <3>2. ASSUME job.step = "confirm", i \in intentsOf(job.tx.updates)
          PROVE  FALSE
      BY <1>1, <2>3, <3>2 DEF LaneInv, Building
    <3>. QED
      BY <2>4, <3>1, <3>2 DEF bridgeKnows
  <2>5. CASE coalescerKnows(i)
    <3>1. PICK k \in DOMAIN results : results[k] = "ok" /\ Head(batches)[k] = i
      BY <1>1, <2>5 DEF coalescerKnows
    <3>. DEFINE w == Head(batches)
    <3>2. /\ results \in Seq(Codes) /\ flush \in {"chunk", "queue", "result", "clear"}
          /\ batches # <<>> /\ Len(results) <= Len(w)
      <4>1. results # <<>> /\ results \in Seq(Codes)
        BY <1>1, <3>1 DEF LaneInv, LaneTypes
      <4>2. flush \in {"chunk", "queue", "result", "clear"}
        BY <1>1, <4>1 DEF LaneInv, LaneTypes, Phases
      <4>3. CASE flush \in {"result", "clear"}
        <5>1. batches # <<>> /\ Len(results) = Len(w) /\ Len(results) \in Nat
          BY <1>1, <4>1, <4>3 DEF LaneInv, Phases
        <5>. QED
          BY <4>1, <4>2, <5>1
      <4>4. CASE flush \in {"chunk", "queue"}
        <5>1. batches # <<>> /\ cuts(chunks, w, Len(results))
          BY <1>1, <4>1, <4>4 DEF LaneInv, Phases
        <5>2. PICK cut \in [0 .. Len(chunks) -> Len(results) .. Len(w)] : cut[0] = Len(results)
          BY <5>1 DEF cuts
        <5>3. Len(chunks) \in Nat /\ Len(results) \in Nat /\ w \in Seq(Intents)
          <6>1. chunks \in Batches /\ w \in Seq(Intents)
            BY <1>1, <5>1, FirstBatch DEF LaneInv, LaneTypes
          <6>. QED
            BY <4>1, <6>1 DEF Batches
        <5>4. 0 \in 0 .. Len(chunks)
          BY <5>3
        <5>5. Len(results) \in Len(results) .. Len(w)
          BY <5>2, <5>4
        <5>6. Len(results) <= Len(w)
          BY <5>3, <5>5
        <5>. QED
          BY <4>1, <4>2, <5>1, <5>6
      <4>. QED
        BY <4>2, <4>3, <4>4
    <3>3. w \in Seq(Intents) /\ Elements(w) \subseteq members(batches) /\ Once(w) /\ w # <<>>
      BY <1>1, <3>2, FirstBatch
    <3>4. k \in DOMAIN w
      <4>1. k \in 1 .. Len(results) /\ Len(w) \in Nat /\ Len(results) \in Nat /\ DOMAIN w = 1 .. Len(w)
        BY <3>1, <3>2, <3>3
      <4>. QED
        BY <3>2, <4>1
    <3>5. i \in members(batches)
      BY <3>1, <3>3, <3>4 DEF Elements
    <3>6. flush = "clear" /\ i = Head(w)
      BY <2>2, <3>5, WaitingIs
    <3>7. 1 \in DOMAIN w /\ Head(w) = w[1]
      BY <3>3, ElementsSplit
    <3>8. k = 1
      BY <3>1, <3>3, <3>4, <3>6, <3>7 DEF Once
    <3>9. status[Head(w)] = Head(results) /\ Head(results) = results[1]
      <4>1. results # <<>>
        BY <3>1
      <4>. QED
        BY <1>1, <3>2, <3>6, <4>1, ElementsSplit DEF LaneInv, Held
    <3>. QED
      BY <1>1, <3>1, <3>6, <3>8, <3>9
  <2>. QED
    BY <2>1, <2>4, <2>5
<1>2. LaneInv /\ AnswersInv => NoTransactionWhenSuperseded
  BY <1>1 DEF NoTransactionWhenSuperseded
<1>. HIDE DEF vars, coalescerVars, queueVars, cardanoVars
<1>. QED
  BY <1>2, LaneIsSound, AnswersAreSound, PTL

\* As long as nothing was lost, an intent that is reported as superseded
\* really is: the chain carries one of its symbol that it does not beat.
THEOREM SupersededHasRival == Spec => []SupersededByNewer
<1>1. AnswersInv => SupersededByNewer
  BY DEF AnswersInv, laneRivals, rival, SupersededByNewer
<1>. HIDE DEF vars, coalescerVars, queueVars, cardanoVars
<1>. QED
  BY <1>1, AnswersAreSound, PTL
=============================================================================
