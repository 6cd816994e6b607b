------------------------------ MODULE LaneProofs ------------------------------
(***************************************************************************)
(* A lane keeps its contract (KeepsContract), loses and repeats no request *)
(* (NothingLost) and marks what it has in flight (MarksCoverFlight), for   *)
(* any intents, batch sizes, retries and losses.                           *)
(*                                                                         *)
(* The invariant follows a request from the buffer through a batch, a      *)
(* chunk, the queue and a transaction to its answer.  Held: it is in one   *)
(* place at a time, and a symbol has one request per place.  Phases: the   *)
(* chunks are the rest of the first batch, the results its beginning.      *)
(* Queued: what the queue executes for the coalescer is the first chunk.   *)
(* Afloat: a transaction that may still land carries none that was         *)
(* answered "ok", superseded or dropped for its age.                       *)
(***************************************************************************)
EXTENDS LaneProperties, SequenceTheorems, FiniteSetTheorems, WellFoundedInduction, TLAPS

-----------------------------------------------------------------------------
(* Finite sets of integers *)

\* A family of subsets of a finite set that has a member has a smallest one.
LEMMA SmallestMember ==
  ASSUME NEW S, IsFiniteSet(S), NEW F, \A T \in F : T \subseteq S, F # {}
  PROVE  \E T \in F : \A U \in F : U \subseteq T => U = T
<1>1. F \subseteq FiniteSubsetsOf(S)
  BY FS_FiniteSubsetsOfFinite
<1>2. PICK T \in F : \A U \in F : <<U, T>> \notin StrictSubsetOrdering(S)
  BY <1>1, WFMin, FS_StrictSubsetOrderingWellFounded
<1>. QED
  BY <1>2 DEF StrictSubsetOrdering

\* A finite set of integers has a greatest element.
LEMMA GreatestElement ==
  ASSUME NEW S \in SUBSET Int, IsFiniteSet(S), S # {}
  PROVE  \E m \in S : \A x \in S : x <= m
<1>. DEFINE F == {T \in SUBSET S : T # {} /\ ~ \E m \in T : \A x \in T : x <= m}
<1>1. SUFFICES ASSUME F # {}
               PROVE  FALSE
  OBVIOUS
<1>2. PICK T \in F : \A U \in F : U \subseteq T => U = T
  <2>1. \A T \in F : T \subseteq S
    OBVIOUS
  <2>. HIDE DEF F
  <2>. QED
    BY <1>1, <2>1, SmallestMember
<1>3. PICK y \in T : TRUE
  OBVIOUS
<1>4. T \ {y} \notin F
  BY <1>2, <1>3
<1>5. T \ {y} # {}
  OBVIOUS
<1>6. PICK m \in T \ {y} : \A x \in T \ {y} : x <= m
  BY <1>4, <1>5
<1>. QED
  BY <1>3, <1>6

\* ... and a least one.
LEMMA LeastElement ==
  ASSUME NEW S \in SUBSET Int, IsFiniteSet(S), S # {}
  PROVE  \E m \in S : \A x \in S : m <= x
<1>. DEFINE F == {T \in SUBSET S : T # {} /\ ~ \E m \in T : \A x \in T : m <= x}
<1>1. SUFFICES ASSUME F # {}
               PROVE  FALSE
  OBVIOUS
<1>2. PICK T \in F : \A U \in F : U \subseteq T => U = T
  <2>1. \A T \in F : T \subseteq S
    OBVIOUS
  <2>. HIDE DEF F
  <2>. QED
    BY <1>1, <2>1, SmallestMember
<1>3. PICK y \in T : TRUE
  OBVIOUS
<1>4. T \ {y} \notin F
  BY <1>2, <1>3
<1>5. T \ {y} # {}
  OBVIOUS
<1>6. PICK m \in T \ {y} : \A x \in T \ {y} : m <= x
  BY <1>4, <1>5
<1>. QED
  BY <1>3, <1>6

increasing(f) == \A m, n \in DOMAIN f : m < n => f[m] < f[n]

\* A finite set of integers can be counted in increasing order.
LEMMA IncreasingCount ==
  ASSUME NEW S \in SUBSET Int, IsFiniteSet(S)
  PROVE  \E f \in [1 .. Cardinality(S) -> S] : increasing(f)
<1>. DEFINE F == {T \in SUBSET S : ~ \E f \in [1 .. Cardinality(T) -> T] : increasing(f)}
<1>1. SUFFICES ASSUME F # {}
               PROVE  FALSE
  OBVIOUS
<1>2. PICK T \in F : \A U \in F : U \subseteq T => U = T
  <2>1. \A T \in F : T \subseteq S
    OBVIOUS
  <2>. HIDE DEF F
  <2>. QED
    BY <1>1, <2>1, SmallestMember
<1>a. IsFiniteSet(T)
  BY FS_Subset
<1>3. T # {}
  <2>. SUFFICES ASSUME T = {} PROVE FALSE
    OBVIOUS
  <2>1. Cardinality(T) = 0
    BY FS_EmptySet
  <2>2. [k \in 1 .. 0 |-> k] \in [1 .. Cardinality(T) -> T]
    BY <2>1
  <2>. QED
    BY <2>2 DEF increasing
<1>4. PICK m \in T : \A x \in T : x <= m
  BY <1>a, <1>3, GreatestElement
<1>. DEFINE U == T \ {m}
<1>5. U \notin F
  BY <1>2, <1>4
<1>6. PICK f \in [1 .. Cardinality(U) -> U] : increasing(f)
  BY <1>5
<1>7. Cardinality(T) = Cardinality(U) + 1 /\ Cardinality(U) \in Nat
  <2>1. IsFiniteSet(U) /\ Cardinality(U) = Cardinality(T) - 1
    BY <1>a, <1>4, FS_RemoveElement
  <2>2. Cardinality(T) \in Nat /\ Cardinality(U) \in Nat
    BY <1>a, <2>1, FS_CardinalityType
  <2>. QED
    BY <2>1, <2>2
<1>. HIDE DEF U
<1>. DEFINE g == [k \in 1 .. Cardinality(T) |-> IF k = Cardinality(T) THEN m ELSE f[k]]
<1>8. g \in [1 .. Cardinality(T) -> T]
  <2>. SUFFICES ASSUME NEW k \in 1 .. Cardinality(T), k # Cardinality(T)
                PROVE  f[k] \in T
    BY <1>4
  <2>1. k \in 1 .. Cardinality(U)
    BY <1>7
  <2>. QED
    BY <2>1, <1>6 DEF U
<1>9. increasing(g)
  <2>. SUFFICES ASSUME NEW a \in 1 .. Cardinality(T), NEW b \in 1 .. Cardinality(T), a < b
                PROVE  g[a] < g[b]
    BY DEF increasing
  <2>1. a \in 1 .. Cardinality(U)
    BY <1>7
  <2>2. g[a] = f[a] /\ f[a] \in U
    <3>1. a # Cardinality(T)
      BY <1>7
    <3>. QED
      BY <1>6, <2>1, <3>1
  <2>3. CASE b = Cardinality(T)
    <3>1. g[b] = m /\ f[a] <= m /\ f[a] # m /\ f[a] \in Int /\ m \in Int
      BY <2>2, <2>3, <1>4 DEF U
    <3>. QED
      BY <3>1, <2>2
  <2>4. CASE b # Cardinality(T)
    <3>1. b \in 1 .. Cardinality(U) /\ g[b] = f[b]
      BY <2>4, <1>7
    <3>. QED
      BY <3>1, <2>1, <2>2, <1>6 DEF increasing
  <2>. QED
    BY <2>3, <2>4
<1>. QED
  BY <1>2, <1>8, <1>9

\* Such a count reaches every element, and each once.
LEMMA CountIsOnto ==
  ASSUME NEW S \in SUBSET Int, IsFiniteSet(S),
         NEW f \in [1 .. Cardinality(S) -> S], increasing(f)
  PROVE  /\ \A x \in S : \E n \in 1 .. Cardinality(S) : f[n] = x
         /\ \A m, n \in 1 .. Cardinality(S) : f[m] = f[n] => m = n
<1>1. Cardinality(S) \in Nat
  BY FS_CardinalityType
<1>2. \A m, n \in 1 .. Cardinality(S) : f[m] = f[n] => m = n
  <2>. SUFFICES ASSUME NEW m \in 1 .. Cardinality(S), NEW n \in 1 .. Cardinality(S),
                       f[m] = f[n], m # n
                PROVE  FALSE
    OBVIOUS
  <2>1. m \in Int /\ n \in Int
    BY <1>1
  <2>3. f[m] \in S /\ \A x \in S : x \in Int
    OBVIOUS
  <2>2. m < n \/ n < m
    BY <2>1
  <2>4. DOMAIN f = 1 .. Cardinality(S)
    OBVIOUS
  <2>5. f[m] \in Int
    BY <2>3
  <2>6. f[m] < f[n] \/ f[n] < f[m]
    BY <2>2, <2>4 DEF increasing
  <2>. QED
    BY <2>5, <2>6
<1>3. f \in Injection(1 .. Cardinality(S), S)
  BY <1>2 DEF Injection, IsInjective
<1>4. Cardinality(1 .. Cardinality(S)) = Cardinality(S)
  BY <1>1, FS_Interval
<1>5. f \in Surjection(1 .. Cardinality(S), S)
  BY <1>3, <1>4, FS_Injection
<1>. QED
  BY <1>2, <1>5 DEF Surjection

-----------------------------------------------------------------------------
(* filter and chunkRequests *)

\* A symbol has one request in a sequence, or in a sequence of batches.
Once(seq) == \A k, l \in DOMAIN seq : seq[k].symbol = seq[l].symbol => k = l

OnceInAll(seqs) ==
  \A b, c \in DOMAIN seqs : \A k \in DOMAIN seqs[b], l \in DOMAIN seqs[c] :
    seqs[b][k].symbol = seqs[c][l].symbol => b = c /\ k = l

members(seqs) == UNION {Elements(b) : b \in Elements(seqs)}

\* filter keeps the requests that are in the set, each once.
LEMMA FilterKeeps ==
  ASSUME NEW S, NEW requests \in Seq(S), NEW set
  PROVE  /\ filter(requests, set) \in Seq(S)
         /\ Elements(filter(requests, set)) = Elements(requests) \cap set
         /\ Once(requests) => Once(filter(requests, set))
<1>. DEFINE places == {k \in DOMAIN requests : requests[k] \in set}
            N == Cardinality(places)
            order == CHOOSE f \in [1 .. N -> places] :
                       \A m, n \in DOMAIN f : m < n => f[m] < f[n]
<1>1. places \in SUBSET Int /\ IsFiniteSet(places) /\ N \in Nat
  <2>1. Len(requests) \in Nat /\ DOMAIN requests = 1 .. Len(requests)
    OBVIOUS
  <2>2. IsFiniteSet(1 .. Len(requests)) /\ places \in SUBSET (1 .. Len(requests))
    BY <2>1, FS_Interval
  <2>3. IsFiniteSet(places)
    BY <2>2, FS_Subset
  <2>. QED
    BY <2>1, <2>3, FS_CardinalityType
<1>2. filter(requests, set) = [n \in DOMAIN order |-> requests[order[n]]]
  BY DEF filter
<1>3. order \in [1 .. N -> places] /\ increasing(order)
  <2>. HIDE DEF places
  <2>. QED
    BY <1>1, IncreasingCount DEF increasing
<1>4. /\ \A x \in places : \E n \in 1 .. N : order[n] = x
      /\ \A m, n \in 1 .. N : order[m] = order[n] => m = n
  <2>. HIDE DEF places, order
  <2>. QED
    BY <1>1, <1>3, CountIsOnto
<1>. HIDE DEF N, order
<1>. DEFINE new == filter(requests, set)
<1>5. DOMAIN new = 1 .. N /\ \A n \in 1 .. N : new[n] = requests[order[n]]
  BY <1>2, <1>3
<1>6. \A n \in 1 .. N : order[n] \in DOMAIN requests /\ requests[order[n]] \in set
  BY <1>3
<1>7. \A n \in 1 .. N : requests[order[n]] \in S
  BY <1>6
<1>8. new \in [1 .. N -> S]
  BY <1>2, <1>3, <1>7
<1>9. new \in Seq(S)
  BY <1>1, <1>8, SeqDef
<1>. HIDE DEF new
<1>10. Elements(new) = Elements(requests) \cap set
  <2>1. ASSUME NEW x \in Elements(new)
        PROVE  x \in Elements(requests) \cap set
    BY <1>5, <1>6 DEF Elements
  <2>2. ASSUME NEW x \in Elements(requests) \cap set
        PROVE  x \in Elements(new)
    <3>1. PICK k \in DOMAIN requests : requests[k] = x
      BY DEF Elements
    <3>2. k \in places
      BY <3>1
    <3>3. PICK n \in 1 .. N : order[n] = k
      BY <3>2, <1>4
    <3>. QED
      BY <3>1, <3>3, <1>5 DEF Elements
  <2>. QED
    BY <2>1, <2>2
<1>11. ASSUME Once(requests)
       PROVE  Once(new)
  BY <1>4, <1>5, <1>6, <1>11 DEF Once
<1>. QED
  BY <1>9, <1>10, <1>11 DEF new

\* How many batches it takes: none is empty, and none overflows.
LEMMA Ceiling ==
  ASSUME NEW L \in Nat, NEW M \in Nat \ {0}
  PROVE  LET count == (L + M - 1) \div M
         IN  count \in Nat /\ count * M >= L /\ (count - 1) * M < L
<1>. DEFINE x == L + M - 1
            count == x \div M
<1>1. x \in Nat
  OBVIOUS
<1>2. count \in Nat /\ x = M * count + (x % M) /\ x % M \in 0 .. M - 1
  <2>. HIDE DEF x
  <2>. QED
    BY <1>1
<1>. QED
  BY <1>2

Batches == Seq(Seq(Intents) \ {<<>>})

\* Places in different batches are different places.
LEMMA PlacesDiffer ==
  ASSUME NEW M \in Nat \ {0}, NEW m \in Nat, NEW n \in Nat,
         NEW k \in 1 .. M, NEW l \in 1 .. M, m * M + k = n * M + l
  PROVE  m = n /\ k = l
<1>1. ASSUME NEW a \in Nat, NEW b \in Nat, NEW c \in 1 .. M, NEW d \in 1 .. M,
             a < b, a * M + c = b * M + d
      PROVE  FALSE
  <2>1. PICK e \in Nat : b = a + 1 + e
    <3>1. b - a - 1 \in Nat /\ b = a + 1 + (b - a - 1)
      BY <1>1
    <3>. QED
      BY <3>1
  <2>2. b * M = a * M + M + e * M
    BY <2>1
  <2>3. e * M \in Nat
    OBVIOUS
  <2>. QED
    BY <1>1, <2>2, <2>3
<1>2. ~(m < n) /\ ~(n < m)
  BY <1>1
<1>. QED
  BY <1>2

\* chunkRequests cuts the requests into batches, none of them empty, and puts
\* each request into one of them.
LEMMA ChunksKeep ==
  ASSUME NEW requests \in Seq(Intents)
  PROVE  /\ chunkRequests(requests) \in Batches
         /\ members(chunkRequests(requests)) = Elements(requests)
         /\ Once(requests) => OnceInAll(chunkRequests(requests))
<1>. DEFINE L == Len(requests)
            M == MaxBatchSize
            count == (L + M - 1) \div M
            last(n) == IF n * M < L THEN n * M ELSE L
            all == chunkRequests(requests)
<1>1. L \in Nat /\ M \in Nat \ {0} /\ DOMAIN requests = 1 .. L
  BY CoalescerParameters
<1>2. count \in Nat /\ count * M >= L /\ (count - 1) * M < L
  <2>. HIDE DEF L, M
  <2>. QED
    BY <1>1, Ceiling
<1>3. all = [n \in 1 .. count |-> SubSeq(requests, (n - 1) * M + 1, last(n))]
  BY DEF chunkRequests
<1>. HIDE DEF L, M, count, all
<1>4. ASSUME NEW n \in 1 .. count
      PROVE  /\ (n - 1) * M \in Nat /\ last(n) \in Nat
             /\ (n - 1) * M < last(n) /\ last(n) <= L
             /\ last(n) <= (n - 1) * M + M
             /\ last(n) = L \/ last(n) = n * M
  <2>1. (n - 1) * M \in Nat /\ n * M \in Nat /\ n * M = (n - 1) * M + M
    BY <1>1, <1>2
  <2>2. (n - 1) * M <= (count - 1) * M
    <3>1. PICK e \in Nat : count - 1 = (n - 1) + e
      <4>1. count - n \in Nat /\ count - 1 = (n - 1) + (count - n)
        BY <1>2
      <4>. QED
        BY <4>1
    <3>2. (count - 1) * M = (n - 1) * M + e * M /\ e * M \in Nat
      BY <3>1, <1>1
    <3>. QED
      BY <2>1, <3>2
  <2>3. (count - 1) * M \in Int
    BY <1>1, <1>2
  <2>4. (n - 1) * M < L
    BY <1>1, <1>2, <2>1, <2>2, <2>3
  <2>. QED
    BY <1>1, <2>1, <2>4
<1>5. ASSUME NEW n \in 1 .. count
      PROVE  /\ all[n] \in Seq(Intents)
             /\ Len(all[n]) = last(n) - (n - 1) * M
             /\ DOMAIN all[n] = 1 .. last(n) - (n - 1) * M
             /\ \A k \in 1 .. last(n) - (n - 1) * M :
                  /\ (n - 1) * M + k \in 1 .. L
                  /\ all[n][k] = requests[(n - 1) * M + k]
             /\ all[n] # <<>>
  <2>. DEFINE a == (n - 1) * M
              z == last(n)
  <2>1. a \in Nat /\ z \in Nat /\ a < z /\ z <= L
    BY <1>4
  <2>. HIDE DEF a, z
  <2>2. \A i \in a + 1 .. z : requests[i] \in Intents
    BY <1>1, <2>1
  <2>3. all[n] = SubSeq(requests, a + 1, z)
    BY <1>3 DEF a, z
  <2>4. /\ all[n] \in Seq(Intents) /\ Len(all[n]) = z - a
        /\ \A i \in 1 .. z - (a + 1) + 1 : all[n][i] = requests[a + 1 + i - 1]
    BY SMTT(60), <2>1, <2>2, <2>3, SubSeqProperties
  <2>5. DOMAIN all[n] = 1 .. z - a /\ all[n] # <<>>
    BY <2>1, <2>4
  <2>6. \A k \in 1 .. z - a : a + k \in 1 .. L /\ all[n][k] = requests[a + k]
    <3>. SUFFICES ASSUME NEW k \in 1 .. z - a
                  PROVE  a + k \in 1 .. L /\ all[n][k] = requests[a + k]
      OBVIOUS
    <3>1. a + 1 + k - 1 = a + k /\ k \in 1 .. z - (a + 1) + 1
      BY <2>1
    <3>2. a + k \in 1 .. L
      BY <1>1, <2>1
    <3>. QED
      BY <2>4, <3>1, <3>2
  <2>. QED
    BY <2>4, <2>5, <2>6 DEF a, z
<1>6. all \in Batches
  <2>1. all \in [1 .. count -> Seq(Intents) \ {<<>>}]
    BY <1>3, <1>5
  <2>. QED
    BY <1>2, <2>1, SeqDef DEF Batches
<1>7. DOMAIN all = 1 .. count
  BY <1>3
<1>8. members(all) = Elements(requests)
  <2>1. ASSUME NEW x \in members(all)
        PROVE  x \in Elements(requests)
    <3>1. PICK n \in 1 .. count : \E k \in DOMAIN all[n] : x = all[n][k]
      BY <1>7 DEF members, Elements
    <3>2. PICK k \in DOMAIN all[n] : x = all[n][k]
      BY <3>1
    <3>3. (n - 1) * M + k \in 1 .. L /\ x = requests[(n - 1) * M + k]
      BY <1>5, <3>2
    <3>. QED
      BY <1>1, <3>3 DEF Elements
  <2>2. ASSUME NEW p \in 1 .. L
        PROVE  requests[p] \in members(all)
    <3>. DEFINE q == (p - 1) \div M
                r == (p - 1) % M
    <3>1. q \in Nat /\ r \in 0 .. M - 1 /\ p - 1 = M * q + r
      BY <1>1
    <3>. HIDE DEF q, r
    <3>2. q * M + (r + 1) = p /\ q * M \in Nat
      BY <3>1, <1>1
    <3>3. q + 1 \in 1 .. count
      <4>1. SUFFICES ASSUME count <= q
                     PROVE  FALSE
        BY <1>2, <3>1
      <4>2. PICK e \in Nat : q = count + e
        <5>1. q - count \in Nat /\ q = count + (q - count)
          BY <4>1, <1>2, <3>1
        <5>. QED
          BY <5>1
      <4>3. q * M = count * M + e * M /\ e * M \in Nat /\ count * M \in Nat
        BY <4>2, <1>1, <1>2
      <4>. QED
        BY <4>3, <3>2, <3>1, <1>1, <1>2
    <3>4. (q + 1 - 1) * M = q * M /\ (q + 1) * M = q * M + M
      BY <3>1, <1>1
    <3>5. r + 1 \in 1 .. last(q + 1) - (q + 1 - 1) * M
      <4>1. last(q + 1) = L \/ last(q + 1) = q * M + M
        BY <1>4, <3>3, <3>4
      <4>. HIDE DEF last
      <4>. QED
        BY <4>1, <3>1, <3>2, <3>4, <1>1
    <3>6. r + 1 \in DOMAIN all[q + 1] /\ all[q + 1][r + 1] = requests[p]
      <4>. HIDE DEF last
      <4>0. PICK n : n = q + 1
        OBVIOUS
      <4>1. n \in 1 .. count /\ r + 1 \in 1 .. last(n) - (n - 1) * M
        BY <3>1, <3>3, <3>5, <4>0
      <4>2. (n - 1) * M = q * M
        BY <1>1, <3>1, <3>4, <4>0
      <4>3. r + 1 \in DOMAIN all[n] /\ all[n][r + 1] = requests[(n - 1) * M + (r + 1)]
        BY <1>5, <4>1
      <4>. QED
        BY <3>2, <4>0, <4>2, <4>3
    <3>. QED
      BY <1>7, <3>3, <3>6 DEF members, Elements
  <2>. QED
    BY <1>1, <2>1, <2>2 DEF Elements
<1>9. ASSUME Once(requests)
      PROVE  OnceInAll(all)
  <2>. SUFFICES ASSUME NEW b \in 1 .. count, NEW c \in 1 .. count,
                       NEW k \in DOMAIN all[b], NEW l \in DOMAIN all[c],
                       all[b][k].symbol = all[c][l].symbol
                PROVE  b = c /\ k = l
    BY <1>7 DEF OnceInAll
  <2>1. /\ k \in 1 .. last(b) - (b - 1) * M /\ l \in 1 .. last(c) - (c - 1) * M
        /\ last(b) \in Nat /\ last(c) \in Nat
        /\ last(b) <= (b - 1) * M + M /\ last(c) <= (c - 1) * M + M
        /\ (b - 1) * M \in Nat /\ (c - 1) * M \in Nat
    BY ZenonT(60), <1>4, <1>5
  <2>2. k \in 1 .. M /\ l \in 1 .. M
    <3>. HIDE DEF last
    <3>. QED
      BY SMTT(60), <2>1, <1>1
  <2>3. (b - 1) * M + k = (c - 1) * M + l
    <3>1. /\ (b - 1) * M + k \in 1 .. L /\ (c - 1) * M + l \in 1 .. L
          /\ all[b][k] = requests[(b - 1) * M + k]
          /\ all[c][l] = requests[(c - 1) * M + l]
      BY <1>5, <2>1
    <3>. QED
      BY <1>1, <1>9, <3>1 DEF Once
  <2>4. b - 1 \in Nat /\ c - 1 \in Nat
    BY <1>2
  <2>5. b - 1 = c - 1 /\ k = l
    <3>1. PICK x, y : x = b - 1 /\ y = c - 1
      OBVIOUS
    <3>2. x \in Nat /\ y \in Nat /\ x * M + k = y * M + l
      BY <2>3, <2>4, <3>1
    <3>3. x = y /\ k = l
      BY <1>1, <2>2, <3>2, PlacesDiffer
    <3>. QED
      BY <3>1, <3>3
  <2>. QED
    BY <1>2, <2>5
<1>. QED
  BY <1>6, <1>8, <1>9 DEF all

-----------------------------------------------------------------------------
(* The chunks of a batch *)

\* A batch is cut into one chunk, to begin with.
LEMMA OneChunk ==
  ASSUME NEW w \in Seq(Intents), w # <<>>
  PROVE  cuts(<<w>>, w, 0) /\ <<w>> \in Batches
<1>1. Len(w) \in Nat \ {0} /\ SubSeq(w, 1, Len(w)) = w
  BY SubSeqFull
<1>. DEFINE cut == [k \in 0 .. 1 |-> IF k = 0 THEN 0 ELSE Len(w)]
<1>2. cut \in [0 .. Len(<<w>>) -> 0 .. Len(w)]
  BY <1>1
<1>3. cut[0] = 0 /\ cut[1] = Len(w)
  OBVIOUS
<1>4. \A k \in DOMAIN <<w>> : /\ cut[k - 1] < cut[k]
                              /\ <<w>>[k] = SubSeq(w, cut[k - 1] + 1, cut[k])
  <2>1. DOMAIN <<w>> = {1} /\ <<w>>[1] = w
    OBVIOUS
  <2>. HIDE DEF cut
  <2>. QED
    BY <1>1, <1>3, <2>1
<1>. HIDE DEF cut
<1>5. \E c \in [0 .. Len(<<w>>) -> 0 .. Len(w)] :
        /\ c[0] = 0 /\ c[Len(<<w>>)] = Len(w)
        /\ \A k \in DOMAIN <<w>> : /\ c[k - 1] < c[k]
                                   /\ <<w>>[k] = SubSeq(w, c[k - 1] + 1, c[k])
  BY <1>2, <1>3, <1>4
<1>6. <<w>> \in Batches
  <2>1. w \in Seq(Intents) \ {<<>>}
    OBVIOUS
  <2>. QED
    BY <2>1 DEF Batches
<1>. QED
  BY <1>5, <1>6 DEF cuts

\* The first chunk is where the rest of the batch begins.
LEMMA FirstChunk ==
  ASSUME NEW w \in Seq(Intents), NEW parts \in Batches, parts # <<>>, NEW from \in Nat,
         cuts(parts, w, from)
  PROVE  /\ Head(parts) \in Seq(Intents) /\ Len(Head(parts)) \in Nat \ {0}
         /\ from + Len(Head(parts)) <= Len(w)
         /\ \A k \in DOMAIN Head(parts) : from + k \in DOMAIN w /\ Head(parts)[k] = w[from + k]
         /\ Tail(parts) = <<>> => from + Len(Head(parts)) = Len(w)
         /\ Tail(parts) \in Batches
         /\ Tail(parts) # <<>> => cuts(Tail(parts), w, from + Len(Head(parts)))
<1>. DEFINE N == Len(parts)
            L == Len(w)
            rest == Tail(parts)
<1>1. PICK cut \in [0 .. N -> from .. L] :
        /\ cut[0] = from /\ cut[N] = L
        /\ \A k \in DOMAIN parts : /\ cut[k - 1] < cut[k]
                                   /\ parts[k] = SubSeq(w, cut[k - 1] + 1, cut[k])
  BY DEF cuts
<1>2. N \in Nat \ {0} /\ DOMAIN parts = 1 .. N /\ L \in Nat /\ DOMAIN w = 1 .. L
  BY DEF Batches
<1>3. /\ Head(parts) = parts[1] /\ Head(parts) \in Seq(Intents) \ {<<>>}
      /\ rest \in Batches /\ Len(rest) = N - 1
      /\ \A k \in 1 .. N - 1 : rest[k] = parts[k + 1]
  <2>1. parts \in Seq(Seq(Intents) \ {<<>>})
    BY DEF Batches
  <2>. HIDE DEF N, rest
  <2>. QED
    BY <1>2, <2>1, HeadTailProperties DEF Batches, N, rest
<1>. HIDE DEF N, L, rest
<1>. DEFINE to == cut[1]
<1>4. to \in Nat /\ from < to /\ to <= L /\ parts[1] = SubSeq(w, from + 1, to)
  <2>1. 1 \in DOMAIN parts /\ 1 \in 0 .. N /\ 1 - 1 = 0
    BY <1>2
  <2>2. cut[1] \in from .. L
    BY <1>1, <2>1
  <2>3. cut[1 - 1] < cut[1] /\ parts[1] = SubSeq(w, cut[1 - 1] + 1, cut[1])
    BY <1>1, <2>1
  <2>4. cut[1 - 1] = from
    BY <1>1, <2>1
  <2>. QED
    BY <1>2, <2>2, <2>3, <2>4
<1>. HIDE DEF to
<1>5. /\ Len(parts[1]) = to - from
      /\ \A i \in 1 .. to - (from + 1) + 1 : parts[1][i] = w[from + 1 + i - 1]
  <2>1. \A i \in from + 1 .. to : w[i] \in Intents
    BY <1>2, <1>4 DEF L
  <2>. QED
    BY <1>4, <2>1, SubSeqProperties
<1>6. DOMAIN parts[1] = 1 .. to - from
  BY <1>3, <1>5
<1>7. \A k \in 1 .. to - from : from + k \in 1 .. L /\ parts[1][k] = w[from + k]
  <2>. SUFFICES ASSUME NEW k \in 1 .. to - from
                PROVE  from + k \in 1 .. L /\ parts[1][k] = w[from + k]
    OBVIOUS
  <2>1. from + 1 + k - 1 = from + k /\ k \in 1 .. to - (from + 1) + 1 /\ from + k \in 1 .. L
    BY <1>2, <1>4
  <2>. QED
    BY <1>5, <2>1
<1>8. ASSUME rest = <<>>
      PROVE  to = L
  <2>1. N = 1
    BY <1>2, <1>3, <1>8
  <2>. QED
    BY <1>1, <2>1 DEF to
<1>9. ASSUME rest # <<>>
      PROVE  cuts(rest, w, to)
  <2>. DEFINE c == [k \in 0 .. N - 1 |-> cut[k + 1]]
  <2>1. ASSUME NEW k \in 1 .. N
        PROVE  cut[k] \in Int /\ to <= cut[k] /\ cut[k] <= L
    <3>. DEFINE late == {n \in 1 .. N : cut[n] < to}
    <3>1. \A n \in 0 .. N : cut[n] \in Int /\ cut[n] <= L
      BY <1>1, <1>2
    <3>2. ASSUME late # {}
          PROVE  FALSE
      <4>1. late \in SUBSET Int /\ IsFiniteSet(late)
        <5>1. IsFiniteSet(1 .. N) /\ late \in SUBSET (1 .. N)
          BY <1>2, FS_Interval
        <5>. QED
          BY <1>2, <5>1, FS_Subset
      <4>2. PICK n \in late : \A x \in late : n <= x
        BY <3>2, <4>1, LeastElement
      <4>3. n # 1 /\ n \in 1 .. N
        BY <1>4 DEF to
      <4>4. n - 1 \in 1 .. N /\ n - 1 \notin late
        BY <1>2, <4>2, <4>3
      <4>5. cut[n - 1] < cut[n]
        BY <1>1, <1>2, <4>3
      <4>6. cut[n - 1] \in Int /\ cut[n] \in Int
        BY <1>2, <3>1, <4>3, <4>4
      <4>. QED
        BY <1>4, <4>2, <4>4, <4>5, <4>6
    <3>3. k \in 0 .. N /\ ~(cut[k] < to)
      BY SMTT(60), <1>2, <3>2
    <3>. QED
      BY <1>4, <3>1, <3>3
  <2>2. c \in [0 .. Len(rest) -> to .. L]
    <3>. SUFFICES ASSUME NEW k \in 0 .. N - 1
                  PROVE  cut[k + 1] \in to .. L
      BY <1>3
    <3>1. k + 1 \in 1 .. N
      BY <1>2
    <3>. QED
      BY <1>2, <1>4, <2>1, <3>1
  <2>3. c[0] = to /\ c[Len(rest)] = L
    BY <1>1, <1>2, <1>3 DEF to
  <2>4. \A k \in DOMAIN rest : c[k - 1] < c[k] /\ rest[k] = SubSeq(w, c[k - 1] + 1, c[k])
    <3>. SUFFICES ASSUME NEW k \in 1 .. N - 1
                  PROVE  c[k - 1] < c[k] /\ rest[k] = SubSeq(w, c[k - 1] + 1, c[k])
      <4>1. DOMAIN rest = 1 .. N - 1
        BY <1>2, <1>3 DEF Batches
      <4>. QED
        BY <4>1
    <3>1. c[k - 1] = cut[k] /\ c[k] = cut[k + 1] /\ k + 1 \in DOMAIN parts /\ k + 1 - 1 = k
      BY <1>2
    <3>. HIDE DEF c
    <3>2. cut[k] < cut[k + 1] /\ parts[k + 1] = SubSeq(w, cut[k] + 1, cut[k + 1])
      <4>1. \A n \in DOMAIN parts : \A m : m = n - 1 =>
              cut[m] < cut[n] /\ parts[n] = SubSeq(w, cut[m] + 1, cut[n])
        BY <1>1
      <4>. QED
        BY SMTT(60), <3>1, <4>1
    <3>. QED
      BY <1>3, <3>1, <3>2
  <2>. HIDE DEF c
  <2>5. \E d \in [0 .. Len(rest) -> to .. Len(w)] :
          /\ d[0] = to /\ d[Len(rest)] = Len(w)
          /\ \A k \in DOMAIN rest : /\ d[k - 1] < d[k]
                                    /\ rest[k] = SubSeq(w, d[k - 1] + 1, d[k])
    BY <2>2, <2>3, <2>4 DEF L
  <2>. QED
    BY <2>5 DEF cuts
<1>10. from + Len(Head(parts)) = to
  <2>1. Len(Head(parts)) = to - from
    BY <1>3, <1>5
  <2>. QED
    BY <1>4, <2>1
<1>11. Len(Head(parts)) \in Nat \ {0} /\ to <= Len(w)
  <2>1. Len(Head(parts)) = to - from
    BY <1>3, <1>5
  <2>. QED
    BY <1>4, <2>1 DEF L
<1>12. \A k \in DOMAIN Head(parts) : from + k \in DOMAIN w /\ Head(parts)[k] = w[from + k]
  BY <1>2, <1>3, <1>6, <1>7
<1>. QED
  BY <1>3, <1>8, <1>9, <1>10, <1>11, <1>12 DEF L, rest

\* Halving the first chunk of a batch leaves chunks of that batch.
LEMMA HalvedChunk ==
  ASSUME NEW w \in Seq(Intents), NEW parts \in Batches, parts # <<>>, NEW from \in Nat,
         cuts(parts, w, from), Len(Head(parts)) > 1
  PROVE  LET new == halves(Head(parts)) \o Tail(parts)
         IN  new \in Batches /\ new # <<>> /\ cuts(new, w, from)
<1>. DEFINE N == Len(parts)
            L == Len(w)
            first == Head(parts)
            rest == Tail(parts)
            new == halves(first) \o rest
            mid == (Len(first) + 1) \div 2
<1>1. PICK cut \in [0 .. N -> from .. L] :
        /\ cut[0] = from /\ cut[N] = L
        /\ \A k \in DOMAIN parts : /\ cut[k - 1] < cut[k]
                                   /\ parts[k] = SubSeq(w, cut[k - 1] + 1, cut[k])
  BY DEF cuts
<1>2. N \in Nat \ {0} /\ DOMAIN parts = 1 .. N /\ L \in Nat /\ DOMAIN w = 1 .. L
  BY DEF Batches
<1>3. /\ first = parts[1] /\ first \in Seq(Intents) \ {<<>>}
      /\ rest \in Batches /\ Len(rest) = N - 1 /\ DOMAIN rest = 1 .. N - 1
      /\ \A k \in 1 .. N - 1 : rest[k] = parts[k + 1]
  <2>1. parts \in Seq(Seq(Intents) \ {<<>>})
    BY DEF Batches
  <2>2. /\ first \in Seq(Intents) \ {<<>>} /\ rest \in Batches /\ Len(rest) = N - 1
        /\ \A k \in 1 .. Len(rest) : rest[k] = parts[k + 1]
    <3>. HIDE DEF N, first, rest
    <3>. QED
      BY <1>2, <2>1, HeadTailProperties DEF Batches, N, first, rest
  <2>3. DOMAIN rest = 1 .. Len(rest)
    <3>. HIDE DEF rest
    <3>. QED
      BY <2>2 DEF Batches
  <2>. QED
    BY <2>2, <2>3
<1>. HIDE DEF N, L, rest, first
<1>. DEFINE to == cut[1]
<1>4. to \in Nat /\ from < to /\ to <= L /\ first = SubSeq(w, from + 1, to)
  <2>1. 1 \in DOMAIN parts /\ 1 \in 0 .. N /\ 1 - 1 = 0
    BY <1>2
  <2>2. cut[1] \in from .. L
    BY <1>1, <2>1
  <2>3. cut[1 - 1] < cut[1] /\ parts[1] = SubSeq(w, cut[1 - 1] + 1, cut[1])
    BY <1>1, <2>1
  <2>4. cut[1 - 1] = from
    BY <1>1, <2>1
  <2>. QED
    BY <1>2, <1>3, <2>2, <2>3, <2>4
<1>. HIDE DEF to
<1>5. Len(first) = to - from /\ Len(first) > 1
  <2>1. \A i \in from + 1 .. to : w[i] \in Intents
    BY <1>2, <1>4 DEF L
  <2>2. Len(SubSeq(w, from + 1, to)) = to - from
    BY <1>4, <2>1, SubSeqProperties
  <2>. QED
    BY <1>4, <2>2 DEF first
<1>6. mid \in Nat /\ 1 <= mid /\ mid < to - from
  BY <1>4, <1>5
<1>. HIDE DEF mid
<1>. DEFINE h1 == SubSeq(w, from + 1, from + mid)
            h2 == SubSeq(w, from + mid + 1, to)
<1>7. halves(first) = <<h1, h2>> /\ h1 \in Seq(Intents) \ {<<>>} /\ h2 \in Seq(Intents) \ {<<>>}
  <2>1. \A i \in from + 1 .. to : w[i] \in Intents
    BY <1>2, <1>4 DEF L
  <2>2. h1 \in Seq(Intents) /\ Len(h1) = mid
    <3>1. \A i \in from + 1 .. from + mid : w[i] \in Intents
      BY <2>1, <1>4, <1>6
    <3>. QED
      BY <3>1, <1>4, <1>6, SubSeqProperties
  <2>3. h2 \in Seq(Intents) /\ Len(h2) = to - from - mid
    <3>1. \A i \in from + mid + 1 .. to : w[i] \in Intents
      BY <2>1, <1>4, <1>6
    <3>. QED
      BY <3>1, <1>4, <1>6, SubSeqProperties
  <2>4. SubSeq(first, 1, mid) = h1
    <3>1. /\ from + 1 \in 1 .. L /\ to \in 1 .. L
          /\ 1 \in 1 .. to - (from + 1) + 1 /\ mid \in 1 .. to - (from + 1) + 1
      BY <1>2, <1>4, <1>6
    <3>2. SubSeq(SubSeq(w, from + 1, to), 1, mid) = SubSeq(w, from + 1 + 1 - 1, from + 1 + mid - 1)
      BY <3>1, SubSeqOfSubSeq DEF L
    <3>3. from + 1 + 1 - 1 = from + 1 /\ from + 1 + mid - 1 = from + mid
      BY <1>6
    <3>. QED
      BY <3>2, <3>3, <1>4
  <2>5. SubSeq(first, mid + 1, Len(first)) = h2
    <3>1. /\ from + 1 \in 1 .. L /\ to \in 1 .. L
          /\ mid + 1 \in 1 .. to - (from + 1) + 1 /\ to - from \in 1 .. to - (from + 1) + 1
      BY <1>2, <1>4, <1>6
    <3>2. SubSeq(SubSeq(w, from + 1, to), mid + 1, to - from)
            = SubSeq(w, from + 1 + (mid + 1) - 1, from + 1 + (to - from) - 1)
      <4>1. \A a, b \in 1 .. L : \A m, n \in 1 .. b - a + 1 :
              SubSeq(SubSeq(w, a, b), m, n) = SubSeq(w, a + m - 1, a + n - 1)
        BY SubSeqOfSubSeq DEF L
      <4>. QED
        BY <3>1, <4>1
    <3>3. from + 1 + (mid + 1) - 1 = from + mid + 1 /\ from + 1 + (to - from) - 1 = to
      BY <1>4, <1>6
    <3>. QED
      BY <3>2, <3>3, <1>4, <1>5
  <2>6. halves(first) = <<SubSeq(first, 1, mid), SubSeq(first, mid + 1, Len(first))>>
    BY DEF halves, mid
  <2>. HIDE DEF h1, h2
  <2>7. h1 # <<>> /\ h2 # <<>>
    <3>1. Len(<<>>) = 0 /\ mid # 0 /\ to - from - mid # 0
      BY <1>4, <1>6
    <3>. QED
      BY <2>2, <2>3, <3>1
  <2>. QED
    BY <2>2, <2>3, <2>4, <2>5, <2>6, <2>7
<1>. HIDE DEF h1, h2
<1>8. /\ new \in Batches /\ Len(new) = N + 1 /\ new[1] = h1 /\ new[2] = h2
      /\ \A k \in 3 .. N + 1 : new[k] = parts[k - 1]
  <2>. DEFINE two == <<h1, h2>>
              All == Seq(Intents) \ {<<>>}
  <2>1. two \in Seq(All) /\ rest \in Seq(All) /\ Len(two) = 2 /\ two[1] = h1 /\ two[2] = h2
    BY <1>3, <1>7 DEF Batches
  <2>2. new = two \o rest
    BY <1>7
  <2>. HIDE DEF two, All, new
  <2>3. /\ new \in Seq(All) /\ Len(new) = 2 + (N - 1)
        /\ \A i \in 1 .. 2 + (N - 1) : new[i] = IF i <= 2 THEN two[i] ELSE rest[i - 2]
    <3>1. /\ two \o rest \in Seq(All) /\ Len(two \o rest) = Len(two) + Len(rest)
          /\ \A i \in 1 .. Len(two) + Len(rest) :
               (two \o rest)[i] = IF i <= Len(two) THEN two[i] ELSE rest[i - Len(two)]
      BY <2>1, ConcatProperties
    <3>. QED
      BY <1>3, <2>1, <2>2, <3>1
  <2>4. ASSUME NEW k \in 3 .. N + 1
        PROVE  new[k] = parts[k - 1]
    <3>1. k \in 1 .. 2 + (N - 1) /\ ~(k <= 2) /\ k - 2 \in 1 .. N - 1 /\ k - 2 + 1 = k - 1
      BY <1>2
    <3>2. new[k] = rest[k - 2] /\ rest[k - 2] = parts[k - 2 + 1]
      BY <1>3, <2>3, <3>1
    <3>. QED
      BY <3>1, <3>2
  <2>5. new[1] = h1 /\ new[2] = h2
    <3>1. 1 \in 1 .. 2 + (N - 1) /\ 2 \in 1 .. 2 + (N - 1)
      BY <1>2
    <3>2. 1 <= 2 /\ 2 <= 2
      OBVIOUS
    <3>3. new[1] = two[1] /\ new[2] = two[2]
      BY <2>3, <3>1, <3>2
    <3>. QED
      BY <2>1, <3>3
  <2>6. Len(new) = N + 1 /\ new \in Batches
    BY <1>2, <2>3 DEF Batches, All
  <2>. QED
    BY <2>4, <2>5, <2>6
<1>9. DOMAIN new = 1 .. N + 1 /\ new # <<>>
  <2>. HIDE DEF new
  <2>. QED
    BY <1>2, <1>8 DEF Batches
<1>. HIDE DEF new
<1>. DEFINE c == [k \in 0 .. N + 1 |-> IF k = 0 THEN from
                                       ELSE IF k = 1 THEN from + mid ELSE cut[k - 1]]
<1>10. c \in [0 .. Len(new) -> from .. L]
  <2>. SUFFICES ASSUME NEW k \in 2 .. N + 1
                PROVE  cut[k - 1] \in from .. L
    BY <1>2, <1>4, <1>6, <1>8
  <2>1. k - 1 \in 0 .. N
    BY <1>2
  <2>. QED
    BY <1>1, <2>1
<1>11. /\ c[0] = from /\ c[1] = from + mid /\ c[2] = to
       /\ \A k \in 2 .. N + 1 : c[k] = cut[k - 1]
  BY <1>2 DEF to
<1>. HIDE DEF c
<1>12. c[Len(new)] = L
  <2>1. N + 1 \in 2 .. N + 1 /\ N + 1 - 1 = N
    BY <1>2
  <2>. QED
    <3>1. PICK n \in 2 .. N + 1 : n = N + 1 /\ n - 1 = N
      BY <1>2, <2>1
    <3>2. c[n] = cut[n - 1]
      BY <1>11
    <3>. QED
      BY <1>1, <1>8, <3>1, <3>2
<1>13. ASSUME NEW k \in DOMAIN new
       PROVE  c[k - 1] < c[k] /\ new[k] = SubSeq(w, c[k - 1] + 1, c[k])
  <2>1. CASE k = 1
    <3>1. k - 1 = 0 /\ from < from + mid
      BY <1>6, <2>1
    <3>. QED
      BY <1>8, <1>11, <2>1, <3>1 DEF h1
  <2>2. CASE k = 2
    <3>1. k - 1 = 1 /\ from + mid < to
      BY <1>4, <1>6, <2>2
    <3>. QED
      BY <1>8, <1>11, <2>2, <3>1 DEF h2
  <2>3. CASE k \in 3 .. N + 1
    <3>1. /\ k - 1 \in DOMAIN parts /\ k - 1 \in 2 .. N + 1 /\ k \in 2 .. N + 1
          /\ new[k] = parts[k - 1]
      BY SMTT(60), <1>2, <1>8, <2>3
    <3>2. cut[k - 1 - 1] < cut[k - 1] /\ parts[k - 1] = SubSeq(w, cut[k - 1 - 1] + 1, cut[k - 1])
      BY <1>1, <3>1
    <3>. QED
      BY <1>11, <3>1, <3>2
  <2>4. k = 1 \/ k = 2 \/ k \in 3 .. N + 1
    BY SMTT(60), <1>2, <1>9
  <2>. QED
    BY <2>1, <2>2, <2>3, <2>4
<1>14. \E d \in [0 .. Len(new) -> from .. Len(w)] :
         /\ d[0] = from /\ d[Len(new)] = Len(w)
         /\ \A k \in DOMAIN new : /\ d[k - 1] < d[k]
                                  /\ new[k] = SubSeq(w, d[k - 1] + 1, d[k])
  BY <1>10, <1>11, <1>12, <1>13 DEF L
<1>15. cuts(new, w, from)
  BY <1>14 DEF cuts
<1>. QED
  BY <1>8, <1>9, <1>15 DEF new, first, rest
-----------------------------------------------------------------------------
(* The invariant *)

Codes == Results \ {"IntentAgedOut"}

Statuses == {"unseen", "held", "superseded", "discarded"} \cup Results

LaneTypes ==
  /\ lane \in {"idle", "accumulating", "in-flight"}
  /\ flush \in {"none", "age", "chunk", "queue", "result", "clear"}
  /\ buffer \in Seq(Intents) /\ aged \in Seq(Intents)
  /\ batches \in Batches /\ chunks \in Batches /\ results \in Seq(Codes)
  /\ status \in [Intents -> Statuses]
  /\ pending \in Seq(Seq(Intents)) /\ job \in Jobs
  /\ chain \in Seq(Transactions) /\ indexed \in 0 .. Len(chain)
  /\ mempool \subseteq Transactions /\ IsFiniteSet(mempool)
  /\ losses \in Nat /\ budget \in Budgets

\* What a flush that is at this step has and has not.
Phases ==
  /\ flush = "none" <=> lane # "in-flight"
  /\ flush = "none" => batches = <<>>
  /\ flush \in {"none", "age"} => chunks = <<>> /\ results = <<>>
  /\ flush # "age" => aged = <<>>
  /\ flush = "chunk" /\ chunks = <<>> => results = <<>>
  /\ flush = "queue" => chunks # <<>>
  /\ flush \in {"chunk", "queue"} /\ chunks # <<>> =>
       batches # <<>> /\ cuts(chunks, Head(batches), Len(results))
  /\ flush \in {"result", "clear"} =>
       chunks = <<>> /\ batches # <<>> /\ Len(results) = Len(Head(batches))

\* Every request is in one place; the last one answered is in none any more.
Held ==
  /\ Once(buffer) /\ Once(aged) /\ OnceInAll(batches)
  /\ Elements(buffer) \cap (Elements(aged) \cup members(batches)) = {}
  /\ Elements(aged) \cap members(batches) = {}
  /\ \A i \in Intents : status[i] = "held" <=> i \in waiting
  /\ flush = "clear" => status[Head(Head(batches))] = Head(results)

\* The entry of the queue that is a chunk is the first chunk.
Queued ==
  /\ job.step = "idle" => job = Idle
  /\ job.requests # <<>> => flush = "queue" /\ job.requests = Head(chunks)
  /\ \A k \in DOMAIN pending : pending[k] # <<>> =>
       /\ flush = "queue" /\ pending[k] = Head(chunks) /\ job.requests = <<>>
       /\ \A l \in DOMAIN pending : pending[l] # <<>> => l = k

intentsOf(updates) == {u.intent : u \in updates}

afloat == UNION {intentsOf(t.updates) : t \in mempool}

\* What the bridge works on are requests of its entry.
Building ==
  /\ intentsOf(job.updates) \subseteq Elements(job.requests)
  /\ job.step = "confirm" =>
       /\ intentsOf(job.tx.updates) \subseteq Elements(job.requests)
       /\ mempool # {} => job.tx.input = Len(chain)
  /\ job.step = "answered" =>
       job.codes \in Seq(Codes) /\ Len(job.codes) = Len(job.requests)

\* Nothing that is afloat was answered for good or may be given up yet.
Afloat ==
  /\ \A t \in mempool :
       /\ t.input = Len(chain)
       /\ \A i, j \in intentsOf(t.updates) : i.symbol = j.symbol => i = j
  /\ \A i \in afloat :
       Contract!mayLand(i) /\ i \notin Elements(buffer) \cup Elements(aged)

\* An "ok" is true when it is computed, and stays so until it is reported.
Answered ==
  /\ \A k \in DOMAIN results : results[k] = "ok" =>
       Head(batches)[k] \in published \ afloat
  /\ job.step = "answered" => \A k \in DOMAIN job.codes : job.codes[k] = "ok" =>
       job.requests[k] \in published \ afloat

LaneInv ==
  /\ LaneTypes /\ Phases /\ Held /\ Queued /\ Building /\ Afloat /\ Answered
  /\ MarksCoverFlight

-----------------------------------------------------------------------------
(* Elements of sequences *)

LEMMA ElementsType ==
  ASSUME NEW S, NEW s \in Seq(S)
  PROVE  /\ Elements(s) \subseteq S
         /\ \A k \in 1 .. Len(s) : s[k] \in Elements(s)
         /\ s = <<>> <=> Elements(s) = {}
<1>1. Len(s) \in Nat /\ DOMAIN s = 1 .. Len(s)
  OBVIOUS
<1>2. s # <<>> => Len(s) # 0
  BY EmptySeq
<1>3. s # <<>> => s[1] \in Elements(s)
  BY <1>1, <1>2 DEF Elements
<1>4. Elements(<<>>) = {}
  BY DEF Elements
<1>5. Elements(s) \subseteq S /\ \A k \in 1 .. Len(s) : s[k] \in Elements(s)
  BY <1>1 DEF Elements
<1>. QED
  BY <1>3, <1>4, <1>5

LEMMA ElementsAppend ==
  ASSUME NEW S, NEW s \in Seq(S), NEW x \in S
  PROVE  Elements(Append(s, x)) = Elements(s) \cup {x}
<1>. DEFINE t == Append(s, x)
<1>1. /\ t \in Seq(S) /\ Len(t) = Len(s) + 1 /\ Len(s) \in Nat
      /\ \A k \in 1 .. Len(s) : t[k] = s[k]
      /\ t[Len(s) + 1] = x
  BY AppendProperties
<1>. HIDE DEF t
<1>2. DOMAIN t = 1 .. Len(s) + 1 /\ DOMAIN s = 1 .. Len(s)
  BY <1>1
<1>3. Elements(t) \subseteq Elements(s) \cup {x}
  BY <1>1, <1>2 DEF Elements
<1>4. Elements(s) \cup {x} \subseteq Elements(t)
  BY <1>1, <1>2 DEF Elements
<1>. QED
  BY <1>3, <1>4 DEF t

\* The first element and the others.
LEMMA ElementsSplit ==
  ASSUME NEW S, NEW s \in Seq(S), s # <<>>
  PROVE  /\ Head(s) \in S /\ Head(s) \in Elements(s) /\ Head(s) = s[1]
         /\ Tail(s) \in Seq(S) /\ Len(Tail(s)) = Len(s) - 1 /\ Len(s) \in Nat \ {0}
         /\ \A k \in 1 .. Len(s) - 1 : Tail(s)[k] = s[k + 1]
         /\ Elements(s) = {Head(s)} \cup Elements(Tail(s))
         /\ Once(s) => Once(Tail(s)) /\ Head(s) \notin Elements(Tail(s))
<1>. DEFINE t == Tail(s)
<1>1. /\ Head(s) = s[1] /\ Head(s) \in S
      /\ t \in Seq(S) /\ Len(t) = Len(s) - 1 /\ Len(s) \in Nat \ {0}
      /\ \A k \in 1 .. Len(t) : t[k] = s[k + 1]
  BY HeadTailProperties
<1>. HIDE DEF t
<1>2. DOMAIN t = 1 .. Len(s) - 1 /\ DOMAIN s = 1 .. Len(s)
  BY <1>1
<1>3. \A k \in DOMAIN t : k + 1 \in DOMAIN s /\ k + 1 # 1 /\ t[k] = s[k + 1]
  BY <1>1, <1>2
<1>4. \A k \in DOMAIN s : k = 1 \/ (k - 1 \in DOMAIN t /\ s[k] = t[k - 1])
  <2>. SUFFICES ASSUME NEW k \in DOMAIN s, k # 1
                PROVE  k - 1 \in DOMAIN t /\ s[k] = t[k - 1]
    OBVIOUS
  <2>1. k - 1 \in DOMAIN t /\ k - 1 + 1 = k
    BY <1>1, <1>2
  <2>. QED
    BY <1>3, <2>1
<1>5. 1 \in DOMAIN s
  BY <1>1, <1>2
<1>6. Elements(s) \subseteq {s[1]} \cup Elements(t)
  BY <1>4 DEF Elements
<1>7. {s[1]} \cup Elements(t) \subseteq Elements(s)
  BY <1>3, <1>5 DEF Elements
<1>8. ASSUME Once(s)
      PROVE  Once(t) /\ s[1] \notin Elements(t)
  <2>1. ASSUME NEW k \in DOMAIN t, NEW l \in DOMAIN t, t[k].symbol = t[l].symbol
        PROVE  k = l
    <3>1. k + 1 = l + 1
      BY <1>3, <1>8, <2>1 DEF Once
    <3>. QED
      BY <1>1, <1>2, <3>1
  <2>2. s[1] \notin Elements(t)
    BY <1>3, <1>5, <1>8 DEF Once, Elements
  <2>. QED
    BY <2>1, <2>2 DEF Once
<1>. QED
  BY <1>1, <1>2, <1>5, <1>6, <1>7, <1>8 DEF t, Elements

\* A request that is added to those of other symbols.
LEMMA ElementsAdded ==
  ASSUME NEW s \in Seq(Intents), Once(s), NEW i \in Intents,
         \A k \in DOMAIN s : s[k].symbol # i.symbol
  PROVE  /\ Append(s, i) \in Seq(Intents) /\ Once(Append(s, i))
         /\ Elements(Append(s, i)) = Elements(s) \cup {i}
<1>. DEFINE t == Append(s, i)
<1>1. /\ t \in Seq(Intents) /\ Len(t) = Len(s) + 1 /\ Len(s) \in Nat
      /\ \A k \in 1 .. Len(s) : t[k] = s[k]
      /\ t[Len(s) + 1] = i
  BY AppendProperties
<1>2. Elements(t) = Elements(s) \cup {i}
  BY ElementsAppend
<1>. HIDE DEF t
<1>3. DOMAIN t = 1 .. Len(s) + 1 /\ DOMAIN s = 1 .. Len(s)
  BY <1>1
<1>4. ASSUME NEW k \in DOMAIN t, NEW l \in DOMAIN t, t[k].symbol = t[l].symbol
      PROVE  k = l
  <2>1. CASE k \in DOMAIN s /\ l \in DOMAIN s
    BY <1>1, <1>3, <1>4, <2>1 DEF Once
  <2>2. CASE k \in DOMAIN s /\ l = Len(s) + 1
    BY <1>1, <1>3, <1>4, <2>2
  <2>3. CASE k = Len(s) + 1 /\ l \in DOMAIN s
    BY <1>1, <1>3, <1>4, <2>3
  <2>4. CASE k = Len(s) + 1 /\ l = Len(s) + 1
    BY <2>4
  <2>. QED
    BY <1>1, <1>3, <2>1, <2>2, <2>3, <2>4
<1>. QED
  BY <1>1, <1>2, <1>4 DEF t, Once

-----------------------------------------------------------------------------
(* Initially *)

LEMMA LaneInit ==
  ASSUME Init
  PROVE  LaneInv
<1>1. Idle \in Jobs
  BY DEF Idle, Jobs, NoTransaction, Transactions, Versions
<1>2. LaneTypes
  <2>1. <<>> \in Batches
    BY DEF Batches
  <2>2. IsFiniteSet({})
    BY FS_EmptySet
  <2>3. indexed \in 0 .. Len(chain)
    BY DEF Init
  <2>. QED
    BY <1>1, <2>1, <2>2, <2>3 DEF Init, CoalescerInit, LaneTypes, Statuses
<1>3. Phases
  BY DEF Init, CoalescerInit, Phases
<1>4. Elements(<<>>) = {} /\ members(<<>>) = {} /\ DOMAIN <<>> = {}
  BY DEF Elements, members
<1>5. Held
  <2>1. waiting = {}
    BY <1>4 DEF Init, CoalescerInit, waiting
  <2>2. Once(buffer) /\ Once(aged) /\ OnceInAll(batches)
    BY <1>4 DEF Init, CoalescerInit, Once, OnceInAll
  <2>. QED
    BY <1>4, <2>1, <2>2 DEF Init, CoalescerInit, Held
<1>6. Queued
  BY <1>4 DEF Init, Queued, Idle
<1>7. Building
  BY DEF Init, Building, Idle, intentsOf
<1>8. Afloat
  BY DEF Init, Afloat, afloat
<1>9. Answered
  BY <1>4 DEF Init, CoalescerInit, Answered, Idle
<1>10. MarksCoverFlight
  BY DEF Init, CoalescerInit, MarksCoverFlight, Idle
<1>. QED
  BY <1>2, <1>3, <1>5, <1>6, <1>7, <1>8, <1>9, <1>10 DEF LaneInv

-----------------------------------------------------------------------------
(* The coalescer *)

USE DEF vars, coalescerVars, queueVars, cardanoVars

LEMMA WaitingIs ==
  /\ waiting = Elements(buffer) \cup Elements(aged)
                 \cup (IF flush = "clear" THEN members(batches) \ {Head(Head(batches))}
                                          ELSE members(batches))
  /\ waiting' = Elements(buffer') \cup Elements(aged')
                  \cup (IF flush' = "clear" THEN members(batches') \ {Head(Head(batches'))}
                                            ELSE members(batches'))
  BY DEF waiting, members

LEMMA SamePublished ==
  ASSUME chain' = chain
  PROVE  published' = published
  BY DEF published

LEMMA SameAfloat ==
  ASSUME mempool' = mempool
  PROVE  afloat' = afloat
  BY DEF afloat

\* Only intents are afloat.
LEMMA AfloatIntents ==
  ASSUME LaneInv
  PROVE  afloat \subseteq Intents
<1>1. mempool \subseteq Transactions
  BY DEF LaneInv, LaneTypes
<1>2. \A t \in mempool : t.updates \subseteq Updates
  BY <1>1 DEF Transactions
<1>3. \A u \in Updates : u.intent \in Intents
  BY DEF Updates
<1>. QED
  BY <1>2, <1>3 DEF afloat, intentsOf

\* What arrives is none of those the lane has, and none that is afloat.
LEMMA ArrivalIsNew ==
  ASSUME LaneInv, NEW i \in Intents, status[i] = "unseen"
  PROVE  /\ i \notin Elements(buffer) /\ i \notin Elements(aged)
         /\ i \notin members(batches) /\ i \notin afloat
<1>1. i \notin waiting
  BY DEF LaneInv, Held
<1>2. i \notin afloat
  BY DEF LaneInv, Afloat, Contract!mayLand
<1>3. ASSUME flush = "clear"
      PROVE  i # Head(Head(batches))
  <2>1. results \in Seq(Codes) /\ Len(results) = Len(Head(batches)) /\ batches # <<>> /\ batches \in Batches
    BY <1>3 DEF LaneInv, LaneTypes, Phases
  <2>2. Head(batches) \in Seq(Intents) \ {<<>>}
    BY <2>1, ElementsSplit DEF Batches
  <2>3. results # <<>>
    BY <2>1, <2>2, EmptySeq
  <2>4. Head(results) \in Codes
    BY <2>1, <2>3, ElementsSplit
  <2>. QED
    BY <1>3, <2>4 DEF LaneInv, Held, Codes, Results, NON_RETRIABLE_CODES
<1>. QED
  BY <1>1, <1>2, <1>3, WaitingIs

LEMMA AcceptKeeps ==
  ASSUME LaneInv, NEW i \in Intents, IntentArrives(i)
  PROVE  LaneInv'
<1>. USE DEF IntentArrives, accept
<1>1. /\ i \notin Elements(buffer) /\ i \notin Elements(aged)
      /\ i \notin members(batches) /\ i \notin afloat
  BY ArrivalIsNew
<1>2. /\ buffer \in Seq(Intents) /\ Once(buffer)
      /\ Elements(buffer) \cap (Elements(aged) \cup members(batches)) = {}
      /\ status \in [Intents -> Statuses] /\ status[i] = "unseen"
      /\ \A j \in Intents : status[j] = "held" <=> j \in waiting
      /\ Elements(buffer) \cap afloat = {}
      /\ \A j \in afloat : Contract!mayLand(j)
      /\ afloat \cap Elements(aged) = {}
  BY DEF LaneInv, LaneTypes, Held, Afloat
<1>. DEFINE gone == Elements(buffer) \ Elements(buffer')
<1>. DEFINE accepted ==
      /\ buffer' \in Seq(Intents) /\ Once(buffer')
      /\ status' \in [Intents -> Statuses]
      /\ Elements(buffer') \subseteq Elements(buffer) \cup {i}
      /\ \A j \in Intents : j # i /\ j \notin gone => status'[j] = status[j]
      /\ \A j \in gone : j \in Intents /\ status'[j] = "superseded"
      /\ status'[i] = IF i \in Elements(buffer') THEN "held" ELSE "discarded"
<1>3. accepted
  <2>. DEFINE slot == {k \in DOMAIN buffer : buffer[k].symbol = i.symbol}
  <2>1. CASE /\ slot = {}
             /\ buffer' = Append(buffer, i)
             /\ status' = [status EXCEPT ![i] = "held"]
    <3>1. /\ buffer' \in Seq(Intents) /\ Once(buffer')
          /\ Elements(buffer') = Elements(buffer) \cup {i}
      BY <1>2, <2>1, ElementsAdded
    <3>. QED
      BY <1>2, <2>1, <3>1 DEF Statuses
  <2>2. ASSUME NEW k \in slot, buffer' = [buffer EXCEPT ![k] = i],
               status' = [status EXCEPT ![i] = "held", ![buffer[k]] = "superseded"]
        PROVE  accepted
    <3>1. /\ buffer' \in Seq(Intents) /\ Once(buffer')
          /\ Elements(buffer') = (Elements(buffer) \ {buffer[k]}) \cup {i}
      <4>1. k \in DOMAIN buffer /\ i.symbol = buffer[k].symbol
        OBVIOUS
      <4>2. buffer \in Seq(Intents) /\ Once(buffer) /\ buffer' = [buffer EXCEPT ![k] = i]
        BY <1>2, <2>2
      <4>. HIDE DEF slot, IntentArrives, accept, gone, accepted
      <4>3. DOMAIN buffer = 1 .. Len(buffer)
        BY <4>2
      <4>4. buffer' \in Seq(Intents)
        BY <4>1, <4>2, <4>3, ExceptSeq
      <4>5. /\ DOMAIN buffer' = DOMAIN buffer /\ buffer'[k] = i
            /\ \A l \in DOMAIN buffer : l # k => buffer'[l] = buffer[l]
        BY <4>1, <4>2
      <4>6. \A l \in DOMAIN buffer : buffer'[l].symbol = buffer[l].symbol
        BY <4>1, <4>5
      <4>7. Once(buffer')
        BY <4>2, <4>5, <4>6 DEF Once
      <4>8. \A l \in DOMAIN buffer : buffer[l] = buffer[k] => l = k
        BY <4>1, <4>2 DEF Once
      <4>9. Elements(buffer') \subseteq (Elements(buffer) \ {buffer[k]}) \cup {i}
        BY <4>5, <4>8 DEF Elements
      <4>10. (Elements(buffer) \ {buffer[k]}) \cup {i} \subseteq Elements(buffer')
        BY <4>1, <4>5 DEF Elements
      <4>. QED
        BY <4>4, <4>7, <4>9, <4>10
    <3>2. buffer[k] \in Intents /\ buffer[k] # i
      BY <1>1, <1>2 DEF Elements
    <3>3. gone = {buffer[k]}
      BY <3>1, <3>2 DEF Elements
    <3>. HIDE DEF gone
    <3>4. i \in Elements(buffer') /\ Elements(buffer') \subseteq Elements(buffer) \cup {i}
      BY <3>1
    <3>5. /\ status' \in [Intents -> Statuses] /\ status'[i] = "held"
          /\ status'[buffer[k]] = "superseded"
          /\ \A j \in Intents : j # i /\ j # buffer[k] => status'[j] = status[j]
      BY <1>2, <2>2, <3>2 DEF Statuses
    <3>. QED
      BY <3>1, <3>2, <3>3, <3>4, <3>5
  <2>3. CASE status' = [status EXCEPT ![i] = "discarded"] /\ UNCHANGED buffer
    BY <1>1, <1>2, <2>3 DEF Statuses
  <2>4. \/ slot = {} /\ buffer' = Append(buffer, i) /\ status' = [status EXCEPT ![i] = "held"]
        \/ \E k \in slot : /\ buffer' = [buffer EXCEPT ![k] = i]
                           /\ status' = [status EXCEPT ![i] = "held", ![buffer[k]] = "superseded"]
        \/ status' = [status EXCEPT ![i] = "discarded"] /\ UNCHANGED buffer
    OBVIOUS
  <2>. HIDE DEF slot, accepted
  <2>. QED
    BY <2>1, <2>2, <2>3, <2>4
<1>. HIDE DEF gone
<1>4. gone \subseteq Elements(buffer) /\ gone \cap Elements(buffer') = {}
  BY DEF gone
<1>5. Elements(buffer) \subseteq Elements(buffer') \cup gone
  BY DEF gone
<1>6. LaneTypes'
  BY <1>3 DEF LaneInv, LaneTypes
<1>7. Phases'
  BY DEF LaneInv, Phases
<1>8. Held'
  <2>1. ASSUME NEW j \in Intents
        PROVE  status'[j] = "held" <=> j \in waiting'
    <3>1. CASE j = i
      <4>1. status'[i] = "held" <=> i \in Elements(buffer')
        BY <1>3
      <4>2. i \in waiting' <=> i \in Elements(buffer')
        BY <1>1, WaitingIs, <3>1
      <4>. QED
        BY <3>1, <4>1, <4>2
    <3>2. CASE j \in gone
      <4>1. j \notin waiting'
        BY <1>2, <1>4, <3>2, WaitingIs
      <4>. QED
        BY <1>3, <3>2, <4>1
    <3>3. CASE j # i /\ j \notin gone
      <4>1. j \in Elements(buffer') <=> j \in Elements(buffer)
        BY <1>3, <1>5, <3>3
      <4>2. j \in waiting' <=> j \in waiting
        BY <4>1, WaitingIs
      <4>. QED
        BY <1>2, <1>3, <3>3, <4>2
    <3>. QED
      BY <3>1, <3>2, <3>3
  <2>2. Elements(buffer') \cap (Elements(aged) \cup members(batches)) = {}
    BY <1>1, <1>2, <1>3
  <2>3. flush' = "clear" => status'[Head(Head(batches'))] = Head(results')
    <3>. SUFFICES ASSUME flush = "clear"
                  PROVE  status'[Head(Head(batches))] = status[Head(Head(batches))]
      BY DEF LaneInv, Held
    <3>1. batches \in Batches /\ batches # <<>>
      BY DEF LaneInv, LaneTypes, Phases
    <3>2. Head(batches) \in Seq(Intents) /\ Head(batches) # <<>> /\ Head(batches) \in Elements(batches)
      BY <3>1, ElementsSplit DEF Batches
    <3>3. Head(Head(batches)) \in Intents /\ Head(Head(batches)) \in members(batches)
      BY <3>2, ElementsSplit DEF members
    <3>. QED
      BY <1>1, <1>2, <1>3, <1>4, <3>3
  <2>4. Once(aged) /\ OnceInAll(batches) /\ Elements(aged) \cap members(batches) = {}
    BY DEF LaneInv, Held
  <2>. QED
    BY <1>3, <2>1, <2>2, <2>3, <2>4 DEF Held
<1>9. Queued'
  BY DEF LaneInv, Queued
<1>10. Building'
  BY DEF LaneInv, Building
<1>11. Afloat'
  <2>1. afloat' = afloat
    BY SameAfloat
  <2>2. ASSUME NEW j \in afloat
        PROVE  /\ Contract!mayLand(j)'
               /\ j \notin Elements(buffer') /\ j \notin Elements(aged')
    <3>1. j # i /\ j \notin gone /\ j \notin Elements(buffer') /\ j \notin Elements(aged)
      BY <1>1, <1>2, <1>3, <1>4
    <3>2. j \in Intents
      BY AfloatIntents
    <3>. QED
      BY <1>2, <1>3, <3>1, <3>2 DEF Contract!mayLand
  <2>3. \A t \in mempool' :
          /\ t.input = Len(chain')
          /\ \A a, b \in intentsOf(t.updates) : a.symbol = b.symbol => a = b
    BY DEF LaneInv, Afloat
  <2>. QED
    BY <2>1, <2>2, <2>3 DEF Afloat
<1>12. Answered'
  BY SamePublished, SameAfloat DEF LaneInv, Answered
<1>13. MarksCoverFlight'
  BY DEF LaneInv, MarksCoverFlight
<1>. QED
  BY <1>6, <1>7, <1>8, <1>9, <1>10, <1>11, <1>12, <1>13 DEF LaneInv

\* Unless a chunk is in the queue, the queue has nothing of the coalescer.
LEMMA NothingQueued ==
  ASSUME LaneInv, flush # "queue"
  PROVE  job.requests = <<>> /\ \A k \in DOMAIN pending : pending[k] = <<>>
BY DEF LaneInv, Queued

LEMMA StillNothingQueued ==
  ASSUME LaneInv, flush # "queue", UNCHANGED queueVars
  PROVE  Queued'
BY NothingQueued DEF LaneInv, Queued

LEMMA BuildingUnchanged ==
  ASSUME LaneInv, UNCHANGED <<queueVars, cardanoVars>>
  PROVE  Building'
BY DEF LaneInv, Building

LEMMA AnsweredUnchanged ==
  ASSUME LaneInv, UNCHANGED <<queueVars, cardanoVars, results>>,
         results # <<>> => batches' = batches
  PROVE  Answered'
<1>1. published' = published /\ afloat' = afloat
  BY SamePublished, SameAfloat
<1>2. DOMAIN <<>> = {}
  OBVIOUS
<1>. QED
  BY <1>1, <1>2 DEF LaneInv, Answered

\* The statuses that change are of none that is afloat.
LEMMA AfloatKept ==
  ASSUME LaneInv, UNCHANGED cardanoVars,
         \A i \in afloat : Contract!mayLand(i) => Contract!mayLand(i)',
         Elements(buffer') \cup Elements(aged') \subseteq Elements(buffer) \cup Elements(aged)
  PROVE  Afloat'
<1>1. afloat' = afloat
  BY SameAfloat
<1>2. \A t \in mempool' :
        /\ t.input = Len(chain')
        /\ \A a, b \in intentsOf(t.updates) : a.symbol = b.symbol => a = b
  BY DEF LaneInv, Afloat
<1>. QED
  BY <1>1, <1>2 DEF LaneInv, Afloat

LEMMA StartRoundKeeps ==
  ASSUME LaneInv, startRound, UNCHANGED <<chunks, results, marks, status, queueVars, cardanoVars>>,
         aged = <<>>, batches = <<>>, chunks = <<>>, results = <<>>,
         flush # "queue", flush # "clear"
  PROVE  LaneInv'
<1>1. PICK old \in SUBSET Elements(buffer) :
        /\ lane' = "in-flight" /\ flush' = "age"
        /\ aged' = filter(buffer, old)
        /\ batches' = chunkRequests(filter(buffer, Elements(buffer) \ old))
        /\ buffer' = <<>>
  BY DEF startRound
<1>. DEFINE rest == filter(buffer, Elements(buffer) \ old)
<1>2. buffer \in Seq(Intents) /\ Once(buffer)
  BY DEF LaneInv, LaneTypes, Held
<1>3. aged' \in Seq(Intents) /\ Elements(aged') = old /\ Once(aged')
  <2>1. /\ filter(buffer, old) \in Seq(Intents) /\ Once(filter(buffer, old))
        /\ Elements(filter(buffer, old)) = Elements(buffer) \cap old
    BY <1>2, FilterKeeps
  <2>. QED
    BY <1>1, <2>1
<1>4. rest \in Seq(Intents) /\ Elements(rest) = Elements(buffer) \ old /\ Once(rest)
  <2>1. /\ rest \in Seq(Intents) /\ Once(rest)
        /\ Elements(rest) = Elements(buffer) \cap (Elements(buffer) \ old)
    BY <1>2, FilterKeeps
  <2>. QED
    BY <2>1
<1>. HIDE DEF rest
<1>5. /\ batches' \in Batches /\ OnceInAll(batches')
      /\ members(batches') = Elements(buffer) \ old
  <2>1. /\ chunkRequests(rest) \in Batches /\ members(chunkRequests(rest)) = Elements(rest)
        /\ OnceInAll(chunkRequests(rest))
    BY <1>4, ChunksKeep
  <2>2. batches' = chunkRequests(rest)
    BY <1>1 DEF rest
  <2>. QED
    BY <1>4, <2>1, <2>2
<1>6. Elements(<<>>) = {} /\ members(<<>>) = {}
  BY DEF Elements, members
<1>7. LaneTypes'
  BY <1>1, <1>3, <1>5 DEF LaneInv, LaneTypes
<1>8. Phases'
  BY <1>1 DEF LaneInv, Phases
<1>9. Held'
  <2>1. waiting' = waiting
    BY <1>1, <1>3, <1>5, <1>6, WaitingIs
  <2>2. \A i \in Intents : status'[i] = "held" <=> i \in waiting'
    BY <2>1 DEF LaneInv, Held
  <2>3. Once(<<>>)
    BY DEF Once
  <2>. QED
    BY <1>1, <1>3, <1>5, <1>6, <2>2, <2>3 DEF Held
<1>10. Queued'
  BY StillNothingQueued
<1>11. Building'
  BY BuildingUnchanged
<1>12. Afloat'
  <2>1. Elements(buffer') \cup Elements(aged') \subseteq Elements(buffer) \cup Elements(aged)
    BY <1>1, <1>3, <1>6
  <2>2. \A i \in afloat : Contract!mayLand(i) => Contract!mayLand(i)'
    BY DEF Contract!mayLand
  <2>. QED
    BY <2>1, <2>2, AfloatKept
<1>13. Answered'
  BY AnsweredUnchanged
<1>14. MarksCoverFlight'
  <2>1. marks = {}
    BY <1>6 DEF LaneInv, MarksCoverFlight, members
  <2>2. job.requests = <<>>
    BY NothingQueued
  <2>. QED
    BY <1>1, <1>6, <2>1, <2>2 DEF MarksCoverFlight
<1>. QED
  BY <1>7, <1>8, <1>9, <1>10, <1>11, <1>12, <1>13, <1>14 DEF LaneInv

LEMMA TimerFiresKeeps ==
  ASSUME LaneInv, TimerFires, UNCHANGED <<queueVars, cardanoVars>>
  PROVE  LaneInv'
<1>1. /\ aged = <<>> /\ batches = <<>> /\ chunks = <<>> /\ results = <<>>
      /\ flush # "queue" /\ flush # "clear"
  BY DEF LaneInv, Phases, TimerFires
<1>. QED
  BY <1>1, StartRoundKeeps DEF TimerFires

LEMMA RoundEndsKeeps ==
  ASSUME LaneInv, RoundEnds, UNCHANGED <<queueVars, cardanoVars>>
  PROVE  LaneInv'
<1>1. /\ aged = <<>> /\ batches = <<>> /\ chunks = <<>> /\ results = <<>>
      /\ flush # "queue" /\ flush # "clear"
  BY DEF LaneInv, Phases, RoundEnds
<1>2. CASE startRound
  BY <1>1, <1>2, StartRoundKeeps DEF RoundEnds
<1>3. CASE /\ buffer = <<>>
           /\ lane' = "idle" /\ flush' = "none"
           /\ UNCHANGED <<buffer, aged, batches, chunks, results, marks, status>>
  <2>1. Elements(<<>>) = {} /\ members(<<>>) = {}
    BY DEF Elements, members
  <2>2. LaneTypes'
    BY <1>3 DEF LaneInv, LaneTypes
  <2>3. Phases'
    BY <1>1, <1>3 DEF LaneInv, Phases
  <2>4. Held'
    <3>1. waiting' = waiting
      BY <1>1, <1>3, WaitingIs
    <3>. QED
      BY <1>1, <1>3, <3>1 DEF LaneInv, Held
  <2>5. Queued'
    BY <1>1, StillNothingQueued
  <2>6. Building'
    BY BuildingUnchanged
  <2>7. Afloat'
    <3>1. \A i \in afloat : Contract!mayLand(i) => Contract!mayLand(i)'
      BY <1>3 DEF Contract!mayLand
    <3>2. Elements(buffer') \cup Elements(aged') \subseteq Elements(buffer) \cup Elements(aged)
      BY <1>3
    <3>. QED
      BY <3>1, <3>2, AfloatKept
  <2>8. Answered'
    BY <1>3, AnsweredUnchanged
  <2>9. MarksCoverFlight'
    <3>1. marks = {}
      BY <1>1, <2>1 DEF LaneInv, MarksCoverFlight, members
    <3>2. job.requests = <<>>
      BY <1>1, NothingQueued
    <3>. QED
      BY <1>3, <2>1, <3>1, <3>2 DEF MarksCoverFlight
  <2>. QED
    BY <2>2, <2>3, <2>4, <2>5, <2>6, <2>7, <2>8, <2>9 DEF LaneInv
<1>. QED
  BY <1>2, <1>3 DEF RoundEnds

LEMMA ReportAgedKeeps ==
  ASSUME LaneInv, ReportAged, UNCHANGED <<queueVars, cardanoVars>>
  PROVE  LaneInv'
<1>. USE DEF ReportAged
<1>. DEFINE i == Head(aged)
<1>1. aged \in Seq(Intents) /\ Once(aged) /\ status \in [Intents -> Statuses]
  BY DEF LaneInv, LaneTypes, Held
<1>2. /\ i \in Intents /\ aged' \in Seq(Intents) /\ Once(aged')
      /\ Elements(aged) = {i} \cup Elements(aged') /\ i \notin Elements(aged')
  BY <1>1, ElementsSplit
<1>. HIDE DEF i
<1>3. status' = [status EXCEPT ![i] = "IntentAgedOut"]
  BY DEF i
<1>4. i \notin Elements(buffer) /\ i \notin members(batches) /\ i \notin afloat
  BY <1>2 DEF LaneInv, Held, Afloat
<1>5. LaneTypes'
  <2>1. status' \in [Intents -> Statuses]
    BY <1>1, <1>2, <1>3 DEF Statuses, Results, NON_RETRIABLE_CODES
  <2>. QED
    BY <1>2, <2>1 DEF LaneInv, LaneTypes
<1>6. Phases'
  BY DEF LaneInv, Phases
<1>7. Held'
  <2>1. ASSUME NEW j \in Intents
        PROVE  status'[j] = "held" <=> j \in waiting'
    <3>1. j \in waiting' <=> j \in waiting /\ j # i
      BY <1>2, <1>4, WaitingIs
    <3>2. status[j] = "held" <=> j \in waiting
      BY DEF LaneInv, Held
    <3>. QED
      BY <1>1, <1>2, <1>3, <3>1, <3>2
  <2>2. /\ Elements(buffer') \cap (Elements(aged') \cup members(batches')) = {}
        /\ Elements(aged') \cap members(batches') = {}
        /\ Once(buffer') /\ OnceInAll(batches')
    BY <1>2 DEF LaneInv, Held
  <2>. QED
    BY <1>2, <2>1, <2>2 DEF Held
<1>8. Queued'
  BY StillNothingQueued
<1>9. Building'
  BY BuildingUnchanged
<1>10. Afloat'
  <2>1. \A j \in afloat : Contract!mayLand(j) => Contract!mayLand(j)'
    <3>. SUFFICES ASSUME NEW j \in afloat
                  PROVE  Contract!mayLand(j) => Contract!mayLand(j)'
      OBVIOUS
    <3>1. j # i /\ j \in Intents
      BY <1>4, AfloatIntents
    <3>. QED
      BY <1>1, <1>3, <3>1 DEF Contract!mayLand
  <2>2. Elements(buffer') \cup Elements(aged') \subseteq Elements(buffer) \cup Elements(aged)
    BY <1>2
  <2>. QED
    BY <2>1, <2>2, AfloatKept
<1>11. Answered'
  BY AnsweredUnchanged
<1>12. MarksCoverFlight'
  BY DEF LaneInv, MarksCoverFlight
<1>. QED
  BY <1>5, <1>6, <1>7, <1>8, <1>9, <1>10, <1>11, <1>12 DEF LaneInv

LEMMA MarkInFlightKeeps ==
  ASSUME LaneInv, MarkInFlight, UNCHANGED <<queueVars, cardanoVars>>
  PROVE  LaneInv'
<1>. USE DEF MarkInFlight
<1>1. LaneTypes'
  BY DEF LaneInv, LaneTypes
<1>2. Phases'
  BY DEF LaneInv, Phases
<1>3. Held'
  <2>1. waiting' = waiting
    BY WaitingIs
  <2>. QED
    BY <2>1 DEF LaneInv, Held
<1>4. Queued'
  BY StillNothingQueued
<1>5. Building'
  BY BuildingUnchanged
<1>6. Afloat'
  <2>1. \A j \in afloat : Contract!mayLand(j) => Contract!mayLand(j)'
    BY DEF Contract!mayLand
  <2>2. Elements(buffer') \cup Elements(aged') \subseteq Elements(buffer) \cup Elements(aged)
    OBVIOUS
  <2>. QED
    BY <2>1, <2>2, AfloatKept
<1>7. Answered'
  BY AnsweredUnchanged
<1>8. MarksCoverFlight'
  <2>1. marks = {}
    BY DEF LaneInv, MarksCoverFlight
  <2>2. job.requests = <<>> /\ Elements(<<>>) = {}
    BY NothingQueued DEF Elements
  <2>. QED
    BY <2>1, <2>2 DEF MarksCoverFlight
<1>. QED
  BY <1>1, <1>2, <1>3, <1>4, <1>5, <1>6, <1>7, <1>8 DEF LaneInv

\* The batch that is being submitted.
LEMMA FirstBatch ==
  ASSUME LaneInv, batches # <<>>
  PROVE  /\ Head(batches) \in Seq(Intents) /\ Head(batches) # <<>>
         /\ Head(batches) = batches[1] /\ 1 \in DOMAIN batches
         /\ Elements(Head(batches)) \subseteq members(batches)
         /\ Elements(Head(batches)) \subseteq Intents
         /\ Once(Head(batches))
<1>1. batches \in Seq(Seq(Intents) \ {<<>>}) /\ OnceInAll(batches)
  BY DEF LaneInv, LaneTypes, Held, Batches
<1>2. /\ Head(batches) \in Seq(Intents) \ {<<>>} /\ Head(batches) = batches[1]
      /\ Head(batches) \in Elements(batches) /\ Len(batches) \in Nat \ {0}
  BY <1>1, ElementsSplit
<1>3. DOMAIN batches = 1 .. Len(batches)
  BY <1>1
<1>4. 1 \in DOMAIN batches
  BY <1>2, <1>3
<1>5. Elements(Head(batches)) \subseteq members(batches)
  BY <1>2 DEF members
<1>6. Elements(Head(batches)) \subseteq Intents
  BY <1>2, ElementsType
<1>7. Once(Head(batches))
  BY <1>1, <1>2, <1>4 DEF OnceInAll, Once
<1>. QED
  BY <1>2, <1>4, <1>5, <1>6, <1>7

\* The chunk that is in the queue.
LEMMA QueuedChunk ==
  ASSUME LaneInv, flush = "queue"
  PROVE  /\ chunks # <<>> /\ batches # <<>> /\ Len(results) \in Nat
         /\ cuts(chunks, Head(batches), Len(results))
         /\ Head(chunks) \in Seq(Intents) /\ Len(Head(chunks)) \in Nat \ {0}
         /\ Len(results) + Len(Head(chunks)) <= Len(Head(batches))
         /\ \A k \in DOMAIN Head(chunks) :
              /\ Len(results) + k \in DOMAIN Head(batches)
              /\ Head(chunks)[k] = Head(batches)[Len(results) + k]
         /\ Elements(Head(chunks)) \subseteq Elements(Head(batches))
         /\ Tail(chunks) = <<>> => Len(results) + Len(Head(chunks)) = Len(Head(batches))
         /\ Tail(chunks) \in Batches
         /\ Tail(chunks) # <<>> =>
              cuts(Tail(chunks), Head(batches), Len(results) + Len(Head(chunks)))
<1>1. /\ chunks # <<>> /\ batches # <<>> /\ cuts(chunks, Head(batches), Len(results))
      /\ chunks \in Batches /\ results \in Seq(Codes)
  BY DEF LaneInv, LaneTypes, Phases
<1>2. Head(batches) \in Seq(Intents) /\ Len(results) \in Nat
  BY <1>1, FirstBatch
<1>. DEFINE w == Head(batches)
            from == Len(results)
<1>3. w \in Seq(Intents) /\ from \in Nat /\ cuts(chunks, w, from)
  BY <1>1, <1>2
<1>. HIDE DEF w, from
<1>4. /\ Head(chunks) \in Seq(Intents) /\ Len(Head(chunks)) \in Nat \ {0}
      /\ from + Len(Head(chunks)) <= Len(w)
      /\ \A k \in DOMAIN Head(chunks) : from + k \in DOMAIN w /\ Head(chunks)[k] = w[from + k]
      /\ Tail(chunks) = <<>> => from + Len(Head(chunks)) = Len(w)
      /\ Tail(chunks) \in Batches
      /\ Tail(chunks) # <<>> => cuts(Tail(chunks), w, from + Len(Head(chunks)))
  BY <1>1, <1>3, FirstChunk
<1>5. Elements(Head(chunks)) \subseteq Elements(w)
  BY <1>4 DEF Elements
<1>. QED
  BY <1>1, <1>2, <1>4, <1>5 DEF w, from

LEMMA EnqueueKeeps ==
  ASSUME LaneInv, enqueueBatch
  PROVE  LaneInv'
<1>. USE DEF enqueueBatch, SubmitChunk
<1>1. Head(batches) \in Seq(Intents) /\ Head(batches) # <<>>
  BY FirstBatch
<1>2. results \in Seq(Codes) /\ chunks \in Batches /\ pending \in Seq(Seq(Intents))
  BY DEF LaneInv, LaneTypes
<1>3. /\ chunks' \in Batches /\ chunks' # <<>>
      /\ cuts(chunks', Head(batches), Len(results))
  <2>1. CASE chunks = <<>>
    <3>1. results = <<>> /\ Len(<<>>) = 0
      BY <2>1 DEF LaneInv, Phases
    <3>2. chunks' = <<Head(batches)>> /\ <<Head(batches)>> # <<>>
      BY <2>1
    <3>3. cuts(<<Head(batches)>>, Head(batches), 0) /\ <<Head(batches)>> \in Batches
      BY <1>1, OneChunk
    <3>. QED
      BY <3>1, <3>2, <3>3
  <2>2. CASE chunks # <<>>
    BY <1>2, <2>2 DEF LaneInv, Phases
  <2>. QED
    BY <2>1, <2>2
<1>4. Head(chunks') \in Seq(Intents)
  BY <1>3, ElementsSplit DEF Batches
<1>5. /\ pending' \in Seq(Seq(Intents)) /\ Len(pending') = Len(pending) + 1
      /\ \A k \in 1 .. Len(pending) : pending'[k] = pending[k]
      /\ pending'[Len(pending) + 1] = Head(chunks')
  BY <1>2, <1>4, AppendProperties
<1>6. job.requests = <<>> /\ \A k \in DOMAIN pending : pending[k] = <<>>
  BY NothingQueued
<1>7. LaneTypes'
  BY <1>3, <1>5 DEF LaneInv, LaneTypes
<1>8. Phases'
  BY <1>3 DEF LaneInv, Phases
<1>9. Held'
  <2>1. waiting' = waiting
    BY WaitingIs
  <2>. QED
    BY <2>1 DEF LaneInv, Held
<1>10. Queued'
  <2>1. \A k \in DOMAIN pending' : pending'[k] # <<>> => k = Len(pending) + 1
    <3>. SUFFICES ASSUME NEW k \in DOMAIN pending', k # Len(pending) + 1
                  PROVE  pending'[k] = <<>>
      OBVIOUS
    <3>1. k \in 1 .. Len(pending)
      BY <1>2, <1>5
    <3>2. k \in DOMAIN pending
      BY <1>2, <3>1
    <3>. QED
      BY <1>5, <1>6, <3>1, <3>2
  <2>2. (job.step = "idle" => job = Idle)'
    BY DEF LaneInv, Queued
  <2>. QED
    BY <1>5, <1>6, <2>1, <2>2 DEF Queued
<1>11. Building'
  BY DEF LaneInv, Building
<1>12. Afloat'
  <2>1. \A j \in afloat : Contract!mayLand(j) => Contract!mayLand(j)'
    BY DEF Contract!mayLand
  <2>2. Elements(buffer') \cup Elements(aged') \subseteq Elements(buffer) \cup Elements(aged)
    OBVIOUS
  <2>. QED
    BY <2>1, <2>2, AfloatKept
<1>13. Answered'
  BY SamePublished, SameAfloat DEF LaneInv, Answered
<1>14. MarksCoverFlight'
  BY DEF LaneInv, MarksCoverFlight
<1>. QED
  BY <1>7, <1>8, <1>9, <1>10, <1>11, <1>12, <1>13, <1>14 DEF LaneInv

\* The request that is being answered was held until now.
LEMMA FirstRequest ==
  ASSUME LaneInv, flush \in {"result", "clear"}
  PROVE  /\ batches # <<>> /\ results # <<>> /\ results \in Seq(Codes)
         /\ Head(Head(batches)) \in Intents /\ Head(results) \in Codes
         /\ Head(Head(batches)) \in members(batches)
         /\ Head(Head(batches)) = Head(batches)[1] /\ Head(results) = results[1]
         /\ 1 \in DOMAIN results /\ Len(results) = Len(Head(batches))
         /\ flush = "result" => status[Head(Head(batches))] = "held"
<1>1. batches # <<>> /\ results \in Seq(Codes) /\ Len(results) = Len(Head(batches))
  BY DEF LaneInv, LaneTypes, Phases
<1>2. /\ Head(batches) \in Seq(Intents) /\ Head(batches) # <<>>
      /\ Elements(Head(batches)) \subseteq members(batches)
  BY <1>1, FirstBatch
<1>3. results # <<>>
  BY <1>1, <1>2, EmptySeq
<1>4. /\ Head(Head(batches)) \in Intents /\ Head(Head(batches)) \in members(batches)
      /\ Head(Head(batches)) = Head(batches)[1]
  BY <1>2, ElementsSplit
<1>5. Head(results) \in Codes /\ Head(results) = results[1] /\ 1 \in DOMAIN results
  <2>1. Len(results) \in Nat \ {0} /\ DOMAIN results = 1 .. Len(results)
    BY <1>1, <1>3, EmptySeq
  <2>. QED
    BY <1>1, <1>3, <2>1, ElementsSplit
<1>6. ASSUME flush = "result"
      PROVE  status[Head(Head(batches))] = "held"
  <2>1. Head(Head(batches)) \in waiting
    BY <1>4, <1>6, WaitingIs
  <2>. QED
    BY <1>4, <2>1 DEF LaneInv, Held
<1>. QED
  BY <1>1, <1>3, <1>4, <1>5, <1>6

LEMMA ReportResultKeeps ==
  ASSUME LaneInv, ReportResult, UNCHANGED <<queueVars, cardanoVars>>
  PROVE  LaneInv'
<1>. USE DEF ReportResult
<1>. DEFINE i == Head(Head(batches))
            code == Head(results)
<1>1. /\ batches # <<>> /\ results \in Seq(Codes)
      /\ i \in Intents /\ code \in Codes /\ i \in members(batches)
      /\ i = Head(batches)[1] /\ code = results[1] /\ 1 \in DOMAIN results
      /\ status[i] = "held"
  BY FirstRequest
<1>2. status \in [Intents -> Statuses]
  BY DEF LaneInv, LaneTypes
<1>3. status' = [status EXCEPT ![i] = code] /\ status'[i] = code
  BY <1>1, <1>2
<1>4. i \notin Elements(buffer) /\ i \notin Elements(aged)
  BY <1>1 DEF LaneInv, Held
<1>5. code = "ok" => i \notin afloat
  BY <1>1 DEF LaneInv, Answered
<1>6. LaneTypes'
  <2>1. status' \in [Intents -> Statuses]
    BY <1>1, <1>2, <1>3 DEF Codes, Statuses
  <2>. QED
    BY <2>1 DEF LaneInv, LaneTypes
<1>7. Phases'
  BY DEF LaneInv, Phases
<1>8. Held'
  <2>1. ASSUME NEW j \in Intents
        PROVE  status'[j] = "held" <=> j \in waiting'
    <3>1. j \in waiting' <=> j \in waiting /\ j # i
      BY <1>4, WaitingIs
    <3>2. status[j] = "held" <=> j \in waiting
      BY DEF LaneInv, Held
    <3>3. code # "held"
      BY <1>1 DEF Codes, Results, NON_RETRIABLE_CODES
    <3>. HIDE DEF i, code
    <3>. QED
      BY <1>1, <1>2, <1>3, <3>1, <3>2, <3>3
  <2>. QED
    BY <1>3, <2>1 DEF LaneInv, Held
<1>9. Queued'
  BY StillNothingQueued
<1>10. Building'
  BY BuildingUnchanged
<1>11. Afloat'
  <2>1. \A j \in afloat : Contract!mayLand(j) => Contract!mayLand(j)'
    <3>. SUFFICES ASSUME NEW j \in afloat
                  PROVE  Contract!mayLand(j) => Contract!mayLand(j)'
      OBVIOUS
    <3>. HIDE DEF i, code
    <3>1. CASE j = i
      BY <1>1, <1>3, <1>5, <3>1 DEF Contract!mayLand, Codes, Results, NON_RETRIABLE_CODES
    <3>2. CASE j # i
      <4>1. j \in Intents
        BY AfloatIntents
      <4>. QED
        BY <1>1, <1>2, <1>3, <3>2, <4>1 DEF Contract!mayLand
    <3>. QED
      BY <3>1, <3>2
  <2>. QED
    BY <2>1, AfloatKept
<1>12. Answered'
  BY AnsweredUnchanged
<1>13. MarksCoverFlight'
  BY DEF LaneInv, MarksCoverFlight
<1>. QED
  BY <1>6, <1>7, <1>8, <1>9, <1>10, <1>11, <1>12, <1>13 DEF LaneInv

\* The batches without the first.
LEMMA OtherBatches ==
  ASSUME NEW all \in Batches, all # <<>>, OnceInAll(all)
  PROVE  /\ Tail(all) \in Batches /\ OnceInAll(Tail(all))
         /\ members(all) = Elements(Head(all)) \cup members(Tail(all))
         /\ \A i \in Elements(Head(all)), j \in members(Tail(all)) : i.symbol # j.symbol
<1>. DEFINE rest == Tail(all)
<1>1. /\ Head(all) = all[1] /\ rest \in Batches /\ Len(rest) = Len(all) - 1
      /\ Len(all) \in Nat \ {0} /\ \A k \in 1 .. Len(all) - 1 : rest[k] = all[k + 1]
      /\ Elements(all) = {Head(all)} \cup Elements(rest)
  BY ElementsSplit DEF Batches
<1>. HIDE DEF rest
<1>2. DOMAIN all = 1 .. Len(all) /\ DOMAIN rest = 1 .. Len(all) - 1
  BY <1>1 DEF Batches
<1>3. \A b \in DOMAIN rest : b + 1 \in DOMAIN all /\ b + 1 # 1 /\ rest[b] = all[b + 1]
  BY <1>1, <1>2
<1>4. 1 \in DOMAIN all
  BY <1>1, <1>2
<1>5. OnceInAll(rest)
  <2>. SUFFICES ASSUME NEW b \in DOMAIN rest, NEW c \in DOMAIN rest,
                       NEW k \in DOMAIN rest[b], NEW l \in DOMAIN rest[c],
                       rest[b][k].symbol = rest[c][l].symbol
                PROVE  b = c /\ k = l
    BY DEF OnceInAll
  <2>1. b + 1 = c + 1 /\ k = l
    BY <1>3 DEF OnceInAll
  <2>. QED
    BY <1>2, <2>1
<1>6. members(all) = Elements(Head(all)) \cup members(rest)
  BY <1>1 DEF members
<1>7. ASSUME NEW i \in Elements(Head(all)), NEW j \in members(rest), i.symbol = j.symbol
      PROVE  FALSE
  <2>1. PICK k \in DOMAIN all[1] : i = all[1][k]
    BY <1>1 DEF Elements
  <2>2. PICK c \in DOMAIN rest : j \in Elements(rest[c])
    BY DEF members, Elements
  <2>3. PICK l \in DOMAIN rest[c] : j = rest[c][l]
    BY <2>2 DEF Elements
  <2>4. c + 1 \in DOMAIN all /\ c + 1 # 1 /\ rest[c] = all[c + 1]
    BY <1>3
  <2>5. all[1][k].symbol = all[c + 1][l].symbol
    BY <1>7, <2>1, <2>3, <2>4
  <2>6. l \in DOMAIN all[c + 1]
    BY <2>4
  <2>. QED
    BY <1>4, <2>1, <2>4, <2>5, <2>6 DEF OnceInAll
<1>. QED
  BY <1>1, <1>5, <1>6, <1>7 DEF rest

\* A batch that is put before others.
LEMMA BatchInFront ==
  ASSUME NEW b \in Seq(Intents) \ {<<>>}, NEW rest \in Batches, Once(b), OnceInAll(rest),
         \A i \in Elements(b), j \in members(rest) : i.symbol # j.symbol
  PROVE  LET new == <<b>> \o rest
         IN  /\ new \in Batches /\ new # <<>> /\ Head(new) = b /\ OnceInAll(new)
             /\ members(new) = Elements(b) \cup members(rest)
<1>. DEFINE new == <<b>> \o rest
            All == Seq(Intents) \ {<<>>}
            one == <<b>>
<1>1. one \in Seq(All) /\ rest \in Seq(All) /\ Len(one) = 1 /\ one[1] = b
  BY DEF Batches
<1>2. Len(rest) \in Nat /\ DOMAIN rest = 1 .. Len(rest)
  BY <1>1
<1>3. /\ one \o rest \in Seq(All) /\ Len(one \o rest) = Len(one) + Len(rest)
      /\ \A i \in 1 .. Len(one) + Len(rest) :
           (one \o rest)[i] = IF i <= Len(one) THEN one[i] ELSE rest[i - Len(one)]
  <2>. HIDE DEF one, All
  <2>. QED
    BY ZenonT(60), <1>1, ConcatProperties
<1>4. new = one \o rest
  OBVIOUS
<1>. HIDE DEF new, one
<1>5. /\ new \in Seq(All) /\ Len(new) = 1 + Len(rest)
      /\ \A i \in 1 .. 1 + Len(rest) : new[i] = IF i <= 1 THEN b ELSE rest[i - 1]
  <2>1. \A i \in 1 .. 1 + Len(rest) : i <= 1 => i = 1
    BY <1>2
  <2>. QED
    BY <1>1, <1>2, <1>3, <1>4, <2>1
<1>6. DOMAIN new = 1 .. 1 + Len(rest) /\ new # <<>> /\ new[1] = b /\ Head(new) = new[1]
  <2>1. DOMAIN new = 1 .. 1 + Len(rest) /\ new # <<>>
    BY <1>2, <1>5
  <2>2. 1 \in 1 .. 1 + Len(rest) /\ 1 <= 1
    BY <1>2
  <2>. QED
    BY <1>5, <2>1, <2>2, ElementsSplit
<1>7. \A k \in DOMAIN rest : k + 1 \in DOMAIN new /\ new[k + 1] = rest[k]
  <2>. SUFFICES ASSUME NEW k \in DOMAIN rest
                PROVE  k + 1 \in DOMAIN new /\ new[k + 1] = rest[k]
    OBVIOUS
  <2>1. k + 1 \in 1 .. 1 + Len(rest) /\ ~(k + 1 <= 1) /\ k + 1 - 1 = k
    BY <1>2
  <2>. QED
    BY SMTT(60), <1>5, <1>6, <2>1
<1>8. \A k \in DOMAIN new : k = 1 \/ (k - 1 \in DOMAIN rest /\ new[k] = rest[k - 1])
  BY <1>2, <1>5, <1>6
<1>9. members(new) = Elements(b) \cup members(rest)
  <2>1. ASSUME NEW x \in members(new)
        PROVE  x \in Elements(b) \cup members(rest)
    <3>1. PICK k \in DOMAIN new : x \in Elements(new[k])
      BY DEF members, Elements
    <3>. QED
      BY <1>6, <1>8, <3>1 DEF members, Elements
  <2>2. ASSUME NEW x \in members(rest)
        PROVE  x \in members(new)
    <3>1. PICK k \in DOMAIN rest : x \in Elements(rest[k])
      BY DEF members, Elements
    <3>2. k + 1 \in DOMAIN new /\ x \in Elements(new[k + 1])
      BY <1>7, <3>1
    <3>. QED
      BY <3>2 DEF members, Elements
  <2>3. Elements(b) \subseteq members(new)
    <3>1. 1 \in DOMAIN new
      BY <1>2, <1>6
    <3>. QED
      BY <1>6, <3>1 DEF members, Elements
  <2>. QED
    BY <2>1, <2>2, <2>3
<1>10. OnceInAll(new)
  <2>. SUFFICES ASSUME NEW c \in DOMAIN new, NEW d \in DOMAIN new,
                       NEW k \in DOMAIN new[c], NEW l \in DOMAIN new[d],
                       new[c][k].symbol = new[d][l].symbol
                PROVE  c = d /\ k = l
    BY DEF OnceInAll
  <2>0. ASSUME NEW e \in DOMAIN new, e # 1, NEW m \in DOMAIN new[e]
        PROVE  e - 1 \in DOMAIN rest /\ new[e] = rest[e - 1] /\ new[e][m] \in members(rest)
    <3>1. e - 1 \in DOMAIN rest /\ new[e] = rest[e - 1]
      BY <1>8, <2>0
    <3>. QED
      BY <3>1 DEF members, Elements
  <2>1. CASE c = 1 /\ d = 1
    BY <1>6, <2>1 DEF Once
  <2>2. CASE c = 1 /\ d # 1
    BY <1>6, <2>0, <2>2 DEF Elements
  <2>3. CASE c # 1 /\ d = 1
    BY <1>6, <2>0, <2>3 DEF Elements
  <2>4. CASE c # 1 /\ d # 1
    <3>1. c - 1 = d - 1 /\ k = l
      BY <2>0, <2>4 DEF OnceInAll
    <3>. QED
      BY <1>2, <1>6, <3>1
  <2>. QED
    BY <2>1, <2>2, <2>3, <2>4
<1>. QED
  BY <1>5, <1>6, <1>9, <1>10 DEF new, Batches

LEMMA ClearMarkKeeps ==
  ASSUME LaneInv, ClearMark, UNCHANGED <<queueVars, cardanoVars>>
  PROVE  LaneInv'
<1>. USE DEF ClearMark
<1>. DEFINE first == Head(batches)
            i == Head(first)
<1>1. /\ batches # <<>> /\ results # <<>> /\ results \in Seq(Codes)
      /\ i \in Intents /\ i \in members(batches) /\ Len(results) = Len(first)
  BY FirstRequest
<1>2. /\ first \in Seq(Intents) /\ first # <<>> /\ Once(first)
  BY <1>1, FirstBatch
<1>3. /\ Tail(first) \in Seq(Intents) /\ Len(Tail(first)) = Len(first) - 1
      /\ \A k \in 1 .. Len(first) - 1 : Tail(first)[k] = first[k + 1]
      /\ Elements(first) = {i} \cup Elements(Tail(first))
      /\ Once(Tail(first)) /\ i \notin Elements(Tail(first))
      /\ Len(first) \in Nat \ {0} /\ i = first[1]
  BY <1>2, ElementsSplit
<1>4. /\ results' \in Seq(Codes) /\ Len(results') = Len(results) - 1
      /\ \A k \in 1 .. Len(results) - 1 : results'[k] = results[k + 1]
  BY <1>1, ElementsSplit
<1>5. /\ Tail(batches) \in Batches /\ OnceInAll(Tail(batches))
      /\ members(batches) = Elements(first) \cup members(Tail(batches))
      /\ \A a \in Elements(first), j \in members(Tail(batches)) : a.symbol # j.symbol
  BY <1>1, OtherBatches DEF LaneInv, LaneTypes, Held
<1>6. \A a \in Elements(Tail(first)) : a.symbol # i.symbol
  <2>. SUFFICES ASSUME NEW k \in DOMAIN Tail(first)
                PROVE  Tail(first)[k].symbol # i.symbol
    BY DEF Elements
  <2>1. /\ k + 1 \in DOMAIN first /\ 1 \in DOMAIN first /\ k + 1 # 1
        /\ Tail(first)[k] = first[k + 1]
    <3>1. DOMAIN Tail(first) = 1 .. Len(first) - 1 /\ DOMAIN first = 1 .. Len(first)
      BY <1>2, <1>3
    <3>. HIDE DEF first
    <3>. QED
      BY <1>3, <3>1
  <2>. HIDE DEF first, i
  <2>. QED
    BY <1>2, <1>3, <2>1 DEF Once
<1>7. /\ batches' \in Batches /\ OnceInAll(batches')
      /\ members(batches') = members(batches) \ {i}
      /\ \A j \in members(batches') : j.symbol # i.symbol
      /\ \/ flush' = "chunk" /\ results' = <<>>
         \/ /\ flush' = "result" /\ results' # <<>> /\ batches' # <<>>
            /\ Head(batches') = Tail(first)
  <2>1. CASE /\ Tail(results) = <<>>
             /\ batches' = Tail(batches) /\ flush' = "chunk"
    <3>1. Len(results') = 0
      BY <2>1
    <3>2. Len(Tail(first)) = 0
      BY <1>1, <1>3, <1>4, <3>1
    <3>3. Elements(Tail(first)) = {}
      <4>1. Tail(first) = <<>>
        BY <1>3, <3>2, EmptySeq
      <4>. QED
        BY <4>1 DEF Elements
    <3>. HIDE DEF first, i
    <3>. QED
      BY <1>3, <1>5, <2>1, <3>3
  <2>2. CASE /\ Tail(results) # <<>>
             /\ batches' = <<Tail(first)>> \o Tail(batches)
             /\ flush' = "result"
    <3>1. Len(results') # 0
      BY <1>4, <2>2, EmptySeq
    <3>2. Len(Tail(first)) # 0
      BY <1>1, <1>3, <1>4, <3>1
    <3>3. Tail(first) \in Seq(Intents) \ {<<>>}
      <4>1. Len(<<>>) = 0
        OBVIOUS
      <4>. QED
        BY <1>3, <3>2, <4>1
    <3>. HIDE DEF first, i
    <3>4. \A a \in Elements(Tail(first)), j \in members(Tail(batches)) : a.symbol # j.symbol
      BY <1>3, <1>5
    <3>5. /\ batches' \in Batches /\ batches' # <<>> /\ Head(batches') = Tail(first)
          /\ OnceInAll(batches')
          /\ members(batches') = Elements(Tail(first)) \cup members(Tail(batches))
      BY <1>3, <1>5, <2>2, <3>3, <3>4, BatchInFront
    <3>6. i \notin members(Tail(batches)) /\ i \in Elements(first)
      BY <1>3, <1>5
    <3>. QED
      BY <1>3, <1>5, <1>6, <2>2, <3>5, <3>6
  <2>. QED
    BY <2>1, <2>2
<1>. HIDE DEF first
<1>8. LaneTypes'
  BY <1>4, <1>7 DEF LaneInv, LaneTypes
<1>9. Phases'
  <2>1. chunks = <<>>
    BY DEF LaneInv, Phases
  <2>2. flush' = "result" => Len(results') = Len(Head(batches'))
    BY <1>1, <1>3, <1>4, <1>7
  <2>. QED
    BY <1>7, <2>1, <2>2 DEF LaneInv, Phases
<1>10. Held'
  <2>1. ASSUME NEW j \in Intents
        PROVE  status'[j] = "held" <=> j \in waiting'
    <3>1. j \in waiting' <=> j \in waiting
      BY <1>7, WaitingIs DEF first
    <3>. QED
      BY <3>1 DEF LaneInv, Held
  <2>2. members(batches') \subseteq members(batches)
    BY <1>7
  <2>3. /\ Elements(buffer') \cap (Elements(aged') \cup members(batches')) = {}
        /\ Elements(aged') \cap members(batches') = {}
        /\ Once(buffer') /\ Once(aged')
    BY <2>2 DEF LaneInv, Held
  <2>. QED
    BY <1>7, <2>1, <2>3 DEF Held
<1>11. Queued'
  BY StillNothingQueued
<1>12. Building'
  BY BuildingUnchanged
<1>13. Afloat'
  <2>1. \A j \in afloat : Contract!mayLand(j) => Contract!mayLand(j)'
    BY DEF Contract!mayLand
  <2>. QED
    BY <2>1, AfloatKept
<1>14. Answered'
  <2>1. published' = published /\ afloat' = afloat
    BY SamePublished, SameAfloat
  <2>2. ASSUME NEW k \in DOMAIN results', results'[k] = "ok"
        PROVE  Head(batches')[k] \in published \ afloat
    <3>1. DOMAIN results' = 1 .. Len(results) - 1 /\ DOMAIN results = 1 .. Len(results)
      BY <1>1, <1>4
    <3>2. /\ k + 1 \in DOMAIN results /\ results[k + 1] = "ok"
          /\ k \in 1 .. Len(first) - 1
      BY <1>1, <1>3, <1>4, <2>2, <3>1
    <3>3. first[k + 1] \in published \ afloat
      BY <3>2 DEF LaneInv, Answered, first
    <3>4. Head(batches') = Tail(first)
      <4>1. results' # <<>>
        BY <2>2
      <4>. QED
        BY <1>7, <4>1
    <3>. QED
      BY <1>3, <3>2, <3>3, <3>4
  <2>3. (job.step = "answered" => \A k \in DOMAIN job.codes : job.codes[k] = "ok" =>
           job.requests[k] \in published \ afloat)'
    BY <2>1 DEF LaneInv, Answered
  <2>. QED
    BY <2>1, <2>2, <2>3 DEF Answered
<1>15. MarksCoverFlight'
  <2>1. marks = {j.symbol : j \in members(batches)}
    BY DEF LaneInv, MarksCoverFlight, members
  <2>2. marks' = {j.symbol : j \in members(batches')}
    <3>1. marks' = marks \ {i.symbol}
      BY DEF first
    <3>. HIDE DEF i
    <3>. QED
      BY <1>7, <2>1, <3>1
  <2>3. job.requests = <<>> /\ Elements(<<>>) = {}
    BY NothingQueued DEF Elements
  <2>. QED
    BY <1>7, <2>2, <2>3 DEF MarksCoverFlight, members
<1>. QED
  BY <1>8, <1>9, <1>10, <1>11, <1>12, <1>13, <1>14, <1>15 DEF LaneInv

-----------------------------------------------------------------------------
(* The serial queue *)

LEMMA IdleIsJob == Idle \in Jobs
BY DEF Idle, Jobs, NoTransaction, Transactions, Versions

\* The parts of the invariant that only speak of the coalescer and the chain.
LEMMA CoalescerUnchanged ==
  ASSUME LaneInv, UNCHANGED <<coalescerVars, cardanoVars>>
  PROVE  Phases' /\ Held' /\ Afloat'
<1>1. waiting' = waiting
  BY DEF waiting
<1>2. afloat' = afloat
  BY SameAfloat
<1>3. \A i : Contract!mayLand(i) => Contract!mayLand(i)'
  BY DEF Contract!mayLand
<1>. QED
  BY <1>1, <1>2, <1>3 DEF LaneInv, Phases, Held, Afloat

LEMMA TaskKeeps ==
  ASSUME LaneInv, maybeAutoMergeDeposits
  PROVE  LaneInv'
<1>. USE DEF maybeAutoMergeDeposits
<1>1. pending \in Seq(Seq(Intents)) /\ <<>> \in Seq(Intents)
  BY DEF LaneInv, LaneTypes
<1>2. /\ pending' \in Seq(Seq(Intents)) /\ Len(pending') = Len(pending) + 1
      /\ \A k \in 1 .. Len(pending) : pending'[k] = pending[k]
      /\ pending'[Len(pending) + 1] = <<>>
  BY <1>1, AppendProperties
<1>3. LaneTypes'
  BY <1>2 DEF LaneInv, LaneTypes
<1>4. Phases' /\ Held' /\ Afloat'
  BY CoalescerUnchanged
<1>5. Queued'
  <2>1. ASSUME NEW k \in DOMAIN pending', pending'[k] # <<>>
        PROVE  k \in DOMAIN pending /\ pending'[k] = pending[k]
    <3>1. k # Len(pending) + 1
      BY <1>2, <2>1
    <3>2. k \in 1 .. Len(pending)
      BY <1>1, <1>2, <3>1
    <3>. QED
      BY <1>1, <1>2, <3>2
  <2>. QED
    BY <2>1 DEF LaneInv, Queued
<1>6. Building'
  BY DEF LaneInv, Building
<1>7. Answered'
  BY SamePublished, SameAfloat DEF LaneInv, Answered
<1>8. MarksCoverFlight'
  BY DEF LaneInv, MarksCoverFlight
<1>. QED
  BY <1>3, <1>4, <1>5, <1>6, <1>7, <1>8 DEF LaneInv

\* What every entry of the queue that is a chunk is.
LEMMA PendingChunk ==
  ASSUME LaneInv, NEW k \in DOMAIN pending, pending[k] # <<>>
  PROVE  /\ flush = "queue" /\ pending[k] = Head(chunks) /\ job.requests = <<>>
         /\ \A l \in DOMAIN pending : pending[l] # <<>> => l = k
BY DEF LaneInv, Queued

\* The symbols of a chunk are marked.
LEMMA ChunkIsMarked ==
  ASSUME LaneInv, flush = "queue"
  PROVE  {i.symbol : i \in Elements(Head(chunks))} \subseteq marks
<1>1. Elements(Head(chunks)) \subseteq Elements(Head(batches)) /\ batches # <<>>
  BY QueuedChunk
<1>2. Elements(Head(batches)) \subseteq members(batches)
  BY <1>1, FirstBatch
<1>. QED
  BY <1>1, <1>2 DEF LaneInv, MarksCoverFlight, members

LEMMA DrainKeeps ==
  ASSUME LaneInv, drain
  PROVE  LaneInv'
<1>. USE DEF drain
<1>1. pending \in Seq(Seq(Intents)) /\ pending # <<>> /\ job = Idle
  BY DEF LaneInv, LaneTypes, Queued
<1>2. /\ Head(pending) \in Seq(Intents) /\ Head(pending) = pending[1]
      /\ pending' \in Seq(Seq(Intents)) /\ Len(pending') = Len(pending) - 1
      /\ Len(pending) \in Nat \ {0}
      /\ \A k \in 1 .. Len(pending) - 1 : pending'[k] = pending[k + 1]
  BY <1>1, ElementsSplit
<1>3. /\ DOMAIN pending' = 1 .. Len(pending) - 1 /\ DOMAIN pending = 1 .. Len(pending)
      /\ 1 \in DOMAIN pending
  BY <1>1, <1>2
<1>4. \A k \in DOMAIN pending' : /\ k + 1 \in DOMAIN pending /\ k + 1 # 1
                                 /\ pending'[k] = pending[k + 1]
  BY <1>2, <1>3
<1>5. /\ job' \in Jobs /\ job'.step = "start" /\ job'.requests = Head(pending)
      /\ job'.updates = {}
  BY <1>2, IdleIsJob DEF Idle, Jobs
<1>6. LaneTypes'
  BY <1>2, <1>5 DEF LaneInv, LaneTypes
<1>7. Phases' /\ Held' /\ Afloat'
  BY CoalescerUnchanged
<1>8. Queued'
  <2>1. ASSUME NEW k \in DOMAIN pending', pending'[k] # <<>>
        PROVE  /\ flush = "queue" /\ pending'[k] = Head(chunks) /\ pending[1] = <<>>
               /\ \A l \in DOMAIN pending' : pending'[l] # <<>> => l = k
    <3>1. k + 1 \in DOMAIN pending /\ k + 1 # 1 /\ pending[k + 1] # <<>> /\ pending'[k] = pending[k + 1]
      BY <1>4, <2>1
    <3>2. /\ flush = "queue" /\ pending[k + 1] = Head(chunks)
          /\ \A l \in DOMAIN pending : pending[l] # <<>> => l = k + 1
      BY <3>1, PendingChunk
    <3>3. ASSUME NEW l \in DOMAIN pending', pending'[l] # <<>>
          PROVE  l = k
      <4>1. l + 1 = k + 1
        BY <1>4, <3>2, <3>3
      <4>. QED
        BY <1>2, <1>3, <4>1
    <3>. QED
      BY <1>3, <3>1, <3>2, <3>3
  <2>2. pending[1] # <<>> => flush = "queue" /\ pending[1] = Head(chunks)
    BY <1>3, PendingChunk
  <2>. QED
    BY <1>2, <1>5, <2>1, <2>2 DEF Queued
<1>9. Building'
  BY <1>5 DEF Building, intentsOf
<1>10. Answered'
  BY <1>5, SamePublished, SameAfloat DEF LaneInv, Answered
<1>11. MarksCoverFlight'
  <2>1. {i.symbol : i \in Elements(Head(pending))} \subseteq marks
    <3>1. CASE Head(pending) = <<>>
      <4>1. Elements(<<>>) = {}
        BY DEF Elements
      <4>. QED
        BY <3>1, <4>1
    <3>2. CASE Head(pending) # <<>>
      <4>1. flush = "queue" /\ Head(pending) = Head(chunks)
        BY <1>2, <1>3, <3>2, PendingChunk
      <4>. QED
        BY <4>1, ChunkIsMarked
    <3>. QED
      BY <3>1, <3>2
  <2>. QED
    BY <1>5, <2>1 DEF LaneInv, MarksCoverFlight
<1>. QED
  BY <1>6, <1>7, <1>8, <1>9, <1>10, <1>11 DEF LaneInv

LEMMA RetryKeeps ==
  ASSUME LaneInv, Retry
  PROVE  LaneInv'
<1>. USE DEF Retry
<1>1. job \in Jobs /\ job.step # "idle"
  BY DEF LaneInv, LaneTypes
<1>2. job.requests \in Seq(Intents) /\ job.attempt + 1 \in Nat
  BY <1>1 DEF Jobs
<1>3. /\ job' \in Jobs /\ job'.step = "start" /\ job'.requests = job.requests
      /\ job'.updates = {}
  BY <1>2, IdleIsJob DEF Idle, Jobs
<1>4. LaneTypes'
  BY <1>3 DEF LaneInv, LaneTypes
<1>5. Phases' /\ Held' /\ Afloat'
  BY CoalescerUnchanged
<1>6. Queued'
  BY <1>3 DEF LaneInv, Queued
<1>7. Building'
  BY <1>3 DEF Building, intentsOf
<1>8. Answered'
  BY <1>3, SamePublished, SameAfloat DEF LaneInv, Answered
<1>9. MarksCoverFlight'
  BY <1>1, <1>3 DEF LaneInv, MarksCoverFlight
<1>. QED
  BY <1>4, <1>5, <1>6, <1>7, <1>8, <1>9 DEF LaneInv

\* What an answered chunk leaves of the batch.
LEMMA ChunkAnsweredLeaves ==
  ASSUME LaneInv, flush = "queue", job.step = "answered", job.requests # <<>>,
         ChunkAnswered(job.codes)
  PROVE  /\ chunks' \in Batches /\ results' \in Seq(Codes)
         /\ chunks' # <<>> => cuts(chunks', Head(batches), Len(results')) /\ flush' = "chunk"
         /\ chunks' = <<>> => Len(results') = Len(Head(batches)) /\ flush' = "result"
         /\ UNCHANGED <<lane, buffer, aged, batches, marks, status>>
         /\ \A k \in DOMAIN results' : results'[k] = "ok" =>
              Head(batches)[k] \in published \ afloat
<1>. DEFINE chunk == Head(chunks)
            codes == job.codes
            split == SizeFallback /\ Len(chunk) > 1 /\ isBatchSizeFailure(codes)
            w == Head(batches)
            from == Len(results)
<1>1. /\ chunks # <<>> /\ batches # <<>> /\ from \in Nat /\ cuts(chunks, w, from)
      /\ chunk \in Seq(Intents) /\ Len(chunk) \in Nat \ {0}
      /\ \A k \in DOMAIN chunk : from + k \in DOMAIN w /\ chunk[k] = w[from + k]
      /\ Tail(chunks) = <<>> => from + Len(chunk) = Len(w)
      /\ Tail(chunks) \in Batches
      /\ Tail(chunks) # <<>> => cuts(Tail(chunks), w, from + Len(chunk))
  BY QueuedChunk
<1>2. w \in Seq(Intents) /\ chunks \in Batches /\ results \in Seq(Codes)
  BY <1>1, FirstBatch DEF LaneInv, LaneTypes
<1>3. job.requests = chunk /\ codes \in Seq(Codes) /\ Len(codes) = Len(chunk)
  BY DEF LaneInv, Queued, Building
<1>4. /\ chunks' = (IF split THEN halves(chunk) ELSE <<>>) \o Tail(chunks)
      /\ results' = IF split THEN results ELSE results \o codes
      /\ flush' = IF chunks' = <<>> THEN "result" ELSE "chunk"
      /\ UNCHANGED <<lane, buffer, aged, batches, marks, status>>
  BY DEF ChunkAnswered
<1>5. /\ \A k \in DOMAIN results : results[k] = "ok" => w[k] \in published \ afloat
      /\ \A k \in DOMAIN codes : codes[k] = "ok" => chunk[k] \in published \ afloat
  BY <1>3 DEF LaneInv, Answered
<1>. HIDE DEF split, w, from, chunk, codes
<1>6. CASE split
  <2>1. Len(chunk) > 1
    BY <1>6 DEF split
  <2>2. /\ halves(chunk) \o Tail(chunks) \in Batches /\ halves(chunk) \o Tail(chunks) # <<>>
        /\ cuts(halves(chunk) \o Tail(chunks), w, from)
    BY <1>1, <1>2, <2>1, HalvedChunk DEF chunk
  <2>3. chunks' = halves(chunk) \o Tail(chunks) /\ results' = results /\ chunks' # <<>>
    BY <1>4, <1>6, <2>2
  <2>4. cuts(chunks', w, Len(results')) /\ flush' = "chunk"
    BY <1>4, <2>2, <2>3 DEF from
  <2>. QED
    BY <1>2, <1>4, <1>5, <2>2, <2>3, <2>4 DEF w
<1>7. CASE ~split
  <2>1. chunks' = Tail(chunks)
    <3>1. chunks' = <<>> \o Tail(chunks)
      BY <1>4, <1>7
    <3>2. Tail(chunks) \in Seq(Seq(Intents) \ {<<>>})
      BY <1>1 DEF Batches
    <3>. QED
      BY <3>1, <3>2, ConcatEmptySeq
  <2>2. /\ results \o codes \in Seq(Codes) /\ Len(results \o codes) = from + Len(codes)
        /\ \A k \in 1 .. from + Len(codes) :
             (results \o codes)[k] = IF k <= from THEN results[k] ELSE codes[k - from]
    <3>1. results \in Seq(Codes) /\ codes \in Seq(Codes)
      BY <1>2, <1>3
    <3>2. /\ results \o codes \in Seq(Codes) /\ Len(results \o codes) = Len(results) + Len(codes)
          /\ \A k \in 1 .. Len(results) + Len(codes) :
               (results \o codes)[k]
                 = IF k <= Len(results) THEN results[k] ELSE codes[k - Len(results)]
      BY ONLY <3>1, ConcatProperties
    <3>. QED
      BY ONLY <3>2 DEF from
  <2>3. results' = results \o codes
    BY <1>4, <1>7
  <2>4. ASSUME NEW k \in DOMAIN results', results'[k] = "ok"
        PROVE  w[k] \in published \ afloat
    <3>1. k \in 1 .. from + Len(codes)
      BY <2>2, <2>3
    <3>2. CASE k <= from
      <4>1. k \in DOMAIN results
        BY <1>1, <1>2, <3>1, <3>2 DEF from
      <4>. QED
        BY <1>5, <2>2, <2>3, <2>4, <3>1, <3>2, <4>1
    <3>3. CASE ~(k <= from)
      <4>1. k - from \in DOMAIN codes /\ k - from \in DOMAIN chunk /\ from + (k - from) = k
        <5>1. k - from \in 1 .. Len(codes) /\ from + (k - from) = k
          BY <1>1, <1>3, <3>1, <3>3
        <5>. QED
          BY <1>1, <1>3, <5>1
      <4>2. codes[k - from] = "ok"
        BY <2>2, <2>3, <2>4, <3>1, <3>3
      <4>3. chunk[k - from] = w[from + (k - from)]
        BY <1>1, <4>1
      <4>. QED
        BY <1>5, <4>1, <4>2, <4>3
    <3>. QED
      BY <3>2, <3>3
  <2>. QED
    BY <1>1, <1>3, <1>4, <2>1, <2>2, <2>3, <2>4 DEF w
<1>. QED
  BY <1>6, <1>7

LEMMA ResolveKeeps ==
  ASSUME LaneInv, Resolve
  PROVE  LaneInv'
<1>. USE DEF Resolve
<1>1. /\ job' = Idle /\ job'.requests = <<>> /\ job'.step = "idle" /\ job'.updates = {}
      /\ Elements(<<>>) = {}
  BY DEF Idle, Elements
<1>2. CASE job.requests = <<>>
  <2>1. UNCHANGED <<coalescerVars, cardanoVars, pending>>
    BY <1>2
  <2>2. LaneTypes'
    BY <1>1, <2>1, IdleIsJob DEF LaneInv, LaneTypes
  <2>3. Phases' /\ Held' /\ Afloat'
    BY <2>1, CoalescerUnchanged
  <2>4. Queued'
    BY <1>1, <1>2, <2>1 DEF LaneInv, Queued
  <2>5. Building'
    BY <1>1 DEF Building, intentsOf
  <2>6. Answered'
    BY <1>1, <2>1, SamePublished, SameAfloat DEF LaneInv, Answered
  <2>7. MarksCoverFlight'
    BY <1>1, <2>1 DEF LaneInv, MarksCoverFlight
  <2>. QED
    BY <2>2, <2>3, <2>4, <2>5, <2>6, <2>7 DEF LaneInv
<1>3. CASE job.requests # <<>>
  <2>0. flush = "queue" /\ ChunkAnswered(job.codes) /\ UNCHANGED <<pending, cardanoVars>>
    BY <1>3 DEF LaneInv, Queued
  <2>1. /\ chunks' \in Batches /\ results' \in Seq(Codes)
        /\ chunks' # <<>> => cuts(chunks', Head(batches), Len(results')) /\ flush' = "chunk"
        /\ chunks' = <<>> => Len(results') = Len(Head(batches)) /\ flush' = "result"
        /\ UNCHANGED <<lane, buffer, aged, batches, marks, status>>
        /\ \A k \in DOMAIN results' : results'[k] = "ok" =>
             Head(batches)[k] \in published \ afloat
    BY <1>3, <2>0, ChunkAnsweredLeaves
  <2>2. LaneTypes'
    BY <1>1, <2>0, <2>1, IdleIsJob DEF LaneInv, LaneTypes
  <2>3. batches # <<>>
    BY <2>0, QueuedChunk
  <2>4. Phases'
    BY <2>0, <2>1, <2>3 DEF LaneInv, Phases
  <2>5. Held'
    <3>1. waiting' = waiting
      BY <2>0, <2>1, WaitingIs
    <3>. QED
      BY <2>0, <2>1, <3>1 DEF LaneInv, Held
  <2>6. Queued'
    BY <1>1, <1>3, <2>0 DEF LaneInv, Queued
  <2>7. Building'
    BY <1>1 DEF Building, intentsOf
  <2>8. Afloat'
    <3>1. \A i \in afloat : Contract!mayLand(i) => Contract!mayLand(i)'
      BY <2>1 DEF Contract!mayLand
    <3>. QED
      BY <2>0, <2>1, <3>1, AfloatKept
  <2>9. Answered'
    <3>1. published' = published /\ afloat' = afloat
      BY <2>0, SamePublished, SameAfloat
    <3>. QED
      BY <1>1, <2>1, <3>1 DEF Answered
  <2>10. MarksCoverFlight'
    BY <1>1, <2>0, <2>1 DEF LaneInv, MarksCoverFlight
  <2>. QED
    BY <2>2, <2>4, <2>5, <2>6, <2>7, <2>8, <2>9, <2>10 DEF LaneInv
<1>. QED
  BY <1>2, <1>3

-----------------------------------------------------------------------------
(* The bridge *)

\* A step of the bridge that submits nothing.
LEMMA BridgeKeeps ==
  ASSUME LaneInv, UNCHANGED <<coalescerVars, pending, merging, tasks, chain, mempool,
                              indexed, topUps, budget>>,
         losses' \in Nat, job.step # "idle",
         job' \in Jobs, job'.step # "idle", job'.step # "confirm",
         job'.requests = job.requests,
         intentsOf(job'.updates) \subseteq Elements(job.requests),
         job'.step = "answered" =>
           /\ job'.codes \in Seq(Codes) /\ Len(job'.codes) = Len(job.requests)
           /\ \A k \in DOMAIN job'.codes : job'.codes[k] = "ok" =>
                job.requests[k] \in published \ afloat
  PROVE  LaneInv'
<1>1. waiting' = waiting
  BY DEF waiting
<1>2. published' = published /\ afloat' = afloat
  BY SamePublished, SameAfloat
<1>3. \A i : Contract!mayLand(i) => Contract!mayLand(i)'
  BY DEF Contract!mayLand
<1>4. LaneTypes'
  BY DEF LaneInv, LaneTypes
<1>5. Phases' /\ Held'
  BY <1>1 DEF LaneInv, Phases, Held
<1>6. Queued'
  BY DEF LaneInv, Queued
<1>7. Building'
  BY DEF Building
<1>8. Afloat'
  BY <1>2, <1>3 DEF LaneInv, Afloat
<1>9. Answered'
  BY <1>2 DEF LaneInv, Answered
<1>10. MarksCoverFlight'
  BY DEF LaneInv, MarksCoverFlight
<1>. QED
  BY <1>4, <1>5, <1>6, <1>7, <1>8, <1>9, <1>10 DEF LaneInv

\* One code for every request of the entry.
LEMMA OneCodeForAll ==
  ASSUME job \in Jobs, NEW code \in Codes
  PROVE  /\ answered(allOf(code)) \in Jobs
         /\ answered(allOf(code)).step = "answered"
         /\ answered(allOf(code)).requests = job.requests
         /\ answered(allOf(code)).updates = job.updates
         /\ answered(allOf(code)).codes \in Seq(Codes)
         /\ Len(answered(allOf(code)).codes) = Len(job.requests)
         /\ \A k \in DOMAIN answered(allOf(code)).codes : answered(allOf(code)).codes[k] = code
<1>1. job.requests \in Seq(Intents)
  BY DEF Jobs
<1>2. Len(job.requests) \in Nat /\ DOMAIN job.requests = 1 .. Len(job.requests)
  BY <1>1
<1>3. allOf(code) \in [1 .. Len(job.requests) -> Codes]
  BY <1>2 DEF allOf
<1>4. allOf(code) \in Seq(Codes) /\ allOf(code) \in Seq(Results)
  <2>1. allOf(code) \in [1 .. Len(job.requests) -> Results]
    BY <1>3 DEF Codes
  <2>. QED
    BY <1>2, <1>3, <2>1, SeqDef
<1>5. Len(allOf(code)) = Len(job.requests)
  BY <1>2, <1>3
<1>6. \A k \in DOMAIN allOf(code) : allOf(code)[k] = code
  BY DEF allOf
<1>. DEFINE codes == allOf(code)
<1>7. /\ codes \in Seq(Codes) /\ codes \in Seq(Results) /\ Len(codes) = Len(job.requests)
      /\ \A k \in DOMAIN codes : codes[k] = code
  BY <1>4, <1>5, <1>6
<1>. HIDE DEF codes
<1>8. /\ answered(codes) \in Jobs /\ answered(codes).step = "answered"
      /\ answered(codes).requests = job.requests
      /\ answered(codes).updates = job.updates
      /\ answered(codes).codes = codes
  BY <1>7 DEF answered, Jobs
<1>. QED
  BY <1>7, <1>8 DEF codes

\* A step that answers all of the entry with a failure, or that goes on.
LEMMA FailsAllKeeps ==
  ASSUME LaneInv, UNCHANGED <<coalescerVars, pending, merging, tasks, chain, mempool,
                              indexed, topUps, budget>>,
         losses' \in Nat, job.step # "idle",
         NEW code \in Codes, code # "ok", job' = answered(allOf(code))
  PROVE  LaneInv'
<1>1. job \in Jobs /\ intentsOf(job.updates) \subseteq Elements(job.requests)
  BY DEF LaneInv, LaneTypes, Building
<1>2. /\ job' \in Jobs /\ job'.step = "answered" /\ job'.requests = job.requests
      /\ job'.updates = job.updates
      /\ job'.codes \in Seq(Codes) /\ Len(job'.codes) = Len(job.requests)
      /\ \A k \in DOMAIN job'.codes : job'.codes[k] = code
  BY <1>1, OneCodeForAll
<1>. QED
  BY <1>1, <1>2, BridgeKeeps

\* thrown drops the deposits, or fails all of the entry.
LEMMA ThrownKeeps ==
  ASSUME LaneInv, UNCHANGED <<coalescerVars, pending, merging, tasks, chain, mempool,
                              indexed, topUps, budget>>,
         losses' \in Nat, job.step # "idle",
         NEW code \in Codes, code # "ok", job' = thrown(code)
  PROVE  LaneInv'
<1>1. CASE job.step = "submit" /\ job.fold
  <2>1. job \in Jobs /\ intentsOf(job.updates) \subseteq Elements(job.requests)
    BY DEF LaneInv, LaneTypes, Building
  <2>2. /\ job' \in Jobs /\ job'.step = "submit" /\ job'.requests = job.requests
        /\ job'.updates = job.updates
    BY <1>1, <2>1 DEF thrown, Jobs
  <2>. QED
    BY <2>1, <2>2, BridgeKeeps
<1>2. CASE ~(job.step = "submit" /\ job.fold)
  BY <1>2, FailsAllKeeps DEF thrown
<1>. QED
  BY <1>1, <1>2

LEMMA PrepareKeeps ==
  ASSUME LaneInv, Prepare
  PROVE  LaneInv'
<1>. USE DEF Prepare
<1>1. PICK pairs \in [Elements(job.requests) -> 0 .. indexed] :
        LET all == {[intent |-> i, pair |-> pairs[i]] : i \in DOMAIN pairs}
            fresh == {u \in all : beatsOnChain(indexed, u)}
        IN  job' = IF job.requests # <<>> /\ fresh = {}
                     THEN answered(allOf("NonMonotonicNonce"))
                     ELSE [job EXCEPT !.step = "fetch", !.updates = fresh, !.pairsAt = indexed]
  OBVIOUS
<1>. DEFINE all == {[intent |-> i, pair |-> pairs[i]] : i \in DOMAIN pairs}
            fresh == {u \in all : beatsOnChain(indexed, u)}
<1>2. /\ job \in Jobs /\ job.requests \in Seq(Intents) /\ indexed \in Nat
      /\ intentsOf(job.updates) \subseteq Elements(job.requests) /\ losses \in Nat
  BY SMTT(60) DEF LaneInv, LaneTypes, Building, Jobs
<1>3. fresh \subseteq Updates /\ intentsOf(fresh) \subseteq Elements(job.requests)
  <2>1. ASSUME NEW u \in fresh
        PROVE  u \in Updates /\ u.intent \in Elements(job.requests)
    <3>1. PICK i \in Elements(job.requests) : u = [intent |-> i, pair |-> pairs[i]]
      OBVIOUS
    <3>2. i \in Intents /\ pairs[i] \in Nat
      BY <1>2, ElementsType
    <3>. QED
      BY <3>1, <3>2 DEF Updates, Versions
  <2>. QED
    BY <2>1 DEF intentsOf
<1>4. CASE job' = answered(allOf("NonMonotonicNonce"))
  <2>1. "NonMonotonicNonce" \in Codes
    BY DEF Codes, Results, NON_RETRIABLE_CODES
  <2>. QED
    BY <1>2, <1>4, <2>1, FailsAllKeeps
<1>5. CASE job' = [job EXCEPT !.step = "fetch", !.updates = fresh, !.pairsAt = indexed]
  <2>. HIDE DEF fresh
  <2>1. /\ job' \in Jobs /\ job'.step = "fetch" /\ job'.requests = job.requests
        /\ job'.updates = fresh
    BY <1>2, <1>3, <1>5 DEF Jobs, Versions
  <2>. QED
    BY ZenonT(60), <1>2, <1>3, <2>1, BridgeKeeps
<1>. QED
  BY <1>1, <1>4, <1>5

LEMMA FetchKeeps ==
  ASSUME LaneInv, Fetch
  PROVE  LaneInv'
<1>. USE DEF Fetch
<1>1. PICK pairs \in [job.updates -> 0 .. indexed], fold \in BOOLEAN :
        LET updates == {[u EXCEPT !.pair = pairs[u]] : u \in job.updates}
        IN  \/ job' = answered(allOf("NonMonotonicNonce"))
            \/ job' = answered(allOf("BatchSizeExceeded"))
            \/ job' = [job EXCEPT !.step = "submit", !.updates = updates,
                                  !.receiverAt = indexed, !.fold = fold,
                                  !.pairsAt = IF isBatch THEN indexed ELSE @]
  OBVIOUS
<1>. DEFINE updates == {[u EXCEPT !.pair = pairs[u]] : u \in job.updates}
            at == IF isBatch THEN indexed ELSE job.pairsAt
<1>2. /\ job \in Jobs /\ job.updates \subseteq Updates /\ indexed \in Nat /\ at \in Nat
      /\ intentsOf(job.updates) \subseteq Elements(job.requests) /\ losses \in Nat
  BY SMTT(60) DEF LaneInv, LaneTypes, Building, Jobs, Versions
<1>3. updates \subseteq Updates /\ intentsOf(updates) \subseteq Elements(job.requests)
  <2>1. ASSUME NEW v \in updates
        PROVE  v \in Updates /\ v.intent \in Elements(job.requests)
    <3>1. PICK u \in job.updates : v = [u EXCEPT !.pair = pairs[u]]
      OBVIOUS
    <3>2. u \in Updates /\ pairs[u] \in Nat /\ u.intent \in Elements(job.requests)
      BY <1>2 DEF intentsOf
    <3>. QED
      BY <3>1, <3>2 DEF Updates, Versions
  <2>. QED
    BY <2>1 DEF intentsOf
<1>4. ASSUME NEW code \in {"NonMonotonicNonce", "BatchSizeExceeded"}, job' = answered(allOf(code))
      PROVE  LaneInv'
  <2>1. code \in Codes /\ code # "ok"
    BY DEF Codes, Results, NON_RETRIABLE_CODES
  <2>. QED
    BY <1>2, <1>4, <2>1, FailsAllKeeps
<1>5. CASE job' = [job EXCEPT !.step = "submit", !.updates = updates, !.receiverAt = indexed,
                              !.fold = fold, !.pairsAt = at]
  <2>. HIDE DEF updates, at
  <2>1. /\ job' \in Jobs /\ job'.step = "submit" /\ job'.requests = job.requests
        /\ job'.updates = updates
    BY <1>2, <1>3, <1>5 DEF Jobs, Versions
  <2>. QED
    BY <1>2, <1>3, <2>1, BridgeKeeps
<1>. QED
  BY SMTT(60), <1>1, <1>4, <1>5

LEMMA BuildFailsKeeps ==
  ASSUME LaneInv, BuildFails
  PROVE  LaneInv'
<1>. USE DEF BuildFails
<1>1. PICK code \in {"BuilderError", "InsufficientFunds"} : job' = thrown(code)
  OBVIOUS
<1>2. code \in Codes /\ code # "ok"
  BY DEF Codes, Results, NON_RETRIABLE_CODES
<1>3. losses \in Nat /\ job.step # "idle"
  BY DEF LaneInv, LaneTypes
<1>. QED
  BY <1>1, <1>2, <1>3, ThrownKeeps

LEMMA SubmitStaleKeeps ==
  ASSUME LaneInv, SubmitStale
  PROVE  LaneInv'
<1>. USE DEF SubmitStale
<1>1. job \in Jobs /\ intentsOf(job.updates) \subseteq Elements(job.requests) /\ losses \in Nat
  BY DEF LaneInv, LaneTypes, Building
<1>2. CASE job' = [job EXCEPT !.step = "fetch", !.tries = @ + 1]
  <2>1. /\ job' \in Jobs /\ job'.step = "fetch" /\ job'.requests = job.requests
        /\ job'.updates = job.updates
    <3>. DEFINE n == job.tries + 1
    <3>1. n \in Nat /\ job' = [job EXCEPT !.step = "fetch", !.tries = n]
      BY <1>1, <1>2 DEF Jobs
    <3>. HIDE DEF n
    <3>. QED
      BY ZenonT(60), <1>1, <3>1 DEF Jobs
  <2>. QED
    BY <1>1, <2>1, BridgeKeeps
<1>3. CASE job' = thrown("BuilderError")
  <2>1. "BuilderError" \in Codes
    BY DEF Codes, Results
  <2>. QED
    BY <1>1, <1>3, <2>1, ThrownKeeps
<1>. QED
  BY <1>2, <1>3

LEMMA NeverConfirmedKeeps ==
  ASSUME LaneInv, NeverConfirmed
  PROVE  LaneInv'
<1>. USE DEF NeverConfirmed
<1>1. losses' \in Nat
  BY DEF LaneInv, LaneTypes
<1>2. "BuilderError" \in Codes
  BY DEF Codes, Results
<1>. QED
  BY <1>1, <1>2, FailsAllKeeps

\* Once its transaction landed the lane has nothing afloat.
LEMMA ConfirmedKeeps ==
  ASSUME LaneInv, Confirmed
  PROVE  LaneInv'
<1>. USE DEF Confirmed
<1>. DEFINE written == {u.intent : u \in job.tx.updates}
            codes == [k \in DOMAIN job.requests |->
                        IF job.requests[k] \in written THEN "ok" ELSE "NonMonotonicNonce"]
<1>1. /\ job \in Jobs /\ job.requests \in Seq(Intents) /\ job.tx \in Transactions
      /\ intentsOf(job.updates) \subseteq Elements(job.requests) /\ losses \in Nat
      /\ mempool # {} => job.tx.input = Len(chain)
      /\ chain \in Seq(Transactions)
  BY DEF LaneInv, LaneTypes, Building, Jobs
<1>2. Len(chain) > job.tx.input /\ chain[job.tx.input + 1] = job.tx
  BY DEF Landed
<1>3. job.tx.input \in Nat /\ Len(chain) \in Nat /\ DOMAIN chain = 1 .. Len(chain)
  BY <1>1 DEF Transactions, Versions
<1>4. afloat = {}
  BY <1>1, <1>2, <1>3 DEF afloat
<1>5. written \subseteq published
  <2>1. job.tx.input + 1 \in DOMAIN chain
    BY <1>2, <1>3
  <2>2. job.tx.updates \in {chain[v].updates : v \in DOMAIN chain}
    BY <1>2, <2>1
  <2>. QED
    BY <2>2 DEF published
<1>6. /\ codes \in Seq(Codes) /\ codes \in Seq(Results) /\ Len(codes) = Len(job.requests)
      /\ \A k \in DOMAIN codes : codes[k] = "ok" => job.requests[k] \in written
  <2>1. Len(job.requests) \in Nat /\ DOMAIN job.requests = 1 .. Len(job.requests)
    BY <1>1
  <2>2. {"ok", "NonMonotonicNonce"} \subseteq Codes /\ Codes \subseteq Results
    BY DEF Codes, Results, NON_RETRIABLE_CODES
  <2>. HIDE DEF written
  <2>3. codes \in [1 .. Len(job.requests) -> Codes] /\ codes \in [1 .. Len(job.requests) -> Results]
    BY <2>1, <2>2
  <2>. HIDE DEF codes
  <2>4. codes \in Seq(Codes) /\ codes \in Seq(Results) /\ Len(codes) = Len(job.requests)
    BY SMTT(60), <2>1, <2>3, SeqDef
  <2>. QED
    BY <2>1, <2>3, <2>4 DEF codes
<1>7. job' = answered(codes)
  BY SMTT(60)
<1>. HIDE DEF codes, written
<1>8. /\ job' \in Jobs /\ job'.step = "answered" /\ job'.requests = job.requests
      /\ job'.updates = job.updates /\ job'.codes = codes
  BY ZenonT(60), <1>1, <1>6, <1>7 DEF answered, Jobs
<1>. QED
  BY <1>1, <1>4, <1>5, <1>6, <1>8, BridgeKeeps

\* Submit finds a number for the transaction.
LEMMA FreshNumber ==
  ASSUME NEW C, IsFiniteSet(C)
  PROVE  \E n \in 0 .. Cardinality(C) : \A t \in C : t.nr # n
<1>. DEFINE N == Cardinality(C)
            f == [n \in 0 .. N |-> CHOOSE t \in C : t.nr = n]
<1>1. SUFFICES ASSUME \A n \in 0 .. N : \E t \in C : t.nr = n
               PROVE  FALSE
  OBVIOUS
<1>2. N \in Nat
  BY FS_CardinalityType
<1>3. IsFiniteSet(0 .. N) /\ Cardinality(0 .. N) = N + 1
  BY <1>2, FS_Interval
<1>4. f \in [0 .. N -> C] /\ \A n \in 0 .. N : f[n].nr = n
  <2>1. \A n \in 0 .. N : f[n] \in C /\ f[n].nr = n
    BY <1>1
  <2>. QED
    BY <2>1
<1>. HIDE DEF f
<1>5. \E x, y \in 0 .. N : x # y /\ f[x] = f[y]
  BY <1>2, <1>3, <1>4, FS_PigeonHole
<1>. QED
  BY <1>4, <1>5

LEMMA BuiltTypes ==
  ASSUME LaneInv, job.step = "submit"
  PROVE  /\ built \in Transactions /\ built.updates = job.updates
         /\ built.input = job.receiverAt /\ built.nr \in Nat
         /\ \A t \in Contenders : t.nr # built.nr
<1>1. IsFiniteSet(Contenders)
  <2>1. IsFiniteSet(mempool) /\ Contenders \in SUBSET mempool
    BY DEF LaneInv, LaneTypes, Contenders
  <2>. QED
    BY <2>1, FS_Subset
<1>. DEFINE nr == CHOOSE n \in 0 .. Cardinality(Contenders) : \A t \in Contenders : t.nr # n
<1>2. nr \in 0 .. Cardinality(Contenders) /\ \A t \in Contenders : t.nr # nr
  BY <1>1, FreshNumber
<1>3. Cardinality(Contenders) \in Nat
  BY <1>1, FS_CardinalityType
<1>4. built = [input |-> job.receiverAt, updates |-> job.updates, nr |-> nr]
  BY DEF built
<1>5. job.receiverAt \in Nat /\ job.updates \subseteq Updates
  BY DEF LaneInv, LaneTypes, Jobs, Versions
<1>. HIDE DEF nr
<1>. QED
  BY <1>2, <1>3, <1>4, <1>5 DEF Transactions, Versions

LEMMA SubmitKeeps ==
  ASSUME LaneInv, Submit
  PROVE  LaneInv'
<1>. USE DEF Submit
<1>1. /\ job \in Jobs /\ job.requests \in Seq(Intents) /\ job.updates \subseteq Updates
      /\ intentsOf(job.updates) \subseteq Elements(job.requests)
  BY DEF LaneInv, LaneTypes, Building, Jobs
<1>2. /\ built \in Transactions /\ built.updates = job.updates /\ built.input = Len(chain)
  BY BuiltTypes DEF InputsUnspent
<1>3. ASSUME job.requests # <<>>
      PROVE  /\ flush = "queue" /\ job.requests = Head(chunks)
             /\ Elements(job.requests) \subseteq Elements(Head(batches))
             /\ Elements(Head(batches)) \subseteq members(batches)
             /\ Once(Head(batches)) /\ Elements(Head(batches)) \subseteq Intents
  <2>1. flush = "queue" /\ job.requests = Head(chunks)
    BY <1>3 DEF LaneInv, Queued
  <2>. QED
    BY <2>1, QueuedChunk, FirstBatch
<1>. DEFINE new == intentsOf(job.updates)
<1>4. ASSUME NEW i \in new
      PROVE  /\ i \in Elements(job.requests) /\ i \in Intents /\ job.requests # <<>>
             /\ status[i] = "held" /\ Contract!mayLand(i)
             /\ i \notin Elements(buffer) /\ i \notin Elements(aged)
  <2>1. i \in Elements(job.requests) /\ job.requests # <<>>
    BY <1>1 DEF Elements
  <2>2. i \in members(batches) /\ i \in Intents /\ flush = "queue"
    BY <1>3, <2>1
  <2>3. i \in waiting
    BY <2>2, WaitingIs
  <2>. QED
    BY <2>1, <2>2, <2>3 DEF LaneInv, Held, Contract!mayLand
<1>5. \A i, j \in new : i.symbol = j.symbol => i = j
  <2>. SUFFICES ASSUME NEW i \in new, NEW j \in new, i.symbol = j.symbol
                PROVE  i = j
    OBVIOUS
  <2>1. /\ i \in Elements(Head(batches)) /\ j \in Elements(Head(batches))
        /\ Once(Head(batches))
    BY <1>3, <1>4
  <2>. QED
    BY <2>1 DEF Once, Elements
<1>. HIDE DEF new
<1>6. afloat' = afloat \cup new
  <2>1. mempool' = mempool \cup {built} /\ intentsOf(built.updates) = new
    BY <1>2 DEF new
  <2>. QED
    BY <2>1 DEF afloat
<1>7. published' = published
  BY SamePublished
<1>8. /\ job' \in Jobs /\ job'.step # "idle" /\ job'.requests = job.requests
      /\ job'.updates = job.updates
      /\ \/ job'.step = "confirm" /\ job'.tx = built
         \/ job'.step = "submit"
         \/ /\ job'.step = "answered" /\ job'.codes \in Seq(Codes)
            /\ Len(job'.codes) = Len(job.requests)
            /\ \A k \in DOMAIN job'.codes : job'.codes[k] # "ok"
  <2>1. CASE job' = [job EXCEPT !.step = "confirm", !.tx = built]
    BY <1>1, <1>2, <2>1 DEF Jobs
  <2>2. CASE job' = thrown("BuilderError")
    <3>1. CASE job.fold
      <4>1. job' = [job EXCEPT !.fold = FALSE]
        BY <2>2, <3>1 DEF thrown
      <4>. QED
        BY <1>1, <4>1 DEF Jobs
    <3>2. CASE ~job.fold
      <4>1. job' = answered(allOf("BuilderError")) /\ "BuilderError" \in Codes
        BY <2>2, <3>2 DEF thrown, Codes, Results
      <4>2. /\ job' \in Jobs /\ job'.step = "answered" /\ job'.requests = job.requests
            /\ job'.updates = job.updates /\ job'.codes \in Seq(Codes)
            /\ Len(job'.codes) = Len(job.requests)
            /\ \A k \in DOMAIN job'.codes : job'.codes[k] = "BuilderError"
        BY <1>1, <4>1, OneCodeForAll
      <4>. QED
        BY <4>2
    <3>. QED
      BY <3>1, <3>2
  <2>. QED
    BY <2>1, <2>2
<1>9. LaneTypes'
  <2>1. IsFiniteSet(mempool') /\ mempool' \subseteq Transactions
    <3>1. IsFiniteSet(mempool) /\ mempool \subseteq Transactions
      BY DEF LaneInv, LaneTypes
    <3>. QED
      BY <1>2, <3>1, FS_AddElement
  <2>2. losses' \in Nat
    BY DEF LaneInv, LaneTypes
  <2>. QED
    BY <1>8, <2>1, <2>2 DEF LaneInv, LaneTypes
<1>10. Phases' /\ Held'
  <2>1. waiting' = waiting
    BY DEF waiting
  <2>. QED
    BY <2>1 DEF LaneInv, Phases, Held
<1>11. Queued'
  BY <1>8 DEF LaneInv, Queued
<1>12. Building'
  BY <1>1, <1>2, <1>8 DEF LaneInv, Building
<1>13. Afloat'
  <2>1. \A t \in mempool' :
          /\ t.input = Len(chain)
          /\ \A i, j \in intentsOf(t.updates) : i.symbol = j.symbol => i = j
    <3>1. \A t \in mempool :
            /\ t.input = Len(chain)
            /\ \A i, j \in intentsOf(t.updates) : i.symbol = j.symbol => i = j
      BY DEF LaneInv, Afloat
    <3>. QED
      BY <1>2, <1>5, <3>1 DEF new
  <2>2. \A i \in afloat' :
          Contract!mayLand(i) /\ i \notin Elements(buffer) \cup Elements(aged)
    BY <1>4, <1>6 DEF LaneInv, Afloat
  <2>. QED
    BY <2>1, <2>2 DEF Afloat, Contract!mayLand
<1>14. Answered'
  <2>1. ASSUME NEW k \in DOMAIN results, results[k] = "ok"
        PROVE  Head(batches)[k] \in published \ afloat'
    <3>1. Head(batches)[k] \in published \ afloat
      BY <2>1 DEF LaneInv, Answered
    <3>2. ASSUME Head(batches)[k] \in new
          PROVE  FALSE
      <4>1. /\ Head(batches)[k] \in Elements(Head(chunks)) /\ flush = "queue"
            /\ Once(Head(batches))
        BY <1>3, <1>4, <3>2
      <4>2. PICK l \in DOMAIN Head(chunks) : Head(chunks)[l] = Head(batches)[k]
        BY <4>1 DEF Elements
      <4>3. /\ Len(results) + l \in DOMAIN Head(batches) /\ Len(results) \in Nat
            /\ Head(chunks)[l] = Head(batches)[Len(results) + l]
            /\ Head(chunks) \in Seq(Intents) /\ Head(batches) \in Seq(Intents)
            /\ Len(results) + Len(Head(chunks)) <= Len(Head(batches))
        BY <4>1, <4>2, QueuedChunk, FirstBatch
      <4>4. results \in Seq(Codes)
        BY DEF LaneInv, LaneTypes
      <4>5. k \in 1 .. Len(results) /\ l \in 1 .. Len(Head(chunks))
        BY <4>3, <4>4
      <4>6. k \in DOMAIN Head(batches)
        BY <4>3, <4>5
      <4>7. k = Len(results) + l
        BY <4>1, <4>2, <4>3, <4>6 DEF Once
      <4>. QED
        BY <4>3, <4>5, <4>7
    <3>. QED
      BY <1>6, <3>1, <3>2
  <2>. QED
    BY <1>7, <1>8, <2>1 DEF Answered
<1>15. MarksCoverFlight'
  BY <1>8 DEF LaneInv, MarksCoverFlight
<1>. QED
  BY <1>9, <1>10, <1>11, <1>12, <1>13, <1>14, <1>15 DEF LaneInv

-----------------------------------------------------------------------------
(* Cardano *)

\* A spend publishes what it carries, and nothing is afloat after it.
LEMMA SpendKeeps ==
  ASSUME LaneInv, NEW tx \in Transactions, tx.input = Len(chain), spend(tx),
         UNCHANGED <<coalescerVars, queueVars, indexed, losses, budget>>
  PROVE  LaneInv' /\ published' = published \cup intentsOf(tx.updates)
<1>1. chain \in Seq(Transactions) /\ Len(chain) \in Nat
  BY DEF LaneInv, LaneTypes
<1>2. mempool' = {}
  BY DEF spend, LaneInv, Afloat
<1>3. afloat' = {}
  BY <1>2 DEF afloat
<1>4. /\ chain' \in Seq(Transactions) /\ Len(chain') = Len(chain) + 1
      /\ \A v \in 1 .. Len(chain) : chain'[v] = chain[v]
      /\ chain'[Len(chain) + 1] = tx
  BY <1>1, AppendProperties DEF spend
<1>5. published' = published \cup intentsOf(tx.updates)
  <2>1. DOMAIN chain' = 1 .. Len(chain) + 1 /\ DOMAIN chain = 1 .. Len(chain)
    BY <1>1, <1>4
  <2>2. ASSUME NEW i \in published'
        PROVE  i \in published \cup intentsOf(tx.updates)
    <3>1. PICK v \in DOMAIN chain' : \E u \in chain'[v].updates : i = u.intent
      BY DEF published
    <3>2. CASE v = Len(chain) + 1
      BY <1>4, <3>1, <3>2 DEF intentsOf
    <3>3. CASE v # Len(chain) + 1
      <4>1. v \in DOMAIN chain /\ chain'[v] = chain[v]
        BY <1>1, <1>4, <2>1, <3>3
      <4>. QED
        BY <3>1, <4>1 DEF published
    <3>. QED
      BY <3>2, <3>3
  <2>3. ASSUME NEW i \in published
        PROVE  i \in published'
    <3>1. PICK v \in DOMAIN chain : \E u \in chain[v].updates : i = u.intent
      BY DEF published
    <3>2. v \in DOMAIN chain' /\ chain'[v] = chain[v]
      BY <1>1, <1>4, <2>1
    <3>. QED
      BY <3>1, <3>2 DEF published
  <2>4. ASSUME NEW i \in intentsOf(tx.updates)
        PROVE  i \in published'
    <3>1. Len(chain) + 1 \in DOMAIN chain'
      BY <1>1, <2>1
    <3>. QED
      BY <1>4, <3>1 DEF published, intentsOf
  <2>. QED
    BY <2>2, <2>3, <2>4
<1>6. LaneTypes'
  <2>1. indexed \in 0 .. Len(chain')
    BY <1>1, <1>4 DEF LaneInv, LaneTypes
  <2>. QED
    BY <1>2, <1>4, <2>1, FS_EmptySet DEF LaneInv, LaneTypes
<1>7. Phases' /\ Held'
  <2>1. waiting' = waiting
    BY DEF waiting
  <2>. QED
    BY <2>1 DEF LaneInv, Phases, Held
<1>8. Queued'
  BY DEF LaneInv, Queued
<1>9. Building'
  BY <1>2 DEF LaneInv, Building
<1>10. Afloat'
  BY <1>2, <1>3 DEF Afloat
<1>11. Answered'
  BY <1>3, <1>5 DEF LaneInv, Answered
<1>12. MarksCoverFlight'
  BY DEF LaneInv, MarksCoverFlight
<1>. QED
  BY <1>5, <1>6, <1>7, <1>8, <1>9, <1>10, <1>11, <1>12 DEF LaneInv

LEMMA LandKeeps ==
  ASSUME LaneInv, Land
  PROVE  /\ LaneInv'
         /\ \E tx \in mempool : published' = published \cup intentsOf(tx.updates)
<1>1. PICK tx \in mempool : tx.input = Len(chain) /\ spend(tx)
  BY DEF Land
<1>2. tx \in Transactions
  BY DEF LaneInv, LaneTypes
<1>. QED
  BY <1>1, <1>2, SpendKeeps DEF Land

LEMMA TopUpKeeps ==
  ASSUME LaneInv, TopUp
  PROVE  LaneInv' /\ published' = published
<1>. DEFINE tx == [input |-> Len(chain), updates |-> {}, nr |-> -1]
<1>1. Len(chain) \in Nat
  BY DEF LaneInv, LaneTypes
<1>2. tx \in Transactions /\ tx.input = Len(chain) /\ intentsOf(tx.updates) = {} /\ spend(tx)
  BY <1>1 DEF Transactions, Versions, intentsOf, TopUp
<1>. HIDE DEF tx
<1>3. LaneInv' /\ published' = published \cup intentsOf(tx.updates)
  BY <1>2, SpendKeeps DEF TopUp
<1>. QED
  BY <1>2, <1>3

LEMMA EvictKeeps ==
  ASSUME LaneInv, Evict
  PROVE  LaneInv'
<1>. USE DEF Evict
<1>1. mempool' \subseteq mempool
  OBVIOUS
<1>2. afloat' \subseteq afloat /\ published' = published
  BY <1>1, SamePublished DEF afloat
<1>3. LaneTypes'
  <2>1. IsFiniteSet(mempool) /\ mempool \subseteq Transactions /\ losses' \in Nat
    BY DEF LaneInv, LaneTypes
  <2>2. IsFiniteSet(mempool')
    BY <1>1, <2>1, FS_Subset
  <2>. QED
    BY <1>1, <2>1, <2>2 DEF LaneInv, LaneTypes
<1>4. Phases' /\ Held'
  <2>1. waiting' = waiting
    BY DEF waiting
  <2>. QED
    BY <2>1 DEF LaneInv, Phases, Held
<1>5. Queued'
  BY DEF LaneInv, Queued
<1>6. Building'
  BY <1>1 DEF LaneInv, Building
<1>7. Afloat'
  <2>1. \A i : Contract!mayLand(i) => Contract!mayLand(i)'
    BY DEF Contract!mayLand
  <2>. QED
    BY <1>1, <1>2, <2>1 DEF LaneInv, Afloat
<1>8. Answered'
  BY <1>2 DEF LaneInv, Answered
<1>9. MarksCoverFlight'
  BY DEF LaneInv, MarksCoverFlight
<1>. QED
  BY <1>3, <1>4, <1>5, <1>6, <1>7, <1>8, <1>9 DEF LaneInv

LEMMA IndexerKeeps ==
  ASSUME LaneInv, IndexerCatchesUp
  PROVE  LaneInv'
<1>. USE DEF IndexerCatchesUp
<1>1. published' = published /\ afloat' = afloat /\ waiting' = waiting
  BY SamePublished, SameAfloat DEF waiting
<1>2. LaneTypes'
  BY DEF LaneInv, LaneTypes
<1>3. Phases' /\ Held' /\ Queued' /\ Building'
  BY <1>1 DEF LaneInv, Phases, Held, Queued, Building
<1>4. Afloat'
  <2>1. \A i : Contract!mayLand(i) => Contract!mayLand(i)'
    BY DEF Contract!mayLand
  <2>. QED
    BY <1>1, <2>1 DEF LaneInv, Afloat
<1>5. Answered'
  BY <1>1 DEF LaneInv, Answered
<1>6. MarksCoverFlight'
  BY DEF LaneInv, MarksCoverFlight
<1>. QED
  BY <1>2, <1>3, <1>4, <1>5, <1>6 DEF LaneInv

-----------------------------------------------------------------------------
(* Every step keeps the invariant *)

LEMMA LaneStep ==
  ASSUME LaneInv, [Next]_vars
  PROVE  LaneInv'
<1>1. ASSUME NEW i \in budget.intents, IntentArrives(i)
      PROVE  LaneInv'
  <2>1. i \in Intents
    <3>1. budget \in Budgets
      BY DEF LaneInv, LaneTypes
    <3>2. budget.intents \in SUBSET Intents
      BY <3>1, LaneParameters
    <3>. QED
      BY <1>1, <3>2
  <2>. QED
    BY <1>1, <2>1, AcceptKeeps
<1>2. ASSUME CoalescerAlone
      PROVE  LaneInv'
  <2>. HIDE DEF vars, coalescerVars, queueVars, cardanoVars
  <2>1. UNCHANGED <<queueVars, cardanoVars>>
    BY <1>2 DEF CoalescerAlone
  <2>2. CASE TimerFires
    BY <2>1, <2>2, TimerFiresKeeps
  <2>3. CASE ReportAged
    BY <2>1, <2>3, ReportAgedKeeps
  <2>4. CASE MarkInFlight
    BY <2>1, <2>4, MarkInFlightKeeps
  <2>5. CASE ReportResult
    BY <2>1, <2>5, ReportResultKeeps
  <2>6. CASE ClearMark
    BY <2>1, <2>6, ClearMarkKeeps
  <2>7. CASE RoundEnds
    BY <2>1, <2>7, RoundEndsKeeps
  <2>. QED
    BY <1>2, <2>2, <2>3, <2>4, <2>5, <2>6, <2>7 DEF CoalescerAlone
<1>3. ASSUME QueueStep
      PROVE  LaneInv'
  BY <1>3, EnqueueKeeps, DrainKeeps, RetryKeeps, ResolveKeeps DEF QueueStep
<1>4. ASSUME BridgeStep
      PROVE  LaneInv'
  BY <1>4, PrepareKeeps, FetchKeeps, BuildFailsKeeps, SubmitKeeps, SubmitStaleKeeps,
     ConfirmedKeeps, NeverConfirmedKeeps DEF BridgeStep
<1>5. ASSUME UNCHANGED vars
      PROVE  LaneInv'
  <2>1. Phases' /\ Held' /\ Afloat'
    BY <1>5, CoalescerUnchanged
  <2>2. published' = published /\ afloat' = afloat
    BY <1>5, SamePublished, SameAfloat
  <2>3. LaneTypes' /\ Queued' /\ Building' /\ MarksCoverFlight'
    BY ZenonT(60), <1>5 DEF LaneInv, LaneTypes, Queued, Building, MarksCoverFlight
  <2>4. Answered'
    BY <1>5, <2>2 DEF LaneInv, Answered
  <2>. QED
    BY <2>1, <2>3, <2>4 DEF LaneInv
<1>. HIDE DEF vars, coalescerVars, queueVars, cardanoVars
<1>. QED
  BY <1>1, <1>2, <1>3, <1>4, <1>5, TaskKeeps, LandKeeps, TopUpKeeps, EvictKeeps, IndexerKeeps
     DEF Next

\* The invariant holds in every reachable state.
THEOREM LaneIsSound == Spec => []LaneInv
<1>. HIDE DEF vars, coalescerVars, queueVars, cardanoVars
<1>. QED
  BY LaneInit, LaneStep, PTL DEF Spec

-----------------------------------------------------------------------------
(* What it shows *)

\* Batching, halving, retries and failures lose no request and repeat none:
\* what the lane holds is where submitChunk and the report loop find it again.
THEOREM NoRequestLost == Spec => []NothingLost
<1>1. LaneInv => NothingLost
  BY DEF LaneInv, Held, Phases, NothingLost, members
<1>. HIDE DEF vars, coalescerVars, queueVars, cardanoVars
<1>. QED
  BY <1>1, LaneIsSound, PTL

\* The in-flight tracker covers every pair from before its batch is queued
\* until after its result was reported.
THEOREM FlightIsMarked == Spec => []MarksCoverFlight
<1>1. LaneInv => MarksCoverFlight
  BY DEF LaneInv
<1>. HIDE DEF vars, coalescerVars, queueVars, cardanoVars
<1>. QED
  BY <1>1, LaneIsSound, PTL

-----------------------------------------------------------------------------
(* Every step is one of the contract *)

LEMMA ArrivalIsTaken ==
  ASSUME LaneInv, NEW i \in Intents, IntentArrives(i)
  PROVE  Contract!Take(i)
<1>. USE DEF IntentArrives, accept
<1>1. published' = published
  BY SamePublished
<1>2. ASSUME NEW k \in DOMAIN buffer, buffer[k].symbol = i.symbol
      PROVE  buffer[k] \in Contract!rivals(i)
  <2>1. buffer[k] \in Elements(buffer) /\ buffer[k] \in Intents
    BY DEF LaneInv, LaneTypes, Elements
  <2>2. buffer[k] \in waiting
    BY <2>1, WaitingIs
  <2>. QED
    BY <1>2, <2>1, <2>2 DEF LaneInv, Held, Contract!rivals
<1>. DEFINE slot == {k \in DOMAIN buffer : buffer[k].symbol = i.symbol}
<1>3. CASE status' = [status EXCEPT ![i] = "held"]
  BY <1>1, <1>3 DEF Contract!Take
<1>4. ASSUME NEW k \in slot, isNewer(i, buffer[k]),
             status' = [status EXCEPT ![i] = "held", ![buffer[k]] = "superseded"]
      PROVE  Contract!Take(i)
  <2>1. buffer[k] \in Contract!rivals(i)
    BY <1>2, <1>4
  <2>2. Contract!newer(i, buffer[k])
    BY <1>4 DEF Contract!newer, isNewer
  <2>. QED
    BY <1>1, <1>4, <2>1, <2>2 DEF Contract!Take
<1>5. ASSUME NEW k \in slot, ~isNewer(i, buffer[k]), status' = [status EXCEPT ![i] = "discarded"]
      PROVE  Contract!Take(i)
  <2>1. buffer[k] \in Contract!rivals(i)
    BY <1>2, <1>5
  <2>2. ~Contract!newer(i, buffer[k])
    BY <1>5 DEF Contract!newer, isNewer
  <2>. QED
    BY <1>1, <1>5, <2>1, <2>2 DEF Contract!Take
<1>6. \/ status' = [status EXCEPT ![i] = "held"]
      \/ \E k \in slot :
           /\ isNewer(i, buffer[k])
           /\ status' = [status EXCEPT ![i] = "held", ![buffer[k]] = "superseded"]
      \/ \E k \in slot :
           /\ ~isNewer(i, buffer[k])
           /\ status' = [status EXCEPT ![i] = "discarded"]
  OBVIOUS
<1>. HIDE DEF slot, IntentArrives, accept
<1>. QED
  BY <1>3, <1>4, <1>5, <1>6

LEMMA AgedIsAnswered ==
  ASSUME LaneInv, ReportAged, UNCHANGED <<queueVars, cardanoVars>>
  PROVE  Contract!Answer(Head(aged), "IntentAgedOut") /\ Head(aged) \in Intents
<1>1. aged \in Seq(Intents) /\ aged # <<>>
  BY DEF LaneInv, LaneTypes, ReportAged
<1>2. Head(aged) \in Intents /\ Head(aged) \in Elements(aged)
  BY <1>1, ElementsSplit
<1>3. Head(aged) \in waiting
  BY <1>2, WaitingIs
<1>4. status[Head(aged)] = "held"
  BY <1>2, <1>3 DEF LaneInv, Held
<1>5. published' = published
  BY SamePublished
<1>. QED
  BY <1>2, <1>4, <1>5 DEF Contract!Answer, ReportAged

LEMMA ResultIsAnswer ==
  ASSUME LaneInv, ReportResult, UNCHANGED <<queueVars, cardanoVars>>
  PROVE  /\ Contract!Answer(Head(Head(batches)), Head(results))
         /\ Head(Head(batches)) \in Intents /\ Head(results) \in Contract!Answers
<1>. DEFINE i == Head(Head(batches))
            code == Head(results)
<1>1. /\ i \in Intents /\ code \in Codes /\ status[i] = "held"
      /\ i = Head(batches)[1] /\ code = results[1] /\ 1 \in DOMAIN results
  BY FirstRequest DEF ReportResult
<1>2. code = "ok" => i \in published
  BY <1>1 DEF LaneInv, Answered
<1>3. published' = published
  BY SamePublished
<1>4. status' = [status EXCEPT ![i] = code]
  BY DEF ReportResult
<1>. HIDE DEF i, code
<1>5. code \in Contract!Answers
  BY <1>1 DEF Contract!Answers, Codes, Results, NON_RETRIABLE_CODES
<1>6. Contract!Answer(i, code)
  BY <1>1, <1>2, <1>3, <1>4 DEF Contract!Answer
<1>. QED
  BY <1>1, <1>5, <1>6 DEF i, code

LEMMA LandingIsPublished ==
  ASSUME LaneInv, Land
  PROVE  \E batch \in SUBSET Intents : Contract!Publish(batch)
<1>1. PICK tx \in mempool : published' = published \cup intentsOf(tx.updates)
  BY LandKeeps
<1>. DEFINE batch == intentsOf(tx.updates)
<1>2. batch \subseteq afloat
  BY DEF afloat
<1>. HIDE DEF batch
<1>3. batch \subseteq Intents
  BY <1>2, AfloatIntents
<1>4. \A i \in batch : Contract!mayLand(i)
  BY <1>2 DEF LaneInv, Afloat
<1>5. \A i, j \in batch : i.symbol = j.symbol => i = j
  BY DEF LaneInv, Afloat, batch
<1>6. UNCHANGED status
  BY DEF Land
<1>7. Contract!Publish(batch)
  BY <1>1, <1>4, <1>5, <1>6 DEF Contract!Publish, batch
<1>. QED
  BY <1>3, <1>7

LEMMA ContractStep ==
  ASSUME LaneInv, [Next]_vars
  PROVE  [Contract!Next]_<<status, published>>
<1>1. ASSUME NEW i \in budget.intents, IntentArrives(i)
      PROVE  Contract!Next
  <2>1. i \in Intents
    <3>1. budget \in Budgets
      BY DEF LaneInv, LaneTypes
    <3>2. budget.intents \in SUBSET Intents
      BY <3>1, LaneParameters
    <3>. QED
      BY <1>1, <3>2
  <2>2. Contract!Take(i)
    BY <1>1, <2>1, ArrivalIsTaken
  <2>. QED
    BY <2>1, <2>2 DEF Contract!Next
<1>2. ASSUME ReportAged, UNCHANGED <<queueVars, cardanoVars>>
      PROVE  Contract!Next
  <2>1. Contract!Answer(Head(aged), "IntentAgedOut") /\ Head(aged) \in Intents
    BY <1>2, AgedIsAnswered
  <2>2. "IntentAgedOut" \in Contract!Answers
    BY DEF Contract!Answers
  <2>. QED
    BY <2>1, <2>2 DEF Contract!Next
<1>3. ASSUME ReportResult, UNCHANGED <<queueVars, cardanoVars>>
      PROVE  Contract!Next
  <2>1. /\ Contract!Answer(Head(Head(batches)), Head(results))
        /\ Head(Head(batches)) \in Intents /\ Head(results) \in Contract!Answers
    BY <1>3, ResultIsAnswer
  <2>. QED
    BY <2>1 DEF Contract!Next
<1>4. ASSUME Land
      PROVE  Contract!Next
  BY <1>4, LandingIsPublished DEF Contract!Next
<1>5. ASSUME UNCHANGED <<status, chain>>
      PROVE  UNCHANGED <<status, published>>
  BY <1>5, SamePublished
<1>6. ASSUME CoalescerAlone
      PROVE  [Contract!Next]_<<status, published>>
  <2>1. UNCHANGED <<queueVars, cardanoVars>>
    BY <1>6 DEF CoalescerAlone
  <2>2. CASE TimerFires \/ MarkInFlight \/ ClearMark \/ RoundEnds
    <3>1. UNCHANGED status
      BY <2>2 DEF TimerFires, MarkInFlight, ClearMark, RoundEnds
    <3>. QED
      BY <1>5, <2>1, <3>1
  <2>. QED
    BY <1>2, <1>3, <1>6, <2>1, <2>2 DEF CoalescerAlone
<1>7. ASSUME QueueStep \/ BridgeStep \/ maybeAutoMergeDeposits \/ Evict \/ IndexerCatchesUp
      PROVE  UNCHANGED <<status, chain>>
  <2>1. ASSUME Resolve
        PROVE  UNCHANGED <<status, chain>>
    BY <2>1 DEF Resolve, ChunkAnswered
  <2>2. ASSUME enqueueBatch
        PROVE  UNCHANGED <<status, chain>>
    BY <2>2 DEF enqueueBatch, SubmitChunk
  <2>3. ASSUME drain \/ Retry \/ maybeAutoMergeDeposits \/ Evict \/ IndexerCatchesUp
        PROVE  UNCHANGED <<status, chain>>
    BY <2>3 DEF drain, Retry, maybeAutoMergeDeposits, Evict, IndexerCatchesUp
  <2>4. ASSUME BridgeStep
        PROVE  UNCHANGED <<status, chain>>
    BY <2>4 DEF BridgeStep, Prepare, Fetch, BuildFails, Submit, SubmitStale, Confirmed,
       NeverConfirmed
  <2>. QED
    BY <1>7, <2>1, <2>2, <2>3, <2>4 DEF QueueStep
<1>8. ASSUME TopUp
      PROVE  UNCHANGED <<status, published>>
  BY <1>8, TopUpKeeps DEF TopUp
<1>9. ASSUME UNCHANGED vars
      PROVE  UNCHANGED <<status, chain>>
  BY <1>9
<1>. HIDE DEF vars, coalescerVars, queueVars, cardanoVars
<1>. QED
  BY <1>1, <1>4, <1>5, <1>6, <1>7, <1>8, <1>9 DEF Next

LEMMA ContractInit ==
  ASSUME Init
  PROVE  Contract!Init
<1>1. published = {}
  BY DEF Init, published
<1>. QED
  BY <1>1 DEF Init, CoalescerInit, Contract!Init

\* The coalescer, the queue and the bridge implement the contract of a lane:
\* one answer for every intent, "ok" for a published one only, and nothing
\* published that was given up for another or for its age.
THEOREM LaneKeepsContract == Spec => KeepsContract
<1>. HIDE DEF vars, coalescerVars, queueVars, cardanoVars
<1>1. Init => Contract!Init
  BY ContractInit
<1>2. LaneInv /\ [Next]_vars => [Contract!Next]_<<status, published>>
  BY ContractStep
<1>. QED
  BY <1>1, <1>2, LaneIsSound, PTL DEF Spec, KeepsContract, Contract!Spec
=============================================================================
