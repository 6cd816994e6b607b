------------------------------ MODULE CliProofs ------------------------------
(***************************************************************************)
(* Proofs, for any clients, symbols, operators and scenarios, that no      *)
(* artifact leads the chain (RecordedWasLive) and that an operator who     *)
(* works alone has artifacts that mirror it (SoloFilesMirrorChain).        *)
(***************************************************************************)
EXTENDS CliProperties, TLAPS, FiniteSetTheorems, FunctionTheorems

-----------------------------------------------------------------------------
(* The invariant *)

(* The commands an operator runs or still means to run. *)
Ahead(o) ==
  IF sessions[o].at = "idle" THEN agenda[o]
  ELSE <<{sessions[o].cmd}>> \o agenda[o]
Queues == [o \in Operators |-> Ahead(o)]

AgendaSound ==
  /\ DOMAIN agenda = Operators
  /\ \A o \in Operators : agenda[o] \in Seq(ToSet(agenda[o]))
  /\ \A o \in Operators : \A i \in DOMAIN Ahead(o) : \A cmd \in Ahead(o)[i] : Command(cmd)
  /\ Ordered(Queues)

(* A transaction names its own outputs, never the wallet's change. *)
Tx(t) ==
  /\ IsFiniteSet(DOMAIN t.puts)
  /\ \A n \in DOMAIN t.puts : n[1] # "coin"

ChainSound ==
  /\ IsFiniteSet(DOMAIN utxo)
  /\ IsFiniteSet(adrift)
  /\ \A t \in adrift : Tx(t)

SessionSound(o) ==
  LET s == sessions[o]
  IN  /\ s = [at |-> s.at, cmd |-> s.cmd, seen |-> s.seen, txs |-> s.txs,
              awaits |-> s.awaits, writes |-> s.writes]
      /\ s.at \in {"idle", "ready", "sent", "landed"}
      /\ s.txs \in Seq(ToSet(s.txs)) /\ s.writes \in Seq(ToSet(s.writes))
      /\ s.at \in {"idle", "ready"} => s.writes = <<>>
      /\ s.at = "sent" <=> s.txs # <<>>
      /\ s.at = "sent" /\ s.writes # <<>> => Len(s.txs) = 1
      /\ \A i \in DOMAIN s.txs : s.txs[i] # None => Tx(s.txs[i])

(* What holds of a copy of a file, on disk or in somebody's hands. *)
CopySound(f, x, W, N) ==
  /\ Shaped(f, x) /\ Backed(f, x, W) /\ Consumed(f, x, N)
  /\ Burned(f, x) => NoneOffers(Queues, "receiver:parameterize", f[2])
Sound(f, x) == CopySound(f, x, was, DOMAIN utxo)
SoundAfter(f, x, t) ==
  CopySound(f, x, was \cup lived(t.puts), DOMAIN utxo \ DOMAIN t.spends)

FilesSound == DOMAIN files = Files /\ \A f \in Files : Sound(f, files[f])
SeenSound(o) ==
  sessions[o].at = "ready" => \A f \in Files : Sound(f, sessions[o].seen[f])
WritesSound(o) ==
  \A i \in DOMAIN sessions[o].writes :
    LET w == sessions[o].writes[i]
    IN  /\ w.file \in Files
        /\ sessions[o].at = "landed" => Sound(w.file, w.content)
        /\ sessions[o].at = "sent" /\ Head(sessions[o].txs) # None =>
             SoundAfter(w.file, w.content, Head(sessions[o].txs))

ArtifactsInv ==
  /\ AgendaSound /\ ChainSound /\ FilesSound
  /\ DOMAIN sessions = Operators
  /\ \A o \in Operators : SessionSound(o) /\ SeenSound(o) /\ WritesSound(o)

-----------------------------------------------------------------------------
(* Queues only advance *)

(* What an operator has before it after a step is what it had before it,   *)
(* without the first d choices, and with fewer commands to choose from.    *)
Advances(o, d) ==
  /\ (Ahead(o))' \in Seq(ToSet((Ahead(o))'))
  /\ \A i \in DOMAIN (Ahead(o))' :
       i + d \in DOMAIN Ahead(o) /\ (Ahead(o))'[i] \subseteq Ahead(o)[i + d]

LEMMA SeqOfItsElements ==
  ASSUME NEW S, NEW q \in Seq(S)
  PROVE  q \in Seq(ToSet(q)) /\ ToSet(q) \subseteq S
BY DEF ToSet

LEMMA SeqOfMore ==
  ASSUME NEW S, NEW T, S \subseteq T, NEW q \in Seq(S)
  PROVE  q \in Seq(T)
OBVIOUS

LEMMA AdvancedQueuesAreSound ==
  ASSUME AgendaSound, (DOMAIN agenda = Operators)',
         (\A o \in Operators : agenda[o] \in Seq(ToSet(agenda[o])))',
         \A o \in Operators : \E d \in {0, 1} : Advances(o, d)
  PROVE  /\ AgendaSound'
         /\ \A op, c : NoneOffers(Queues, op, c) => NoneOffers(Queues, op, c)'
<1>1. \A o \in Operators : (Ahead(o))' \in Seq(ToSet((Ahead(o))'))
  BY DEF Advances
<1>2. (\A o \in Operators : \A i \in DOMAIN Ahead(o) : \A cmd \in Ahead(o)[i] : Command(cmd))'
  BY DEF AgendaSound, Advances, Command
<1>3. Ordered(Queues)'
  <2>. SUFFICES ASSUME NEW c \in Clients, NEW o \in Operators, NEW q \in Operators,
                       NEW i \in DOMAIN (Ahead(o))', NEW j \in DOMAIN (Ahead(q))',
                       Offers((Ahead(o))', i, "receiver:burn", c),
                       Offers((Ahead(q))', j, "receiver:parameterize", c)
                PROVE  o = q /\ j < i
    BY DEF Ordered, Queues
  <2>1. PICK d \in {0, 1} : Advances(o, d)
    OBVIOUS
  <2>2. PICK e \in {0, 1} : Advances(q, e) /\ (o = q => e = d)
    BY <2>1
  <2>3. /\ i + d \in DOMAIN Ahead(o) /\ Offers(Ahead(o), i + d, "receiver:burn", c)
        /\ j + e \in DOMAIN Ahead(q) /\ Offers(Ahead(q), j + e, "receiver:parameterize", c)
    BY <2>1, <2>2 DEF Advances, Offers
  <2>4. o = q /\ j + e < i + d
    BY <2>3 DEF AgendaSound, Ordered, Queues
  <2>5. i \in Int /\ j \in Int
    BY <1>1
  <2>. QED
    BY <2>2, <2>4, <2>5
<1>4. ASSUME NEW op, NEW c, NoneOffers(Queues, op, c)
      PROVE  NoneOffers(Queues, op, c)'
  BY <1>4 DEF NoneOffers, Offers, Queues, Advances
<1>. QED
  BY <1>2, <1>3, <1>4 DEF AgendaSound

(* While the command runs, nothing in its queue changes; when it ends, it  *)
(* leaves the queue.                                                       *)
LEMMA RunningKeepsQueue ==
  ASSUME NEW o \in Operators, agenda[o] \in Seq(ToSet(agenda[o])),
         agenda'[o] = agenda[o], sessions[o].at # "idle",
         sessions'[o].at = "idle"
           \/ (sessions'[o].at # "idle" /\ sessions'[o].cmd = sessions[o].cmd)
  PROVE  \E d \in {0, 1} : Advances(o, d)
<1>1. CASE sessions'[o].at = "idle"
  <2>1. (Ahead(o))' = agenda[o] /\ Ahead(o) = <<{sessions[o].cmd}>> \o agenda[o]
    BY <1>1 DEF Ahead
  <2>2. Advances(o, 1)
    BY <2>1 DEF Advances
  <2>. QED
    BY <2>2
<1>2. CASE sessions'[o].at # "idle" /\ sessions'[o].cmd = sessions[o].cmd
  <2>1. (Ahead(o))' = Ahead(o) /\ Ahead(o) = <<{sessions[o].cmd}>> \o agenda[o]
    BY <1>2 DEF Ahead
  <2>2. Ahead(o) \in Seq(ToSet(Ahead(o)))
    <3>. DEFINE S == ToSet(agenda[o]) \cup {{sessions[o].cmd}}
    <3>1. agenda[o] \in Seq(S)
      BY SeqOfMore
    <3>2. <<{sessions[o].cmd}>> \in Seq(S)
      OBVIOUS
    <3>3. Ahead(o) \in Seq(S)
      BY <2>1, <3>1, <3>2
    <3>. QED
      BY <3>3, SeqOfItsElements
  <2>3. Advances(o, 0)
    BY <2>1, <2>2 DEF Advances
  <2>. QED
    BY <2>3
<1>. QED
  BY <1>1, <1>2

LEMMA IdleKeepsQueue ==
  ASSUME NEW o \in Operators, agenda[o] \in Seq(ToSet(agenda[o])),
         agenda'[o] = agenda[o], sessions'[o].at = sessions[o].at,
         sessions'[o].cmd = sessions[o].cmd
  PROVE  \E d \in {0, 1} : Advances(o, d)
<1>1. CASE sessions[o].at = "idle"
  <2>1. (Ahead(o))' = agenda[o] /\ Ahead(o) = agenda[o]
    BY <1>1 DEF Ahead
  <2>2. Advances(o, 0)
    BY <2>1 DEF Advances
  <2>. QED
    BY <2>2
<1>. QED
  BY <1>1, RunningKeepsQueue

-----------------------------------------------------------------------------
(* Fresh names *)

LEMMA FiniteCup == \A S, T : IsFiniteSet(S) /\ IsFiniteSet(T) => IsFiniteSet(S \cup T)
BY FS_Union

LEMMA FiniteOne == \A x : IsFiniteSet({x})
BY FS_Singleton

LEMMA FiniteUnion ==
  ASSUME NEW F, IsFiniteSet(DOMAIN F), \A x \in DOMAIN F : IsFiniteSet(F[x])
  PROVE  IsFiniteSet(UNION {F[x] : x \in DOMAIN F})
<1>. DEFINE image == {F[x] : x \in DOMAIN F}
            each == [x \in DOMAIN F |-> F[x]]
<1>1. each \in Surjection(DOMAIN F, image)
  BY DEF Surjection
<1>2. IsFiniteSet(image)
  BY <1>1, FS_Surjection
<1>3. \A T \in image : IsFiniteSet(T)
  OBVIOUS
<1>. HIDE DEF image
<1>4. IsFiniteSet(UNION image)
  BY <1>2, <1>3, FS_UNION
<1>. QED
  BY <1>4 DEF image

LEMMA RefsAreFinite ==
  ASSUME NEW f, NEW x
  PROVE  IsFiniteSet(refsIn(f, x))
<1>. DEFINE p == {x.configRef} \cup ({x.hookRef} \cup ({Script("config", x.scripts.config)}
                    \cup {Script("hook", x.scripts.hook)}))
            c == {x.ref} \cup {Script(f[2], x.script)}
<1>1. IsFiniteSet(p) /\ IsFiniteSet(c) /\ IsFiniteSet({})
  BY FiniteOne, FiniteCup, FS_EmptySet
<1>2. refsIn(f, x) = {} \/ refsIn(f, x) = p \/ refsIn(f, x) = c
  BY DEF refsIn
<1>. QED
  BY <1>1, <1>2

LEMMA FilesAreFinite == IsFiniteSet(Files)
<1>. DEFINE clientFile == [c \in Clients |-> {Client(c)}]
            pairFile(c) == [s \in Symbols |-> {Pair(c, s)}]
            pairsOf == [c \in Clients |-> UNION {pairFile(c)[s] : s \in DOMAIN pairFile(c)}]
<1>1. IsFiniteSet(Clients) /\ IsFiniteSet(Symbols)
  BY CliParameters
<1>2. IsFiniteSet(UNION {clientFile[c] : c \in DOMAIN clientFile})
  <2>1. DOMAIN clientFile = Clients /\ \A c \in Clients : IsFiniteSet(clientFile[c])
    BY FiniteOne
  <2>. HIDE DEF clientFile
  <2>. QED
    BY <1>1, <2>1, FiniteUnion
<1>3. \A c \in Clients : IsFiniteSet(UNION {pairFile(c)[s] : s \in DOMAIN pairFile(c)})
  <2>. TAKE c \in Clients
  <2>. DEFINE F == pairFile(c)
  <2>1. DOMAIN F = Symbols /\ \A s \in Symbols : IsFiniteSet(F[s])
    BY FiniteOne
  <2>2. IsFiniteSet(UNION {F[s] : s \in DOMAIN F})
    <3>. HIDE DEF F
    <3>. QED
      BY <1>1, <2>1, FiniteUnion
  <2>. QED
    BY <2>2
<1>4. IsFiniteSet(UNION {pairsOf[c] : c \in DOMAIN pairsOf})
  <2>1. DOMAIN pairsOf = Clients /\ \A c \in Clients : IsFiniteSet(pairsOf[c])
    BY <1>3
  <2>. HIDE DEF pairsOf
  <2>. QED
    BY <1>1, <2>1, FiniteUnion
<1>5. IsFiniteSet({Protocol} \cup {Recovered})
  BY FiniteOne, FiniteCup
<1>6. UNION {clientFile[c] : c \in DOMAIN clientFile} = {Client(c) : c \in Clients}
  OBVIOUS
<1>7. UNION {pairsOf[c] : c \in DOMAIN pairsOf} = {Pair(c, s) : c \in Clients, s \in Symbols}
  <2>1. \A c \in Clients : pairsOf[c] = {Pair(c, s) : s \in Symbols}
    OBVIOUS
  <2>2. DOMAIN pairsOf = Clients
    OBVIOUS
  <2>. HIDE DEF pairsOf
  <2>. QED
    BY <2>1, <2>2
<1>8. IsFiniteSet({Client(c) : c \in Clients} \cup {Pair(c, s) : c \in Clients, s \in Symbols})
  BY <1>2, <1>4, <1>6, <1>7, FiniteCup
<1>9. Files = ({Protocol} \cup {Recovered})
               \cup ({Client(c) : c \in Clients} \cup {Pair(c, s) : c \in Clients, s \in Symbols})
  BY DEF Files
<1>. QED
  BY <1>5, <1>8, <1>9, FiniteCup

LEMMA DirectoryRefsAreFinite ==
  ASSUME NEW directory
  PROVE  IsFiniteSet(refsOf(directory))
<1>. DEFINE F == [f \in Files |-> refsIn(f, directory[f])]
<1>1. DOMAIN F = Files /\ \A f \in Files : IsFiniteSet(F[f])
  BY RefsAreFinite
<1>2. refsOf(directory) = UNION {F[f] : f \in DOMAIN F}
  BY DEF refsOf
<1>. HIDE DEF F
<1>. QED
  BY <1>1, <1>2, FilesAreFinite, FiniteUnion

LEMMA RangeIsFinite ==
  ASSUME NEW S, NEW q \in Seq(S)
  PROVE  IsFiniteSet(ToSet(q))
<1>1. q \in Surjection(1 .. Len(q), ToSet(q))
  BY DEF Surjection, ToSet
<1>. QED
  BY <1>1, FS_Surjection, FS_Interval

LEMMA PendingIsFinite ==
  ASSUME ArtifactsInv
  PROVE  IsFiniteSet(pending) /\ \A t \in pending : Tx(t)
<1>. DEFINE F == [o \in Operators |-> ToSet(sessions[o].txs) \ {None}]
<1>1. DOMAIN F = Operators /\ IsFiniteSet(Operators)
  BY CliParameters
<1>2. \A o \in Operators : IsFiniteSet(F[o])
  <2>1. \A o \in Operators : IsFiniteSet(ToSet(sessions[o].txs))
    BY RangeIsFinite DEF ArtifactsInv, SessionSound
  <2>. QED
    BY <2>1, FS_Difference
<1>3. UNION {F[o] : o \in DOMAIN F} = UNION {ToSet(sessions[o].txs) \ {None} : o \in Operators}
  OBVIOUS
<1>4. IsFiniteSet(UNION {F[o] : o \in DOMAIN F})
  <2>. HIDE DEF F
  <2>. QED
    BY <1>1, <1>2, FiniteUnion
<1>5. IsFiniteSet(pending)
  BY <1>3, <1>4, FiniteCup DEF pending, ArtifactsInv, ChainSound
<1>6. ASSUME NEW t \in pending
      PROVE  Tx(t)
  <2>1. CASE t \in adrift
    BY <2>1 DEF ArtifactsInv, ChainSound
  <2>2. CASE \E o \in Operators : t \in ToSet(sessions[o].txs) \ {None}
    <3>1. PICK o \in Operators : t \in ToSet(sessions[o].txs) /\ t # None
      BY <2>2
    <3>2. PICK i \in DOMAIN sessions[o].txs : t = sessions[o].txs[i]
      BY <3>1 DEF ToSet
    <3>. QED
      BY <3>1, <3>2 DEF ArtifactsInv, SessionSound
  <2>. QED
    BY <2>1, <2>2 DEF pending
<1>. QED
  BY <1>5, <1>6

LEMMA RecordedIsFinite ==
  ASSUME ArtifactsInv
  PROVE  IsFiniteSet(recorded)
<1>1. IsFiniteSet(Operators)
  BY CliParameters
<1>2. IsFiniteSet(UNION {refsOf(sessions[o].seen) : o \in reading})
  <2>. DEFINE F == [o \in reading |-> refsOf(sessions[o].seen)]
  <2>1. DOMAIN F = reading /\ IsFiniteSet(reading)
    BY <1>1, FS_Subset DEF reading
  <2>2. \A o \in reading : IsFiniteSet(F[o])
    BY DirectoryRefsAreFinite
  <2>3. UNION {F[o] : o \in DOMAIN F} = UNION {refsOf(sessions[o].seen) : o \in reading}
    OBVIOUS
  <2>. HIDE DEF F
  <2>. QED
    BY <2>1, <2>2, <2>3, FiniteUnion
<1>3. IsFiniteSet(writing)
  <2>. DEFINE F == [o \in Operators |-> ToSet(sessions[o].writes)]
  <2>1. \A o \in Operators : IsFiniteSet(F[o])
    BY RangeIsFinite DEF ArtifactsInv, SessionSound
  <2>2. UNION {F[o] : o \in DOMAIN F} = writing /\ DOMAIN F = Operators
    BY DEF writing
  <2>. HIDE DEF F
  <2>. QED
    BY <1>1, <2>1, <2>2, FiniteUnion
<1>4. IsFiniteSet(UNION {refsIn(w.file, w.content) : w \in writing})
  <2>. DEFINE F == [w \in writing |-> refsIn(w.file, w.content)]
  <2>1. \A w \in writing : IsFiniteSet(F[w])
    BY RefsAreFinite
  <2>2. /\ UNION {F[w] : w \in DOMAIN F} = UNION {refsIn(w.file, w.content) : w \in writing}
        /\ DOMAIN F = writing
    OBVIOUS
  <2>. HIDE DEF F
  <2>. QED
    BY <1>3, <2>1, <2>2, FiniteUnion
<1>5. IsFiniteSet(refsOf(files))
  BY DirectoryRefsAreFinite
<1>6. IsFiniteSet(refsOf(files) \cup UNION {refsOf(sessions[o].seen) : o \in reading})
  BY <1>2, <1>5, FiniteCup
<1>. DEFINE held == refsOf(files) \cup UNION {refsOf(sessions[o].seen) : o \in reading}
            written == UNION {refsIn(w.file, w.content) : w \in writing}
<1>7. recorded = held \cup written
  BY DEF recorded
<1>. HIDE DEF held, written
<1>8. IsFiniteSet(held) /\ IsFiniteSet(written)
  BY <1>4, <1>6 DEF held, written
<1>. QED
  BY <1>7, <1>8, FiniteCup

LEMMA TakenIsFinite ==
  ASSUME ArtifactsInv
  PROVE  IsFiniteSet(taken)
<1>1. IsFiniteSet(UNION {DOMAIN t.puts : t \in pending})
  <2>. DEFINE F == [t \in pending |-> DOMAIN t.puts]
  <2>1. DOMAIN F = pending /\ \A t \in pending : IsFiniteSet(F[t])
    BY PendingIsFinite DEF Tx
  <2>2. UNION {F[t] : t \in DOMAIN F} = UNION {DOMAIN t.puts : t \in pending}
    OBVIOUS
  <2>. HIDE DEF F
  <2>. QED
    BY <2>1, <2>2, PendingIsFinite, FiniteUnion
<1>2. IsFiniteSet(DOMAIN utxo)
  BY DEF ArtifactsInv, ChainSound
<1>. QED
  BY <1>1, <1>2, RecordedIsFinite, FiniteCup DEF taken

(* More candidates than names taken: one is free. *)
LEMMA SomeNameIsFree ==
  ASSUME IsFiniteSet(taken), NEW name,
         \A j, k \in numbers : name[j] = name[k] => j = k
  PROVE  \E k \in numbers : name[k] \notin taken
<1>. SUFFICES ASSUME \A k \in numbers : name[k] \in taken
              PROVE  FALSE
  OBVIOUS
<1>. DEFINE f == [k \in numbers |-> name[k]]
<1>1. Cardinality(taken) \in Nat
  BY FS_CardinalityType
<1>2. IsFiniteSet(numbers) /\ Cardinality(numbers) = Cardinality(taken) + 1
  BY <1>1, FS_Interval DEF numbers
<1>3. f \in [numbers -> taken]
  OBVIOUS
<1>4. PICK j, k \in numbers : j # k /\ f[j] = f[k]
  <2>1. Cardinality(taken) < Cardinality(numbers)
    BY <1>1, <1>2
  <2>. HIDE DEF f
  <2>. QED
    BY <1>2, <1>3, <2>1, FS_PigeonHole
<1>. QED
  BY <1>4

LEMMA FreshNames ==
  ASSUME IsFiniteSet(taken), NEW c, NEW s
  PROVE  /\ newCoin \notin taken /\ newCoin[1] = "coin"
         /\ newCopy(c, s) \notin taken /\ \E k \in numbers : newCopy(c, s) = Copy(c, s, k)
         /\ \E k \in numbers : newDeposit(c) = Deposit(c, k)
         /\ \E k \in numbers : newScript(c) = Script(c, k)
<1>1. newCoin \notin taken /\ newCoin[1] = "coin"
  <2>. DEFINE name == [k \in numbers |-> Coin(k)]
  <2>1. \A j, k \in numbers : name[j] = name[k] => j = k
    BY DEF Coin
  <2>2. \E k \in numbers : name[k] \notin taken
    <3>. HIDE DEF name
    <3>. QED
      BY <2>1, SomeNameIsFree
  <2>3. \E n \in {Coin(k) : k \in numbers} : n \notin taken
    BY <2>2
  <2>4. newCoin \in {Coin(k) : k \in numbers} /\ newCoin \notin taken
    BY <2>3 DEF newCoin, fresh
  <2>. QED
    BY <2>4 DEF Coin
<1>2. newCopy(c, s) \notin taken /\ \E k \in numbers : newCopy(c, s) = Copy(c, s, k)
  <2>. DEFINE name == [k \in numbers |-> Copy(c, s, k)]
  <2>1. \A j, k \in numbers : name[j] = name[k] => j = k
    BY DEF Copy
  <2>2. \E k \in numbers : name[k] \notin taken
    <3>. HIDE DEF name
    <3>. QED
      BY <2>1, SomeNameIsFree
  <2>3. \E n \in {Copy(c, s, k) : k \in numbers} : n \notin taken
    BY <2>2
  <2>. QED
    BY <2>3 DEF newCopy, fresh
<1>3. \E k \in numbers : newDeposit(c) = Deposit(c, k)
  <2>. DEFINE name == [k \in numbers |-> Deposit(c, k)]
  <2>1. \A j, k \in numbers : name[j] = name[k] => j = k
    BY DEF Deposit
  <2>2. \E k \in numbers : name[k] \notin taken
    <3>. HIDE DEF name
    <3>. QED
      BY <2>1, SomeNameIsFree
  <2>. QED
    BY <2>2 DEF newDeposit, fresh
<1>4. \E k \in numbers : newScript(c) = Script(c, k)
  <2>. DEFINE name == [k \in numbers |-> Script(c, k)]
  <2>1. \A j, k \in numbers : name[j] = name[k] => j = k
    BY DEF Script
  <2>2. \E k \in numbers : name[k] \notin taken
    <3>. HIDE DEF name
    <3>. QED
      BY <2>1, SomeNameIsFree
  <2>. QED
    BY <2>2 DEF newScript, fresh
<1>. QED
  BY <1>1, <1>2, <1>3, <1>4

-----------------------------------------------------------------------------
(* What soundness means for each kind of file *)

ProtocolBorne(x, W, N) ==
  x # None =>
    /\ DOMAIN x = {"config", "configRef", "hook", "hookRef", "scripts", "done"}
    /\ "config" \in x.done => <<Config, x.config>> \in W
    /\ "hook" \in x.done =>
         gone(x.hookRef, N) /\ (x.hook # None => <<Hook, x.hook>> \in W)

ClientBorne(c, x, W, N) ==
  x # None =>
    /\ DOMAIN x = {"ref", "state", "script", "done"}
    /\ "receiver" \in x.done /\ x.ref # None =>
         gone(x.ref, N) /\ <<Receiver(c), x.state>> \in W
    /\ "receiver" \in x.done /\ x.ref = None =>
         NoneOffers(Queues, "receiver:parameterize", c)

LEMMA FilesByKind ==
  ASSUME NEW x, NEW W, NEW N
  PROVE  /\ CopySound(Protocol, x, W, N) <=> ProtocolBorne(x, W, N)
         /\ CopySound(Recovered, x, W, N)
         /\ \A c \in Clients : CopySound(Client(c), x, W, N) <=> ClientBorne(c, x, W, N)
         /\ \A c \in Clients, s \in Symbols :
              CopySound(Pair(c, s), x, W, N) <=> (x # None => <<Pair(c, s), x>> \in W)
<1>1. CopySound(Protocol, x, W, N) <=> ProtocolBorne(x, W, N)
  <2>1. Protocol[1] = "protocol"
    BY DEF Protocol
  <2>. QED
    BY <2>1 DEF CopySound, Shaped, Backed, Consumed, Burned, ProtocolBorne
<1>2. CopySound(Recovered, x, W, N)
  <2>1. Recovered # Protocol /\ Recovered[1] = "recovered"
    BY DEF Recovered, Protocol
  <2>. QED
    BY <2>1 DEF CopySound, Shaped, Backed, Consumed, Burned
<1>3. ASSUME NEW c \in Clients
      PROVE  CopySound(Client(c), x, W, N) <=> ClientBorne(c, x, W, N)
  <2>1. Client(c) # Protocol /\ Client(c)[1] = "client" /\ Client(c)[2] = c
    BY DEF Client, Protocol
  <2>. QED
    BY <2>1 DEF CopySound, Shaped, Backed, Consumed, Burned, ClientBorne
<1>4. ASSUME NEW c \in Clients, NEW s \in Symbols
      PROVE  CopySound(Pair(c, s), x, W, N) <=> (x # None => <<Pair(c, s), x>> \in W)
  <2>1. Pair(c, s) # Protocol /\ Pair(c, s)[1] = "pair"
    BY DEF Pair, Protocol
  <2>. QED
    BY <2>1 DEF CopySound, Shaped, Backed, Consumed, Burned
<1>. QED
  BY <1>1, <1>2, <1>3, <1>4

LEMMA FilesOfKinds ==
  /\ Protocol \in Files /\ Recovered \in Files
  /\ \A c \in Clients : Client(c) \in Files
  /\ \A c \in Clients, s \in Symbols : Pair(c, s) \in Files
BY DEF Files

LEMMA PutsLive ==
  ASSUME NEW puts, NEW n \in DOMAIN puts, n[1] \in {"config", "hook", "receiver", "pair"}
  PROVE  <<stateOf(n), puts[n]>> \in lived(puts)
BY DEF lived

LEMMA StatesOfKinds ==
  /\ stateOf(Config) = Config /\ Config[1] = "config"
  /\ stateOf(Hook) = Hook /\ Hook[1] = "hook"
  /\ \A c : /\ stateOf(Receiver(c)) = Receiver(c) /\ Receiver(c)[1] = "receiver"
            /\ Receiver(c)[2] = c
  /\ \A c, s, k : Copy(c, s, k)[1] = "pair" /\ stateOf(Copy(c, s, k)) = Pair(c, s)
  /\ \A c, s : \A n \in copies(c, s) : n[1] = "pair" /\ stateOf(n) = Pair(c, s) /\ n[3] = s
BY DEF stateOf, Config, Hook, Receiver, Copy, Pair, copies

-----------------------------------------------------------------------------
(* Sound plans *)

Held(seen) == \A f \in Files : Sound(f, seen[f])

PlanSound(p) ==
  /\ p.txs \in Seq(ToSet(p.txs)) /\ p.writes \in Seq(ToSet(p.writes))
  /\ p.writes # <<>> => Len(p.txs) <= 1
  /\ \A i \in DOMAIN p.txs :
       /\ Tx(p.txs[i])
       /\ p.txs[i] = transaction(p.txs[i].spends, p.txs[i].refs, p.txs[i].puts)
  /\ \A i \in DOMAIN p.writes :
       LET w == p.writes[i]
       IN  /\ w.file \in Files
           /\ IF p.txs = <<>> THEN Sound(w.file, w.content)
              ELSE SoundAfter(w.file, w.content, p.txs[1])

LEMMA HeldFiles ==
  ASSUME NEW seen, Held(seen)
  PROVE  /\ ProtocolBorne(seen[Protocol], was, DOMAIN utxo)
         /\ \A c \in Clients : ClientBorne(c, seen[Client(c)], was, DOMAIN utxo)
         /\ \A c \in Clients, s \in Symbols :
              seen[Pair(c, s)] # None => <<Pair(c, s), seen[Pair(c, s)]>> \in was
<1>1. ProtocolBorne(seen[Protocol], was, DOMAIN utxo)
  BY FilesByKind, FilesOfKinds DEF Held, Sound
<1>2. \A c \in Clients : ClientBorne(c, seen[Client(c)], was, DOMAIN utxo)
  BY FilesByKind, FilesOfKinds DEF Held, Sound
<1>3. \A c \in Clients, s \in Symbols :
        seen[Pair(c, s)] # None => <<Pair(c, s), seen[Pair(c, s)]>> \in was
  BY FilesByKind, FilesOfKinds DEF Held, Sound
<1>. QED
  BY <1>1, <1>2, <1>3

LEMMA PaperPlan ==
  ASSUME NEW p, NEW file \in Files, NEW content, Sound(file, content),
         p = [txs |-> <<>>, writes |-> <<write(file, content)>>]
  PROVE  PlanSound(p)
<1>1. p.writes \in Seq({write(file, content)}) /\ p.txs \in Seq({})
  OBVIOUS
<1>2. p.writes \in Seq(ToSet(p.writes)) /\ p.txs \in Seq(ToSet(p.txs))
  BY <1>1, SeqOfItsElements
<1>. QED
  BY <1>2 DEF PlanSound, write

LEMMA PlanOfOne ==
  ASSUME NEW p, NEW spends, NEW refs, NEW puts, NEW ws, ws \in Seq(ToSet(ws)),
         p = [txs |-> <<transaction(spends, refs, puts)>>, writes |-> ws],
         Tx(transaction(spends, refs, puts)),
         \A i \in DOMAIN ws :
            /\ ws[i].file \in Files
            /\ SoundAfter(ws[i].file, ws[i].content, transaction(spends, refs, puts))
  PROVE  PlanSound(p)
<1>. DEFINE t == transaction(spends, refs, puts)
<1>1. t = transaction(t.spends, t.refs, t.puts)
  BY DEF transaction
<1>. HIDE DEF t
<1>2. p.txs = <<t>> /\ p.writes = ws
  BY DEF t
<1>3. p.txs \in Seq({t})
  BY <1>2
<1>4. Len(p.txs) = 1 /\ DOMAIN p.txs = {1} /\ p.txs[1] = t
  BY <1>2
<1>5. p.txs \in Seq(ToSet(p.txs))
  BY <1>3, SeqOfItsElements
<1>6. Tx(t) /\ \A i \in DOMAIN ws : ws[i].file \in Files /\ SoundAfter(ws[i].file, ws[i].content, t)
  BY DEF t
<1>7. p.txs # <<>>
  BY <1>2
<1>. QED
  BY <1>1, <1>2, <1>4, <1>6, <1>7, <1>5 DEF PlanSound

LEMMA OneStepPlan ==
  ASSUME NEW p, NEW spends, NEW refs, NEW puts, NEW file \in Files, NEW content,
         p = [txs |-> <<transaction(spends, refs, puts)>>, writes |-> <<write(file, content)>>],
         Tx(transaction(spends, refs, puts)),
         CopySound(file, content, was \cup lived(puts), DOMAIN utxo \ DOMAIN spends)
  PROVE  PlanSound(p)
<1>. DEFINE ws == <<write(file, content)>>
<1>1. ws \in Seq({write(file, content)})
  OBVIOUS
<1>2. DOMAIN ws = {1} /\ ws[1].file = file /\ ws[1].content = content
  BY DEF write
<1>3. ws \in Seq(ToSet(ws))
  BY <1>1, SeqOfItsElements
<1>4. SoundAfter(file, content, transaction(spends, refs, puts))
  BY DEF SoundAfter, transaction
<1>. HIDE DEF ws
<1>5. \A i \in DOMAIN ws :
        /\ ws[i].file \in Files
        /\ SoundAfter(ws[i].file, ws[i].content, transaction(spends, refs, puts))
  BY <1>2, <1>4
<1>6. p = [txs |-> <<transaction(spends, refs, puts)>>, writes |-> ws]
  BY DEF ws
<1>. QED
  BY <1>5, <1>6, <1>3, PlanOfOne

LEMMA FilelessPlan ==
  ASSUME NEW p, NEW spends, NEW refs, NEW puts,
         p = [txs |-> <<transaction(spends, refs, puts)>>, writes |-> <<>>],
         Tx(transaction(spends, refs, puts))
  PROVE  PlanSound(p)
<1>. DEFINE ws == <<>>
<1>1. ws \in Seq({})
  OBVIOUS
<1>2. ws \in Seq(ToSet(ws)) /\ DOMAIN ws = {}
  BY <1>1, SeqOfItsElements
<1>3. p = [txs |-> <<transaction(spends, refs, puts)>>, writes |-> ws]
  OBVIOUS
<1>. HIDE DEF ws
<1>. QED
  BY <1>2, <1>3, PlanOfOne

LEMMA SmallPuts ==
  ASSUME NEW spends, NEW refs
  PROVE  /\ Tx(transaction(spends, refs, nothing))
         /\ \A n, x : n[1] # "coin" => Tx(transaction(spends, refs, one(n, x)))
         /\ \A m, n, x, y :
              m[1] # "coin" /\ n[1] # "coin" =>
                Tx(transaction(spends, refs, beside(one(m, x), one(n, y))))
<1>1. Tx(transaction(spends, refs, nothing))
  BY FS_EmptySet DEF Tx, transaction, nothing
<1>2. ASSUME NEW n, NEW x, n[1] # "coin"
      PROVE  Tx(transaction(spends, refs, one(n, x)))
  BY <1>2, FiniteOne DEF Tx, transaction, one
<1>3. ASSUME NEW m, NEW n, NEW x, NEW y, m[1] # "coin", n[1] # "coin"
      PROVE  Tx(transaction(spends, refs, beside(one(m, x), one(n, y))))
  <2>1. DOMAIN beside(one(m, x), one(n, y)) = {m} \cup {n}
    BY DEF beside, one
  <2>2. IsFiniteSet({m} \cup {n})
    BY FiniteOne, FiniteCup
  <2>. QED
    BY <1>3, <2>1, <2>2 DEF Tx, transaction
<1>. QED
  BY <1>1, <1>2, <1>3

-----------------------------------------------------------------------------
(* The plans of the commands that deploy are sound *)

LEMMA ProtocolInitIsSound ==
  ASSUME NEW seen, NEW cmd, NEW p \in protocolInit(seen, cmd)
  PROVE  PlanSound(p)
<1>. DEFINE next == [config |-> DraftConfig, configRef |-> None, hook |-> None,
                     hookRef |-> None, scripts |-> [config |-> 0, hook |-> 0], done |-> {}]
<1>1. p = [txs |-> <<>>, writes |-> <<write(Protocol, next)>>]
  BY DEF protocolInit, plan
<1>2. ProtocolBorne(next, was, DOMAIN utxo)
  BY DEF ProtocolBorne
<1>. HIDE DEF next
<1>. QED
  BY <1>1, <1>2, FilesByKind, FilesOfKinds, PaperPlan DEF Sound

LEMMA ClientInitIsSound ==
  ASSUME NEW seen, NEW cmd, cmd.client \in Clients, NEW p \in clientInit(seen, cmd)
  PROVE  PlanSound(p)
<1>. DEFINE next == [ref |-> None, state |-> None, script |-> 0, done |-> {}]
<1>1. p = [txs |-> <<>>, writes |-> <<write(Client(cmd.client), next)>>]
  BY DEF clientInit, plan
<1>2. ClientBorne(cmd.client, next, was, DOMAIN utxo)
  BY DEF ClientBorne
<1>. HIDE DEF next
<1>. QED
  BY <1>1, <1>2, FilesByKind, FilesOfKinds, PaperPlan DEF Sound

LEMMA ConfigParameterizeIsSound ==
  ASSUME NEW seen, NEW cmd, Held(seen), NEW p \in configParameterize(seen, cmd)
  PROVE  PlanSound(p)
<1>. DEFINE old == seen[Protocol]
            next(coin) == [old EXCEPT !.configRef = coin, !.done = {},
                                      !.config = configDraft(old)]
<1>1. PICK coin : old # None /\ p = [txs |-> <<>>, writes |-> <<write(Protocol, next(coin))>>]
  BY DEF configParameterize, plan
<1>2. ProtocolBorne(next(coin), was, DOMAIN utxo)
  BY <1>1, HeldFiles DEF ProtocolBorne
<1>. HIDE DEF next
<1>. QED
  BY <1>1, <1>2, FilesByKind, FilesOfKinds, PaperPlan DEF Sound

(* A PaymentHook that is deployed has consumed the coin its file names.    *)
LEMMA HookParameterizeIsSound ==
  ASSUME NEW seen, NEW cmd, Held(seen), NEW p \in hookParameterize(seen, cmd)
  PROVE  PlanSound(p)
<1>. DEFINE old == seen[Protocol]
            next(coin) == [old EXCEPT !.hookRef = coin, !.hook = hookDraft(old)]
<1>1. PICK coin \in bootstrapChoices(old.hookRef, {old.configRef}) :
        old # None /\ p = [txs |-> <<>>, writes |-> <<write(Protocol, next(coin))>>]
  BY DEF hookParameterize, plan
<1>2. "hook" \notin old.done
  BY <1>1, HeldFiles DEF ProtocolBorne, gone, bootstrapChoices, coins
<1>3. ProtocolBorne(next(coin), was, DOMAIN utxo)
  BY <1>1, <1>2, HeldFiles DEF ProtocolBorne
<1>. HIDE DEF next
<1>. QED
  BY <1>1, <1>3, FilesByKind, FilesOfKinds, PaperPlan DEF Sound

(* Nor has anybody burned a receiver that is still to be parameterized.    *)
LEMMA ReceiverParameterizeIsSound ==
  ASSUME NEW seen, NEW cmd, Held(seen), cmd.client \in Clients,
         ~NoneOffers(Queues, "receiver:parameterize", cmd.client),
         NEW p \in receiverParameterize(seen, cmd)
  PROVE  PlanSound(p)
<1>. DEFINE c == cmd.client
            old == seen[Client(c)]
            reserved == {seen[Protocol].configRef, seen[Protocol].hookRef}
            next(coin) == [old EXCEPT !.ref = coin, !.state = receiverDraft]
<1>1. PICK coin \in bootstrapChoices(old.ref, reserved) :
        old # None /\ p = [txs |-> <<>>, writes |-> <<write(Client(c), next(coin))>>]
  BY DEF receiverParameterize, plan
<1>2. ClientBorne(c, old, was, DOMAIN utxo)
  BY HeldFiles
<1>3. "receiver" \notin old.done
  BY <1>1, <1>2 DEF ClientBorne, gone, bootstrapChoices, coins
<1>4. ClientBorne(c, next(coin), was, DOMAIN utxo)
  BY <1>1, <1>2, <1>3 DEF ClientBorne
<1>. HIDE DEF next
<1>. QED
  BY <1>1, <1>4, FilesByKind, FilesOfKinds, PaperPlan DEF Sound

LEMMA ConfigBootstrapIsSound ==
  ASSUME NEW seen, NEW cmd, Held(seen), NEW p \in configBootstrap(seen, cmd)
  PROVE  PlanSound(p)
<1>. DEFINE old == seen[Protocol]
            state == bootstrapConfig(old)
            puts == one(Config, state)
            spends == one(old.configRef, "key")
            next == [old EXCEPT !.config = state, !.done = @ \cup {"config"}]
<1>1. /\ old # None
      /\ p = [txs |-> <<transaction(spends, {}, puts)>>, writes |-> <<write(Protocol, next)>>]
  BY DEF configBootstrap, plan
<1>2. <<Config, state>> \in lived(puts)
  BY PutsLive, StatesOfKinds DEF one
<1>3. ProtocolBorne(next, was \cup lived(puts), DOMAIN utxo \ DOMAIN spends)
  <2>. HIDE DEF puts, spends, state
  <2>. QED
    BY <1>1, <1>2, HeldFiles DEF ProtocolBorne, gone
<1>4. Tx(transaction(spends, {}, puts))
  BY SmallPuts, StatesOfKinds
<1>. HIDE DEF next, spends, puts
<1>. QED
  BY <1>1, <1>3, <1>4, FilesByKind, FilesOfKinds, OneStepPlan

LEMMA HookBootstrapIsSound ==
  ASSUME NEW seen, NEW cmd, Held(seen), NEW p \in hookBootstrap(seen, cmd)
  PROVE  PlanSound(p)
<1>. DEFINE old == seen[Protocol]
            config == [old.config EXCEPT !.linked = TRUE]
            hook == bootstrapHook(old)
            puts == beside(one(Config, config), one(Hook, hook))
            spends == beside(one(Config, "AdminUpdate"), one(old.hookRef, "key"))
            next == [old EXCEPT !.config = config, !.hook = hook, !.done = @ \cup {"hook"}]
<1>1. /\ old # None /\ old.hookRef # None /\ old.hookRef \in coins
      /\ p = [txs |-> <<transaction(spends, {}, puts)>>, writes |-> <<write(Protocol, next)>>]
  BY DEF hookBootstrap, plan
<1>2. <<Config, config>> \in lived(puts) /\ <<Hook, hook>> \in lived(puts)
  <2>1. /\ Config \in DOMAIN puts /\ puts[Config] = config
        /\ Hook \in DOMAIN puts /\ puts[Hook] = hook
    BY DEF beside, one, Config, Hook
  <2>. HIDE DEF puts, config, hook
  <2>. QED
    BY <2>1, PutsLive, StatesOfKinds
<1>3. gone(old.hookRef, DOMAIN utxo \ DOMAIN spends)
  BY <1>1 DEF gone, coins, beside, one
<1>4. ProtocolBorne(next, was \cup lived(puts), DOMAIN utxo \ DOMAIN spends)
  <2>. HIDE DEF puts, spends, config, hook
  <2>. QED
    BY <1>1, <1>2, <1>3, HeldFiles DEF ProtocolBorne
<1>5. Tx(transaction(spends, {}, puts))
  BY SmallPuts, StatesOfKinds
<1>. HIDE DEF next, spends, puts
<1>. QED
  BY <1>1, <1>4, <1>5, FilesByKind, FilesOfKinds, OneStepPlan

LEMMA ReceiverBootstrapIsSound ==
  ASSUME NEW seen, NEW cmd, Held(seen), cmd.client \in Clients,
         NEW p \in receiverBootstrap(seen, cmd)
  PROVE  PlanSound(p)
<1>. DEFINE c == cmd.client
            old == seen[Client(c)]
            state == bootstrapReceiver(old)
            puts == one(Receiver(c), state)
            spends == one(old.ref, "key")
            next == [old EXCEPT !.state = state, !.done = @ \cup {"receiver"}]
<1>1. /\ old # None /\ old.ref # None /\ old.ref \in coins
      /\ p = [txs |-> <<transaction(spends, {Config}, puts)>>,
              writes |-> <<write(Client(c), next)>>]
  BY DEF receiverBootstrap, plan
<1>2. <<Receiver(c), state>> \in lived(puts)
  BY PutsLive, StatesOfKinds DEF one
<1>3. gone(old.ref, DOMAIN utxo \ DOMAIN spends)
  BY <1>1 DEF gone, coins, one
<1>4. ClientBorne(c, next, was \cup lived(puts), DOMAIN utxo \ DOMAIN spends)
  <2>1. ClientBorne(c, old, was, DOMAIN utxo)
    BY HeldFiles
  <2>. HIDE DEF puts, spends, state
  <2>. QED
    BY <1>1, <1>2, <1>3, <2>1 DEF ClientBorne
<1>5. Tx(transaction(spends, {Config}, puts))
  BY SmallPuts, StatesOfKinds
<1>. HIDE DEF next, spends, puts
<1>. QED
  BY <1>1, <1>4, <1>5, FilesByKind, FilesOfKinds, OneStepPlan

(* ------------- reference scripts: no claim of a file changes ------------ *)

LEMMA PublishingIsSound ==
  ASSUME NEW p, NEW name, name[1] = "script", NEW file \in Files, NEW content,
         Sound(file, content),
         p = [txs |-> publishing(name), writes |-> <<write(file, content)>>]
  PROVE  PlanSound(p)
<1>. DEFINE puts == one(name, None)
            spends == nothing
<1>1. p = [txs |-> <<transaction(spends, {}, puts)>>, writes |-> <<write(file, content)>>]
  BY DEF publishing
<1>2. DOMAIN spends = {}
  BY DEF nothing
<1>3. Tx(transaction(spends, {}, puts))
  BY SmallPuts
<1>4. CopySound(file, content, was \cup lived(puts), DOMAIN utxo \ DOMAIN spends)
  <2>. HIDE DEF puts, spends
  <2>. QED
    BY <1>2 DEF Sound, CopySound, Backed, Consumed, gone
<1>. HIDE DEF puts, spends
<1>. QED
  BY <1>1, <1>3, <1>4, OneStepPlan

LEMMA ScriptsAreOfKind ==
  ASSUME IsFiniteSet(taken), NEW kind
  PROVE  newScript(kind)[1] = "script"
<1>1. \E k \in numbers : newScript(kind) = Script(kind, k)
  BY FreshNames
<1>2. \A k : Script(kind, k)[1] = "script"
  BY DEF Script
<1>. QED
  BY <1>1, <1>2

LEMMA PublishProtocolScriptIsSound ==
  ASSUME NEW seen, Held(seen), IsFiniteSet(taken), NEW kind, NEW p, NEW checks,
         p \in publishProtocolScript(seen, kind, checks)
  PROVE  PlanSound(p)
<1>. DEFINE old == seen[Protocol]
            next == [old EXCEPT !.scripts = [@ EXCEPT ![kind] = newScript(kind)[3]]]
<1>1. /\ old # None
      /\ p = [txs |-> publishing(newScript(kind)), writes |-> <<write(Protocol, next)>>]
  BY DEF publishProtocolScript, plan
<1>2. ProtocolBorne(next, was, DOMAIN utxo)
  BY <1>1, HeldFiles DEF ProtocolBorne
<1>. HIDE DEF next
<1>. QED
  BY <1>1, <1>2, FilesByKind, FilesOfKinds, ScriptsAreOfKind, PublishingIsSound DEF Sound

LEMMA PublishClientScriptsIsSound ==
  ASSUME NEW seen, NEW cmd, Held(seen), IsFiniteSet(taken), cmd.client \in Clients,
         NEW p \in publishClientReferenceScripts(seen, cmd)
  PROVE  PlanSound(p)
<1>. DEFINE c == cmd.client
            old == seen[Client(c)]
            next == [old EXCEPT !.script = newScript(c)[3]]
<1>1. /\ old # None
      /\ p = [txs |-> publishing(newScript(c)), writes |-> <<write(Client(c), next)>>]
  BY DEF publishClientReferenceScripts, plan
<1>2. ClientBorne(c, next, was, DOMAIN utxo)
  <2>1. ClientBorne(c, old, was, DOMAIN utxo)
    BY HeldFiles
  <2>. QED
    BY <1>1, <2>1 DEF ClientBorne
<1>. HIDE DEF next
<1>. QED
  BY <1>1, <1>2, FilesByKind, FilesOfKinds, ScriptsAreOfKind, PublishingIsSound DEF Sound

(* What leaves every claim of a file as it was read is still borne out.    *)
LEMMA ClaimsKept ==
  ASSUME NEW seen, Held(seen), NEW spends, NEW puts
  PROVE  /\ \A x : /\ seen[Protocol] # None /\ DOMAIN x = DOMAIN seen[Protocol]
                   /\ x.done = seen[Protocol].done /\ x.config = seen[Protocol].config
                   /\ x.hook = seen[Protocol].hook /\ x.hookRef = seen[Protocol].hookRef
                   => CopySound(Protocol, x, was \cup lived(puts), DOMAIN utxo \ DOMAIN spends)
         /\ \A c \in Clients : \A x :
              /\ seen[Client(c)] # None /\ DOMAIN x = DOMAIN seen[Client(c)]
              /\ x.done = seen[Client(c)].done /\ x.state = seen[Client(c)].state
              /\ x.ref = seen[Client(c)].ref
              => CopySound(Client(c), x, was \cup lived(puts), DOMAIN utxo \ DOMAIN spends)
<1>1. ASSUME NEW x, seen[Protocol] # None, DOMAIN x = DOMAIN seen[Protocol],
             x.done = seen[Protocol].done, x.config = seen[Protocol].config,
             x.hook = seen[Protocol].hook, x.hookRef = seen[Protocol].hookRef
      PROVE  CopySound(Protocol, x, was \cup lived(puts), DOMAIN utxo \ DOMAIN spends)
  <2>1. ProtocolBorne(x, was \cup lived(puts), DOMAIN utxo \ DOMAIN spends)
    BY <1>1, HeldFiles DEF ProtocolBorne, gone
  <2>. QED
    BY <2>1, FilesByKind
<1>2. ASSUME NEW c \in Clients, NEW x, seen[Client(c)] # None,
             DOMAIN x = DOMAIN seen[Client(c)], x.done = seen[Client(c)].done,
             x.state = seen[Client(c)].state, x.ref = seen[Client(c)].ref
      PROVE  CopySound(Client(c), x, was \cup lived(puts), DOMAIN utxo \ DOMAIN spends)
  <2>1. ClientBorne(c, seen[Client(c)], was, DOMAIN utxo)
    BY HeldFiles
  <2>2. ClientBorne(c, x, was \cup lived(puts), DOMAIN utxo \ DOMAIN spends)
    BY <1>2, <2>1 DEF ClientBorne, gone
  <2>. QED
    BY <2>2, FilesByKind
<1>. QED
  BY <1>1, <1>2

LEMMA ReclaimGlobalIsSound ==
  ASSUME NEW seen, NEW cmd, Held(seen), NEW p \in reclaimGlobalReferenceScript(seen, cmd)
  PROVE  PlanSound(p)
<1>. DEFINE old == seen[Protocol]
            next == [old EXCEPT !.scripts = [@ EXCEPT ![cmd.script] = 0]]
            spends == one(script(seen, cmd.script), "Reclaim")
<1>1. /\ old # None
      /\ p = [txs |-> <<transaction(spends, {Config}, nothing)>>,
              writes |-> <<write(Protocol, next)>>]
  BY DEF reclaimGlobalReferenceScript, reclaims, plan
<1>2. DOMAIN old = {"config", "configRef", "hook", "hookRef", "scripts", "done"}
  BY <1>1, HeldFiles DEF ProtocolBorne
<1>3. CopySound(Protocol, next, was \cup lived(nothing), DOMAIN utxo \ DOMAIN spends)
  <2>. HIDE DEF spends
  <2>. QED
    BY <1>1, <1>2, ClaimsKept
<1>. HIDE DEF next, spends
<1>. QED
  BY <1>1, <1>3, FilesOfKinds, SmallPuts, OneStepPlan

LEMMA ReclaimClientIsSound ==
  ASSUME NEW seen, NEW cmd, Held(seen), cmd.client \in Clients,
         NEW p \in reclaimClientReferenceScript(seen, cmd)
  PROVE  PlanSound(p)
<1>. DEFINE c == cmd.client
            old == seen[Client(c)]
            next == [old EXCEPT !.script = 0]
            spends == one(script(seen, c), "Reclaim")
<1>1. /\ old # None
      /\ p = [txs |-> <<transaction(spends, {Config}, nothing)>>,
              writes |-> <<write(Client(c), next)>>]
  BY DEF reclaimClientReferenceScript, reclaims, plan
<1>2. DOMAIN old = {"ref", "state", "script", "done"}
  <2>1. ClientBorne(c, old, was, DOMAIN utxo)
    BY HeldFiles
  <2>. QED
    BY <1>1, <2>1 DEF ClientBorne
<1>3. CopySound(Client(c), next, was \cup lived(nothing), DOMAIN utxo \ DOMAIN spends)
  <2>. HIDE DEF spends
  <2>. QED
    BY <1>1, <1>2, ClaimsKept
<1>. HIDE DEF next, spends
<1>. QED
  BY <1>1, <1>3, FilesOfKinds, SmallPuts, OneStepPlan

-----------------------------------------------------------------------------
(* The plans of the commands on the protocol are sound *)

LEMMA ConfigUpdateIsSound ==
  ASSUME NEW seen, NEW cmd, Held(seen), NEW p \in configUpdate(seen, cmd)
  PROVE  PlanSound(p)
<1>. DEFINE old == seen[Protocol]
            state == nextConfigState(old, cmd.change)
            puts == one(Config, state)
            spends == one(Config, "AdminUpdate")
            refs == loadReferenceScriptUtxos(seen, {"config"})
            next == [old EXCEPT !.config = state]
<1>1. /\ old # None
      /\ p = [txs |-> <<transaction(spends, refs, puts)>>, writes |-> <<write(Protocol, next)>>]
  BY DEF configUpdate, plan
<1>2. <<Config, state>> \in lived(puts)
  BY PutsLive, StatesOfKinds DEF one
<1>3. ProtocolBorne(next, was \cup lived(puts), DOMAIN utxo \ DOMAIN spends)
  <2>. HIDE DEF puts, spends, state
  <2>. QED
    BY <1>1, <1>2, HeldFiles DEF ProtocolBorne, gone
<1>4. Tx(transaction(spends, refs, puts))
  BY SmallPuts, StatesOfKinds
<1>. HIDE DEF next, spends, puts, refs
<1>. QED
  BY <1>1, <1>3, <1>4, FilesByKind, FilesOfKinds, OneStepPlan

(* A command that moves the PaymentHook and records what it leaves.        *)
LEMMA HookMoveIsSound ==
  ASSUME NEW seen, Held(seen), seen[Protocol] # None, NEW spends, NEW refs, NEW state, NEW p,
         p = [txs |-> <<transaction(spends, refs, one(Hook, state))>>,
              writes |-> <<write(Protocol, [seen[Protocol] EXCEPT !.hook = state])>>]
  PROVE  PlanSound(p)
<1>. DEFINE next == [seen[Protocol] EXCEPT !.hook = state]
            puts == one(Hook, state)
<1>1. <<Hook, state>> \in lived(puts)
  BY PutsLive, StatesOfKinds DEF one
<1>2. ProtocolBorne(next, was \cup lived(puts), DOMAIN utxo \ DOMAIN spends)
  <2>. HIDE DEF puts
  <2>. QED
    BY <1>1, HeldFiles DEF ProtocolBorne, gone
<1>3. Tx(transaction(spends, refs, puts))
  BY SmallPuts, StatesOfKinds
<1>4. p = [txs |-> <<transaction(spends, refs, puts)>>, writes |-> <<write(Protocol, next)>>]
  OBVIOUS
<1>. HIDE DEF next, puts
<1>. QED
  BY <1>2, <1>3, <1>4, FilesByKind, FilesOfKinds, OneStepPlan

LEMMA HookUpdateIsSound ==
  ASSUME NEW seen, NEW cmd, Held(seen), NEW p \in hookUpdate(seen, cmd)
  PROVE  PlanSound(p)
<1>. DEFINE state == nextHookState(seen[Protocol], cmd.change)
            spends == one(Hook, "AdminUpdate")
            refs == hookReads(seen)
<1>1. /\ seen[Protocol] # None
      /\ p = [txs |-> <<transaction(spends, refs, one(Hook, state))>>,
              writes |-> <<write(Protocol, [seen[Protocol] EXCEPT !.hook = state])>>]
  BY DEF hookUpdate, plan, hasHook, findsHook
<1>. HIDE DEF state, spends, refs
<1>. QED
  BY <1>1, HookMoveIsSound

LEMMA HookWithdrawIsSound ==
  ASSUME NEW seen, NEW cmd, Held(seen), NEW p \in paymentHookWithdraw(seen, cmd)
  PROVE  PlanSound(p)
<1>. DEFINE state == [utxo[Hook] EXCEPT !.accrued = @ - cmd.amount,
                                        !.to = seen[Protocol].hook.to]
            spends == one(Hook, "Withdraw")
            refs == hookReads(seen)
<1>1. /\ seen[Protocol] # None
      /\ p = [txs |-> <<transaction(spends, refs, one(Hook, state))>>,
              writes |-> <<write(Protocol, [seen[Protocol] EXCEPT !.hook = state])>>]
  BY DEF paymentHookWithdraw, plan, hasHook, findsHook
<1>. HIDE DEF state, spends, refs
<1>. QED
  BY <1>1, HookMoveIsSound

LEMMA HookBurnIsSound ==
  ASSUME NEW seen, NEW cmd, Held(seen), NEW p \in paymentHookBurn(seen, cmd)
  PROVE  PlanSound(p)
<1>. DEFINE old == seen[Protocol]
            spends == one(Hook, "Burn")
            refs == hookReads(seen)
            next == [old EXCEPT !.hook = None]
<1>1. /\ old # None
      /\ p = [txs |-> <<transaction(spends, refs, nothing)>>,
              writes |-> <<write(Protocol, next)>>]
  BY DEF paymentHookBurn, plan, findsHook
<1>2. ProtocolBorne(next, was \cup lived(nothing), DOMAIN utxo \ DOMAIN spends)
  <2>. HIDE DEF spends
  <2>. QED
    BY <1>1, HeldFiles DEF ProtocolBorne, gone
<1>. HIDE DEF next, spends, refs
<1>. QED
  BY <1>1, <1>2, FilesByKind, FilesOfKinds, SmallPuts, OneStepPlan

LEMMA ConfigBurnIsSound ==
  ASSUME NEW seen, NEW cmd, Held(seen), NEW p \in configBurn(seen, cmd)
  PROVE  PlanSound(p)
<1>. DEFINE old == seen[Protocol]
            spends == one(Config, "Burn")
            refs == loadReferenceScriptUtxos(seen, {"config"})
<1>1. /\ old # None
      /\ p = [txs |-> <<transaction(spends, refs, nothing)>>,
              writes |-> <<write(Protocol, old)>>]
  BY DEF configBurn, plan
<1>2. CopySound(Protocol, old, was \cup lived(nothing), DOMAIN utxo \ DOMAIN spends)
  <2>. HIDE DEF spends
  <2>. QED
    BY <1>1, ClaimsKept
<1>. HIDE DEF spends, refs
<1>. QED
  BY <1>1, <1>2, FilesOfKinds, SmallPuts, OneStepPlan

(* ----------------- plans that write several files ---------------------- *)

LEMMA OrderOfSet ==
  ASSUME NEW S, IsFiniteSet(S)
  PROVE  SetToSeq(S) \in [1 .. Cardinality(S) -> S] /\ Cardinality(S) \in Nat
<1>1. Cardinality(S) \in Nat
  BY FS_CardinalityType
<1>2. PICK f : f \in Bijection(1 .. Cardinality(S), S)
  BY FS_CardinalityType DEF ExistsBijection
<1>3. f \in [1 .. Cardinality(S) -> S] /\ IsInjective(f)
  BY <1>2 DEF Bijection, Injection, IsInjective
<1>. QED
  BY <1>1, <1>3 DEF SetToSeq

LEMMA MappedOrder ==
  ASSUME NEW S, IsFiniteSet(S), NEW F, NEW V, \A x \in S : F[x] \in V
  PROVE  [i \in DOMAIN SetToSeq(S) |-> F[SetToSeq(S)[i]]] \in Seq(V)
<1>. DEFINE order == SetToSeq(S)
            mapped == [i \in DOMAIN order |-> F[order[i]]]
<1>1. order \in [1 .. Cardinality(S) -> S] /\ Cardinality(S) \in Nat
  BY OrderOfSet
<1>. HIDE DEF order
<1>2. mapped \in [1 .. Cardinality(S) -> V]
  BY <1>1
<1>. HIDE DEF mapped
<1>3. mapped \in Seq(V)
  BY <1>1, <1>2
<1>. QED
  BY <1>3 DEF mapped, order

LEMMA PlanOfMany ==
  ASSUME NEW p, NEW spends, NEW refs, NEW puts, NEW ws, NEW V, ws \in Seq(V),
         p = [txs |-> <<transaction(spends, refs, puts)>>, writes |-> ws],
         Tx(transaction(spends, refs, puts)),
         \A w \in V :
            /\ w.file \in Files
            /\ CopySound(w.file, w.content, was \cup lived(puts), DOMAIN utxo \ DOMAIN spends)
  PROVE  PlanSound(p)
<1>. DEFINE t == transaction(spends, refs, puts)
<1>1. \A i \in DOMAIN ws : ws[i] \in V
  OBVIOUS
<1>2. \A i \in DOMAIN ws : ws[i].file \in Files /\ SoundAfter(ws[i].file, ws[i].content, t)
  BY <1>1 DEF SoundAfter, transaction
<1>3. ws \in Seq(ToSet(ws))
  BY SeqOfItsElements
<1>. QED
  BY <1>2, <1>3, PlanOfOne

LEMMA SettleIsSound ==
  ASSUME NEW seen, NEW cmd, Held(seen), cmd.clients \subseteq Clients,
         NEW p \in settle(seen, cmd)
  PROVE  PlanSound(p) /\ p.txs # <<>>
<1>. DEFINE C == cmd.clients
            old == seen[Protocol]
            after == hookAfter(old, C)
            moved == {Receiver(c) : c \in C} \cup {Hook}
            spends == [n \in moved |-> "Settle"]
            refs == {Config} \cup loadReferenceScriptUtxos(seen, {"config", "hook"} \cup C)
            puts == [n \in moved |-> IF n = Hook THEN after ELSE emptied(n[2])]
            hooks == write(Protocol, [old EXCEPT !.hook = after])
            F == [c \in C |-> write(Client(c), [seen[Client(c)] EXCEPT !.state = emptied(c)])]
            V == {F[c] : c \in C}
            order == SetToSeq(C)
            ws == <<hooks>> \o [i \in DOMAIN order |-> F[order[i]]]
            W == was \cup lived(puts)
            N == DOMAIN utxo \ DOMAIN spends
<1>1. IsFiniteSet(C)
  BY CliParameters, FS_Subset
<1>2. order \in [1 .. Cardinality(C) -> C]
  BY <1>1, OrderOfSet
<1>3. /\ old # None
      /\ \A c \in C : seen[Client(c)] # None /\ seen[Client(c)].ref # None
      /\ p = [txs |-> <<buildSettleTx(seen, C)>>, writes |-> savedBySettle(seen, C)]
  BY DEF settle, plan, hasHook, findsHook
<1>4. buildSettleTx(seen, C) = transaction(spends, refs, puts)
  BY DEF buildSettleTx
<1>5. savedBySettle(seen, C) = ws
  <2>1. [i \in DOMAIN order |-> F[order[i]]]
          = [i \in DOMAIN order |->
               write(Client(order[i]), [seen[Client(order[i])] EXCEPT !.state = emptied(order[i])])]
    <3>1. \A i \in DOMAIN order :
            F[order[i]]
              = write(Client(order[i]), [seen[Client(order[i])] EXCEPT !.state = emptied(order[i])])
      <4>. HIDE DEF order
      <4>. QED
        BY <1>2
    <3>. HIDE DEF F, order
    <3>. QED
      BY <3>1
  <2>. HIDE DEF F
  <2>. QED
    BY <2>1 DEF savedBySettle
<1>6. ws \in Seq({hooks} \cup V)
  <2>1. [i \in DOMAIN order |-> F[order[i]]] \in Seq(V)
    <3>. HIDE DEF F
    <3>. QED
      BY <1>1, MappedOrder
  <2>. DEFINE tail == [i \in DOMAIN order |-> F[order[i]]]
  <2>. HIDE DEF tail, V, hooks
  <2>2. tail \in Seq(V)
    BY <2>1 DEF tail
  <2>3. tail \in Seq({hooks} \cup V) /\ <<hooks>> \in Seq({hooks} \cup V)
    BY <2>2, SeqOfMore
  <2>4. <<hooks>> \o tail \in Seq({hooks} \cup V)
    BY <2>3
  <2>. QED
    BY <2>4 DEF tail
<1>7. hooks.file \in Files /\ CopySound(hooks.file, hooks.content, W, N)
  <2>1. Hook \in DOMAIN puts /\ puts[Hook] = after
    OBVIOUS
  <2>. HIDE DEF puts, spends, after
  <2>2. <<Hook, after>> \in lived(puts)
    BY <2>1, PutsLive, StatesOfKinds
  <2>3. ProtocolBorne([old EXCEPT !.hook = after], W, N)
    BY <1>3, <2>2, HeldFiles DEF ProtocolBorne, gone
  <2>. QED
    BY <2>3, FilesByKind, FilesOfKinds DEF write
<1>8. ASSUME NEW c \in C
      PROVE  F[c].file \in Files /\ CopySound(F[c].file, F[c].content, W, N)
  <2>1. Receiver(c) \in DOMAIN puts /\ puts[Receiver(c)] = emptied(c)
    BY DEF Receiver, Hook
  <2>2. F[c].file = Client(c) /\ F[c].content = [seen[Client(c)] EXCEPT !.state = emptied(c)]
    BY DEF write
  <2>. HIDE DEF puts, spends, F
  <2>3. <<Receiver(c), emptied(c)>> \in lived(puts)
    BY <2>1, PutsLive, StatesOfKinds
  <2>4. ClientBorne(c, seen[Client(c)], was, DOMAIN utxo)
    BY HeldFiles
  <2>5. ClientBorne(c, [seen[Client(c)] EXCEPT !.state = emptied(c)], W, N)
    BY <1>3, <2>3, <2>4 DEF ClientBorne, gone
  <2>. HIDE DEF W, N
  <2>6. CopySound(Client(c), [seen[Client(c)] EXCEPT !.state = emptied(c)], W, N)
    BY <2>5, FilesByKind
  <2>7. Client(c) \in Files
    BY FilesOfKinds
  <2>. QED
    BY <2>2, <2>6, <2>7
<1>9. Tx(transaction(spends, refs, puts))
  <2>1. IsFiniteSet(moved)
    <3>. DEFINE G == [c \in C |-> {Receiver(c)}]
    <3>1. DOMAIN G = C /\ \A c \in C : IsFiniteSet(G[c])
      BY FiniteOne
    <3>2. UNION {G[c] : c \in DOMAIN G} = {Receiver(c) : c \in C}
      OBVIOUS
    <3>3. IsFiniteSet(UNION {G[c] : c \in DOMAIN G})
      <4>. HIDE DEF G
      <4>. QED
        BY <1>1, <3>1, FiniteUnion
    <3>. QED
      BY <3>2, <3>3, FiniteOne, FiniteCup
  <2>2. \A n \in moved : n[1] # "coin"
    BY StatesOfKinds
  <2>. QED
    BY <2>1, <2>2 DEF Tx, transaction
<1>10. \A w \in {hooks} \cup V : w.file \in Files /\ CopySound(w.file, w.content, W, N)
  <2>. HIDE DEF F, hooks, W, N
  <2>. QED
    BY <1>7, <1>8
<1>11. p = [txs |-> <<transaction(spends, refs, puts)>>, writes |-> ws]
  BY <1>3, <1>4, <1>5
<1>. HIDE DEF puts, spends, refs, hooks, V, ws
<1>12. PlanSound(p)
  BY <1>6, <1>9, <1>10, <1>11, PlanOfMany
<1>13. p.txs # <<>>
  BY <1>11
<1>. QED
  BY <1>12, <1>13

LEMMA TeardownSettleIsSound ==
  ASSUME NEW seen, NEW cmd, Held(seen), cmd.client \in Clients,
         NEW p \in teardownSettle(seen, cmd)
  PROVE  PlanSound(p)
<1>. DEFINE x == seen[Recovered] + seen[Client(cmd.client)].state.accrued
            last == write(Recovered, x)
<1>1. PICK s \in settle(seen, [clients |-> {cmd.client}]) :
        p = [s EXCEPT !.writes = Append(@, last)]
  BY DEF teardownSettle
<1>2. PlanSound(s) /\ s.txs # <<>>
  BY SettleIsSound
<1>3. s = [txs |-> s.txs, writes |-> s.writes]
  BY DEF settle, plan
<1>. HIDE DEF last
<1>4. p.txs = s.txs /\ p.writes = Append(s.writes, last)
  BY <1>1, <1>3
<1>5. Len(s.txs) <= 1
  <2>1. s.txs = <<buildSettleTx(seen, {cmd.client})>>
    BY DEF settle, plan
  <2>. QED
    BY <2>1
<1>6. p.writes \in Seq(ToSet(s.writes) \cup {last})
  <2>1. s.writes \in Seq(ToSet(s.writes) \cup {last})
    BY <1>2, SeqOfMore DEF PlanSound
  <2>. QED
    BY <1>4, <2>1
<1>7. \A w \in ToSet(s.writes) \cup {last} :
        w.file \in Files /\ SoundAfter(w.file, w.content, s.txs[1])
  <2>1. last.file \in Files /\ SoundAfter(last.file, last.content, s.txs[1])
    BY FilesByKind, FilesOfKinds DEF SoundAfter, last, write
  <2>2. \A i \in DOMAIN s.writes :
          s.writes[i].file \in Files /\ SoundAfter(s.writes[i].file, s.writes[i].content, s.txs[1])
    BY <1>2 DEF PlanSound
  <2>. QED
    BY <2>1, <2>2 DEF ToSet
<1>8. \A i \in DOMAIN p.writes : p.writes[i] \in ToSet(s.writes) \cup {last}
  BY <1>6
<1>9. p.writes \in Seq(ToSet(p.writes))
  BY <1>6, SeqOfItsElements
<1>. QED
  BY <1>2, <1>4, <1>5, <1>7, <1>8, <1>9 DEF PlanSound

-----------------------------------------------------------------------------
(* The plans of the commands on a client are sound *)

LEMMA ReceiverMoveIsSound ==
  ASSUME NEW seen, Held(seen), NEW c \in Clients, NEW redeemer, NEW reads, NEW also,
         NEW checks, NEW next, NEW p \in movesReceiver(seen, c, redeemer, reads, also, checks, next)
  PROVE  PlanSound(p)
<1>. DEFINE old == seen[Client(c)]
            puts == one(Receiver(c), next)
            spends == beside(one(Receiver(c), redeemer), also)
            refs == reads \cup clientReads(seen, c)
            content == [old EXCEPT !.state = next]
<1>1. /\ old # None /\ old.ref # None
      /\ p = [txs |-> <<transaction(spends, refs, puts)>>,
              writes |-> <<write(Client(c), content)>>]
  BY DEF movesReceiver, plan, hasReceiver
<1>2. <<Receiver(c), next>> \in lived(puts)
  BY PutsLive, StatesOfKinds DEF one
<1>3. ClientBorne(c, content, was \cup lived(puts), DOMAIN utxo \ DOMAIN spends)
  <2>1. ClientBorne(c, old, was, DOMAIN utxo)
    BY HeldFiles
  <2>. HIDE DEF puts, spends
  <2>. QED
    BY <1>1, <1>2, <2>1 DEF ClientBorne, gone
<1>4. Tx(transaction(spends, refs, puts))
  BY SmallPuts, StatesOfKinds
<1>. HIDE DEF content, spends, puts, refs
<1>. QED
  BY <1>1, <1>3, <1>4, FilesByKind, FilesOfKinds, OneStepPlan

LEMMA ReceiverCommandsAreSound ==
  ASSUME NEW seen, NEW cmd, Held(seen), cmd.client \in Clients,
         NEW p \in receiverTopUp(seen, cmd) \cup receiverWithdraw(seen, cmd)
                     \cup receiverUpdateMinUtxo(seen, cmd) \cup depositMerge(seen, cmd)
  PROVE  PlanSound(p)
<1>1. CASE p \in receiverTopUp(seen, cmd)
  BY <1>1, ReceiverMoveIsSound DEF receiverTopUp
<1>2. CASE p \in receiverWithdraw(seen, cmd)
  BY <1>2, ReceiverMoveIsSound DEF receiverWithdraw
<1>3. CASE p \in receiverUpdateMinUtxo(seen, cmd)
  BY <1>3, ReceiverMoveIsSound DEF receiverUpdateMinUtxo
<1>4. CASE p \in depositMerge(seen, cmd)
  <2>1. PICK D : p \in movesReceiver(seen, cmd.client, "TopUp", {}, collected(D), D # {},
                         [utxo[Receiver(cmd.client)] EXCEPT !.balance = @ + lovelaceOf(D)])
    BY <1>4 DEF depositMerge
  <2>. QED
    BY <2>1, ReceiverMoveIsSound
<1>. QED
  BY <1>1, <1>2, <1>3, <1>4

(* After the burn of a receiver nobody parameterizes it again.             *)
LEMMA ReceiverBurnIsSound ==
  ASSUME NEW seen, NEW cmd, Held(seen), cmd.client \in Clients,
         NoneOffers(Queues, "receiver:parameterize", cmd.client),
         NEW p \in receiverBurn(seen, cmd)
  PROVE  PlanSound(p)
<1>. DEFINE c == cmd.client
            old == seen[Client(c)]
            spends == one(Receiver(c), "Burn")
            refs == {Config} \cup clientReads(seen, c)
            next == [old EXCEPT !.ref = None, !.state = None]
<1>1. /\ old # None
      /\ p = [txs |-> <<transaction(spends, refs, nothing)>>,
              writes |-> <<write(Client(c), next)>>]
  BY DEF receiverBurn, plan, hasReceiver
<1>2. ClientBorne(c, next, was \cup lived(nothing), DOMAIN utxo \ DOMAIN spends)
  <2>1. ClientBorne(c, old, was, DOMAIN utxo)
    BY HeldFiles
  <2>. HIDE DEF spends
  <2>. QED
    BY <1>1, <2>1 DEF ClientBorne
<1>. HIDE DEF next, spends, refs
<1>3. CopySound(Client(c), next, was \cup lived(nothing), DOMAIN utxo \ DOMAIN spends)
  BY <1>2, FilesByKind
<1>4. Tx(transaction(spends, refs, nothing)) /\ Client(c) \in Files
  BY SmallPuts, FilesOfKinds
<1>. QED
  BY <1>1, <1>3, <1>4, OneStepPlan

LEMMA DepositFundIsSound ==
  ASSUME NEW seen, NEW cmd, IsFiniteSet(taken), NEW p \in depositFund(seen, cmd)
  PROVE  PlanSound(p)
<1>. DEFINE name == newDeposit(cmd.client)
<1>1. p = [txs |-> <<transaction(nothing, {}, one(name, cmd.amount))>>, writes |-> <<>>]
  BY DEF depositFund, plan
<1>2. name[1] # "coin"
  <2>1. \E k \in numbers : name = Deposit(cmd.client, k)
    BY FreshNames
  <2>. QED
    BY <2>1 DEF Deposit
<1>. HIDE DEF name
<1>. QED
  BY <1>1, <1>2, SmallPuts, FilelessPlan

-----------------------------------------------------------------------------
(* Updates *)

place(seen, c, s) == IF isCreate(seen, c, s) THEN newCopy(c, s) ELSE theCopy(c, s)
oraclePuts(seen, c, intents, folded) ==
  [n \in {Receiver(c)} \cup {place(seen, c, s) : s \in DOMAIN intents} |->
     IF n = Receiver(c) THEN receiverAfter(seen, c, DOMAIN intents, folded)
     ELSE pairAfter(seen, c, n[3], intents[n[3]])]

LEMMA TheCopyIsACopy ==
  ASSUME NEW c, NEW s, Cardinality(copies(c, s)) = 1
  PROVE  theCopy(c, s) \in copies(c, s)
<1>1. copies(c, s) # {}
  BY FS_EmptySet
<1>. QED
  BY <1>1 DEF theCopy

LEMMA OracleUpdatePlan ==
  ASSUME NEW seen, NEW c \in Clients, NEW intents, NEW folded, NEW writes,
         DOMAIN intents \subseteq Symbols, IsFiniteSet(taken),
         NEW p \in oracleUpdate(seen, c, intents, folded, writes)
  PROVE  LET puts == oraclePuts(seen, c, intents, folded)
         IN  /\ \E spends, refs :
                  /\ p = [txs |-> <<transaction(spends, refs, puts)>>, writes |-> writes]
                  /\ Tx(transaction(spends, refs, puts))
             /\ seen[Client(c)] # None /\ seen[Client(c)].ref # None
             /\ <<Receiver(c), receiverAfter(seen, c, DOMAIN intents, folded)>> \in lived(puts)
             /\ \A s \in DOMAIN intents :
                  <<Pair(c, s), pairAfter(seen, c, s, intents[s])>> \in lived(puts)
<1>. DEFINE puts == oraclePuts(seen, c, intents, folded)
            moved == {Receiver(c)} \cup {place(seen, c, s) : s \in DOMAIN intents}
<1>1. /\ \E spends, refs :
           p = [txs |-> <<transaction(spends, refs, puts)>>, writes |-> writes]
      /\ seen[Client(c)] # None /\ seen[Client(c)].ref # None
      /\ \A s \in DOMAIN intents : monotonic(seen, c, s, intents[s])
  BY DEF oracleUpdate, plan, hasReceiver, oraclePuts, place
<1>2. ASSUME NEW s \in DOMAIN intents
      PROVE  /\ place(seen, c, s)[1] = "pair" /\ place(seen, c, s)[3] = s
             /\ stateOf(place(seen, c, s)) = Pair(c, s)
  <2>1. CASE isCreate(seen, c, s)
    <3>1. PICK k \in numbers : newCopy(c, s) = Copy(c, s, k)
      BY FreshNames
    <3>. QED
      BY <2>1, <3>1 DEF place, Copy, stateOf
  <2>2. CASE ~isCreate(seen, c, s)
    <3>1. theCopy(c, s) \in copies(c, s)
      BY <1>1, <2>2, TheCopyIsACopy DEF monotonic
    <3>. QED
      BY <2>2, <3>1, StatesOfKinds DEF place
  <2>. QED
    BY <2>1, <2>2
<1>3. DOMAIN puts = moved
  BY DEF oraclePuts
<1>4. <<Receiver(c), receiverAfter(seen, c, DOMAIN intents, folded)>> \in lived(puts)
  <2>1. puts[Receiver(c)] = receiverAfter(seen, c, DOMAIN intents, folded)
    BY DEF oraclePuts
  <2>2. Receiver(c) \in DOMAIN puts
    BY <1>3
  <2>. HIDE DEF puts
  <2>. QED
    BY <2>1, <2>2, PutsLive, StatesOfKinds
<1>5. ASSUME NEW s \in DOMAIN intents
      PROVE  <<Pair(c, s), pairAfter(seen, c, s, intents[s])>> \in lived(puts)
  <2>. DEFINE n == place(seen, c, s)
  <2>1. n \in DOMAIN puts
    BY <1>3
  <2>2. n # Receiver(c)
    BY <1>2, StatesOfKinds
  <2>3. puts[n] = pairAfter(seen, c, n[3], intents[n[3]])
    BY <1>3, <2>1, <2>2 DEF oraclePuts
  <2>4. n[1] = "pair" /\ n[3] = s /\ stateOf(n) = Pair(c, s)
    BY <1>2
  <2>. HIDE DEF puts, n
  <2>. QED
    BY <2>1, <2>3, <2>4, PutsLive
<1>6. IsFiniteSet(moved)
  <2>. DEFINE G == [s \in DOMAIN intents |-> {place(seen, c, s)}]
  <2>1. DOMAIN G = DOMAIN intents /\ \A s \in DOMAIN intents : IsFiniteSet(G[s])
    BY FiniteOne
  <2>2. IsFiniteSet(DOMAIN intents)
    BY CliParameters, FS_Subset
  <2>3. UNION {G[s] : s \in DOMAIN G} = {place(seen, c, s) : s \in DOMAIN intents}
    OBVIOUS
  <2>4. IsFiniteSet(UNION {G[s] : s \in DOMAIN G})
    <3>. HIDE DEF G
    <3>. QED
      BY <2>1, <2>2, FiniteUnion
  <2>. QED
    BY <2>3, <2>4, FiniteOne, FiniteCup
<1>7. \A n \in moved : n[1] # "coin"
  BY <1>2, StatesOfKinds
<1>8. \A spends, refs : Tx(transaction(spends, refs, puts))
  <2>. HIDE DEF puts, moved
  <2>. QED
    BY <1>3, <1>6, <1>7 DEF Tx, transaction
<1>. HIDE DEF puts
<1>9. \E spends, refs :
        /\ p = [txs |-> <<transaction(spends, refs, puts)>>, writes |-> writes]
        /\ Tx(transaction(spends, refs, puts))
  BY <1>1, <1>8
<1>. QED
  BY <1>1, <1>4, <1>5, <1>9 DEF puts

LEMMA UpdateIsSound ==
  ASSUME NEW seen, NEW cmd, Held(seen), cmd.client \in Clients, cmd.symbol \in Symbols,
         IsFiniteSet(taken), NEW p \in update(seen, cmd)
  PROVE  PlanSound(p)
<1>. DEFINE c == cmd.client
            s == cmd.symbol
            intents == one(s, cmd.nonce)
            content == pairAfter(seen, c, s, cmd.nonce)
<1>1. PICK D : p \in oracleUpdate(seen, c, intents, D, <<write(Pair(c, s), content)>>)
  BY DEF update
<1>. DEFINE puts == oraclePuts(seen, c, intents, D)
<1>2. DOMAIN intents = {s} /\ intents[s] = cmd.nonce
  BY DEF one
<1>. HIDE DEF intents
<1>3. /\ \E spends, refs :
           /\ p = [txs |-> <<transaction(spends, refs, puts)>>,
                   writes |-> <<write(Pair(c, s), content)>>]
           /\ Tx(transaction(spends, refs, puts))
      /\ <<Pair(c, s), content>> \in lived(puts)
  BY <1>1, <1>2, OracleUpdatePlan
<1>4. PICK spends, refs :
        /\ p = [txs |-> <<transaction(spends, refs, puts)>>,
                writes |-> <<write(Pair(c, s), content)>>]
        /\ Tx(transaction(spends, refs, puts))
  BY <1>3
<1>. HIDE DEF puts, content
<1>5. CopySound(Pair(c, s), content, was \cup lived(puts), DOMAIN utxo \ DOMAIN spends)
  BY <1>3, FilesByKind
<1>. QED
  BY <1>4, <1>5, FilesOfKinds, OneStepPlan

LEMMA UpdateBatchIsSound ==
  ASSUME NEW seen, NEW cmd, Held(seen), cmd.client \in Clients,
         DOMAIN cmd.intents \subseteq Symbols, IsFiniteSet(taken),
         NEW p \in updateBatch(seen, cmd)
  PROVE  PlanSound(p)
<1>. DEFINE c == cmd.client
            intents == cmd.intents
            S == DOMAIN intents
            order == SetToSeq(S)
            next == receiverAfter(seen, c, S, {})
            puts == oraclePuts(seen, c, intents, {})
            F == [s \in S |-> write(Pair(c, s), pairAfter(seen, c, s, intents[s]))]
            V == {F[s] : s \in S}
            last == write(Client(c), [seen[Client(c)] EXCEPT !.state = next])
            pairs == [i \in DOMAIN order |-> F[order[i]]]
            ws == pairs \o <<last>>
<1>1. IsFiniteSet(S)
  BY CliParameters, FS_Subset
<1>2. order \in [1 .. Cardinality(S) -> S]
  BY <1>1, OrderOfSet
<1>3. savedByBatch(seen, c, intents) = ws
  <2>1. \A i \in DOMAIN order :
          F[order[i]]
            = write(Pair(c, order[i]), pairAfter(seen, c, order[i], intents[order[i]]))
    <3>. HIDE DEF order
    <3>. QED
      BY <1>2
  <2>2. pairs = [i \in DOMAIN order |->
                   write(Pair(c, order[i]), pairAfter(seen, c, order[i], intents[order[i]]))]
    <3>. HIDE DEF F, order
    <3>. QED
      BY <2>1
  <2>. HIDE DEF F
  <2>. QED
    BY <2>2 DEF savedByBatch
<1>4. ws \in Seq(V \cup {last})
  <2>1. pairs \in Seq(V)
    <3>. HIDE DEF F
    <3>. QED
      BY <1>1, MappedOrder
  <2>. HIDE DEF pairs, V, last
  <2>2. pairs \in Seq(V \cup {last}) /\ <<last>> \in Seq(V \cup {last})
    BY <2>1, SeqOfMore
  <2>. QED
    BY <2>2
<1>5. p \in oracleUpdate(seen, c, intents, {}, ws)
  BY <1>3 DEF updateBatch
<1>. HIDE DEF ws
<1>6. /\ \E spends, refs :
           /\ p = [txs |-> <<transaction(spends, refs, puts)>>, writes |-> ws]
           /\ Tx(transaction(spends, refs, puts))
      /\ seen[Client(c)] # None /\ seen[Client(c)].ref # None
      /\ <<Receiver(c), next>> \in lived(puts)
      /\ \A s \in S : <<Pair(c, s), pairAfter(seen, c, s, intents[s])>> \in lived(puts)
  BY <1>5, OracleUpdatePlan
<1>7. PICK spends, refs :
        /\ p = [txs |-> <<transaction(spends, refs, puts)>>, writes |-> ws]
        /\ Tx(transaction(spends, refs, puts))
  BY <1>6
<1>. DEFINE W == was \cup lived(puts)
            N == DOMAIN utxo \ DOMAIN spends
<1>8. ASSUME NEW s \in S
      PROVE  F[s].file \in Files /\ CopySound(F[s].file, F[s].content, W, N)
  <2>1. F[s].file = Pair(c, s) /\ F[s].content = pairAfter(seen, c, s, intents[s])
    BY DEF write
  <2>. HIDE DEF F, puts
  <2>2. <<Pair(c, s), pairAfter(seen, c, s, intents[s])>> \in W
    BY <1>6
  <2>. HIDE DEF W, N
  <2>3. CopySound(Pair(c, s), pairAfter(seen, c, s, intents[s]), W, N)
    BY <2>2, FilesByKind
  <2>. QED
    BY <2>1, <2>3, FilesOfKinds
<1>9. last.file \in Files /\ CopySound(last.file, last.content, W, N)
  <2>1. ClientBorne(c, seen[Client(c)], was, DOMAIN utxo)
    BY HeldFiles
  <2>. HIDE DEF puts, next
  <2>2. ClientBorne(c, [seen[Client(c)] EXCEPT !.state = next], W, N)
    BY <1>6, <2>1 DEF ClientBorne, gone
  <2>. HIDE DEF W, N
  <2>3. CopySound(Client(c), [seen[Client(c)] EXCEPT !.state = next], W, N)
    BY <2>2, FilesByKind
  <2>. QED
    BY <2>3, FilesOfKinds DEF write
<1>10. \A w \in V \cup {last} : w.file \in Files /\ CopySound(w.file, w.content, W, N)
  <2>. HIDE DEF F, last, W, N
  <2>. QED
    BY <1>8, <1>9
<1>. HIDE DEF V, last, puts
<1>. QED
  BY <1>4, <1>7, <1>10, PlanOfMany

-----------------------------------------------------------------------------
(* Pairs *)

LEMMA PairUpdateMinUtxoIsSound ==
  ASSUME NEW seen, NEW cmd, cmd.client \in Clients, cmd.symbol \in Symbols,
         NEW p \in pairUpdateMinUtxo(seen, cmd)
  PROVE  PlanSound(p)
<1>. DEFINE c == cmd.client
            s == cmd.symbol
            n == theCopy(c, s)
            next == [utxo[n] EXCEPT !.min = cmd.min]
            puts == one(n, next)
            spends == one(n, "UpdateMinUtxo")
            refs == pairReads(seen, c)
<1>1. /\ Cardinality(copies(c, s)) = 1
      /\ p = [txs |-> <<transaction(spends, refs, puts)>>,
              writes |-> <<write(Pair(c, s), next)>>]
  BY DEF pairUpdateMinUtxo, plan
<1>2. n[1] = "pair" /\ stateOf(n) = Pair(c, s)
  BY <1>1, TheCopyIsACopy, StatesOfKinds
<1>3. n \in DOMAIN puts /\ puts[n] = next
  BY DEF one
<1>. HIDE DEF n, next
<1>4. Tx(transaction(spends, refs, puts))
  BY <1>2, SmallPuts
<1>. HIDE DEF puts, spends, refs
<1>5. <<Pair(c, s), next>> \in lived(puts)
  BY <1>2, <1>3, PutsLive
<1>6. CopySound(Pair(c, s), next, was \cup lived(puts), DOMAIN utxo \ DOMAIN spends)
  BY <1>5, FilesByKind
<1>. QED
  BY <1>1, <1>4, <1>6, FilesOfKinds, OneStepPlan

LEMMA PairBurnIsSound ==
  ASSUME NEW seen, NEW cmd, Held(seen), cmd.client \in Clients, cmd.symbol \in Symbols,
         NEW p \in pairBurn(seen, cmd)
  PROVE  PlanSound(p)
<1>. DEFINE c == cmd.client
            s == cmd.symbol
            n == theCopy(c, s)
            spends == one(n, "Burn")
            refs == pairReads(seen, n[2])
<1>1. /\ seen[Pair(c, s)] # None
      /\ p = [txs |-> <<transaction(spends, refs, nothing)>>,
              writes |-> <<write(Pair(c, s), seen[Pair(c, s)])>>]
  BY DEF pairBurn, plan, burnSpecificPairUtxo
<1>2. <<Pair(c, s), seen[Pair(c, s)]>> \in was
  BY <1>1, HeldFiles
<1>3. CopySound(Pair(c, s), seen[Pair(c, s)], was \cup lived(nothing),
                DOMAIN utxo \ DOMAIN spends)
  BY <1>2, FilesByKind
<1>. HIDE DEF spends, refs
<1>. QED
  BY <1>1, <1>3, FilesOfKinds, SmallPuts, OneStepPlan

LEMMA PairDedupIsSound ==
  ASSUME NEW seen, NEW cmd, IsFiniteSet(DOMAIN utxo), NEW p \in pairDedup(seen, cmd)
  PROVE  PlanSound(p)
<1>. DEFINE all == UNION {copies(cmd.client, s) : s \in Symbols}
            F(B) == [n \in B |-> burnSpecificPairUtxo(seen, n)]
            burning(B) == [i \in DOMAIN SetToSeq(B) |-> F(B)[SetToSeq(B)[i]]]
            burns == {burnSpecificPairUtxo(seen, n) : n \in all}
<1>1. PICK B \in SUBSET all :
        p = [txs |-> [i \in DOMAIN SetToSeq(B) |-> burnSpecificPairUtxo(seen, SetToSeq(B)[i])],
             writes |-> <<>>]
  BY DEF pairDedup, plan
<1>2. IsFiniteSet(B)
  <2>1. B \subseteq DOMAIN utxo
    BY DEF copies
  <2>. QED
    BY <2>1, FS_Subset
<1>3. p.txs = burning(B)
  <2>1. \A i \in DOMAIN SetToSeq(B) :
          F(B)[SetToSeq(B)[i]] = burnSpecificPairUtxo(seen, SetToSeq(B)[i])
    <3>1. SetToSeq(B) \in [1 .. Cardinality(B) -> B]
      BY <1>2, OrderOfSet
    <3>. QED
      BY <3>1
  <2>2. p.txs = [i \in DOMAIN SetToSeq(B) |-> burnSpecificPairUtxo(seen, SetToSeq(B)[i])]
    BY <1>1
  <2>. HIDE DEF F
  <2>. QED
    BY <2>1, <2>2
<1>4. p.txs \in Seq(burns)
  <2>1. \A n \in B : F(B)[n] \in burns
    OBVIOUS
  <2>. HIDE DEF F, burns
  <2>. QED
    BY <1>2, <1>3, <2>1, MappedOrder
<1>5. ASSUME NEW t \in burns
      PROVE  Tx(t) /\ t = transaction(t.spends, t.refs, t.puts)
  <2>1. PICK n \in all : t = burnSpecificPairUtxo(seen, n)
    OBVIOUS
  <2>2. t = transaction(one(n, "Burn"), pairReads(seen, n[2]), nothing)
    BY <2>1 DEF burnSpecificPairUtxo
  <2>3. Tx(t)
    BY <2>2, SmallPuts
  <2>4. t = transaction(t.spends, t.refs, t.puts)
    BY <2>2 DEF transaction
  <2>. QED
    BY <2>3, <2>4
<1>6. p.writes = <<>>
  BY <1>1
<1>. HIDE DEF burns
<1>7. p.txs \in Seq(ToSet(p.txs))
  BY <1>4, SeqOfItsElements
<1>8. p.writes \in Seq(ToSet(p.writes)) /\ DOMAIN p.writes = {}
  <2>1. p.writes \in Seq({})
    BY <1>6
  <2>. QED
    BY <2>1, <1>6, SeqOfItsElements
<1>. QED
  BY <1>4, <1>5, <1>6, <1>7, <1>8 DEF PlanSound

-----------------------------------------------------------------------------
(* Every plan is sound *)

(* What a running command knows: copies of files that were sound, a        *)
(* well-formed command, and its place among the commands to come.          *)
Reading(seen, cmd) ==
  /\ Held(seen) /\ Command(cmd)
  /\ IsFiniteSet(taken) /\ IsFiniteSet(DOMAIN utxo)
  /\ cmd.op = "receiver:parameterize" =>
       ~NoneOffers(Queues, "receiver:parameterize", cmd.client)
  /\ cmd.op = "receiver:burn" => NoneOffers(Queues, "receiver:parameterize", cmd.client)

LEMMA InitPlansAreSound ==
  ASSUME NEW seen, NEW cmd, Reading(seen, cmd), NEW p \in initPlans(seen, cmd)
  PROVE  PlanSound(p)
<1>1. CASE cmd.op = "protocol:init"
  BY <1>1, ProtocolInitIsSound DEF initPlans, Reading
<1>2. CASE cmd.op = "client:init"
  BY <1>2, ClientInitIsSound DEF initPlans, Reading, Command, ClientOps
<1>3. CASE cmd.op \notin {"protocol:init",
                        "client:init"}
  BY <1>3 DEF initPlans
<1>. QED
  BY <1>1, <1>2, <1>3

LEMMA ProtocolPlansAreSound ==
  ASSUME NEW seen, NEW cmd, Reading(seen, cmd), NEW p \in protocolPlans(seen, cmd)
  PROVE  PlanSound(p)
<1>1. CASE cmd.op = "config:parameterize"
  BY <1>1, ConfigParameterizeIsSound DEF protocolPlans, Reading
<1>2. CASE cmd.op = "config:reference-scripts"
  BY <1>2, PublishProtocolScriptIsSound DEF protocolPlans, publishConfigReferenceScripts, Reading
<1>3. CASE cmd.op = "config:bootstrap"
  BY <1>3, ConfigBootstrapIsSound DEF protocolPlans, Reading
<1>4. CASE cmd.op = "config:update"
  BY <1>4, ConfigUpdateIsSound DEF protocolPlans, Reading
<1>5. CASE cmd.op = "payment-hook:bootstrap"
  BY <1>5, HookBootstrapIsSound DEF protocolPlans, Reading
<1>6. CASE cmd.op = "payment-hook:parameterize"
  BY <1>6, HookParameterizeIsSound DEF protocolPlans, Reading
<1>7. CASE cmd.op = "payment-hook:reference-script"
  BY <1>7, PublishProtocolScriptIsSound DEF protocolPlans, publishPaymentHookReferenceScript, Reading
<1>8. CASE cmd.op = "payment-hook:withdraw"
  BY <1>8, HookWithdrawIsSound DEF protocolPlans, Reading
<1>9. CASE cmd.op = "payment-hook:update"
  BY <1>9, HookUpdateIsSound DEF protocolPlans, Reading
<1>10. CASE cmd.op = "settle"
  BY <1>10, SettleIsSound DEF protocolPlans, Reading, Command, ClientOps
<1>11. CASE cmd.op \notin {"config:parameterize",
                        "config:reference-scripts",
                        "config:bootstrap",
                        "config:update",
                        "payment-hook:bootstrap",
                        "payment-hook:parameterize",
                        "payment-hook:reference-script",
                        "payment-hook:withdraw",
                        "payment-hook:update",
                        "settle"}
  BY <1>11 DEF protocolPlans
<1>. QED
  BY <1>1, <1>2, <1>3, <1>4, <1>5, <1>6, <1>7, <1>8, <1>9, <1>10, <1>11

LEMMA ClientPlansAreSound ==
  ASSUME NEW seen, NEW cmd, Reading(seen, cmd), NEW p \in clientPlans(seen, cmd)
  PROVE  PlanSound(p)
<1>1. CASE cmd.op = "deposit:fund"
  BY <1>1, DepositFundIsSound DEF clientPlans, Reading, Command, ClientOps
<1>2. CASE cmd.op = "deposit:merge"
  BY <1>2, ReceiverCommandsAreSound DEF clientPlans, Reading, Command, ClientOps
<1>3. CASE cmd.op = "receiver:bootstrap"
  BY <1>3, ReceiverBootstrapIsSound DEF clientPlans, Reading, Command, ClientOps
<1>4. CASE cmd.op = "receiver:parameterize"
  BY <1>4, ReceiverParameterizeIsSound DEF clientPlans, Reading, Command, ClientOps
<1>5. CASE cmd.op = "reference-scripts:publish-client"
  BY <1>5, PublishClientScriptsIsSound DEF clientPlans, Reading, Command, ClientOps
<1>6. CASE cmd.op = "receiver:top-up"
  BY <1>6, ReceiverCommandsAreSound DEF clientPlans, Reading, Command, ClientOps
<1>7. CASE cmd.op = "receiver:withdraw"
  BY <1>7, ReceiverCommandsAreSound DEF clientPlans, Reading, Command, ClientOps
<1>8. CASE cmd.op = "receiver:update-min-utxo"
  BY <1>8, ReceiverCommandsAreSound DEF clientPlans, Reading, Command, ClientOps
<1>9. CASE cmd.op \notin {"deposit:fund",
                        "deposit:merge",
                        "receiver:bootstrap",
                        "receiver:parameterize",
                        "reference-scripts:publish-client",
                        "receiver:top-up",
                        "receiver:withdraw",
                        "receiver:update-min-utxo"}
  BY <1>9 DEF clientPlans
<1>. QED
  BY <1>1, <1>2, <1>3, <1>4, <1>5, <1>6, <1>7, <1>8, <1>9

LEMMA PairAndBurnPlansAreSound ==
  ASSUME NEW seen, NEW cmd, Reading(seen, cmd), NEW p \in pairAndBurnPlans(seen, cmd)
  PROVE  PlanSound(p)
<1>1. CASE cmd.op = "pair:update-min-utxo"
  BY <1>1, PairUpdateMinUtxoIsSound DEF pairAndBurnPlans, Reading, Command, ClientOps
<1>2. CASE cmd.op = "pair:burn"
  BY <1>2, PairBurnIsSound DEF pairAndBurnPlans, Reading, Command, ClientOps
<1>3. CASE cmd.op = "pair:dedup"
  BY <1>3, PairDedupIsSound DEF pairAndBurnPlans, Reading, Command, ClientOps
<1>4. CASE cmd.op = "receiver:burn"
  BY <1>4, ReceiverBurnIsSound DEF pairAndBurnPlans, Reading, Command, ClientOps
<1>5. CASE cmd.op = "payment-hook:burn"
  BY <1>5, HookBurnIsSound DEF pairAndBurnPlans, Reading
<1>6. CASE cmd.op = "config:burn"
  BY <1>6, ConfigBurnIsSound DEF pairAndBurnPlans, Reading
<1>7. CASE cmd.op \notin {"pair:update-min-utxo",
                        "pair:burn",
                        "pair:dedup",
                        "receiver:burn",
                        "payment-hook:burn",
                        "config:burn"}
  BY <1>7 DEF pairAndBurnPlans
<1>. QED
  BY <1>1, <1>2, <1>3, <1>4, <1>5, <1>6, <1>7

LEMMA UpdatePlansAreSound ==
  ASSUME NEW seen, NEW cmd, Reading(seen, cmd), NEW p \in updatePlans(seen, cmd)
  PROVE  PlanSound(p)
<1>1. CASE cmd.op = "update:batch"
  BY <1>1, UpdateBatchIsSound DEF updatePlans, Reading, Command, ClientOps
<1>2. CASE cmd.op = "update"
  BY <1>2, UpdateIsSound DEF updatePlans, Reading, Command, ClientOps
<1>3. CASE cmd.op = "reclaim:global"
  BY <1>3, ReclaimGlobalIsSound DEF updatePlans, Reading
<1>4. CASE cmd.op = "reclaim:client"
  BY <1>4, ReclaimClientIsSound DEF updatePlans, Reading, Command, ClientOps
<1>5. CASE cmd.op \notin {"update:batch",
                        "update",
                        "reclaim:global",
                        "reclaim:client"}
  BY <1>5 DEF updatePlans
<1>. QED
  BY <1>1, <1>2, <1>3, <1>4, <1>5

LEMMA TeardownPlansAreSound ==
  ASSUME NEW seen, NEW cmd, Reading(seen, cmd), NEW p \in teardownPlans(seen, cmd)
  PROVE  PlanSound(p)
<1>1. CASE cmd.op = "teardown:settle"
  BY <1>1, TeardownSettleIsSound DEF teardownPlans, Reading, Command, ClientOps
<1>2. CASE cmd.op = "teardown:receiver:withdraw"
  <2>. DEFINE order == [client |-> cmd.client, amount |-> seen[Client(cmd.client)].state.balance]
  <2>1. p \in receiverWithdraw(seen, order)
    BY <1>2 DEF teardownPlans, teardownReceiverWithdraw
  <2>2. order.client \in Clients
    BY <1>2 DEF Reading, Command, ClientOps
  <2>. HIDE DEF order
  <2>. QED
    BY <2>1, <2>2, ReceiverCommandsAreSound DEF Reading
<1>3. CASE cmd.op = "teardown:payment-hook:withdraw"
  BY <1>3, HookWithdrawIsSound DEF teardownPlans, teardownHookWithdraw, Reading
<1>4. CASE cmd.op \notin {"teardown:settle",
                        "teardown:receiver:withdraw",
                        "teardown:payment-hook:withdraw"}
  BY <1>4 DEF teardownPlans
<1>. QED
  BY <1>1, <1>2, <1>3, <1>4

LEMMA PlansAreSound ==
  ASSUME NEW seen, NEW cmd, Reading(seen, cmd), NEW p \in plans(seen, cmd)
  PROVE  PlanSound(p)
BY InitPlansAreSound,
   ProtocolPlansAreSound,
   ClientPlansAreSound,
   PairAndBurnPlansAreSound,
   UpdatePlansAreSound,
   TeardownPlansAreSound DEF plans

LEMMA ReadySessionsRead ==
  ASSUME ArtifactsInv, NEW o \in Operators, sessions[o].at = "ready"
  PROVE  Reading(sessions[o].seen, sessions[o].cmd)
<1>. DEFINE cmd == sessions[o].cmd
<1>1. Held(sessions[o].seen)
  BY DEF ArtifactsInv, SeenSound, Held
<1>2. IsFiniteSet(taken) /\ IsFiniteSet(DOMAIN utxo)
  BY TakenIsFinite DEF ArtifactsInv, ChainSound
<1>3. Ahead(o) = <<{cmd}>> \o agenda[o]
  BY DEF Ahead
<1>4. 1 \in DOMAIN Ahead(o) /\ Ahead(o)[1] = {cmd}
  <2>1. agenda[o] \in Seq(ToSet(agenda[o]))
    BY DEF ArtifactsInv, AgendaSound
  <2>. QED
    BY <1>3, <2>1
<1>5. Command(cmd)
  BY <1>4 DEF ArtifactsInv, AgendaSound
<1>6. ASSUME cmd.op = "receiver:parameterize"
      PROVE  ~NoneOffers(Queues, "receiver:parameterize", cmd.client)
  BY <1>4, <1>6 DEF NoneOffers, Offers, Queues
<1>7. ASSUME cmd.op = "receiver:burn"
      PROVE  NoneOffers(Queues, "receiver:parameterize", cmd.client)
  <2>. SUFFICES ASSUME NEW q \in Operators, NEW j \in DOMAIN Ahead(q),
                       Offers(Ahead(q), j, "receiver:parameterize", cmd.client)
                PROVE  FALSE
    BY DEF NoneOffers, Queues
  <2>1. cmd.client \in Clients
    BY <1>5, <1>7 DEF Command, ClientOps
  <2>2. Offers(Ahead(o), 1, "receiver:burn", cmd.client)
    BY <1>4, <1>7 DEF Offers
  <2>3. o = q /\ j < 1
    BY <1>4, <2>1, <2>2 DEF ArtifactsInv, AgendaSound, Ordered, Queues
  <2>4. j \in DOMAIN (<<{cmd}>> \o agenda[o])
    BY <1>3, <2>3
  <2>5. agenda[o] \in Seq(ToSet(agenda[o]))
    BY DEF ArtifactsInv, AgendaSound
  <2>. QED
    BY <2>3, <2>4, <2>5
<1>. QED
  BY <1>1, <1>2, <1>5, <1>6, <1>7 DEF Reading

-----------------------------------------------------------------------------
(* What keeps the invariant *)

Shrinking == \A op, c : NoneOffers(Queues, op, c) => NoneOffers(Queues, op, c)'

LEMMA CopyStaysSound ==
  ASSUME NEW f, NEW x, NEW W, NEW N, NEW V, NEW M, CopySound(f, x, W, N), W \subseteq V,
         \A ref \in refsIn(f, x) : gone(ref, N) => gone(ref, M),
         Shrinking
  PROVE  CopySound(f, x, V, M)'
<1>1. Shaped(f, x)' /\ Backed(f, x, V)'
  BY DEF CopySound, Shaped, Backed
<1>2. Consumed(f, x, M)'
  <2>1. x # None /\ f = Protocol => x.hookRef \in refsIn(f, x)
    BY DEF refsIn, Protocol
  <2>2. x # None /\ f[1] = "client" => x.ref \in refsIn(f, x)
    <3>1. f[1] = "client" => f # Protocol
      BY DEF Protocol
    <3>. QED
      BY <3>1 DEF refsIn
  <2>. QED
    BY <2>1, <2>2 DEF CopySound, Consumed
<1>3. (Burned(f, x) => NoneOffers(Queues, "receiver:parameterize", f[2]))'
  BY DEF CopySound, Burned, Shrinking
<1>. QED
  BY <1>1, <1>2, <1>3 DEF CopySound

LEMMA SameCopyStaysSound ==
  ASSUME NEW f, NEW x, NEW W, NEW N, CopySound(f, x, W, N), Shrinking
  PROVE  CopySound(f, x, W, N)'
BY CopyStaysSound

-----------------------------------------------------------------------------
(* Steps off the chain: one session moves, perhaps with a file             *)

OffChain(o, session) ==
  /\ sessions' = [sessions EXCEPT ![o] = session]
  /\ UNCHANGED <<utxo, was>>

LEMMA OffChainQueues ==
  ASSUME ArtifactsInv, NEW o \in Operators, NEW session, OffChain(o, session),
         (DOMAIN agenda = Operators)', \A q \in Operators \ {o} : agenda'[q] = agenda[q],
         agenda'[o] \in Seq(ToSet(agenda'[o])),
         \E d \in {0, 1} : Advances(o, d)
  PROVE  AgendaSound' /\ Shrinking
<1>1. DOMAIN sessions = Operators
  BY DEF ArtifactsInv
<1>2. \A q \in Operators : agenda[q] \in Seq(ToSet(agenda[q]))
  BY DEF ArtifactsInv, AgendaSound
<1>3. \A q \in Operators \ {o} : sessions'[q] = sessions[q]
  BY <1>1 DEF OffChain
<1>4. \A q \in Operators : \E d \in {0, 1} : Advances(q, d)
  <2>. TAKE q \in Operators
  <2>. CASE q = o
    OBVIOUS
  <2>. CASE q # o
    BY <1>2, <1>3, IdleKeepsQueue
  <2>. QED
    OBVIOUS
<1>5. (\A q \in Operators : agenda[q] \in Seq(ToSet(agenda[q])))'
  <2>. SUFFICES ASSUME NEW q \in Operators
                PROVE  agenda'[q] \in Seq(ToSet(agenda'[q]))
    OBVIOUS
  <2>. QED
    BY <1>2
<1>6. AgendaSound
  BY DEF ArtifactsInv
<1>. QED
  BY <1>4, <1>5, <1>6, AdvancedQueuesAreSound DEF Shrinking

LEMMA UntouchedSession ==
  ASSUME ArtifactsInv, Shrinking, NEW q \in Operators, sessions'[q] = sessions[q],
         UNCHANGED <<utxo, was>>
  PROVE  SessionSound(q)' /\ SeenSound(q)' /\ WritesSound(q)'
<1>1. sessions'[q] = sessions[q] /\ utxo' = utxo /\ was' = was
  OBVIOUS
<1>2. SessionSound(q) /\ SeenSound(q) /\ WritesSound(q)
  BY DEF ArtifactsInv
<1>3. SessionSound(q)'
  BY <1>1, <1>2 DEF SessionSound, Tx
<1>4. SeenSound(q)'
  BY <1>1, <1>2, SameCopyStaysSound DEF SeenSound, Sound
<1>5. WritesSound(q)'
  BY <1>1, <1>2, SameCopyStaysSound DEF WritesSound, Sound, SoundAfter, lived, stateOf
<1>. QED
  BY <1>3, <1>4, <1>5

LEMMA OffChainStep ==
  ASSUME ArtifactsInv, NEW o \in Operators, NEW session, OffChain(o, session),
         AgendaSound', Shrinking, ChainSound', FilesSound',
         SessionSound(o)', SeenSound(o)', WritesSound(o)'
  PROVE  ArtifactsInv'
<1>1. DOMAIN sessions = Operators
  BY DEF ArtifactsInv
<1>2. (DOMAIN sessions = Operators)'
  BY <1>1 DEF OffChain
<1>3. ASSUME NEW q \in Operators, q # o
      PROVE  SessionSound(q)' /\ SeenSound(q)' /\ WritesSound(q)'
  BY <1>1, <1>3, UntouchedSession DEF OffChain
<1>. QED
  BY <1>2, <1>3 DEF ArtifactsInv

LEMMA FilesStaySound ==
  ASSUME ArtifactsInv, Shrinking, UNCHANGED <<utxo, was, files>>
  PROVE  FilesSound'
<1>1. FilesSound
  BY DEF ArtifactsInv
<1>. QED
  BY <1>1, SameCopyStaysSound DEF FilesSound, Sound

LEMMA ChainStaysSound ==
  ASSUME ArtifactsInv, UNCHANGED <<utxo, adrift>>
  PROVE  ChainSound'
BY DEF ArtifactsInv, ChainSound, Tx

LEMMA EmptyIsSeq == <<>> \in Seq(ToSet(<<>>)) /\ DOMAIN <<>> = {} /\ Len(<<>>) = 0
<1>1. <<>> \in Seq({})
  OBVIOUS
<1>. QED
  BY <1>1, SeqOfItsElements

LEMMA IdleIsSound ==
  ASSUME NEW o, (sessions[o] = Idle)'
  PROVE  SessionSound(o)' /\ SeenSound(o)' /\ WritesSound(o)'
<1>1. /\ sessions'[o].at = "idle" /\ sessions'[o].txs = <<>> /\ sessions'[o].writes = <<>>
      /\ sessions'[o] = [at |-> sessions'[o].at, cmd |-> sessions'[o].cmd,
                         seen |-> sessions'[o].seen, txs |-> sessions'[o].txs,
                         awaits |-> sessions'[o].awaits, writes |-> sessions'[o].writes]
  BY DEF Idle
<1>2. SessionSound(o)'
  BY <1>1, EmptyIsSeq DEF SessionSound
<1>3. SeenSound(o)' /\ WritesSound(o)'
  BY <1>1, EmptyIsSeq DEF SeenSound, WritesSound
<1>. QED
  BY <1>2, <1>3

LEMMA TailOfSeq ==
  ASSUME NEW S, NEW q \in Seq(S), q # <<>>
  PROVE  /\ Tail(q) \in Seq(S) /\ Head(q) = q[1] /\ 1 \in DOMAIN q
         /\ Len(Tail(q)) = Len(q) - 1
         /\ \A i \in DOMAIN Tail(q) : i + 1 \in DOMAIN q /\ Tail(q)[i] = q[i + 1]
OBVIOUS

LEMMA OpenAdvances ==
  ASSUME ArtifactsInv, NEW o \in Operators, Open(o)
  PROVE  Advances(o, 0) /\ agenda'[o] \in Seq(ToSet(agenda'[o]))
<1>1. PICK cmd \in Head(agenda[o]) :
        sessions' = [sessions EXCEPT ![o] = [Idle EXCEPT !.at = "ready", !.cmd = cmd, !.seen = files]]
  BY DEF Open, become
<1>. DEFINE session == [Idle EXCEPT !.at = "ready", !.cmd = cmd, !.seen = files]
<1>3. DOMAIN sessions = Operators /\ DOMAIN agenda = Operators
  BY DEF ArtifactsInv, AgendaSound
<1>4. sessions'[o] = session
  BY <1>1, <1>3
<1>5. agenda' = [agenda EXCEPT ![o] = Tail(agenda[o])] /\ agenda[o] # <<>>
      /\ sessions[o].at = "idle" /\ UNCHANGED <<utxo, files, adrift, was>>
  BY DEF Open
<1>6. agenda[o] \in Seq(ToSet(agenda[o]))
  BY DEF ArtifactsInv, AgendaSound
<1>7. agenda'[o] = Tail(agenda[o]) /\ agenda'[o] \in Seq(ToSet(agenda'[o]))
  <2>1. agenda'[o] = Tail(agenda[o])
    BY <1>3, <1>5
  <2>2. Tail(agenda[o]) \in Seq(ToSet(agenda[o]))
    BY <1>5, <1>6, TailOfSeq
  <2>. QED
    BY <2>1, <2>2, SeqOfItsElements
<1>8. Advances(o, 0)
  <2>1. Ahead(o) = agenda[o]
    BY <1>5 DEF Ahead
  <2>2. (Ahead(o))' = <<{cmd}>> \o Tail(agenda[o])
    BY <1>4, <1>7 DEF Ahead, Idle
  <2>3. (Ahead(o))' \in Seq(ToSet((Ahead(o))'))
    <3>. DEFINE S == ToSet(agenda[o]) \cup {{cmd}}
    <3>1. Tail(agenda[o]) \in Seq(S)
      BY <1>5, <1>6, TailOfSeq, SeqOfMore
    <3>2. <<{cmd}>> \in Seq(S)
      OBVIOUS
    <3>3. (Ahead(o))' \in Seq(S)
      BY <2>2, <3>1, <3>2
    <3>. QED
      BY <3>3, SeqOfItsElements
  <2>4. ASSUME NEW i \in DOMAIN (<<{cmd}>> \o Tail(agenda[o]))
        PROVE  /\ i \in DOMAIN agenda[o] /\ i + 0 = i
               /\ (<<{cmd}>> \o Tail(agenda[o]))[i] \subseteq agenda[o][i]
    <3>1. Tail(agenda[o]) \in Seq(ToSet(agenda[o])) /\ Len(Tail(agenda[o])) = Len(agenda[o]) - 1
      BY <1>5, <1>6, TailOfSeq
    <3>2. i \in 1 .. Len(agenda[o])
      BY <1>6, <3>1
    <3>3. CASE i = 1
      BY <1>1, <1>6, <3>1, <3>2, <3>3
    <3>4. CASE i # 1
      BY <1>5, <1>6, <3>1, <3>2, <3>4
    <3>. QED
      BY <3>3, <3>4
  <2>. QED
    BY <2>1, <2>2, <2>3, <2>4 DEF Advances
<1>. QED
  BY <1>7, <1>8

LEMMA OpenKeepsInv ==
  ASSUME ArtifactsInv, NEW o \in Operators, Open(o)
  PROVE  ArtifactsInv'
<1>1. PICK cmd \in Head(agenda[o]) :
        sessions' = [sessions EXCEPT ![o] = [Idle EXCEPT !.at = "ready", !.cmd = cmd, !.seen = files]]
  BY DEF Open, become
<1>. DEFINE session == [Idle EXCEPT !.at = "ready", !.cmd = cmd, !.seen = files]
<1>2. OffChain(o, session)
  BY <1>1 DEF OffChain, Open
<1>3. DOMAIN sessions = Operators /\ DOMAIN agenda = Operators
  BY DEF ArtifactsInv, AgendaSound
<1>4. sessions'[o] = session
  BY <1>1, <1>3
<1>5. agenda' = [agenda EXCEPT ![o] = Tail(agenda[o])] /\ agenda[o] # <<>>
      /\ sessions[o].at = "idle" /\ UNCHANGED <<utxo, files, adrift, was>>
  BY DEF Open
<1>6. agenda'[o] \in Seq(ToSet(agenda'[o])) /\ Advances(o, 0)
  BY OpenAdvances
<1>7. AgendaSound' /\ Shrinking
  <2>1. DOMAIN agenda' = Operators /\ \A q \in Operators \ {o} : agenda'[q] = agenda[q]
    BY <1>3, <1>5
  <2>. QED
    BY <1>2, <1>6, <2>1, OffChainQueues
<1>8. FilesSound' /\ ChainSound'
  BY <1>5, <1>7, FilesStaySound, ChainStaysSound
<1>9. SessionSound(o)' /\ WritesSound(o)'
  <2>1. /\ sessions'[o].at = "ready" /\ sessions'[o].txs = <<>> /\ sessions'[o].writes = <<>>
        /\ sessions'[o] = [at |-> sessions'[o].at, cmd |-> sessions'[o].cmd,
                           seen |-> sessions'[o].seen, txs |-> sessions'[o].txs,
                           awaits |-> sessions'[o].awaits, writes |-> sessions'[o].writes]
    BY <1>4 DEF Idle
  <2>. QED
    BY <2>1, EmptyIsSeq DEF SessionSound, WritesSound
<1>10. SeenSound(o)'
  <2>1. sessions'[o].seen = files'
    BY <1>4, <1>5 DEF Idle
  <2>. QED
    BY <1>8, <2>1 DEF SeenSound, FilesSound
<1>. QED
  BY <1>2, <1>7, <1>8, <1>9, <1>10, OffChainStep

(* A command that ends leaves everything but its session and its queue.    *)
LEMMA EndKeepsInv ==
  ASSUME ArtifactsInv, NEW o \in Operators, sessions[o].at # "idle", become(o, Idle),
         UNCHANGED <<utxo, was, files, agenda>>, ChainSound'
  PROVE  ArtifactsInv'
<1>1. DOMAIN sessions = Operators /\ DOMAIN agenda = Operators
  BY DEF ArtifactsInv, AgendaSound
<1>2. OffChain(o, Idle) /\ sessions'[o] = Idle
  BY <1>1 DEF OffChain, become
<1>3. agenda[o] \in Seq(ToSet(agenda[o]))
  BY DEF ArtifactsInv, AgendaSound
<1>4. \E d \in {0, 1} : Advances(o, d)
  BY <1>2, <1>3, RunningKeepsQueue DEF Idle
<1>5. AgendaSound' /\ Shrinking
  BY <1>1, <1>2, <1>3, <1>4, OffChainQueues
<1>6. FilesSound'
  BY <1>5, FilesStaySound
<1>. QED
  BY <1>2, <1>5, <1>6, IdleIsSound, OffChainStep

LEMMA StopKeepsInv ==
  ASSUME ArtifactsInv, NEW o \in Operators, Stop(o)
  PROVE  ArtifactsInv'
<1>. DEFINE s == sessions[o]
<1>1. /\ s.at \in {"sent", "landed"} /\ become(o, Idle) /\ UNCHANGED <<utxo, files, was>>
      /\ adrift' = IF s.at = "sent" THEN adrift \cup ({Head(s.txs)} \ {None}) ELSE adrift
      /\ agenda' = agenda \/ agenda' = [agenda EXCEPT ![o] = <<{s.cmd}>> \o @]
  BY DEF Stop
<1>2. ChainSound'
  <2>1. ChainSound /\ SessionSound(o)
    BY DEF ArtifactsInv
  <2>2. ASSUME s.at = "sent"
        PROVE  Head(s.txs) # None => Tx(Head(s.txs))
    <3>1. s.txs \in Seq(ToSet(s.txs)) /\ s.txs # <<>>
      BY <2>1, <2>2 DEF SessionSound
    <3>2. Head(s.txs) = s.txs[1] /\ 1 \in DOMAIN s.txs
      BY <3>1, TailOfSeq
    <3>. QED
      BY <2>1, <3>2 DEF SessionSound
  <2>3. IsFiniteSet({Head(s.txs)} \ {None})
    BY FiniteOne, FS_Subset
  <2>4. IsFiniteSet(adrift')
    <3>1. CASE s.at = "sent"
      BY <1>1, <2>1, <2>3, <3>1, FiniteCup DEF ChainSound
    <3>2. CASE s.at # "sent"
      BY <1>1, <2>1, <3>2 DEF ChainSound
    <3>. QED
      BY <3>1, <3>2
  <2>5. \A t \in adrift' : Tx(t)
    <3>1. CASE s.at = "sent"
      BY <1>1, <2>1, <2>2, <3>1 DEF ChainSound
    <3>2. CASE s.at # "sent"
      BY <1>1, <2>1, <3>2 DEF ChainSound
    <3>. QED
      BY <3>1, <3>2
  <2>. QED
    BY <1>1, <2>1, <2>4, <2>5 DEF ChainSound, Tx
<1>3. CASE agenda' = agenda
  BY <1>1, <1>2, <1>3, EndKeepsInv
<1>4. CASE agenda' = [agenda EXCEPT ![o] = <<{s.cmd}>> \o @]
  <2>1. DOMAIN sessions = Operators /\ DOMAIN agenda = Operators
    BY DEF ArtifactsInv, AgendaSound
  <2>2. OffChain(o, Idle) /\ sessions'[o] = Idle
    BY <1>1, <2>1 DEF OffChain, become
  <2>3. agenda[o] \in Seq(ToSet(agenda[o]))
    BY DEF ArtifactsInv, AgendaSound
  <2>4. agenda'[o] = <<{s.cmd}>> \o agenda[o]
    BY <1>4, <2>1
  <2>5. agenda'[o] \in Seq(ToSet(agenda'[o]))
    <3>. DEFINE S == ToSet(agenda[o]) \cup {{s.cmd}}
    <3>1. agenda[o] \in Seq(S)
      BY <2>3, SeqOfMore
    <3>2. <<{s.cmd}>> \in Seq(S)
      OBVIOUS
    <3>3. agenda'[o] \in Seq(S)
      BY <2>4, <3>1, <3>2
    <3>. QED
      BY <3>3, SeqOfItsElements
  <2>6. Advances(o, 0)
    <3>1. Ahead(o) = <<{s.cmd}>> \o agenda[o] /\ (Ahead(o))' = agenda'[o]
      BY <1>1, <2>2 DEF Ahead, Idle
    <3>2. (Ahead(o))' = Ahead(o)
      BY <2>4, <3>1
    <3>3. \A i \in DOMAIN agenda'[o] : i + 0 = i
      BY <2>5
    <3>. QED
      BY <2>5, <3>1, <3>2, <3>3 DEF Advances
  <2>7. AgendaSound' /\ Shrinking
    <3>1. DOMAIN agenda' = Operators /\ \A q \in Operators \ {o} : agenda'[q] = agenda[q]
      BY <1>4, <2>1
    <3>. QED
      BY <2>2, <2>5, <2>6, <3>1, OffChainQueues
  <2>8. FilesSound'
    BY <1>1, <2>7, FilesStaySound
  <2>. QED
    BY <1>2, <2>2, <2>7, <2>8, IdleIsSound, OffChainStep
<1>. QED
  BY <1>1, <1>3, <1>4

(* The wallet's coin adds an input; what is left behind stays the same.    *)
LEMMA FundedIsSound ==
  ASSUME NEW p, PlanSound(p), NEW txs \in fundedTxs(p.txs)
  PROVE  /\ txs \in Seq(ToSet(txs)) /\ Len(txs) = Len(p.txs)
         /\ \A i \in DOMAIN txs : Tx(txs[i])
         /\ p.txs = <<>> => txs = <<>>
         /\ p.txs # <<>> =>
              /\ txs # <<>> /\ Head(txs).puts = p.txs[1].puts
              /\ DOMAIN p.txs[1].spends \subseteq DOMAIN Head(txs).spends
<1>1. CASE p.txs = <<>>
  BY <1>1, EmptyIsSeq DEF fundedTxs
<1>2. CASE p.txs # <<>>
  <2>. DEFINE t == p.txs[1]
              tail == Tail(p.txs)
  <2>1. /\ p.txs \in Seq(ToSet(p.txs)) /\ Head(p.txs) = t /\ 1 \in DOMAIN p.txs
        /\ tail \in Seq(ToSet(p.txs)) /\ Len(tail) = Len(p.txs) - 1
        /\ \A i \in DOMAIN tail : i + 1 \in DOMAIN p.txs /\ tail[i] = p.txs[i + 1]
    BY <1>2, TailOfSeq DEF PlanSound
  <2>2. PICK u \in funded(t) : txs = <<u>> \o tail
    BY <1>2, <2>1 DEF fundedTxs
  <2>3. t = transaction(t.spends, t.refs, t.puts) /\ Tx(t)
    BY <2>1 DEF PlanSound
  <2>4. u.puts = t.puts /\ DOMAIN t.spends \subseteq DOMAIN u.spends
    <3>1. CASE u = t
      BY <3>1
    <3>2. CASE u # t
      <4>1. PICK coin \in coins : u = paidBy(t, coin)
        BY <2>2, <3>2 DEF funded
      <4>2. DOMAIN t = {"spends", "refs", "puts"}
        BY <2>3 DEF transaction
      <4>3. u.puts = t.puts /\ u.spends = beside(t.spends, one(coin, "key"))
        BY <4>1, <4>2 DEF paidBy
      <4>. QED
        BY <4>3 DEF beside
    <3>. QED
      BY <3>1, <3>2
  <2>5. Tx(u)
    BY <2>3, <2>4 DEF Tx
  <2>6. \A i \in DOMAIN tail : Tx(tail[i])
    BY <2>1 DEF PlanSound
  <2>. HIDE DEF t, tail
  <2>7. tail \in Seq(ToSet(p.txs))
    BY <2>1
  <2>8. txs \in Seq({u} \cup ToSet(p.txs)) /\ Len(txs) = Len(p.txs)
    <3>1. tail \in Seq({u} \cup ToSet(p.txs)) /\ <<u>> \in Seq({u} \cup ToSet(p.txs))
      BY <2>7, SeqOfMore
    <3>2. txs \in Seq({u} \cup ToSet(p.txs))
      BY <2>2, <3>1
    <3>. QED
      BY <2>1, <2>2, <3>1, <3>2
  <2>9. txs \in Seq(ToSet(txs))
    BY <2>8, SeqOfItsElements
  <2>10. \A i \in DOMAIN txs : Tx(txs[i])
    <3>. TAKE i \in DOMAIN txs
    <3>1. CASE i = 1
      BY <2>2, <2>5, <2>7, <3>1
    <3>2. CASE i # 1
      <4>1. i - 1 \in DOMAIN tail /\ txs[i] = tail[i - 1]
        BY <2>2, <2>7, <2>8, <3>2
      <4>. QED
        BY <2>6, <4>1
    <3>. QED
      BY <3>1, <3>2
  <2>11. txs # <<>> /\ Head(txs) = u
    BY <2>2, <2>7
  <2>. QED
    BY <1>2, <2>4, <2>8, <2>9, <2>10, <2>11 DEF t
<1>. QED
  BY <1>1, <1>2

LEMMA SubmitKeepsInv ==
  ASSUME ArtifactsInv, NEW o \in Operators, Submit(o)
  PROVE  ArtifactsInv'
<1>1. /\ sessions[o].at = "ready" /\ UNCHANGED <<utxo, files, agenda, adrift, was>>
  BY DEF Submit
<1>2. PICK p \in buildable(sessions[o].seen, sessions[o].cmd) :
        \E txs \in fundedTxs(p.txs) :
          become(o, [Idle EXCEPT !.at = IF txs = <<>> THEN "landed" ELSE "sent",
                                 !.cmd = sessions[o].cmd, !.txs = txs, !.writes = p.writes])
  BY DEF Submit
<1>3. PICK txs \in fundedTxs(p.txs) :
        become(o, [Idle EXCEPT !.at = IF txs = <<>> THEN "landed" ELSE "sent",
                               !.cmd = sessions[o].cmd, !.txs = txs, !.writes = p.writes])
  BY <1>2
<1>4. PlanSound(p)
  BY <1>1, ReadySessionsRead, PlansAreSound DEF buildable
<1>. DEFINE at == IF txs = <<>> THEN "landed" ELSE "sent"
            session == [Idle EXCEPT !.at = at, !.cmd = sessions[o].cmd, !.txs = txs,
                                    !.writes = p.writes]
<1>5. DOMAIN sessions = Operators /\ DOMAIN agenda = Operators
  BY DEF ArtifactsInv, AgendaSound
<1>6. OffChain(o, session) /\ sessions'[o] = session
  BY <1>1, <1>3, <1>5 DEF OffChain, become
<1>7. /\ session.at = at /\ session.cmd = sessions[o].cmd
       /\ session.txs = txs /\ session.writes = p.writes
       /\ session = [at |-> session.at, cmd |-> session.cmd, seen |-> session.seen,
                     txs |-> session.txs,
                     awaits |-> session.awaits, writes |-> session.writes]
  <2>. HIDE DEF at
  <2>1. session.at = at /\ session.cmd = sessions[o].cmd
    BY DEF Idle
  <2>2. session.txs = txs /\ session.writes = p.writes
    BY DEF Idle
  <2>3. session = [at |-> session.at, cmd |-> session.cmd, seen |-> session.seen,
                   txs |-> session.txs,
                   awaits |-> session.awaits, writes |-> session.writes]
    <3>1. DOMAIN session = {"at", "cmd", "seen", "txs", "awaits", "writes"}
      BY DEF Idle
    <3>2. session = [x \in DOMAIN session |-> session[x]]
      BY DEF Idle
    <3>. HIDE DEF session
    <3>. QED
      BY <3>1, <3>2
  <2>. QED
    BY <2>1, <2>2, <2>3
<1>. HIDE DEF session
<1>8. agenda[o] \in Seq(ToSet(agenda[o]))
  BY DEF ArtifactsInv, AgendaSound
<1>9. \E d \in {0, 1} : Advances(o, d)
  BY <1>1, <1>6, <1>8, <1>7, RunningKeepsQueue
<1>10. AgendaSound' /\ Shrinking
  BY <1>1, <1>5, <1>6, <1>8, <1>9, OffChainQueues
<1>11. FilesSound' /\ ChainSound'
  BY <1>1, <1>10, FilesStaySound, ChainStaysSound
<1>12. /\ sessions'[o].at = at /\ sessions'[o].txs = txs /\ sessions'[o].writes = p.writes
       /\ sessions'[o] = [at |-> sessions'[o].at, cmd |-> sessions'[o].cmd,
                          seen |-> sessions'[o].seen, txs |-> sessions'[o].txs,
                          awaits |-> sessions'[o].awaits, writes |-> sessions'[o].writes]
  BY <1>6, <1>7
<1>13. /\ txs \in Seq(ToSet(txs)) /\ Len(txs) = Len(p.txs)
       /\ \A i \in DOMAIN txs : Tx(txs[i])
       /\ p.txs = <<>> => txs = <<>>
       /\ p.txs # <<>> =>
            /\ txs # <<>> /\ Head(txs).puts = p.txs[1].puts
            /\ DOMAIN p.txs[1].spends \subseteq DOMAIN Head(txs).spends
  BY <1>4, FundedIsSound
<1>14. SessionSound(o)'
  <2>1. txs # <<>> /\ p.writes # <<>> => Len(txs) = 1
    <3>1. txs # <<>> => Len(txs) \in Nat \ {0}
      BY <1>13
    <3>2. p.writes # <<>> => Len(txs) <= 1
      BY <1>4, <1>13 DEF PlanSound
    <3>3. \A n \in Nat \ {0} : n <= 1 => n = 1
      OBVIOUS
    <3>. QED
      BY <3>1, <3>2, <3>3, Zenon
  <2>2. at \in {"landed", "sent"} /\ (at = "sent" <=> txs # <<>>)
    OBVIOUS
  <2>3. p.writes \in Seq(ToSet(p.writes))
    BY <1>4 DEF PlanSound
  <2>4. \A i \in DOMAIN txs : (Tx(txs[i]))'
    BY <1>13 DEF Tx
  <2>. HIDE DEF at
  <2>. QED
    BY <1>12, <1>13, <2>1, <2>2, <2>3, <2>4 DEF SessionSound
<1>15. SeenSound(o)'
  <2>1. at # "ready"
    OBVIOUS
  <2>. QED
    BY <1>12, <2>1 DEF SeenSound
<1>16. WritesSound(o)'
  <2>. SUFFICES ASSUME NEW i \in DOMAIN p.writes
                PROVE  /\ p.writes[i].file \in Files
                       /\ at = "landed" => Sound(p.writes[i].file, p.writes[i].content)'
                       /\ at = "sent" =>
                            SoundAfter(p.writes[i].file, p.writes[i].content, Head(txs))'
    BY <1>12 DEF WritesSound
  <2>. DEFINE f == p.writes[i].file
              x == p.writes[i].content
  <2>1. /\ f \in Files
        /\ IF p.txs = <<>> THEN Sound(f, x) ELSE SoundAfter(f, x, p.txs[1])
    BY <1>4 DEF PlanSound
  <2>2. CASE at = "landed"
    <3>1. txs = <<>>
      BY <2>2
    <3>2. Sound(f, x)
      BY <1>13, <2>1, <3>1
    <3>3. CopySound(f, x, was, DOMAIN utxo)'
      BY <1>1, <1>10, <3>2, SameCopyStaysSound DEF Sound
    <3>. QED
      BY <2>1, <2>2, <3>3 DEF Sound
  <2>3. CASE at = "sent"
    <3>1. p.txs # <<>>
      BY <1>13, <2>3
    <3>2. CopySound(f, x, was \cup lived(p.txs[1].puts), DOMAIN utxo \ DOMAIN p.txs[1].spends)
      BY <2>1, <3>1 DEF SoundAfter
    <3>3. PICK G, N, V, M :
            /\ G = was \cup lived(p.txs[1].puts) /\ N = DOMAIN utxo \ DOMAIN p.txs[1].spends
            /\ V = was \cup lived(Head(txs).puts) /\ M = DOMAIN utxo \ DOMAIN Head(txs).spends
      OBVIOUS
    <3>4. G \subseteq V /\ \A ref : gone(ref, N) => gone(ref, M)
      BY <1>13, <3>1, <3>3 DEF gone
    <3>5. CopySound(f, x, V, M)'
      <4>1. CopySound(f, x, G, N)
        BY <3>2, <3>3
      <4>. HIDE DEF f, x
      <4>. QED
        BY <1>10, <3>4, <4>1, CopyStaysSound
    <3>6. /\ was' \cup (lived(Head(txs).puts))' = V
          /\ DOMAIN utxo' \ DOMAIN Head(txs).spends = M
      BY <1>1, <3>3 DEF lived, stateOf
    <3>. QED
      BY <2>1, <2>3, <3>5, <3>6 DEF SoundAfter
  <2>. QED
    BY <2>2, <2>3
<1>. QED
  BY <1>6, <1>10, <1>11, <1>14, <1>15, <1>16, OffChainStep

LEMMA WriteKeepsInv ==
  ASSUME ArtifactsInv, NEW o \in Operators, Write(o)
  PROVE  ArtifactsInv'
<1>. DEFINE s == sessions[o]
            session == IF Len(s.writes) <= 1 THEN Idle
                       ELSE [s EXCEPT !.writes = Tail(@), !.awaits = {}]
<1>1. /\ s.at = "landed" /\ become(o, session) /\ UNCHANGED <<utxo, agenda, adrift, was>>
      /\ IF s.writes = <<>> THEN UNCHANGED files
         ELSE files' = [files EXCEPT ![Head(s.writes).file] = Head(s.writes).content]
  BY DEF Write
<1>2. DOMAIN sessions = Operators /\ DOMAIN agenda = Operators /\ SessionSound(o) /\ WritesSound(o)
  BY DEF ArtifactsInv, AgendaSound
<1>3. OffChain(o, session) /\ sessions'[o] = session
  BY <1>1, <1>2 DEF OffChain, become
<1>4. /\ s = [at |-> s.at, cmd |-> s.cmd, seen |-> s.seen, txs |-> s.txs,
              awaits |-> s.awaits, writes |-> s.writes]
      /\ s.writes \in Seq(ToSet(s.writes)) /\ s.txs = <<>>
  BY <1>1, <1>2 DEF SessionSound
<1>5. Len(s.writes) > 1 =>
        /\ session = [s EXCEPT !.writes = Tail(@), !.awaits = {}]
        /\ session.at = "landed" /\ session.cmd = s.cmd /\ session.txs = <<>>
        /\ session.writes = Tail(s.writes)
        /\ session = [at |-> session.at, cmd |-> session.cmd, seen |-> session.seen,
                      txs |-> session.txs,
                      awaits |-> session.awaits, writes |-> session.writes]
  <2>. SUFFICES ASSUME Len(s.writes) > 1
                PROVE  /\ session = [s EXCEPT !.writes = Tail(@), !.awaits = {}]
                       /\ session.at = "landed" /\ session.cmd = s.cmd /\ session.txs = <<>>
                       /\ session.writes = Tail(s.writes)
                       /\ session = [at |-> session.at, cmd |-> session.cmd,
                                     seen |-> session.seen, txs |-> session.txs,
                                     awaits |-> session.awaits, writes |-> session.writes]
    OBVIOUS
  <2>1. Len(s.writes) \in Nat
    BY <1>4
  <2>2. session = [s EXCEPT !.writes = Tail(s.writes), !.awaits = {}]
    BY <2>1
  <2>. HIDE DEF session
  <2>3. DOMAIN s = {"at", "cmd", "seen", "txs", "awaits", "writes"}
    BY <1>4
  <2>4. /\ session.at = s.at /\ session.cmd = s.cmd /\ session.txs = s.txs
        /\ session.writes = Tail(s.writes)
    BY <2>2, <2>3
  <2>5. DOMAIN session = {"at", "cmd", "seen", "txs", "awaits", "writes"}
        /\ session = [x \in DOMAIN session |-> session[x]]
    BY <2>2, <2>3
  <2>. QED
    BY <1>1, <1>4, <2>2, <2>4, <2>5
<1>6. agenda[o] \in Seq(ToSet(agenda[o]))
  BY DEF ArtifactsInv, AgendaSound
<1>7. \E d \in {0, 1} : Advances(o, d)
  <2>1. session.at = "idle" \/ (session.at # "idle" /\ session.cmd = s.cmd)
    <3>1. CASE Len(s.writes) <= 1
      BY <3>1 DEF Idle
    <3>2. CASE ~(Len(s.writes) <= 1)
      <4>1. Len(s.writes) > 1
        BY <1>4, <3>2
      <4>. QED
        BY <1>5, <4>1
    <3>. QED
      BY <3>1, <3>2
  <2>. HIDE DEF session
  <2>. QED
    BY <1>1, <1>3, <1>6, <2>1, RunningKeepsQueue
<1>8. AgendaSound' /\ Shrinking
  <2>. HIDE DEF session
  <2>. QED
    BY <1>1, <1>2, <1>3, <1>6, <1>7, OffChainQueues
<1>9. ChainSound'
  BY <1>1, ChainStaysSound
<1>10. FilesSound'
  <2>1. CASE s.writes = <<>>
    BY <1>1, <1>8, <2>1, FilesStaySound
  <2>2. CASE s.writes # <<>>
    <3>. DEFINE w == s.writes[1]
    <3>1. Head(s.writes) = w /\ 1 \in DOMAIN s.writes
      BY <1>4, <2>2, TailOfSeq
    <3>2. w.file \in Files /\ Sound(w.file, w.content)
      BY <1>1, <1>2, <3>1 DEF WritesSound
    <3>3. files' = [files EXCEPT ![w.file] = w.content]
      BY <1>1, <2>2, <3>1
    <3>4. DOMAIN files = Files /\ \A f \in Files : Sound(f, files[f])
      BY DEF ArtifactsInv, FilesSound
    <3>5. \A f \in Files : Sound(f, files'[f])
      <4>. HIDE DEF w
      <4>. QED
        BY <3>2, <3>3, <3>4
    <3>6. \A f \in Files : (Sound(f, files[f]))'
      <4>. TAKE f \in Files
      <4>1. PICK x : x = files'[f]
        OBVIOUS
      <4>2. CopySound(f, x, was, DOMAIN utxo)'
        BY <1>1, <1>8, <3>5, <4>1, SameCopyStaysSound DEF Sound
      <4>. QED
        BY <4>1, <4>2 DEF Sound
    <3>. QED
      BY <3>3, <3>4, <3>6 DEF FilesSound
  <2>. QED
    BY <2>1, <2>2
<1>11. SessionSound(o)' /\ SeenSound(o)' /\ WritesSound(o)'
  <2>1. CASE Len(s.writes) <= 1
    BY <1>3, <2>1, IdleIsSound
  <2>2. CASE Len(s.writes) > 1
    <3>1. s.writes # <<>>
      BY <2>2, EmptyIsSeq
    <3>2. PICK ws : ws = Tail(s.writes)
      OBVIOUS
    <3>3. /\ ws \in Seq(ToSet(s.writes))
          /\ \A i \in DOMAIN ws : i + 1 \in DOMAIN s.writes /\ ws[i] = s.writes[i + 1]
      BY <1>4, <3>1, <3>2, TailOfSeq
    <3>4. ws \in Seq(ToSet(ws))
      BY <3>3, SeqOfItsElements
    <3>5. /\ session.at = "landed" /\ session.txs = <<>> /\ session.writes = ws
          /\ session = [at |-> session.at, cmd |-> session.cmd, seen |-> session.seen,
                        txs |-> session.txs,
                        awaits |-> session.awaits, writes |-> session.writes]
      BY <1>5, <2>2, <3>2
    <3>. HIDE DEF session
    <3>6. SessionSound(o)'
      BY <1>3, <3>4, <3>5, EmptyIsSeq DEF SessionSound
    <3>7. SeenSound(o)'
      BY <1>3, <3>5 DEF SeenSound
    <3>8. \A i \in DOMAIN ws : ws[i].file \in Files /\ Sound(ws[i].file, ws[i].content)
      BY <1>1, <1>2, <3>3 DEF WritesSound
    <3>9. \A i \in DOMAIN ws : (Sound(ws[i].file, ws[i].content))'
      <4>. TAKE i \in DOMAIN ws
      <4>1. PICK f, x : f = ws[i].file /\ x = ws[i].content
        OBVIOUS
      <4>2. CopySound(f, x, was, DOMAIN utxo)'
        BY <1>1, <1>8, <3>8, <4>1, SameCopyStaysSound DEF Sound
      <4>. QED
        BY <4>1, <4>2 DEF Sound
    <3>10. WritesSound(o)'
      BY <1>3, <3>5, <3>8, <3>9 DEF WritesSound
    <3>. QED
      BY <3>6, <3>7, <3>10
  <2>3. Len(s.writes) \in Nat
    BY <1>4
  <2>. QED
    BY <2>1, <2>2, <2>3
<1>. HIDE DEF session
<1>. QED
  BY <1>3, <1>8, <1>9, <1>10, <1>11, OffChainStep

-----------------------------------------------------------------------------
(* Steps of the chain *)

Landing(t) ==
  /\ Tx(t) /\ landing(t)
  /\ UNCHANGED <<files, agenda>>

LEMMA AppliedNames ==
  ASSUME NEW t
  PROVE  DOMAIN applied(t) \subseteq
           DOMAIN t.puts \cup {newCoin} \cup (DOMAIN utxo \ DOMAIN t.spends)
<1>1. DOMAIN changeOf(t) \subseteq {newCoin}
  BY DEF changeOf, nothing, one
<1>2. DOMAIN kept(t) = DOMAIN utxo \ DOMAIN t.spends
  BY DEF kept
<1>3. DOMAIN applied(t) = DOMAIN t.puts \cup (DOMAIN changeOf(t) \cup DOMAIN kept(t))
  BY DEF applied, beside
<1>. QED
  BY <1>1, <1>2, <1>3

LEMMA AppliedIsFinite ==
  ASSUME NEW t, Tx(t), IsFiniteSet(DOMAIN utxo)
  PROVE  IsFiniteSet(DOMAIN applied(t))
<1>1. IsFiniteSet(DOMAIN utxo \ DOMAIN t.spends)
  BY FS_Difference
<1>2. IsFiniteSet(DOMAIN t.puts \cup {newCoin})
  BY FiniteOne, FiniteCup DEF Tx
<1>. QED
  BY <1>1, <1>2, AppliedNames, FiniteCup, FS_Subset

(* A coin that is gone does not come back: no output takes its name.       *)
LEMMA StillGone ==
  ASSUME NEW t, Tx(t), utxo' = applied(t), NEW ref, ref # newCoin, NEW N, gone(ref, N),
         NEW X, (DOMAIN utxo \ DOMAIN t.spends) \ X \subseteq N
  PROVE  gone(ref, DOMAIN utxo' \ X)
<1>1. ref \notin DOMAIN t.puts
  BY DEF Tx, gone
<1>2. ref \in DOMAIN utxo' => ref \in DOMAIN utxo \ DOMAIN t.spends
  BY <1>1, AppliedNames
<1>. QED
  BY <1>2 DEF gone

LEMMA ChangeIsFresh ==
  ASSUME ArtifactsInv
  PROVE  /\ \A f \in Files : newCoin \notin refsIn(f, files[f])
         /\ \A o \in Operators : sessions[o].at = "ready" =>
              \A f \in Files : newCoin \notin refsIn(f, sessions[o].seen[f])
         /\ \A o \in Operators : \A i \in DOMAIN sessions[o].writes :
              newCoin \notin refsIn(sessions[o].writes[i].file, sessions[o].writes[i].content)
<1>1. newCoin \notin taken
  BY TakenIsFinite, FreshNames
<1>2. newCoin \notin recorded
  BY <1>1 DEF taken
<1>3. \A f \in Files : newCoin \notin refsIn(f, files[f])
  BY <1>2 DEF recorded, refsOf
<1>4. ASSUME NEW o \in Operators, sessions[o].at = "ready", NEW f \in Files
      PROVE  newCoin \notin refsIn(f, sessions[o].seen[f])
  <2>1. o \in reading
    BY <1>4 DEF reading
  <2>2. newCoin \notin refsOf(sessions[o].seen)
    BY <1>2, <2>1 DEF recorded
  <2>. QED
    BY <2>2 DEF refsOf
<1>5. ASSUME NEW o \in Operators, NEW i \in DOMAIN sessions[o].writes
      PROVE  newCoin \notin refsIn(sessions[o].writes[i].file, sessions[o].writes[i].content)
  <2>1. sessions[o].writes[i] \in writing
    BY DEF writing, ToSet
  <2>. QED
    BY <1>2, <2>1 DEF recorded
<1>. QED
  BY <1>3, <1>4, <1>5

(* What was sound before the landing, of the chain or of what it was about *)
(* to become, is sound after it.                                           *)
LEMMA LandedCopy ==
  ASSUME NEW t, Landing(t), Shrinking, NEW f, NEW x, NEW W, NEW N, CopySound(f, x, W, N),
         newCoin \notin refsIn(f, x), NEW V, W \subseteq V,
         NEW X, (DOMAIN utxo \ DOMAIN t.spends) \ X \subseteq N,
         NEW M, M = DOMAIN utxo' \ X
  PROVE  CopySound(f, x, V, M)'
<1>1. \A ref \in refsIn(f, x) : gone(ref, N) => gone(ref, M)
  BY StillGone DEF Landing, landing
<1>. QED
  BY <1>1, CopyStaysSound

LEMMA LandingKeepsFiles ==
  ASSUME ArtifactsInv, NEW t, Landing(t), Shrinking
  PROVE  FilesSound' /\ ChainSound'
<1>1. /\ FilesSound /\ ChainSound /\ files' = files
      /\ was' = was \cup lived(t.puts) /\ utxo' = applied(t) /\ adrift' \subseteq adrift
  BY DEF ArtifactsInv, Landing, landing
<1>2. \A f \in Files : (Sound(f, files[f]))'
  <2>. TAKE f \in Files
  <2>1. PICK x, W, N, V, M : /\ x = files[f] /\ W = was /\ N = DOMAIN utxo
                             /\ V = was' /\ M = DOMAIN utxo' \ {}
    OBVIOUS
  <2>2. CopySound(f, x, W, N) /\ newCoin \notin refsIn(f, x) /\ W \subseteq V
    BY <1>1, <2>1, ChangeIsFresh DEF FilesSound, Sound
  <2>3. (DOMAIN utxo \ DOMAIN t.spends) \ {} \subseteq N
    BY <2>1
  <2>4. CopySound(f, x, V, M)'
    BY <2>1, <2>2, <2>3, LandedCopy
  <2>5. x = files'[f] /\ M = DOMAIN utxo'
    BY <1>1, <2>1
  <2>. QED
    BY <2>1, <2>4, <2>5 DEF Sound
<1>3. FilesSound'
  BY <1>1, <1>2 DEF FilesSound
<1>4. ChainSound'
  <2>1. IsFiniteSet(DOMAIN utxo')
    BY <1>1, AppliedIsFinite DEF ChainSound, Landing
  <2>2. IsFiniteSet(adrift')
    BY <1>1, FS_Subset DEF ChainSound
  <2>3. (\A u \in adrift : Tx(u))'
    BY <1>1 DEF ChainSound, Tx
  <2>. QED
    BY <2>1, <2>2, <2>3 DEF ChainSound
<1>. QED
  BY <1>3, <1>4

LEMMA SurvivorsAreSound ==
  ASSUME NEW t, NEW txs, txs \in Seq(ToSet(txs))
  PROVE  LET rest == survivors(t, txs)
         IN  /\ rest \in Seq(ToSet(rest)) /\ Len(rest) = Len(txs) /\ DOMAIN rest = DOMAIN txs
             /\ rest = <<>> <=> txs = <<>>
             /\ \A i \in DOMAIN txs : rest[i] # None => rest[i] = txs[i]
<1>. DEFINE rest == survivors(t, txs)
<1>1. DOMAIN rest = DOMAIN txs /\ \A i \in DOMAIN txs : rest[i] # None => rest[i] = txs[i]
  BY DEF survivors
<1>2. rest \in Seq(ToSet(txs) \cup {None})
  <2>1. rest \in [1 .. Len(txs) -> ToSet(txs) \cup {None}]
    BY DEF survivors, ToSet
  <2>2. Len(txs) \in Nat
    OBVIOUS
  <2>. HIDE DEF rest
  <2>. QED
    BY <2>1, <2>2
<1>. HIDE DEF rest
<1>3. Len(rest) = Len(txs)
  BY <1>1, <1>2
<1>4. rest \in Seq(ToSet(rest))
  BY <1>2, SeqOfItsElements
<1>5. rest = <<>> <=> txs = <<>>
  BY <1>2, <1>3
<1>. QED
  BY <1>1, <1>3, <1>4, <1>5 DEF rest

(* A session whose transaction is not the one that lands. *)
LEMMA BystanderIsSound ==
  ASSUME ArtifactsInv, NEW t, Landing(t), Shrinking, NEW o \in Operators,
         sessions'[o] = [sessions[o] EXCEPT !.txs = survivors(t, @)]
  PROVE  SessionSound(o)' /\ SeenSound(o)' /\ WritesSound(o)'
<1>. DEFINE s == sessions[o]
            rest == survivors(t, s.txs)
<1>1. SessionSound(o) /\ SeenSound(o) /\ WritesSound(o)
  BY DEF ArtifactsInv
<1>2. /\ was' = was \cup lived(t.puts) /\ utxo' = applied(t)
  BY DEF Landing, landing
<1>3. /\ s.txs \in Seq(ToSet(s.txs)) /\ DOMAIN s = {"at", "cmd", "seen", "txs", "awaits", "writes"}
  <2>1. s = [at |-> s.at, cmd |-> s.cmd, seen |-> s.seen, txs |-> s.txs,
             awaits |-> s.awaits, writes |-> s.writes]
    BY <1>1 DEF SessionSound
  <2>. QED
    BY <1>1, <2>1 DEF SessionSound
<1>4. /\ rest \in Seq(ToSet(rest)) /\ Len(rest) = Len(s.txs) /\ DOMAIN rest = DOMAIN s.txs
      /\ rest = <<>> <=> s.txs = <<>>
      /\ \A i \in DOMAIN s.txs : rest[i] # None => rest[i] = s.txs[i]
  BY <1>3, SurvivorsAreSound
<1>5. /\ sessions'[o].at = s.at /\ sessions'[o].cmd = s.cmd /\ sessions'[o].seen = s.seen
      /\ sessions'[o].txs = rest /\ sessions'[o].writes = s.writes
      /\ DOMAIN sessions'[o] = {"at", "cmd", "seen", "txs", "awaits", "writes"}
      /\ sessions'[o] = [x \in DOMAIN sessions'[o] |-> sessions'[o][x]]
  <2>. HIDE DEF rest
  <2>1. sessions'[o] = [s EXCEPT !.txs = rest]
    BY DEF rest
  <2>. QED
    BY <1>3, <2>1
<1>. HIDE DEF rest
<1>6. SessionSound(o)'
  <2>1. sessions'[o] = [at |-> sessions'[o].at, cmd |-> sessions'[o].cmd,
                        seen |-> sessions'[o].seen, txs |-> sessions'[o].txs,
                        awaits |-> sessions'[o].awaits, writes |-> sessions'[o].writes]
    BY <1>5
  <2>2. /\ s.at \in {"idle", "ready", "sent", "landed"} /\ s.writes \in Seq(ToSet(s.writes))
        /\ s.at \in {"idle", "ready"} => s.writes = <<>>
        /\ s.at = "sent" <=> rest # <<>>
        /\ s.at = "sent" /\ s.writes # <<>> => Len(rest) = 1
    BY <1>1, <1>4 DEF SessionSound
  <2>3. \A i \in DOMAIN rest : rest[i] # None => Tx(rest[i])
    BY <1>1, <1>4 DEF SessionSound
  <2>. QED
    BY <1>4, <1>5, <2>1, <2>2, <2>3 DEF SessionSound, Tx
<1>7. SeenSound(o)'
  <2>. SUFFICES ASSUME s.at = "ready", NEW f \in Files
                PROVE  (Sound(f, sessions[o].seen[f]))'
    BY <1>5 DEF SeenSound
  <2>1. PICK x, W, N, V, M : /\ x = s.seen[f] /\ W = was /\ N = DOMAIN utxo
                             /\ V = was' /\ M = DOMAIN utxo' \ {}
    OBVIOUS
  <2>2. CopySound(f, x, W, N) /\ newCoin \notin refsIn(f, x) /\ W \subseteq V
    BY <1>1, <1>2, <2>1, ChangeIsFresh DEF SeenSound, Sound
  <2>3. (DOMAIN utxo \ DOMAIN t.spends) \ {} \subseteq N
    BY <2>1
  <2>4. CopySound(f, x, V, M)'
    BY <2>1, <2>2, <2>3, LandedCopy
  <2>5. x = sessions'[o].seen[f] /\ M = DOMAIN utxo'
    BY <1>5, <2>1
  <2>. QED
    BY <2>1, <2>4, <2>5 DEF Sound
<1>8. WritesSound(o)'
  <2>1. PICK ws, u : ws = s.writes /\ u = Head(rest)
    OBVIOUS
  <2>2. \A i \in DOMAIN ws :
          ws[i].file \in Files /\ newCoin \notin refsIn(ws[i].file, ws[i].content)
    BY <1>1, <2>1, ChangeIsFresh DEF WritesSound
  <2>3. ASSUME s.at = "landed", NEW i \in DOMAIN ws
        PROVE  Sound(ws[i].file, ws[i].content)'
    <3>1. PICK f, x, W, N, V, M : /\ f = ws[i].file /\ x = ws[i].content
                                  /\ W = was /\ N = DOMAIN utxo
                                  /\ V = was' /\ M = DOMAIN utxo' \ {}
      OBVIOUS
    <3>2. CopySound(f, x, W, N) /\ newCoin \notin refsIn(f, x) /\ W \subseteq V
      BY <1>1, <1>2, <2>1, <2>2, <2>3, <3>1 DEF WritesSound, Sound
    <3>3. (DOMAIN utxo \ DOMAIN t.spends) \ {} \subseteq N
      BY <3>1
    <3>4. CopySound(f, x, V, M)'
      BY <3>1, <3>2, <3>3, LandedCopy
    <3>5. M = DOMAIN utxo'
      BY <3>1
    <3>. QED
      BY <3>1, <3>4, <3>5 DEF Sound
  <2>4. ASSUME s.at = "sent", u # None, NEW i \in DOMAIN ws
        PROVE  SoundAfter(ws[i].file, ws[i].content, u)'
    <3>1. u = Head(s.txs)
      <4>1. s.txs # <<>> /\ rest # <<>>
        BY <1>1, <1>4, <2>4 DEF SessionSound
      <4>2. u = rest[1] /\ Head(s.txs) = s.txs[1] /\ 1 \in DOMAIN s.txs
        BY <1>3, <1>4, <2>1, <4>1, TailOfSeq
      <4>. QED
        BY <1>4, <2>4, <4>2
    <3>2. PICK f, x, X, W, N, V, M :
            /\ f = ws[i].file /\ x = ws[i].content /\ X = DOMAIN u.spends
            /\ W = was \cup lived(u.puts) /\ N = DOMAIN utxo \ X
            /\ V = was' \cup lived(u.puts) /\ M = DOMAIN utxo' \ X
      OBVIOUS
    <3>3. CopySound(f, x, W, N) /\ newCoin \notin refsIn(f, x) /\ W \subseteq V
      BY <1>1, <1>2, <2>1, <2>2, <2>4, <3>1, <3>2 DEF WritesSound, SoundAfter
    <3>4. (DOMAIN utxo \ DOMAIN t.spends) \ X \subseteq N
      BY <3>2
    <3>5. CopySound(f, x, V, M)'
      BY <3>2, <3>3, <3>4, LandedCopy
    <3>6. (lived(u.puts))' = lived(u.puts)
      BY DEF lived, stateOf
    <3>. QED
      BY <3>2, <3>5, <3>6 DEF SoundAfter
  <2>5. sessions'[o].writes = ws /\ sessions'[o].txs = rest /\ sessions'[o].at = s.at
    BY <1>5, <2>1
  <2>. QED
    BY <2>1, <2>2, <2>3, <2>4, <2>5 DEF WritesSound
<1>. QED
  BY <1>6, <1>7, <1>8

LEMMA LandingQueues ==
  ASSUME ArtifactsInv, UNCHANGED agenda,
         \A q \in Operators :
           /\ sessions'[q].cmd = sessions[q].cmd
           /\ sessions'[q].at = "idle" <=> sessions[q].at = "idle"
  PROVE  AgendaSound' /\ Shrinking
<1>1. /\ AgendaSound /\ (DOMAIN agenda = Operators)'
      /\ \A q \in Operators : agenda[q] \in Seq(ToSet(agenda[q])) /\ agenda'[q] = agenda[q]
  BY DEF ArtifactsInv, AgendaSound
<1>2. \A q \in Operators : \E d \in {0, 1} : Advances(q, d)
  <2>. TAKE q \in Operators
  <2>1. CASE sessions[q].at = "idle"
    BY <1>1, <2>1, IdleKeepsQueue
  <2>2. CASE sessions[q].at # "idle"
    BY <1>1, <2>2, RunningKeepsQueue
  <2>. QED
    BY <2>1, <2>2
<1>3. (\A q \in Operators : agenda[q] \in Seq(ToSet(agenda[q])))'
  BY <1>1
<1>. QED
  BY <1>1, <1>2, <1>3, AdvancedQueuesAreSound DEF Shrinking

LEMMA BystanderKeepsPlace ==
  ASSUME ArtifactsInv, NEW t, NEW q \in Operators,
         sessions'[q] = [sessions[q] EXCEPT !.txs = survivors(t, @)]
  PROVE  sessions'[q].cmd = sessions[q].cmd /\ sessions'[q].at = sessions[q].at
<1>1. SessionSound(q)
  BY DEF ArtifactsInv
<1>2. DOMAIN sessions[q] = {"at", "cmd", "seen", "txs", "awaits", "writes"}
  <2>1. sessions[q] = [at |-> sessions[q].at, cmd |-> sessions[q].cmd, seen |-> sessions[q].seen,
                       txs |-> sessions[q].txs,
                       awaits |-> sessions[q].awaits, writes |-> sessions[q].writes]
    BY <1>1 DEF SessionSound
  <2>. QED
    BY <2>1
<1>. QED
  BY <1>2

LEMMA LandAdriftKeepsInv ==
  ASSUME ArtifactsInv, LandAdrift
  PROVE  ArtifactsInv'
<1>1. PICK t \in adrift :
        /\ landing(t) /\ UNCHANGED <<files, agenda>>
        /\ sessions' = [q \in Operators |-> [sessions[q] EXCEPT !.txs = survivors(t, @)]]
  BY DEF LandAdrift
<1>2. Landing(t)
  BY <1>1 DEF ArtifactsInv, ChainSound, Landing
<1>3. /\ DOMAIN sessions' = Operators
      /\ \A q \in Operators : sessions'[q] = [sessions[q] EXCEPT !.txs = survivors(t, @)]
  BY <1>1
<1>4. AgendaSound' /\ Shrinking
  BY <1>1, <1>3, BystanderKeepsPlace, LandingQueues
<1>5. FilesSound' /\ ChainSound'
  BY <1>2, <1>4, LandingKeepsFiles
<1>6. \A q \in Operators : SessionSound(q)' /\ SeenSound(q)' /\ WritesSound(q)'
  BY <1>2, <1>3, <1>4, BystanderIsSound
<1>. QED
  BY <1>3, <1>4, <1>5, <1>6 DEF ArtifactsInv

LEMMA LengthOfSeq ==
  ASSUME NEW S, NEW q \in Seq(S)
  PROVE  Len(q) \in Nat /\ (q = <<>> <=> Len(q) = 0)
OBVIOUS

LEMMA LandKeepsInv ==
  ASSUME ArtifactsInv, NEW o \in Operators, Land(o)
  PROVE  ArtifactsInv'
<1>. DEFINE s == sessions[o]
            rest == survivors(Head(s.txs), Tail(s.txs))
            at == IF Len(s.txs) = 1 THEN "landed" ELSE "sent"
<1>1. /\ s.at = "sent" /\ Head(s.txs) # None /\ landing(Head(s.txs))
      /\ UNCHANGED <<files, agenda>>
      /\ sessions' =
           [q \in Operators |->
              IF q # o THEN [sessions[q] EXCEPT !.txs = survivors(Head(s.txs), @)]
              ELSE [s EXCEPT !.at = at, !.txs = survivors(Head(s.txs), Tail(@)),
                             !.awaits = awaited(Head(s.txs).puts)]]
  BY DEF Land
<1>2. SessionSound(o) /\ WritesSound(o)
  BY DEF ArtifactsInv
<1>3. /\ s.txs \in Seq(ToSet(s.txs)) /\ s.txs # <<>>
      /\ DOMAIN s = {"at", "cmd", "seen", "txs", "awaits", "writes"}
  <2>1. s = [at |-> s.at, cmd |-> s.cmd, seen |-> s.seen, txs |-> s.txs,
             awaits |-> s.awaits, writes |-> s.writes]
    BY <1>2 DEF SessionSound
  <2>. QED
    BY <1>1, <1>2, <2>1 DEF SessionSound
<1>4. /\ Head(s.txs) = s.txs[1] /\ 1 \in DOMAIN s.txs
      /\ Tail(s.txs) \in Seq(ToSet(s.txs)) /\ Len(Tail(s.txs)) = Len(s.txs) - 1
      /\ \A i \in DOMAIN Tail(s.txs) : i + 1 \in DOMAIN s.txs /\ Tail(s.txs)[i] = s.txs[i + 1]
  BY <1>3, TailOfSeq
<1>5. PICK t : t = Head(s.txs)
  OBVIOUS
<1>6. Tx(t) /\ Landing(t)
  <2>1. Tx(t)
    BY <1>1, <1>2, <1>4, <1>5 DEF SessionSound
  <2>. QED
    BY <1>1, <1>5, <2>1 DEF Landing
<1>7. /\ DOMAIN sessions' = Operators
      /\ \A q \in Operators \ {o} :
           sessions'[q] = [sessions[q] EXCEPT !.txs = survivors(t, @)]
      /\ sessions'[o] = [s EXCEPT !.at = at, !.txs = rest, !.awaits = awaited(t.puts)]
  <2>. HIDE DEF at
  <2>. QED
    BY <1>1, <1>5
<1>8. /\ rest \in Seq(ToSet(rest)) /\ Len(rest) = Len(s.txs) - 1
      /\ DOMAIN rest = DOMAIN Tail(s.txs)
      /\ \A i \in DOMAIN rest : rest[i] # None => rest[i] = Tail(s.txs)[i]
  <2>1. Tail(s.txs) \in Seq(ToSet(Tail(s.txs)))
    BY <1>4, SeqOfItsElements
  <2>2. /\ rest \in Seq(ToSet(rest)) /\ Len(rest) = Len(Tail(s.txs))
        /\ DOMAIN rest = DOMAIN Tail(s.txs)
        /\ \A i \in DOMAIN Tail(s.txs) : rest[i] # None => rest[i] = Tail(s.txs)[i]
    BY <2>1, SurvivorsAreSound
  <2>. HIDE DEF rest
  <2>. QED
    BY <1>4, <2>2
<1>. HIDE DEF rest
<1>9. /\ sessions'[o].at = at /\ sessions'[o].cmd = s.cmd /\ sessions'[o].txs = rest
      /\ sessions'[o].writes = s.writes
      /\ DOMAIN sessions'[o] = {"at", "cmd", "seen", "txs", "awaits", "writes"}
      /\ sessions'[o] = [x \in DOMAIN sessions'[o] |-> sessions'[o][x]]
  <2>. HIDE DEF at
  <2>. QED
    BY <1>3, <1>7
<1>10. at \in {"sent", "landed"} /\ (at = "sent" <=> rest # <<>>)
  <2>1. Len(s.txs) \in Nat /\ (rest = <<>> <=> Len(rest) = 0)
    BY <1>3, <1>8, LengthOfSeq
  <2>2. \A n \in Nat : n = 1 <=> n - 1 = 0
    OBVIOUS
  <2>. QED
    BY <1>8, <2>1, <2>2
<1>11. AgendaSound' /\ Shrinking
  <2>1. \A q \in Operators : /\ sessions'[q].cmd = sessions[q].cmd
                             /\ sessions'[q].at = "idle" <=> sessions[q].at = "idle"
    <3>. TAKE q \in Operators
    <3>1. CASE q = o
      <4>. HIDE DEF at
      <4>. QED
        BY <1>1, <1>9, <1>10, <3>1
    <3>2. CASE q # o
      BY <1>7, <3>2, BystanderKeepsPlace
    <3>. QED
      BY <3>1, <3>2
  <2>. QED
    BY <1>1, <2>1, LandingQueues
<1>12. FilesSound' /\ ChainSound'
  BY <1>6, <1>11, LandingKeepsFiles
<1>13. SessionSound(o)'
  <2>1. sessions'[o] = [at |-> sessions'[o].at, cmd |-> sessions'[o].cmd,
                        seen |-> sessions'[o].seen, txs |-> sessions'[o].txs,
                        awaits |-> sessions'[o].awaits, writes |-> sessions'[o].writes]
    BY <1>9
  <2>2. s.writes \in Seq(ToSet(s.writes)) /\ (s.writes # <<>> => Len(s.txs) = 1)
    BY <1>1, <1>2 DEF SessionSound
  <2>3. at = "sent" => s.writes = <<>>
    BY <2>2
  <2>4. \A i \in DOMAIN rest : rest[i] # None => Tx(rest[i])
    BY <1>2, <1>4, <1>8 DEF SessionSound
  <2>. HIDE DEF at
  <2>. QED
    BY <1>8, <1>9, <1>10, <2>1, <2>2, <2>3, <2>4 DEF SessionSound, Tx
<1>14. SeenSound(o)'
  <2>. HIDE DEF at
  <2>. QED
    BY <1>9, <1>10 DEF SeenSound
<1>15. WritesSound(o)'
  <2>1. PICK ws : ws = s.writes
    OBVIOUS
  <2>2. ASSUME NEW i \in DOMAIN ws
        PROVE  ws[i].file \in Files /\ Sound(ws[i].file, ws[i].content)' /\ at = "landed"
    <3>1. at = "landed"
      <4>1. s.writes # <<>>
        BY <2>1, <2>2, EmptyIsSeq
      <4>2. Len(s.txs) = 1
        BY <1>1, <1>2, <4>1 DEF SessionSound
      <4>. QED
        BY <4>2
    <3>2. PICK f, x, W, N, V, M :
            /\ f = ws[i].file /\ x = ws[i].content
            /\ W = was \cup lived(t.puts) /\ N = DOMAIN utxo \ DOMAIN t.spends
            /\ V = was' /\ M = DOMAIN utxo' \ {}
      OBVIOUS
    <3>3. f \in Files /\ CopySound(f, x, W, N)
      BY <1>1, <1>2, <1>5, <2>1, <3>2 DEF WritesSound, SoundAfter
    <3>4. newCoin \notin refsIn(f, x) /\ W \subseteq V
      BY <1>6, <2>1, <3>2, ChangeIsFresh DEF Landing, landing
    <3>5. (DOMAIN utxo \ DOMAIN t.spends) \ {} \subseteq N
      BY <3>2
    <3>6. CopySound(f, x, V, M)'
      BY <1>6, <1>11, <3>2, <3>3, <3>4, <3>5, LandedCopy
    <3>7. M = DOMAIN utxo'
      BY <3>2
    <3>. QED
      BY <3>1, <3>2, <3>3, <3>6, <3>7 DEF Sound
  <2>3. sessions'[o].writes = ws /\ sessions'[o].at = at
    BY <1>9, <2>1
  <2>. HIDE DEF at
  <2>. QED
    BY <2>2, <2>3 DEF WritesSound
<1>16. \A q \in Operators : SessionSound(q)' /\ SeenSound(q)' /\ WritesSound(q)'
  <2>. TAKE q \in Operators
  <2>1. CASE q = o
    BY <1>13, <1>14, <1>15, <2>1
  <2>2. CASE q # o
    BY <1>6, <1>7, <1>11, <2>2, BystanderIsSound
  <2>. QED
    BY <2>1, <2>2
<1>. QED
  BY <1>7, <1>11, <1>12, <1>16 DEF ArtifactsInv

-----------------------------------------------------------------------------
(* The theorem *)

LEMMA InitIsSound ==
  ASSUME Init
  PROVE  ArtifactsInv
<1>1. PICK s \in Scenarios : /\ utxo = s.utxo /\ files = s.files /\ agenda = s.agenda
                             /\ sessions = [o \in Operators |-> Idle]
                             /\ adrift = {} /\ was = lived(s.utxo)
  BY DEF Init
<1>2. /\ DOMAIN s.files = Files /\ DOMAIN s.agenda = Operators
      /\ IsFiniteSet(DOMAIN s.utxo)
      /\ \A f \in Files :
           /\ Shaped(f, s.files[f])
           /\ Backed(f, s.files[f], lived(s.utxo))
           /\ Consumed(f, s.files[f], DOMAIN s.utxo)
           /\ Burned(f, s.files[f]) => NoneOffers(s.agenda, "receiver:parameterize", f[2])
      /\ Ordered(s.agenda)
      /\ \A o \in Operators :
           /\ s.agenda[o] \in Seq(ToSet(s.agenda[o]))
           /\ \A i \in DOMAIN s.agenda[o] : \A cmd \in s.agenda[o][i] : Command(cmd)
  BY ScenariosAreSound
<1>3. \A o \in Operators : /\ sessions[o].at = "idle" /\ sessions[o].txs = <<>>
                           /\ sessions[o].writes = <<>>
                           /\ sessions[o] = [at |-> sessions[o].at, cmd |-> sessions[o].cmd,
                                             seen |-> sessions[o].seen, txs |-> sessions[o].txs,
                                             awaits |-> sessions[o].awaits, writes |-> sessions[o].writes]
  BY <1>1 DEF Idle
<1>4. \A o \in Operators : Ahead(o) = agenda[o]
  BY <1>3 DEF Ahead
<1>5. \A o \in Operators : Queues[o] = agenda[o]
  BY <1>4 DEF Queues
<1>6. AgendaSound
  <2>1. Ordered(Queues)
    BY <1>1, <1>2, <1>5 DEF Ordered
  <2>. QED
    BY <1>1, <1>2, <1>4, <2>1 DEF AgendaSound
<1>7. ChainSound
  BY <1>1, <1>2, FS_EmptySet DEF ChainSound
<1>8. FilesSound
  <2>1. \A f \in Files : Burned(f, files[f]) => NoneOffers(Queues, "receiver:parameterize", f[2])
    BY <1>1, <1>2, <1>5 DEF NoneOffers
  <2>. QED
    BY <1>1, <1>2, <2>1 DEF FilesSound, Sound, CopySound
<1>9. \A o \in Operators : SessionSound(o) /\ SeenSound(o) /\ WritesSound(o)
  BY <1>3, EmptyIsSeq DEF SessionSound, SeenSound, WritesSound
<1>. QED
  BY <1>1, <1>6, <1>7, <1>8, <1>9 DEF ArtifactsInv

LEMMA StutterKeepsInv ==
  ASSUME ArtifactsInv, UNCHANGED vars
  PROVE  ArtifactsInv'
<1>1. UNCHANGED <<utxo, files, sessions, agenda, adrift, was>>
  BY DEF vars
<1>2. AgendaSound' /\ Shrinking
  BY <1>1, LandingQueues
<1>3. FilesSound' /\ ChainSound'
  BY <1>1, <1>2, FilesStaySound, ChainStaysSound
<1>4. ASSUME NEW o \in Operators
      PROVE  SessionSound(o)' /\ SeenSound(o)' /\ WritesSound(o)'
  BY <1>1, <1>2, UntouchedSession
<1>. QED
  BY <1>1, <1>2, <1>3, <1>4 DEF ArtifactsInv

LEMMA NextKeepsInv ==
  ASSUME ArtifactsInv, [Next]_vars
  PROVE  ArtifactsInv'
<1>1. CASE UNCHANGED vars
  BY <1>1, StutterKeepsInv
<1>2. ASSUME NEW o \in Operators, Open(o)
      PROVE  ArtifactsInv'
  BY <1>2, OpenKeepsInv
<1>3. ASSUME NEW o \in Operators, Refuse(o)
      PROVE  ArtifactsInv'
  BY <1>3, EndKeepsInv, ChainStaysSound DEF Refuse
<1>4. ASSUME NEW o \in Operators, Submit(o)
      PROVE  ArtifactsInv'
  BY <1>4, SubmitKeepsInv
<1>5. ASSUME NEW o \in Operators, Land(o)
      PROVE  ArtifactsInv'
  BY <1>5, LandKeepsInv
<1>6. ASSUME NEW o \in Operators, Lose(o)
      PROVE  ArtifactsInv'
  BY <1>6, EndKeepsInv, ChainStaysSound DEF Lose
<1>7. ASSUME NEW o \in Operators, Stop(o)
      PROVE  ArtifactsInv'
  BY <1>7, StopKeepsInv
<1>8. ASSUME NEW o \in Operators, Write(o)
      PROVE  ArtifactsInv'
  BY <1>8, WriteKeepsInv
<1>9. ASSUME NEW o \in Operators, NoRefresh(o)
      PROVE  ArtifactsInv'
  BY <1>9, EndKeepsInv, ChainStaysSound DEF NoRefresh
<1>10. CASE LandAdrift
  BY <1>10, LandAdriftKeepsInv
<1>. QED
  BY <1>1, <1>2, <1>3, <1>4, <1>5, <1>6, <1>7, <1>8, <1>9, <1>10 DEF Next

(* The invariant the files rest on: every copy of an artifact, on disk, in *)
(* a command's memory or still to be written, claims what has been on      *)
(* chain or what the command's own transaction is about to put there.      *)
THEOREM ArtifactsAreSound == Spec => []ArtifactsInv
<1>1. Init => ArtifactsInv
  BY InitIsSound
<1>2. ArtifactsInv /\ [Next]_vars => ArtifactsInv'
  BY NextKeepsInv
<1>. QED
  BY <1>1, <1>2, PTL DEF Spec

(* No artifact leads the chain: whatever a file calls deployed, confirmed  *)
(* or updated was once on chain exactly as recorded, for any number of     *)
(* operators, clients, symbols and faults (CLI commands of                 *)
(* src/offchain/cli/src, which write their files after the confirmation).  *)
THEOREM FilesNeverLead == Spec => []RecordedWasLive
<1>1. ArtifactsInv => RecordedWasLive
  BY DEF ArtifactsInv, FilesSound, Sound, CopySound, RecordedWasLive
<1>. QED
  BY <1>1, ArtifactsAreSound, PTL

-----------------------------------------------------------------------------
(* An operator alone: the chain a transaction leaves, but for the change   *)

After(t) == beside(t.puts, kept(t))

(* The names whose datum a file records. *)
Concerns(f, n) ==
  \/ f = Protocol /\ n \in {Config, Hook}
  \/ f[1] = "pair" /\ n[1] = "pair" /\ n[2] = f[2] /\ n[3] = f[3]

AllMirror(dir, U) == \A f \in Files : Mirrors(f, dir[f], U)

(* The files in dir mirror U once they are overwritten by ws. *)
Settled(ws, dir, U) ==
  /\ \A i \in DOMAIN ws : Mirrors(ws[i].file, ws[i].content, U)
  /\ \A f \in Files : (\A i \in DOMAIN ws : ws[i].file # f) => Mirrors(f, dir[f], U)

(* Leaves nothing that a file records. *)
Harmless(t) == \A n \in DOMAIN t.puts : n[1] \notin {"config", "hook", "pair"}

Protocols(U) == {Config, Hook} \cap DOMAIN U

(* Only config:bootstrap brings a protocol where there was none, and pairs *)
(* are those of some client.                                               *)
Founds(puts, cmd) ==
  /\ Protocols(puts) # {} => Protocols(utxo) # {} \/ cmd.op = "config:bootstrap"
  /\ \A n \in DOMAIN puts : n[1] = "pair" => n[2] \in Clients /\ n[3] \in Symbols

PlanMirrors(p, dir, cmd) ==
  \/ p.txs = <<>> /\ Settled(p.writes, dir, utxo)
  \/ /\ Len(p.txs) = 1 /\ Founds(p.txs[1].puts, cmd)
     /\ Settled(p.writes, dir, After(p.txs[1]))
  \/ p.writes = <<>> /\ \A i \in DOMAIN p.txs : Harmless(p.txs[i])

LEMMA AfterDef ==
  ASSUME NEW t
  PROVE  /\ DOMAIN After(t) = DOMAIN t.puts \cup (DOMAIN utxo \ DOMAIN t.spends)
         /\ \A n \in DOMAIN t.puts : After(t)[n] = t.puts[n]
         /\ \A n \in DOMAIN After(t) \ DOMAIN t.puts :
              n \in DOMAIN utxo /\ n \notin DOMAIN t.spends /\ After(t)[n] = utxo[n]
BY DEF After, beside, kept

(* What mirrors a chain mirrors one that differs from it in nothing the    *)
(* file is about.                                                          *)
LEMMA StillMirrors ==
  ASSUME NEW f, NEW x, NEW U, NEW V, Mirrors(f, x, U),
         \A n \in DOMAIN V : Concerns(f, n) => n \in DOMAIN U /\ V[n] = U[n],
         f = Protocol /\ x # None =>
           (gone(x.configRef, DOMAIN U) => gone(x.configRef, DOMAIN V))
  PROVE  Mirrors(f, x, V)
<1>1. CASE f = Protocol
  <2>1. f[1] # "pair"
    BY <1>1 DEF Protocol
  <2>2. \A n \in {Config, Hook} : n \in DOMAIN V => n \in DOMAIN U /\ V[n] = U[n]
    BY <1>1 DEF Concerns
  <2>. QED
    BY <1>1, <2>1, <2>2 DEF Mirrors
<1>2. CASE f # Protocol
  <2>1. f[1] = "pair" => \A n \in DOMAIN V : IsCopy(n, f) => n \in DOMAIN U /\ V[n] = U[n]
    BY DEF Concerns, IsCopy
  <2>. QED
    BY <1>2, <2>1 DEF Mirrors
<1>. QED
  BY <1>1, <1>2

LEMMA UnputMirrors ==
  ASSUME NEW f, NEW x, NEW t, Tx(t), Mirrors(f, x, utxo),
         \A n \in DOMAIN t.puts : ~Concerns(f, n)
  PROVE  Mirrors(f, x, After(t))
<1>1. \A n \in DOMAIN After(t) : Concerns(f, n) => n \in DOMAIN utxo /\ After(t)[n] = utxo[n]
  BY AfterDef
<1>2. gone(x.configRef, DOMAIN utxo) => gone(x.configRef, DOMAIN After(t))
  BY AfterDef DEF gone, Tx
<1>. QED
  BY <1>1, <1>2, StillMirrors

(* The change of the wallet is nothing a file is about. *)
LEMMA LandedMirrors ==
  ASSUME NEW f, NEW x, NEW t, IsFiniteSet(taken), newCoin \notin refsIn(f, x),
         Mirrors(f, x, After(t))
  PROVE  Mirrors(f, x, applied(t))
<1>1. newCoin[1] = "coin"
  BY FreshNames DEF Coin
<1>2. /\ DOMAIN After(t) \subseteq DOMAIN applied(t)
      /\ \A n \in DOMAIN applied(t) : n[1] # "coin" => n \in DOMAIN After(t)
      /\ DOMAIN applied(t) \subseteq DOMAIN After(t) \cup {newCoin}
  <2>1. DOMAIN changeOf(t) \subseteq {newCoin}
    BY DEF changeOf, nothing, one
  <2>2. DOMAIN applied(t) = DOMAIN t.puts \cup (DOMAIN changeOf(t) \cup DOMAIN kept(t))
    BY DEF applied, beside
  <2>3. DOMAIN After(t) = DOMAIN t.puts \cup DOMAIN kept(t)
    BY DEF After, beside
  <2>. QED
    BY <1>1, <2>1, <2>2, <2>3
<1>3. \A n \in DOMAIN applied(t) : n[1] # "coin" => applied(t)[n] = After(t)[n]
  <2>1. DOMAIN changeOf(t) \subseteq {newCoin}
    BY DEF changeOf, nothing, one
  <2>. QED
    BY <1>1, <1>2, <2>1 DEF applied, After, beside
<1>4. \A n : Concerns(f, n) => n[1] # "coin"
  BY DEF Concerns, Config, Hook
<1>5. f = Protocol /\ x # None =>
        (gone(x.configRef, DOMAIN After(t)) => gone(x.configRef, DOMAIN applied(t)))
  <2>1. f = Protocol /\ x # None => x.configRef \in refsIn(f, x)
    BY DEF refsIn, Protocol
  <2>. QED
    BY <1>2, <2>1 DEF gone
<1>. QED
  BY <1>2, <1>3, <1>4, <1>5, StillMirrors

(* --------------------------- shapes of a plan --------------------------- *)

LEMMA PaperMirrors ==
  ASSUME NEW dir, AllMirror(dir, utxo), NEW cmd, NEW p, NEW file, NEW content,
         Mirrors(file, content, utxo),
         p = [txs |-> <<>>, writes |-> <<write(file, content)>>]
  PROVE  PlanMirrors(p, dir, cmd)
<1>1. DOMAIN p.writes = {1} /\ p.writes[1].file = file /\ p.writes[1].content = content
  BY DEF write
<1>. QED
  BY <1>1 DEF PlanMirrors, Settled, AllMirror

LEMMA EffectMirrors ==
  ASSUME NEW dir, AllMirror(dir, utxo), NEW spends, NEW refs, NEW puts, NEW ws, NEW p,
         p = [txs |-> <<transaction(spends, refs, puts)>>, writes |-> ws],
         Tx(transaction(spends, refs, puts)), NEW cmd, Founds(puts, cmd),
         \A i \in DOMAIN ws :
           Mirrors(ws[i].file, ws[i].content, After(transaction(spends, refs, puts))),
         \A f \in Files : (\A i \in DOMAIN ws : ws[i].file # f) =>
           \A n \in DOMAIN puts : ~Concerns(f, n)
  PROVE  PlanMirrors(p, dir, cmd)
<1>. DEFINE t == transaction(spends, refs, puts)
<1>1. t.puts = puts
  BY DEF transaction
<1>2. p.txs = <<t>> /\ p.writes = ws /\ Tx(t)
  OBVIOUS
<1>3. \A i \in DOMAIN ws : Mirrors(ws[i].file, ws[i].content, After(t))
  OBVIOUS
<1>. HIDE DEF t
<1>4. Len(p.txs) = 1 /\ p.txs[1] = t
  BY <1>2
<1>5. ASSUME NEW f \in Files, \A i \in DOMAIN ws : ws[i].file # f
      PROVE  Mirrors(f, dir[f], After(t))
  BY <1>1, <1>2, <1>5, UnputMirrors DEF AllMirror
<1>. QED
  BY <1>1, <1>2, <1>3, <1>4, <1>5 DEF PlanMirrors, Settled

LEMMA OneFileMirrors ==
  ASSUME NEW dir, AllMirror(dir, utxo), NEW spends, NEW refs, NEW puts, NEW p,
         NEW file, NEW content,
         p = [txs |-> <<transaction(spends, refs, puts)>>,
              writes |-> <<write(file, content)>>],
         Tx(transaction(spends, refs, puts)), NEW cmd, Founds(puts, cmd),
         Mirrors(file, content, After(transaction(spends, refs, puts))),
         \A f \in Files \ {file} : \A n \in DOMAIN puts : ~Concerns(f, n)
  PROVE  PlanMirrors(p, dir, cmd)
<1>. DEFINE ws == <<write(file, content)>>
<1>1. DOMAIN ws = {1} /\ ws[1].file = file /\ ws[1].content = content
  BY DEF write
<1>2. p = [txs |-> <<transaction(spends, refs, puts)>>, writes |-> ws]
  OBVIOUS
<1>. HIDE DEF ws
<1>. QED
  BY <1>1, <1>2, EffectMirrors

(* A command that leaves alone what files record, and says no other thing  *)
(* of it.                                                                  *)
LEMMA QuietMirrors ==
  ASSUME NEW dir, AllMirror(dir, utxo), NEW spends, NEW refs, NEW puts, NEW p,
         NEW file, NEW content, Mirrors(file, content, utxo),
         p = [txs |-> <<transaction(spends, refs, puts)>>,
              writes |-> <<write(file, content)>>],
         Tx(transaction(spends, refs, puts)), NEW cmd,
         \A n \in DOMAIN puts : n[1] \notin {"config", "hook", "pair"}
  PROVE  PlanMirrors(p, dir, cmd)
<1>. DEFINE t == transaction(spends, refs, puts)
<1>1. \A f : \A n \in DOMAIN puts : ~Concerns(f, n)
  BY DEF Concerns, Config, Hook
<1>2. t.puts = puts
  BY DEF transaction
<1>3. Mirrors(file, content, After(t))
  <2>. HIDE DEF t
  <2>1. Tx(t)
    BY DEF t
  <2>. QED
    BY <1>1, <1>2, <2>1, UnputMirrors
<1>4. Founds(puts, cmd)
  BY DEF Founds, Protocols, Config, Hook
<1>. QED
  BY <1>1, <1>3, <1>4, OneFileMirrors

LEMMA OtherFilesMirror ==
  /\ \A x, U : Mirrors(Recovered, x, U)
  /\ \A c, x, U : Mirrors(Client(c), x, U)
<1>1. Recovered # Protocol /\ Recovered[1] # "pair"
  BY DEF Recovered, Protocol
<1>2. \A c : Client(c) # Protocol /\ Client(c)[1] # "pair"
  BY DEF Client, Protocol
<1>. QED
  BY <1>1, <1>2 DEF Mirrors

(* ----------------------- the protocol's own file ------------------------ *)

(* What a command sees when it is alone: files that mirror the chain.      *)
Facing(seen, cmd) ==
  /\ AllMirror(seen, utxo) /\ Reading(seen, cmd)
  /\ cmd.op = "protocol:init" => Protocols(utxo) = {}

LEMMA FacedProtocol ==
  ASSUME NEW seen, NEW cmd, Facing(seen, cmd)
  PROVE  /\ Mirrors(Protocol, seen[Protocol], utxo)
         /\ Config \in DOMAIN utxo => seen[Protocol].config = utxo[Config]
         /\ Hook \in DOMAIN utxo =>
              seen[Protocol].hook = utxo[Hook] /\ "hook" \in seen[Protocol].done
         /\ seen[Protocol] # None =>
              /\ DOMAIN seen[Protocol]
                   = {"config", "configRef", "hook", "hookRef", "scripts", "done"}
              /\ Hook \in DOMAIN utxo => gone(seen[Protocol].hookRef, DOMAIN utxo)
              /\ Protocols(utxo) # {} => gone(seen[Protocol].configRef, DOMAIN utxo)
<1>1. Mirrors(Protocol, seen[Protocol], utxo)
  BY FilesOfKinds DEF Facing, AllMirror
<1>2. ProtocolBorne(seen[Protocol], was, DOMAIN utxo)
  BY HeldFiles DEF Facing, Reading
<1>. QED
  BY <1>1, <1>2 DEF Mirrors, ProtocolBorne, Protocols

(* A file of the protocol that says the same of what is on chain. *)
LEMMA SameProtocolMirrors ==
  ASSUME NEW x, NEW y, NEW U, x # None, Mirrors(Protocol, x, U),
         y.config = x.config, y.configRef = x.configRef, y.hook = x.hook, y.done = x.done
  PROVE  Mirrors(Protocol, y, U)
<1>1. Protocol[1] # "pair"
  BY DEF Protocol
<1>. QED
  BY <1>1 DEF Mirrors

(* A transaction on a live protocol, and the file that records it.         *)
LEMMA MovedProtocolMirrors ==
  ASSUME NEW seen, NEW cmd, Facing(seen, cmd), seen[Protocol] # None, Protocols(utxo) # {},
         NEW t, Tx(t), NEW y, y.configRef = seen[Protocol].configRef,
         Config \in DOMAIN After(t) => y.config = After(t)[Config],
         Hook \in DOMAIN After(t) => y.hook = After(t)[Hook] /\ "hook" \in y.done
  PROVE  Mirrors(Protocol, y, After(t))
<1>1. gone(y.configRef, DOMAIN After(t))
  <2>1. gone(y.configRef, DOMAIN utxo)
    BY FacedProtocol
  <2>2. y.configRef \notin DOMAIN t.puts
    BY <2>1 DEF Tx, gone
  <2>. QED
    BY <2>1, <2>2, AfterDef DEF gone
<1>2. Protocol[1] # "pair"
  BY DEF Protocol
<1>. QED
  BY <1>1, <1>2 DEF Mirrors

(* Nothing but the Config or the PaymentHook is left, so nothing that      *)
(* another file records.                                                   *)
LEMMA OnlyProtocolConcerned ==
  ASSUME NEW f, f # Protocol, NEW puts, \A n \in DOMAIN puts : n[1] # "pair"
  PROVE  \A n \in DOMAIN puts : ~Concerns(f, n)
BY DEF Concerns

(* ------------------- commands without a transaction --------------------- *)

LEMMA ProtocolInitMirrors ==
  ASSUME NEW seen, NEW cmd, Facing(seen, cmd), cmd.op = "protocol:init",
         NEW p \in protocolInit(seen, cmd)
  PROVE  PlanMirrors(p, seen, cmd)
<1>. DEFINE next == [config |-> DraftConfig, configRef |-> None, hook |-> None,
                     hookRef |-> None, scripts |-> [config |-> 0, hook |-> 0], done |-> {}]
<1>1. p = [txs |-> <<>>, writes |-> <<write(Protocol, next)>>]
  BY DEF protocolInit, plan
<1>. HIDE DEF next
<1>2. Mirrors(Protocol, next, utxo)
  <2>1. Protocol[1] # "pair"
    BY DEF Protocol
  <2>. QED
    BY <2>1 DEF Facing, Mirrors, Protocols
<1>. QED
  BY <1>1, <1>2, PaperMirrors DEF Facing

LEMMA ClientInitMirrors ==
  ASSUME NEW seen, NEW cmd, Facing(seen, cmd), NEW p \in clientInit(seen, cmd)
  PROVE  PlanMirrors(p, seen, cmd)
<1>. DEFINE next == [ref |-> None, state |-> None, script |-> 0, done |-> {}]
<1>1. p = [txs |-> <<>>, writes |-> <<write(Client(cmd.client), next)>>]
  BY DEF clientInit, plan
<1>. HIDE DEF next
<1>. QED
  BY <1>1, OtherFilesMirror, PaperMirrors DEF Facing

LEMMA ReceiverParameterizeMirrors ==
  ASSUME NEW seen, NEW cmd, Facing(seen, cmd), NEW p \in receiverParameterize(seen, cmd)
  PROVE  PlanMirrors(p, seen, cmd)
<1>1. PICK next : p = [txs |-> <<>>, writes |-> <<write(Client(cmd.client), next)>>]
  BY DEF receiverParameterize, plan
<1>. QED
  BY <1>1, OtherFilesMirror, PaperMirrors DEF Facing

(* The coin of a live Config is gone, so it is not parameterized again.    *)
LEMMA ConfigParameterizeMirrors ==
  ASSUME NEW seen, NEW cmd, Facing(seen, cmd), NEW p \in configParameterize(seen, cmd)
  PROVE  PlanMirrors(p, seen, cmd)
<1>. DEFINE old == seen[Protocol]
            next(coin) == [old EXCEPT !.configRef = coin, !.done = {},
                                      !.config = configDraft(old)]
<1>1. PICK coin \in bootstrapChoices(old.configRef, {}) :
        old # None /\ p = [txs |-> <<>>, writes |-> <<write(Protocol, next(coin))>>]
  BY DEF configParameterize, plan
<1>2. Protocols(utxo) = {}
  BY <1>1, FacedProtocol DEF bootstrapChoices, coins, gone
<1>. HIDE DEF next
<1>3. Mirrors(Protocol, next(coin), utxo)
  <2>1. Protocol[1] # "pair"
    BY DEF Protocol
  <2>. QED
    BY <1>2, <2>1 DEF Mirrors, Protocols
<1>. QED
  BY <1>1, <1>3, PaperMirrors DEF Facing

(* Nor is a live PaymentHook.                                              *)
LEMMA HookParameterizeMirrors ==
  ASSUME NEW seen, NEW cmd, Facing(seen, cmd), NEW p \in hookParameterize(seen, cmd)
  PROVE  PlanMirrors(p, seen, cmd)
<1>. DEFINE old == seen[Protocol]
            next(coin) == [old EXCEPT !.hookRef = coin, !.hook = hookDraft(old)]
<1>1. PICK coin \in bootstrapChoices(old.hookRef, {old.configRef}) :
        old # None /\ p = [txs |-> <<>>, writes |-> <<write(Protocol, next(coin))>>]
  BY DEF hookParameterize, plan
<1>2. Hook \notin DOMAIN utxo
  BY <1>1, FacedProtocol DEF bootstrapChoices, coins, gone
<1>3. next(coin).config = old.config /\ next(coin).configRef = old.configRef
  BY <1>1, FacedProtocol
<1>. HIDE DEF next
<1>4. Mirrors(Protocol, next(coin), utxo)
  <2>1. Protocol[1] # "pair"
    BY DEF Protocol
  <2>. QED
    BY <1>1, <1>2, <1>3, <2>1, FacedProtocol DEF Mirrors, Protocols
<1>. QED
  BY <1>1, <1>4, PaperMirrors DEF Facing

(* ------------------- transactions on the protocol ----------------------- *)

LEMMA ConfigBootstrapMirrors ==
  ASSUME NEW seen, NEW cmd, Facing(seen, cmd), cmd.op = "config:bootstrap",
         NEW p \in configBootstrap(seen, cmd)
  PROVE  PlanMirrors(p, seen, cmd)
<1>. DEFINE old == seen[Protocol]
            state == bootstrapConfig(old)
            puts == one(Config, state)
            spends == one(old.configRef, "key")
            t == transaction(spends, {}, puts)
            next == [old EXCEPT !.config = state, !.done = @ \cup {"config"}]
<1>1. /\ old # None /\ old.configRef # None /\ old.configRef \in coins
      /\ p = [txs |-> <<transaction(spends, {}, puts)>>, writes |-> <<write(Protocol, next)>>]
  BY DEF configBootstrap, plan
<1>2. Protocols(utxo) = {}
  BY <1>1, FacedProtocol DEF coins, gone
<1>3. Tx(t)
  BY SmallPuts, StatesOfKinds
<1>4. t.puts = puts /\ t.spends = spends
  BY DEF transaction
<1>5. next.config = state /\ next.configRef = old.configRef
  <2>. HIDE DEF state
  <2>. QED
    BY <1>1, FacedProtocol
<1>6. /\ DOMAIN puts = {Config} /\ puts[Config] = state
      /\ DOMAIN spends = {old.configRef}
  BY DEF one
<1>7. \A f \in Files \ {Protocol} : \A n \in DOMAIN puts : ~Concerns(f, n)
  BY <1>6, StatesOfKinds, OnlyProtocolConcerned
<1>8. Founds(puts, cmd)
  BY <1>6, StatesOfKinds DEF Founds
<1>9. /\ Config \in DOMAIN After(t) /\ After(t)[Config] = state
      /\ Hook \notin DOMAIN After(t) /\ gone(old.configRef, DOMAIN After(t))
  <2>. HIDE DEF puts, spends, t, state
  <2>1. Hook # Config /\ old.configRef # Config
    BY <1>1 DEF Config, Hook, coins
  <2>2. Config \in DOMAIN After(t) /\ After(t)[Config] = state
    BY <1>4, <1>6, AfterDef
  <2>3. Hook \notin DOMAIN After(t)
    BY <1>2, <1>4, <1>6, <2>1, AfterDef DEF Protocols
  <2>4. old.configRef \notin DOMAIN After(t)
    BY <1>4, <1>6, <2>1, AfterDef
  <2>5. gone(old.configRef, DOMAIN After(t))
    BY <1>1, <2>4 DEF gone, coins
  <2>. QED
    BY <2>2, <2>3, <2>5
<1>10. Mirrors(Protocol, next, After(t))
  <2>1. Protocol[1] # "pair"
    BY DEF Protocol
  <2>. HIDE DEF next, t
  <2>. QED
    BY <1>5, <1>9, <2>1 DEF Mirrors
<1>. HIDE DEF next, spends, puts
<1>. QED
  BY <1>1, <1>3, <1>7, <1>8, <1>10, OneFileMirrors DEF Facing

LEMMA HookBootstrapMirrors ==
  ASSUME NEW seen, NEW cmd, Facing(seen, cmd), NEW p \in hookBootstrap(seen, cmd)
  PROVE  PlanMirrors(p, seen, cmd)
<1>. DEFINE old == seen[Protocol]
            config == [old.config EXCEPT !.linked = TRUE]
            hook == bootstrapHook(old)
            puts == beside(one(Config, config), one(Hook, hook))
            spends == beside(one(Config, "AdminUpdate"), one(old.hookRef, "key"))
            t == transaction(spends, {}, puts)
            next == [old EXCEPT !.config = config, !.hook = hook, !.done = @ \cup {"hook"}]
<1>1. /\ old # None /\ live(Config)
      /\ p = [txs |-> <<transaction(spends, {}, puts)>>, writes |-> <<write(Protocol, next)>>]
  BY DEF hookBootstrap, plan
<1>2. Protocols(utxo) # {}
  BY <1>1 DEF Protocols, live
<1>3. Tx(t)
  BY SmallPuts, StatesOfKinds
<1>4. t.puts = puts
  BY DEF transaction
<1>5. /\ next.config = config /\ next.configRef = old.configRef /\ next.hook = hook
      /\ "hook" \in next.done
  <2>. HIDE DEF config, hook
  <2>. QED
    BY <1>1, FacedProtocol
<1>6. DOMAIN puts = {Config, Hook} /\ puts[Config] = config /\ puts[Hook] = hook
  <2>. HIDE DEF config, hook
  <2>. QED
    BY DEF beside, one, Config, Hook
<1>7. \A f \in Files \ {Protocol} : \A n \in DOMAIN puts : ~Concerns(f, n)
  BY <1>6, StatesOfKinds, OnlyProtocolConcerned
<1>8. Founds(puts, cmd)
  BY <1>2, <1>6, StatesOfKinds DEF Founds
<1>9. Mirrors(Protocol, next, After(t))
  <2>1. After(t)[Config] = config /\ After(t)[Hook] = hook
    <3>. HIDE DEF puts, t, config, hook
    <3>. QED
      BY <1>4, <1>6, AfterDef
  <2>. HIDE DEF t, next
  <2>. QED
    BY <1>1, <1>2, <1>3, <1>5, <2>1, MovedProtocolMirrors
<1>. HIDE DEF next, spends, puts
<1>. QED
  BY <1>1, <1>3, <1>7, <1>8, <1>9, OneFileMirrors DEF Facing

LEMMA ConfigUpdateMirrors ==
  ASSUME NEW seen, NEW cmd, Facing(seen, cmd), NEW p \in configUpdate(seen, cmd)
  PROVE  PlanMirrors(p, seen, cmd)
<1>. DEFINE old == seen[Protocol]
            state == nextConfigState(old, cmd.change)
            puts == one(Config, state)
            spends == one(Config, "AdminUpdate")
            refs == loadReferenceScriptUtxos(seen, {"config"})
            t == transaction(spends, refs, puts)
            next == [old EXCEPT !.config = state]
<1>1. /\ old # None /\ live(Config)
      /\ p = [txs |-> <<transaction(spends, refs, puts)>>, writes |-> <<write(Protocol, next)>>]
  BY DEF configUpdate, plan
<1>2. Protocols(utxo) # {}
  BY <1>1 DEF Protocols, live
<1>3. Tx(t)
  BY SmallPuts, StatesOfKinds
<1>4. t.puts = puts
  BY DEF transaction
<1>5. /\ next.config = state /\ next.configRef = old.configRef /\ next.hook = old.hook
      /\ next.done = old.done
  <2>. HIDE DEF state
  <2>. QED
    BY <1>1, FacedProtocol
<1>6. DOMAIN puts = {Config} /\ puts[Config] = state
  BY DEF one
<1>7. \A f \in Files \ {Protocol} : \A n \in DOMAIN puts : ~Concerns(f, n)
  BY <1>6, StatesOfKinds, OnlyProtocolConcerned
<1>8. Founds(puts, cmd)
  BY <1>2, <1>6, StatesOfKinds DEF Founds
<1>9. Mirrors(Protocol, next, After(t))
  <2>1. /\ After(t)[Config] = state
        /\ Hook \in DOMAIN After(t) => Hook \in DOMAIN utxo /\ After(t)[Hook] = utxo[Hook]
    <3>. HIDE DEF puts, t, state
    <3>1. Hook # Config
      BY DEF Hook, Config
    <3>. QED
      BY <1>4, <1>6, <3>1, AfterDef
  <2>. HIDE DEF t, next
  <2>. QED
    BY <1>1, <1>2, <1>3, <1>5, <2>1, FacedProtocol, MovedProtocolMirrors
<1>. HIDE DEF next, spends, puts, refs
<1>. QED
  BY <1>1, <1>3, <1>7, <1>8, <1>9, OneFileMirrors DEF Facing

LEMMA HookMoveMirrors ==
  ASSUME NEW seen, NEW cmd, Facing(seen, cmd), hasHook(seen[Protocol]),
         NEW spends, NEW refs, NEW state, NEW p,
         p = [txs |-> <<transaction(spends, refs, one(Hook, state))>>,
              writes |-> <<write(Protocol, [seen[Protocol] EXCEPT !.hook = state])>>]
  PROVE  PlanMirrors(p, seen, cmd)
<1>. DEFINE old == seen[Protocol]
            next == [old EXCEPT !.hook = state]
            puts == one(Hook, state)
            t == transaction(spends, refs, puts)
<1>1. old # None /\ Protocols(utxo) # {} /\ "hook" \in old.done
  BY DEF hasHook, findsHook, Protocols, live
<1>3. Tx(t)
  BY SmallPuts, StatesOfKinds
<1>4. t.puts = puts
  BY DEF transaction
<1>5. /\ next.config = old.config /\ next.configRef = old.configRef /\ next.hook = state
      /\ next.done = old.done
  BY <1>1, FacedProtocol
<1>6. DOMAIN puts = {Hook} /\ puts[Hook] = state
  BY DEF one
<1>7. \A f \in Files \ {Protocol} : \A n \in DOMAIN puts : ~Concerns(f, n)
  BY <1>6, StatesOfKinds, OnlyProtocolConcerned
<1>8. Founds(puts, cmd)
  BY <1>1, <1>6, StatesOfKinds DEF Founds
<1>9. Mirrors(Protocol, next, After(t))
  <2>1. /\ After(t)[Hook] = state
        /\ Config \in DOMAIN After(t) => Config \in DOMAIN utxo /\ After(t)[Config] = utxo[Config]
    <3>. HIDE DEF puts, t
    <3>1. Hook # Config
      BY DEF Hook, Config
    <3>. QED
      BY <1>4, <1>6, <3>1, AfterDef
  <2>. HIDE DEF t, next
  <2>. QED
    BY <1>1, <1>3, <1>5, <2>1, FacedProtocol, MovedProtocolMirrors
<1>10. p = [txs |-> <<transaction(spends, refs, puts)>>, writes |-> <<write(Protocol, next)>>]
  OBVIOUS
<1>. HIDE DEF next, puts
<1>. QED
  BY <1>3, <1>7, <1>8, <1>9, <1>10, OneFileMirrors DEF Facing

LEMMA HookUpdateMirrors ==
  ASSUME NEW seen, NEW cmd, Facing(seen, cmd), NEW p \in hookUpdate(seen, cmd)
  PROVE  PlanMirrors(p, seen, cmd)
<1>. DEFINE state == nextHookState(seen[Protocol], cmd.change)
            spends == one(Hook, "AdminUpdate")
            refs == hookReads(seen)
<1>1. /\ hasHook(seen[Protocol])
      /\ p = [txs |-> <<transaction(spends, refs, one(Hook, state))>>,
              writes |-> <<write(Protocol, [seen[Protocol] EXCEPT !.hook = state])>>]
  BY DEF hookUpdate, plan
<1>. HIDE DEF state, spends, refs
<1>. QED
  BY <1>1, HookMoveMirrors

LEMMA HookWithdrawMirrors ==
  ASSUME NEW seen, NEW cmd, Facing(seen, cmd), NEW order, NEW p \in paymentHookWithdraw(seen, order)
  PROVE  PlanMirrors(p, seen, cmd)
<1>. DEFINE state == [utxo[Hook] EXCEPT !.accrued = @ - order.amount,
                                        !.to = seen[Protocol].hook.to]
            spends == one(Hook, "Withdraw")
            refs == hookReads(seen)
<1>1. /\ hasHook(seen[Protocol])
      /\ p = [txs |-> <<transaction(spends, refs, one(Hook, state))>>,
              writes |-> <<write(Protocol, [seen[Protocol] EXCEPT !.hook = state])>>]
  BY DEF paymentHookWithdraw, plan
<1>. HIDE DEF state, spends, refs
<1>. QED
  BY <1>1, HookMoveMirrors

LEMMA HookBurnMirrors ==
  ASSUME NEW seen, NEW cmd, Facing(seen, cmd), NEW p \in paymentHookBurn(seen, cmd)
  PROVE  PlanMirrors(p, seen, cmd)
<1>. DEFINE old == seen[Protocol]
            spends == one(Hook, "Burn")
            refs == hookReads(seen)
            next == [old EXCEPT !.hook = None]
            t == transaction(spends, refs, nothing)
<1>1. /\ findsHook(old)
      /\ p = [txs |-> <<transaction(spends, refs, nothing)>>,
              writes |-> <<write(Protocol, next)>>]
  BY DEF paymentHookBurn, plan
<1>2. old # None /\ Protocols(utxo) # {}
  BY <1>1 DEF findsHook, Protocols, live
<1>3. Tx(t)
  BY SmallPuts
<1>4. t.puts = nothing /\ t.spends = spends /\ DOMAIN nothing = {} /\ DOMAIN spends = {Hook}
  BY DEF transaction, nothing, one
<1>5. next.config = old.config /\ next.configRef = old.configRef
  BY <1>2, FacedProtocol
<1>6. /\ Hook \notin DOMAIN After(t)
      /\ Config \in DOMAIN After(t) => Config \in DOMAIN utxo /\ After(t)[Config] = utxo[Config]
  <2>. HIDE DEF t, spends
  <2>. QED
    BY <1>4, AfterDef
<1>7. Mirrors(Protocol, next, After(t))
  <2>. HIDE DEF t, next
  <2>. QED
    BY <1>2, <1>3, <1>5, <1>6, FacedProtocol, MovedProtocolMirrors
<1>8. Founds(nothing, cmd) /\ \A f \in Files \ {Protocol} : \A n \in DOMAIN nothing : ~Concerns(f, n)
  BY <1>4 DEF Founds, Protocols
<1>. HIDE DEF next, spends, refs
<1>. QED
  BY <1>1, <1>3, <1>7, <1>8, OneFileMirrors DEF Facing

LEMMA ConfigBurnMirrors ==
  ASSUME NEW seen, NEW cmd, Facing(seen, cmd), NEW p \in configBurn(seen, cmd)
  PROVE  PlanMirrors(p, seen, cmd)
<1>. DEFINE spends == one(Config, "Burn")
            refs == loadReferenceScriptUtxos(seen, {"config"})
<1>1. p = [txs |-> <<transaction(spends, refs, nothing)>>,
           writes |-> <<write(Protocol, seen[Protocol])>>]
  BY DEF configBurn, plan
<1>2. Tx(transaction(spends, refs, nothing)) /\ DOMAIN nothing = {}
  BY SmallPuts DEF nothing
<1>3. Mirrors(Protocol, seen[Protocol], utxo)
  BY FacedProtocol
<1>. HIDE DEF spends, refs
<1>. QED
  BY <1>1, <1>2, <1>3, QuietMirrors DEF Facing

(* ----------- reference scripts, receivers and deposits: quiet ----------- *)

(* Nothing that a file mirrors moves, and only a client's file is written. *)
LEMMA ClientFileMirrors ==
  ASSUME NEW dir, AllMirror(dir, utxo), NEW spends, NEW refs, NEW puts, NEW p,
         NEW c, NEW content,
         p = [txs |-> <<transaction(spends, refs, puts)>>,
              writes |-> <<write(Client(c), content)>>],
         Tx(transaction(spends, refs, puts)), NEW cmd,
         \A n \in DOMAIN puts : n[1] \notin {"config", "hook", "pair"}
  PROVE  PlanMirrors(p, dir, cmd)
BY OtherFilesMirror, QuietMirrors

LEMMA QuietPut ==
  ASSUME NEW spends, NEW refs, NEW n, NEW x, n[1] \in {"script", "receiver"}
  PROVE  /\ Tx(transaction(spends, refs, one(n, x)))
         /\ \A m \in DOMAIN one(n, x) : m[1] \notin {"config", "hook", "pair"}
<1>1. Tx(transaction(spends, refs, one(n, x)))
  BY SmallPuts
<1>2. DOMAIN one(n, x) = {n}
  BY DEF one
<1>. QED
  BY <1>1, <1>2

LEMMA PublishProtocolScriptMirrors ==
  ASSUME NEW seen, NEW cmd, Facing(seen, cmd), NEW kind, NEW p, NEW checks,
         p \in publishProtocolScript(seen, kind, checks)
  PROVE  PlanMirrors(p, seen, cmd)
<1>. DEFINE old == seen[Protocol]
            name == newScript(kind)
            next == [old EXCEPT !.scripts = [@ EXCEPT ![kind] = name[3]]]
            puts == one(name, None)
<1>1. /\ old # None
      /\ p = [txs |-> <<transaction(nothing, {}, puts)>>, writes |-> <<write(Protocol, next)>>]
  BY DEF publishProtocolScript, plan, publishing
<1>2. name[1] = "script"
  BY ScriptsAreOfKind DEF Facing, Reading
<1>3. Mirrors(Protocol, next, utxo)
  <2>1. /\ next.config = old.config /\ next.configRef = old.configRef
        /\ next.hook = old.hook /\ next.done = old.done
    BY <1>1, FacedProtocol
  <2>. HIDE DEF next
  <2>. QED
    BY <1>1, <2>1, FacedProtocol, SameProtocolMirrors
<1>4. /\ Tx(transaction(nothing, {}, puts))
      /\ \A n \in DOMAIN puts : n[1] \notin {"config", "hook", "pair"}
  BY <1>2, QuietPut
<1>. HIDE DEF next, puts, name
<1>. QED
  BY <1>1, <1>3, <1>4, QuietMirrors DEF Facing

LEMMA PublishClientScriptsMirrors ==
  ASSUME NEW seen, NEW cmd, Facing(seen, cmd),
         NEW p \in publishClientReferenceScripts(seen, cmd)
  PROVE  PlanMirrors(p, seen, cmd)
<1>. DEFINE c == cmd.client
            name == newScript(c)
            next == [seen[Client(c)] EXCEPT !.script = name[3]]
            puts == one(name, None)
<1>1. p = [txs |-> <<transaction(nothing, {}, puts)>>, writes |-> <<write(Client(c), next)>>]
  BY DEF publishClientReferenceScripts, plan, publishing
<1>2. name[1] = "script"
  BY ScriptsAreOfKind DEF Facing, Reading
<1>3. /\ Tx(transaction(nothing, {}, puts))
      /\ \A n \in DOMAIN puts : n[1] \notin {"config", "hook", "pair"}
  BY <1>2, QuietPut
<1>. HIDE DEF next, puts, name
<1>. QED
  BY <1>1, <1>3, ClientFileMirrors DEF Facing

LEMMA ReclaimsMirror ==
  ASSUME NEW seen, NEW cmd, Facing(seen, cmd),
         NEW p \in reclaimGlobalReferenceScript(seen, cmd)
                     \cup reclaimClientReferenceScript(seen, cmd)
  PROVE  PlanMirrors(p, seen, cmd)
<1>1. CASE p \in reclaimGlobalReferenceScript(seen, cmd)
  <2>. DEFINE old == seen[Protocol]
              next == [old EXCEPT !.scripts = [@ EXCEPT ![cmd.script] = 0]]
              spends == one(script(seen, cmd.script), "Reclaim")
  <2>1. /\ old # None
        /\ p = [txs |-> <<transaction(spends, {Config}, nothing)>>,
                writes |-> <<write(Protocol, next)>>]
    BY <1>1 DEF reclaimGlobalReferenceScript, reclaims, plan
  <2>2. Mirrors(Protocol, next, utxo)
    <3>1. /\ next.config = old.config /\ next.configRef = old.configRef
          /\ next.hook = old.hook /\ next.done = old.done
      BY <2>1, FacedProtocol
    <3>. HIDE DEF next
    <3>. QED
      BY <2>1, <3>1, FacedProtocol, SameProtocolMirrors
  <2>3. Tx(transaction(spends, {Config}, nothing)) /\ DOMAIN nothing = {}
    BY SmallPuts DEF nothing
  <2>. HIDE DEF next, spends
  <2>. QED
    BY <2>1, <2>2, <2>3, QuietMirrors DEF Facing
<1>2. CASE p \in reclaimClientReferenceScript(seen, cmd)
  <2>. DEFINE next == [seen[Client(cmd.client)] EXCEPT !.script = 0]
              spends == one(script(seen, cmd.client), "Reclaim")
  <2>1. p = [txs |-> <<transaction(spends, {Config}, nothing)>>,
             writes |-> <<write(Client(cmd.client), next)>>]
    BY <1>2 DEF reclaimClientReferenceScript, reclaims, plan
  <2>2. Tx(transaction(spends, {Config}, nothing)) /\ DOMAIN nothing = {}
    BY SmallPuts DEF nothing
  <2>. HIDE DEF next, spends
  <2>. QED
    BY <2>1, <2>2, ClientFileMirrors DEF Facing
<1>. QED
  BY <1>1, <1>2

LEMMA ReceiverBootstrapMirrors ==
  ASSUME NEW seen, NEW cmd, Facing(seen, cmd), NEW p \in receiverBootstrap(seen, cmd)
  PROVE  PlanMirrors(p, seen, cmd)
<1>. DEFINE c == cmd.client
            old == seen[Client(c)]
            puts == one(Receiver(c), bootstrapReceiver(old))
            spends == one(old.ref, "key")
            next == [old EXCEPT !.state = bootstrapReceiver(old), !.done = @ \cup {"receiver"}]
<1>1. p = [txs |-> <<transaction(spends, {Config}, puts)>>,
           writes |-> <<write(Client(c), next)>>]
  BY DEF receiverBootstrap, plan
<1>2. /\ Tx(transaction(spends, {Config}, puts))
      /\ \A n \in DOMAIN puts : n[1] \notin {"config", "hook", "pair"}
  BY StatesOfKinds, QuietPut
<1>. HIDE DEF next, spends, puts
<1>. QED
  BY <1>1, <1>2, ClientFileMirrors DEF Facing

LEMMA ReceiverMoveMirrors ==
  ASSUME NEW seen, NEW cmd, Facing(seen, cmd), NEW c, NEW redeemer, NEW reads, NEW also,
         NEW checks, NEW next, NEW p \in movesReceiver(seen, c, redeemer, reads, also, checks, next)
  PROVE  PlanMirrors(p, seen, cmd)
<1>. DEFINE puts == one(Receiver(c), next)
            spends == beside(one(Receiver(c), redeemer), also)
            refs == reads \cup clientReads(seen, c)
            content == [seen[Client(c)] EXCEPT !.state = next]
<1>1. p = [txs |-> <<transaction(spends, refs, puts)>>,
           writes |-> <<write(Client(c), content)>>]
  BY DEF movesReceiver, plan
<1>2. /\ Tx(transaction(spends, refs, puts))
      /\ \A n \in DOMAIN puts : n[1] \notin {"config", "hook", "pair"}
  <2>1. Receiver(c)[1] = "receiver"
    BY StatesOfKinds
  <2>. HIDE DEF spends, refs
  <2>. QED
    BY <2>1, QuietPut
<1>. HIDE DEF content, spends, puts, refs
<1>. QED
  BY <1>1, <1>2, ClientFileMirrors DEF Facing

LEMMA ReceiverCommandsMirror ==
  ASSUME NEW seen, NEW cmd, Facing(seen, cmd), NEW order,
         NEW p \in receiverTopUp(seen, order) \cup receiverWithdraw(seen, order)
                     \cup receiverUpdateMinUtxo(seen, order) \cup depositMerge(seen, order)
  PROVE  PlanMirrors(p, seen, cmd)
<1>1. CASE p \in receiverTopUp(seen, order)
  BY <1>1, ReceiverMoveMirrors DEF receiverTopUp
<1>2. CASE p \in receiverWithdraw(seen, order)
  BY <1>2, ReceiverMoveMirrors DEF receiverWithdraw
<1>3. CASE p \in receiverUpdateMinUtxo(seen, order)
  BY <1>3, ReceiverMoveMirrors DEF receiverUpdateMinUtxo
<1>4. CASE p \in depositMerge(seen, order)
  <2>1. PICK D : p \in movesReceiver(seen, order.client, "TopUp", {}, collected(D), D # {},
                         [utxo[Receiver(order.client)] EXCEPT !.balance = @ + lovelaceOf(D)])
    BY <1>4 DEF depositMerge
  <2>. QED
    BY <2>1, ReceiverMoveMirrors
<1>. QED
  BY <1>1, <1>2, <1>3, <1>4

LEMMA ReceiverBurnMirrors ==
  ASSUME NEW seen, NEW cmd, Facing(seen, cmd), NEW p \in receiverBurn(seen, cmd)
  PROVE  PlanMirrors(p, seen, cmd)
<1>. DEFINE c == cmd.client
            spends == one(Receiver(c), "Burn")
            refs == {Config} \cup clientReads(seen, c)
            next == [seen[Client(c)] EXCEPT !.ref = None, !.state = None]
<1>1. p = [txs |-> <<transaction(spends, refs, nothing)>>,
           writes |-> <<write(Client(c), next)>>]
  BY DEF receiverBurn, plan
<1>2. Tx(transaction(spends, refs, nothing)) /\ DOMAIN nothing = {}
  BY SmallPuts DEF nothing
<1>. HIDE DEF next, spends, refs
<1>. QED
  BY <1>1, <1>2, ClientFileMirrors DEF Facing

LEMMA DepositFundMirrors ==
  ASSUME NEW seen, NEW cmd, Facing(seen, cmd), NEW p \in depositFund(seen, cmd)
  PROVE  PlanMirrors(p, seen, cmd)
<1>. DEFINE name == newDeposit(cmd.client)
            puts == one(name, cmd.amount)
            t == transaction(nothing, {}, puts)
<1>1. p = [txs |-> <<t>>, writes |-> <<>>]
  BY DEF depositFund, plan
<1>2. name[1] = "deposit"
  <2>1. \E k \in numbers : name = Deposit(cmd.client, k)
    BY FreshNames DEF Facing, Reading
  <2>. QED
    BY <2>1 DEF Deposit
<1>3. t.puts = puts /\ DOMAIN puts = {name}
  BY DEF transaction, one
<1>. HIDE DEF name, puts, t
<1>4. \A i \in DOMAIN p.txs : Harmless(p.txs[i])
  BY <1>1, <1>2, <1>3 DEF Harmless
<1>. QED
  BY <1>1, <1>4 DEF PlanMirrors

(* ------------------------------- settling ------------------------------- *)

LEMMA SettleMirrors ==
  ASSUME NEW seen, NEW cmd, Facing(seen, cmd), NEW C, C \subseteq Clients,
         NEW order, order.clients = C, NEW p \in settle(seen, order)
  PROVE  /\ PlanMirrors(p, seen, cmd)
         /\ Len(p.txs) = 1 /\ Founds(p.txs[1].puts, cmd)
         /\ Settled(p.writes, seen, After(p.txs[1]))
<1>. DEFINE old == seen[Protocol]
            after == hookAfter(old, C)
            next == [old EXCEPT !.hook = after]
            moved == {Receiver(c) : c \in C} \cup {Hook}
            puts == [n \in moved |-> IF n = Hook THEN after ELSE emptied(n[2])]
            spends == [n \in moved |-> "Settle"]
            refs == {Config} \cup loadReferenceScriptUtxos(seen, {"config", "hook"} \cup C)
            t == transaction(spends, refs, puts)
            seq == SetToSeq(C)
            G == [i \in DOMAIN seq |->
                    write(Client(seq[i]), [seen[Client(seq[i])] EXCEPT !.state = emptied(seq[i])])]
            ws == <<write(Protocol, next)>> \o G
<1>1. hasHook(old) /\ p = [txs |-> <<t>>, writes |-> ws]
  BY DEF settle, plan, buildSettleTx, savedBySettle
<1>2. PlanSound(p)
  BY SettleIsSound DEF Facing, Reading
<1>3. Tx(t)
  <2>1. p.txs[1] = t /\ 1 \in DOMAIN p.txs
    <3>. HIDE DEF t
    <3>. QED
      BY <1>1
  <2>. HIDE DEF t
  <2>. QED
    BY <1>2, <2>1 DEF PlanSound
<1>4. old # None /\ Protocols(utxo) # {} /\ "hook" \in old.done
  BY <1>1 DEF hasHook, findsHook, Protocols, live
<1>5. t.puts = puts /\ DOMAIN puts = moved /\ puts[Hook] = after
  BY DEF transaction
<1>6. \A n \in moved : n[1] # "pair" /\ n # Config
  BY StatesOfKinds
<1>7. /\ next.config = old.config /\ next.configRef = old.configRef /\ next.hook = after
      /\ next.done = old.done
  <2>. HIDE DEF after
  <2>. QED
    BY <1>4, FacedProtocol
<1>8. Mirrors(Protocol, next, After(t))
  <2>1. /\ After(t)[Hook] = after
        /\ Config \in DOMAIN After(t) => Config \in DOMAIN utxo /\ After(t)[Config] = utxo[Config]
    <3>1. Hook \in moved
      OBVIOUS
    <3>. HIDE DEF puts, t, after, moved
    <3>. QED
      BY <1>5, <1>6, <3>1, AfterDef
  <2>. HIDE DEF t, next, after
  <2>. QED
    BY <1>3, <1>4, <1>7, <2>1, FacedProtocol, MovedProtocolMirrors
<1>9. /\ 1 \in DOMAIN ws /\ ws[1] = write(Protocol, next)
      /\ \A i \in DOMAIN ws : i = 1 \/ \E c : ws[i].file = Client(c)
  <2>1. IsFiniteSet(C)
    BY CliParameters, FS_Subset
  <2>2. seq \in [1 .. Cardinality(C) -> C] /\ Cardinality(C) \in Nat
    BY <2>1, OrderOfSet
  <2>3. DOMAIN G = 1 .. Cardinality(C) /\ \A i \in DOMAIN G : \E c : G[i].file = Client(c)
    <3>. HIDE DEF seq
    <3>. QED
      BY <2>2 DEF write
  <2>4. G = [i \in 1 .. Cardinality(C) |-> G[i]]
    BY <2>3
  <2>. HIDE DEF G, next
  <2>5. G \in Seq({G[i] : i \in DOMAIN G})
    BY <2>2, <2>3, <2>4
  <2>6. <<write(Protocol, next)>> \in Seq({write(Protocol, next)})
    OBVIOUS
  <2>7. /\ 1 \in DOMAIN ws /\ ws[1] = write(Protocol, next)
        /\ \A i \in DOMAIN ws : i = 1 \/ (i - 1 \in DOMAIN G /\ ws[i] = G[i - 1])
    BY <2>5, <2>6
  <2>. HIDE DEF ws
  <2>. QED
    BY <2>3, <2>7
<1>10. \A i \in DOMAIN ws : Mirrors(ws[i].file, ws[i].content, After(t))
  <2>. TAKE i \in DOMAIN ws
  <2>1. CASE i = 1
    <3>1. ws[i].file = Protocol /\ ws[i].content = next
      BY <1>9, <2>1 DEF write
    <3>. QED
      BY <1>8, <3>1
  <2>2. CASE i # 1
    BY <1>9, <2>2, OtherFilesMirror
  <2>. QED
    BY <2>1, <2>2
<1>11. \A f \in Files : (\A i \in DOMAIN ws : ws[i].file # f) =>
          Mirrors(f, seen[f], After(t))
  <2>. SUFFICES ASSUME NEW f \in Files, \A i \in DOMAIN ws : ws[i].file # f
                PROVE  Mirrors(f, seen[f], After(t))
    OBVIOUS
  <2>1. f # Protocol
    <3>. HIDE DEF ws, next
    <3>. QED
      BY <1>9 DEF write
  <2>2. \A n \in DOMAIN t.puts : ~Concerns(f, n)
    BY <1>5, <1>6, <2>1, OnlyProtocolConcerned
  <2>. HIDE DEF t
  <2>. QED
    BY <1>3, <2>2, UnputMirrors DEF Facing, AllMirror
<1>12. Founds(t.puts, cmd)
  <2>1. \A n \in DOMAIN t.puts : n[1] # "pair"
    BY <1>5, StatesOfKinds
  <2>. QED
    BY <1>4, <2>1 DEF Founds
<1>. HIDE DEF t, ws
<1>13. p.txs = <<t>> /\ p.writes = ws /\ Len(p.txs) = 1 /\ p.txs[1] = t
  BY <1>1
<1>. QED
  BY <1>10, <1>11, <1>12, <1>13 DEF PlanMirrors, Settled

(* The teardown writes what it recovered after the rest. *)
LEMMA TeardownSettleMirrors ==
  ASSUME NEW seen, NEW cmd, Facing(seen, cmd), cmd.client \in Clients,
         NEW p \in teardownSettle(seen, cmd)
  PROVE  PlanMirrors(p, seen, cmd)
<1>. DEFINE x == seen[Recovered] + seen[Client(cmd.client)].state.accrued
            last == write(Recovered, x)
            order == [clients |-> {cmd.client}]
<1>1. PICK s \in settle(seen, order) : p = [s EXCEPT !.writes = Append(@, last)]
  BY DEF teardownSettle
<1>2. /\ Len(s.txs) = 1 /\ Founds(s.txs[1].puts, cmd)
      /\ Settled(s.writes, seen, After(s.txs[1]))
  <2>1. order.clients = {cmd.client} /\ {cmd.client} \subseteq Clients
    OBVIOUS
  <2>. HIDE DEF order
  <2>. QED
    BY <2>1, SettleMirrors
<1>3. PlanSound(s)
  <2>1. order.clients \subseteq Clients
    OBVIOUS
  <2>. HIDE DEF order
  <2>. QED
    BY <2>1, SettleIsSound DEF Facing, Reading
<1>4. s = [txs |-> s.txs, writes |-> s.writes]
  BY DEF settle, plan
<1>. HIDE DEF last
<1>5. p.txs = s.txs /\ p.writes = Append(s.writes, last)
  BY <1>1, <1>4
<1>6. /\ \A i \in DOMAIN s.writes : i \in DOMAIN p.writes /\ p.writes[i] = s.writes[i]
      /\ \A i \in DOMAIN p.writes :
           p.writes[i] = last \/ (i \in DOMAIN s.writes /\ p.writes[i] = s.writes[i])
  <2>1. s.writes \in Seq(ToSet(s.writes))
    BY <1>3 DEF PlanSound
  <2>. QED
    BY <1>5, <2>1
<1>7. Mirrors(last.file, last.content, After(s.txs[1]))
  <2>1. last.file = Recovered
    BY DEF last, write
  <2>. QED
    BY <2>1, OtherFilesMirror
<1>8. Settled(p.writes, seen, After(s.txs[1]))
  BY <1>2, <1>6, <1>7 DEF Settled
<1>. QED
  BY <1>2, <1>5, <1>8 DEF PlanMirrors

(* ------------------------------- updates -------------------------------- *)

(* The copy an update spends or mints. *)
LEMMA PlaceOfPair ==
  ASSUME NEW seen, IsFiniteSet(taken), NEW c, NEW s, NEW nonce, monotonic(seen, c, s, nonce)
  PROVE  LET n == place(seen, c, s)
         IN  /\ n[1] = "pair" /\ n[2] = c /\ n[3] = s
             /\ isCreate(seen, c, s) => n \notin DOMAIN utxo
             /\ ~isCreate(seen, c, s) => n = theCopy(c, s) /\ n \in copies(c, s)
<1>1. CASE isCreate(seen, c, s)
  <2>1. PICK k \in numbers : newCopy(c, s) = Copy(c, s, k)
    BY FreshNames
  <2>2. newCopy(c, s) \notin taken
    BY FreshNames
  <2>3. place(seen, c, s) = newCopy(c, s)
    BY <1>1 DEF place
  <2>4. newCopy(c, s) \notin DOMAIN utxo
    BY <2>2 DEF taken
  <2>. QED
    BY <1>1, <2>1, <2>3, <2>4 DEF Copy
<1>2. CASE ~isCreate(seen, c, s)
  <2>1. theCopy(c, s) \in copies(c, s)
    BY <1>2, TheCopyIsACopy DEF monotonic
  <2>. QED
    BY <1>2, <2>1 DEF place, copies
<1>. QED
  BY <1>1, <1>2

LEMMA FacedPairs ==
  ASSUME NEW seen, NEW cmd, Facing(seen, cmd), NEW c \in Clients, NEW s \in Symbols,
         NEW n \in copies(c, s)
  PROVE  seen[Pair(c, s)] \in PairDatums /\ seen[Pair(c, s)] = utxo[n]
<1>1. Mirrors(Pair(c, s), seen[Pair(c, s)], utxo)
  BY FilesOfKinds DEF Facing, AllMirror
<1>2. Pair(c, s)[1] = "pair" /\ Pair(c, s)[2] = c /\ Pair(c, s)[3] = s
  BY DEF Pair
<1>3. n \in DOMAIN utxo /\ n[1] = "pair" /\ n[2] = c /\ n[3] = s
  BY DEF copies
<1>. QED
  BY <1>1, <1>2, <1>3 DEF Mirrors, IsCopy

LEMMA OnlyCopy ==
  ASSUME NEW c, NEW s, IsFiniteSet(DOMAIN utxo), Cardinality(copies(c, s)) = 1
  PROVE  copies(c, s) = {theCopy(c, s)}
<1>1. IsFiniteSet(copies(c, s))
  BY FS_Subset DEF copies
<1>2. PICK n : copies(c, s) = {n}
  BY <1>1, FS_Singleton
<1>. QED
  BY <1>2, TheCopyIsACopy

(* The transaction of an update of a client's pairs. *)
LEMMA OraclePutsMirror ==
  ASSUME NEW seen, NEW cmd, Facing(seen, cmd), NEW c \in Clients, NEW intents, NEW folded,
         DOMAIN intents \subseteq Symbols, \A s \in DOMAIN intents : intents[s] \in Nat,
         \A s \in DOMAIN intents : monotonic(seen, c, s, intents[s]),
         NEW t, Accepts(t), t.puts = oraclePuts(seen, c, intents, folded)
  PROVE  /\ \A s \in DOMAIN intents :
              Mirrors(Pair(c, s), pairAfter(seen, c, s, intents[s]), After(t))
         /\ \A f \in Files : (\A s \in DOMAIN intents : f # Pair(c, s)) =>
              \A n \in DOMAIN t.puts : ~Concerns(f, n)
         /\ Founds(t.puts, cmd)
<1>. DEFINE puts == oraclePuts(seen, c, intents, folded)
            at(s) == place(seen, c, s)
<1>0. t.puts = puts
  OBVIOUS
<1>1. IsFiniteSet(taken) /\ IsFiniteSet(DOMAIN utxo)
  BY DEF Facing, Reading
<1>2. ASSUME NEW s \in DOMAIN intents
      PROVE  /\ at(s)[1] = "pair" /\ at(s)[2] = c /\ at(s)[3] = s
             /\ isCreate(seen, c, s) => at(s) \notin DOMAIN utxo
             /\ ~isCreate(seen, c, s) => at(s) = theCopy(c, s) /\ at(s) \in copies(c, s)
  BY <1>1, PlaceOfPair
<1>3. DOMAIN puts = {Receiver(c)} \cup {at(s) : s \in DOMAIN intents}
  BY DEF oraclePuts
<1>4. \A n \in DOMAIN puts : n[1] = "receiver" \/ \E s \in DOMAIN intents : n = at(s)
  BY <1>3, StatesOfKinds
<1>5. ASSUME NEW s \in DOMAIN intents
      PROVE  at(s) \in DOMAIN puts /\ puts[at(s)] = pairAfter(seen, c, s, intents[s])
  <2>1. at(s) # Receiver(c)
    BY <1>2, StatesOfKinds
  <2>2. at(s) \in DOMAIN puts
    BY <1>3
  <2>3. puts[at(s)] = pairAfter(seen, c, at(s)[3], intents[at(s)[3]])
    BY <1>3, <2>1, <2>2 DEF oraclePuts
  <2>. QED
    BY <1>2, <2>2, <2>3
<1>. HIDE DEF puts
<1>6. ASSUME NEW s \in DOMAIN intents
      PROVE  pairAfter(seen, c, s, intents[s]) \in PairDatums
  <2>1. minUtxoLovelace(seen, c, s) \in Int
    <3>1. CASE isCreate(seen, c, s)
      <4>1. at(s) \in DOMAIN t.puts \ DOMAIN t.spends
        BY <1>0, <1>2, <1>5, <3>1 DEF Accepts, touches
      <4>2. t.puts[at(s)].min \in Nat
        BY <1>2, <4>1 DEF Accepts, mintAllowed
      <4>3. t.puts[at(s)] = pairAfter(seen, c, s, intents[s])
        BY <1>0, <1>5
      <4>4. pairAfter(seen, c, s, intents[s]).min = minUtxoLovelace(seen, c, s)
        BY DEF pairAfter
      <4>. QED
        BY <4>2, <4>3, <4>4
    <3>2. CASE ~isCreate(seen, c, s)
      <4>1. seen[Pair(c, s)] \in PairDatums
        BY <1>2, <3>2, FacedPairs
      <4>. QED
        BY <3>2, <4>1 DEF minUtxoLovelace, PairDatums
    <3>. QED
      BY <3>1, <3>2
  <2>. QED
    BY <2>1 DEF pairAfter, PairDatums
<1>7. ASSUME NEW s \in DOMAIN intents
      PROVE  Mirrors(Pair(c, s), pairAfter(seen, c, s, intents[s]), After(t))
  <2>. DEFINE x == pairAfter(seen, c, s, intents[s])
  <2>1. /\ Pair(c, s)[1] = "pair" /\ Pair(c, s)[2] = c /\ Pair(c, s)[3] = s
        /\ Pair(c, s) # Protocol
    BY DEF Pair, Protocol
  <2>2. ASSUME NEW n \in DOMAIN After(t), n[1] = "pair", n[2] = c, n[3] = s
        PROVE  x = After(t)[n] /\ n = at(s)
    <3>1. CASE n \in DOMAIN puts
      <4>1. PICK q \in DOMAIN intents : n = at(q)
        BY <1>4, <2>2, <3>1
      <4>2. q = s
        BY <1>2, <2>2, <4>1
      <4>3. After(t)[n] = puts[n]
        BY <1>0, <3>1, AfterDef
      <4>. QED
        BY <1>5, <4>1, <4>2, <4>3
    <3>2. CASE n \notin DOMAIN puts
      <4>1. n \in copies(c, s)
        BY <1>0, <2>2, <3>2, AfterDef DEF copies
      <4>2. ~isCreate(seen, c, s)
        BY <4>1, FacedPairs, NoneIsNoPair DEF isCreate
      <4>3. Cardinality(copies(c, s)) = 1
        BY <4>2 DEF monotonic
      <4>4. n = at(s)
        BY <1>1, <1>2, <4>1, <4>2, <4>3, OnlyCopy
      <4>. QED
        BY <1>5, <3>2, <4>4
    <3>. QED
      BY <3>1, <3>2
  <2>. HIDE DEF x
  <2>3. x \in PairDatums
    BY <1>6 DEF x
  <2>4. Mirrors(Pair(c, s), x, After(t))
    BY <2>1, <2>2, <2>3 DEF Mirrors, IsCopy
  <2>. QED
    BY <2>4 DEF x
<1>8. ASSUME NEW f \in Files, \A s \in DOMAIN intents : f # Pair(c, s), NEW n \in DOMAIN t.puts
      PROVE  ~Concerns(f, n)
  <2>1. n[1] = "receiver" \/ \E s \in DOMAIN intents : n = at(s)
    BY <1>0, <1>4
  <2>2. CASE n[1] = "receiver"
    BY <2>2, StatesOfKinds DEF Concerns
  <2>3. ASSUME NEW s \in DOMAIN intents, n = at(s)
        PROVE  ~Concerns(f, n)
    <3>1. n[1] = "pair" /\ n[2] = c /\ n[3] = s
      BY <1>2, <2>3
    <3>2. SUFFICES ASSUME f[1] = "pair", f[2] = c, f[3] = s
                   PROVE  FALSE
      BY <3>1, StatesOfKinds DEF Concerns
    <3>3. PICK d \in Clients, q \in Symbols : f = Pair(d, q)
      BY <3>2 DEF Files, Protocol, Recovered, Client
    <3>4. f = Pair(c, s)
      BY <3>2, <3>3 DEF Pair
    <3>. QED
      BY <1>8, <3>4
  <2>. QED
    BY <2>1, <2>2, <2>3
<1>9. Founds(t.puts, cmd)
  <2>1. \A n \in DOMAIN t.puts : n # Config /\ n # Hook
    BY <1>0, <1>2, <1>4, StatesOfKinds
  <2>2. \A n \in DOMAIN t.puts : n[1] = "pair" => n[2] \in Clients /\ n[3] \in Symbols
    BY <1>0, <1>2, <1>4
  <2>. QED
    BY <2>1, <2>2 DEF Founds, Protocols
<1>. QED
  BY <1>7, <1>8, <1>9

Buildable(p) == p.txs # <<>> => Accepts(Head(p.txs))

LEMMA OracleUpdateMirrors ==
  ASSUME NEW seen, NEW cmd, Facing(seen, cmd), NEW c \in Clients, NEW intents, NEW folded,
         DOMAIN intents \subseteq Symbols, \A s \in DOMAIN intents : intents[s] \in Nat,
         NEW writes, NEW p \in oracleUpdate(seen, c, intents, folded, writes),
         Buildable(p),
         \A i \in DOMAIN writes :
           \/ writes[i].file = Client(c)
           \/ \E s \in DOMAIN intents :
                writes[i].file = Pair(c, s)
                  /\ writes[i].content = pairAfter(seen, c, s, intents[s]),
         \A s \in DOMAIN intents : \E i \in DOMAIN writes : writes[i].file = Pair(c, s)
  PROVE  PlanMirrors(p, seen, cmd)
<1>. DEFINE puts == oraclePuts(seen, c, intents, folded)
<1>1. \A s \in DOMAIN intents : monotonic(seen, c, s, intents[s])
  BY DEF oracleUpdate, plan
<1>2. IsFiniteSet(taken)
  BY DEF Facing, Reading
<1>3. \E spends, refs :
        /\ p = [txs |-> <<transaction(spends, refs, puts)>>, writes |-> writes]
        /\ Tx(transaction(spends, refs, puts))
  BY <1>2, OracleUpdatePlan
<1>. HIDE DEF puts
<1>4. PICK spends, refs :
        /\ p = [txs |-> <<transaction(spends, refs, puts)>>, writes |-> writes]
        /\ Tx(transaction(spends, refs, puts))
  BY <1>3
<1>. DEFINE t == transaction(spends, refs, puts)
<1>5. Accepts(t)
  <2>1. Head(p.txs) = t /\ p.txs # <<>>
    BY <1>4
  <2>. HIDE DEF t
  <2>. QED
    BY <2>1 DEF Buildable
<1>6. t.puts = oraclePuts(seen, c, intents, folded)
  BY DEF transaction, puts
<1>7. /\ \A s \in DOMAIN intents :
           Mirrors(Pair(c, s), pairAfter(seen, c, s, intents[s]), After(t))
      /\ \A f \in Files : (\A s \in DOMAIN intents : f # Pair(c, s)) =>
           \A n \in DOMAIN t.puts : ~Concerns(f, n)
      /\ Founds(t.puts, cmd)
  <2>. HIDE DEF t
  <2>. QED
    BY <1>1, <1>5, <1>6, OraclePutsMirror
<1>8. t.puts = puts
  BY DEF transaction
<1>9. \A i \in DOMAIN writes : Mirrors(writes[i].file, writes[i].content, After(t))
  <2>. HIDE DEF t
  <2>. QED
    BY <1>7, OtherFilesMirror
<1>10. \A f \in Files : (\A i \in DOMAIN writes : writes[i].file # f) =>
          \A n \in DOMAIN puts : ~Concerns(f, n)
  <2>. HIDE DEF t
  <2>. QED
    BY <1>7, <1>8
<1>11. Founds(puts, cmd)
  BY <1>7, <1>8
<1>. QED
  BY <1>4, <1>9, <1>10, <1>11, EffectMirrors DEF Facing

LEMMA UpdateMirrors ==
  ASSUME NEW seen, NEW cmd, Facing(seen, cmd), cmd.client \in Clients, cmd.symbol \in Symbols,
         cmd.nonce \in Nat, NEW p \in update(seen, cmd), Buildable(p)
  PROVE  PlanMirrors(p, seen, cmd)
<1>. DEFINE c == cmd.client
            s == cmd.symbol
            intents == one(s, cmd.nonce)
            content == pairAfter(seen, c, s, cmd.nonce)
            ws == <<write(Pair(c, s), content)>>
<1>1. PICK D : p \in oracleUpdate(seen, c, intents, D, ws)
  BY DEF update
<1>2. DOMAIN intents = {s} /\ intents[s] = cmd.nonce
  BY DEF one
<1>3. DOMAIN ws = {1} /\ ws[1].file = Pair(c, s) /\ ws[1].content = content
  BY DEF write
<1>. HIDE DEF intents, ws
<1>. QED
  BY <1>1, <1>2, <1>3, OracleUpdateMirrors

(* An order of a finite set leaves nothing out. *)
LEMMA OrderReachesAll ==
  ASSUME NEW S, IsFiniteSet(S)
  PROVE  \A x \in S : \E i \in DOMAIN SetToSeq(S) : SetToSeq(S)[i] = x
<1>1. Cardinality(S) \in Nat
  BY FS_CardinalityType
<1>2. PICK f : f \in Bijection(1 .. Cardinality(S), S)
  BY FS_CardinalityType DEF ExistsBijection
<1>3. f \in [1 .. Cardinality(S) -> S] /\ IsInjective(f)
  BY <1>2 DEF Bijection, Injection, IsInjective
<1>4. SetToSeq(S) \in [1 .. Cardinality(S) -> S] /\ IsInjective(SetToSeq(S))
  BY <1>3 DEF SetToSeq
<1>. DEFINE order == SetToSeq(S)
<1>. HIDE DEF order
<1>5. order \in Injection(1 .. Cardinality(S), S)
  BY <1>4 DEF order, Injection, IsInjective
<1>6. IsFiniteSet(1 .. Cardinality(S)) /\ Cardinality(1 .. Cardinality(S)) = Cardinality(S)
  BY <1>1, FS_Interval
<1>7. order \in Surjection(1 .. Cardinality(S), S)
  BY <1>5, <1>6, FS_Injection
<1>. QED
  BY <1>5, <1>7 DEF Surjection, Injection, order

LEMMA UpdateBatchMirrors ==
  ASSUME NEW seen, NEW cmd, Facing(seen, cmd), cmd.client \in Clients,
         DOMAIN cmd.intents \subseteq Symbols,
         \A s \in DOMAIN cmd.intents : cmd.intents[s] \in Nat,
         NEW p \in updateBatch(seen, cmd), Buildable(p)
  PROVE  PlanMirrors(p, seen, cmd)
<1>. DEFINE c == cmd.client
            intents == cmd.intents
            S == DOMAIN intents
            order == SetToSeq(S)
            F == [s \in S |-> write(Pair(c, s), pairAfter(seen, c, s, intents[s]))]
            last == write(Client(c), [seen[Client(c)] EXCEPT
                                        !.state = receiverAfter(seen, c, S, {})])
            pairs == [i \in DOMAIN order |->
                        write(Pair(c, order[i]), pairAfter(seen, c, order[i], intents[order[i]]))]
            ws == pairs \o <<last>>
<1>1. IsFiniteSet(S)
  BY CliParameters, FS_Subset
<1>2. order \in [1 .. Cardinality(S) -> S] /\ Cardinality(S) \in Nat
  BY <1>1, OrderOfSet
<1>3. p \in oracleUpdate(seen, c, intents, {}, ws)
  BY DEF updateBatch, savedByBatch
<1>4. \A s \in S : \E i \in DOMAIN order : order[i] = s
  BY <1>1, OrderReachesAll
<1>5. last.file = Client(c)
  BY DEF write
<1>. HIDE DEF order, last
<1>6. /\ DOMAIN pairs = DOMAIN order
      /\ \A i \in DOMAIN order :
           /\ order[i] \in S
           /\ pairs[i].file = Pair(c, order[i])
           /\ pairs[i].content = pairAfter(seen, c, order[i], intents[order[i]])
  BY <1>2 DEF write
<1>7. pairs \in Seq({pairs[i] : i \in DOMAIN order})
  BY <1>2
<1>. HIDE DEF pairs
<1>8. /\ \A i \in DOMAIN pairs : i \in DOMAIN ws /\ ws[i] = pairs[i]
      /\ \A i \in DOMAIN ws : ws[i] = last \/ (i \in DOMAIN pairs /\ ws[i] = pairs[i])
  <2>1. <<last>> \in Seq({last})
    OBVIOUS
  <2>. QED
    BY <1>7, <2>1
<1>. HIDE DEF ws
<1>9. \A i \in DOMAIN ws :
        \/ ws[i].file = Client(c)
        \/ \E s \in S : ws[i].file = Pair(c, s)
                          /\ ws[i].content = pairAfter(seen, c, s, intents[s])
  <2>. TAKE i \in DOMAIN ws
  <2>1. CASE ws[i] = last
    BY <1>5, <2>1
  <2>2. CASE ws[i] # last
    BY <1>6, <1>8, <2>2
  <2>. QED
    BY <2>1, <2>2
<1>10. \A s \in S : \E i \in DOMAIN ws : ws[i].file = Pair(c, s)
  <2>. TAKE s \in S
  <2>1. PICK i \in DOMAIN order : order[i] = s
    BY <1>4
  <2>. QED
    BY <1>6, <1>8, <2>1
<1>11. /\ c \in Clients /\ DOMAIN intents \subseteq Symbols /\ S = DOMAIN intents
       /\ \A s \in DOMAIN intents : intents[s] \in Nat
  OBVIOUS
<1>. HIDE DEF c, intents, S
<1>. QED
  BY <1>3, <1>9, <1>10, <1>11, OracleUpdateMirrors

(* -------------------------------- pairs --------------------------------- *)

LEMMA PairUpdateMinUtxoMirrors ==
  ASSUME NEW seen, NEW cmd, Facing(seen, cmd), cmd.client \in Clients, cmd.symbol \in Symbols,
         cmd.min \in Int, NEW p \in pairUpdateMinUtxo(seen, cmd)
  PROVE  PlanMirrors(p, seen, cmd)
<1>. DEFINE c == cmd.client
            s == cmd.symbol
            n == theCopy(c, s)
            next == [utxo[n] EXCEPT !.min = cmd.min]
            puts == one(n, next)
            spends == one(n, "UpdateMinUtxo")
            refs == pairReads(seen, c)
            t == transaction(spends, refs, puts)
<1>1. /\ Cardinality(copies(c, s)) = 1
      /\ p = [txs |-> <<t>>, writes |-> <<write(Pair(c, s), next)>>]
  BY DEF pairUpdateMinUtxo, plan
<1>2. n \in copies(c, s) /\ copies(c, s) = {n}
  BY <1>1, TheCopyIsACopy, OnlyCopy DEF Facing, Reading
<1>3. next \in PairDatums
  BY <1>2, FacedPairs DEF PairDatums
<1>4. t.puts = puts /\ DOMAIN puts = {n} /\ puts[n] = next
  BY DEF transaction, one
<1>5. n[1] = "pair" /\ n[2] = c /\ n[3] = s
  BY <1>2 DEF copies
<1>. HIDE DEF n, next
<1>6. Tx(t)
  BY <1>5, SmallPuts
<1>. HIDE DEF t
<1>7. Mirrors(Pair(c, s), next, After(t))
  <2>1. Pair(c, s)[2] = c /\ Pair(c, s)[3] = s /\ Pair(c, s) # Protocol
    BY DEF Pair, Protocol
  <2>2. ASSUME NEW m \in DOMAIN After(t), m[1] = "pair", m[2] = c, m[3] = s
        PROVE  After(t)[m] = next /\ m = n
    <3>1. CASE m = n
      <4>1. n \in DOMAIN t.puts /\ t.puts[n] = next
        BY <1>4
      <4>. HIDE DEF puts
      <4>. QED
        BY <3>1, <4>1, AfterDef
    <3>2. CASE m # n
      BY <1>2, <1>4, <2>2, <3>2, AfterDef DEF copies
    <3>. QED
      BY <3>1, <3>2
  <2>. QED
    BY <1>3, <2>1, <2>2 DEF Mirrors, IsCopy
<1>8. \A f \in Files \ {Pair(c, s)} : \A m \in DOMAIN puts : ~Concerns(f, m)
  <2>. SUFFICES ASSUME NEW f \in Files, Concerns(f, n)
                PROVE  f = Pair(c, s)
    BY <1>4
  <2>1. f[1] = "pair" /\ f[2] = c /\ f[3] = s
    BY <1>5, StatesOfKinds DEF Concerns
  <2>2. PICK d \in Clients, q \in Symbols : f = Pair(d, q)
    BY <2>1 DEF Files, Protocol, Recovered, Client
  <2>. QED
    BY <2>1, <2>2 DEF Pair
<1>9. Founds(puts, cmd)
  <2>1. n # Config /\ n # Hook
    BY <1>5, StatesOfKinds
  <2>. QED
    BY <1>4, <1>5, <2>1 DEF Founds, Protocols
<1>. HIDE DEF puts, spends, refs
<1>. QED
  BY <1>1, <1>6, <1>7, <1>8, <1>9, OneFileMirrors DEF t, Facing

(* The only copy burned: nothing is left for the file to mirror.           *)
LEMMA PairBurnMirrors ==
  ASSUME NEW seen, NEW cmd, Facing(seen, cmd), cmd.client \in Clients, cmd.symbol \in Symbols,
         NEW p \in pairBurn(seen, cmd)
  PROVE  PlanMirrors(p, seen, cmd)
<1>. DEFINE c == cmd.client
            s == cmd.symbol
            n == theCopy(c, s)
            spends == one(n, "Burn")
            refs == pairReads(seen, n[2])
            t == transaction(spends, refs, nothing)
            x == seen[Pair(c, s)]
<1>1. /\ Cardinality(copies(c, s)) = 1
      /\ p = [txs |-> <<t>>, writes |-> <<write(Pair(c, s), x)>>]
  BY DEF pairBurn, plan, burnSpecificPairUtxo
<1>2. copies(c, s) = {n}
  BY <1>1, OnlyCopy DEF Facing, Reading
<1>3. DOMAIN t.puts = {} /\ DOMAIN t.spends = {n}
  BY DEF transaction, one, nothing
<1>4. Tx(t)
  BY SmallPuts
<1>. HIDE DEF t, n
<1>5. Mirrors(Pair(c, s), x, After(t))
  <2>1. Pair(c, s)[2] = c /\ Pair(c, s)[3] = s /\ Pair(c, s) # Protocol
    BY DEF Pair, Protocol
  <2>2. \A m \in DOMAIN After(t) : ~(m[1] = "pair" /\ m[2] = c /\ m[3] = s)
    BY <1>2, <1>3, AfterDef DEF copies
  <2>. QED
    BY <2>1, <2>2 DEF Mirrors, IsCopy
<1>6. DOMAIN nothing = {} /\ Founds(nothing, cmd)
  BY DEF nothing, Founds, Protocols
<1>. HIDE DEF spends, refs, x
<1>. QED
  BY <1>1, <1>4, <1>5, <1>6, OneFileMirrors DEF t, Facing

LEMMA PairDedupMirrors ==
  ASSUME NEW seen, NEW cmd, NEW p \in pairDedup(seen, cmd)
  PROVE  PlanMirrors(p, seen, cmd)
<1>1. PICK B :
        p = [txs |-> [i \in DOMAIN SetToSeq(B) |-> burnSpecificPairUtxo(seen, SetToSeq(B)[i])],
             writes |-> <<>>]
  BY DEF pairDedup, plan
<1>2. \A i \in DOMAIN p.txs : p.txs[i] = burnSpecificPairUtxo(seen, SetToSeq(B)[i])
  BY <1>1
<1>3. \A n : Harmless(burnSpecificPairUtxo(seen, n))
  BY DEF Harmless, burnSpecificPairUtxo, transaction, nothing
<1>4. p.writes = <<>>
  BY <1>1
<1>. QED
  BY <1>2, <1>3, <1>4 DEF PlanMirrors

-----------------------------------------------------------------------------
(* Every plan leaves files that mirror what it leaves on chain            *)

LEMMA InitPlansMirror ==
  ASSUME NEW seen, NEW cmd, Facing(seen, cmd), NEW p \in initPlans(seen, cmd), Buildable(p)
  PROVE  PlanMirrors(p, seen, cmd)
<1>1. CASE cmd.op = "protocol:init"
  BY <1>1, ProtocolInitMirrors DEF initPlans
<1>2. CASE cmd.op = "client:init"
  BY <1>2, ClientInitMirrors DEF initPlans
<1>3. CASE cmd.op \notin {"protocol:init",
                          "client:init"}
  BY <1>3 DEF initPlans
<1>. QED
  BY <1>1, <1>2, <1>3

LEMMA ProtocolPlansMirror ==
  ASSUME NEW seen, NEW cmd, Facing(seen, cmd), NEW p \in protocolPlans(seen, cmd), Buildable(p)
  PROVE  PlanMirrors(p, seen, cmd)
<1>1. CASE cmd.op = "config:parameterize"
  BY <1>1, ConfigParameterizeMirrors DEF protocolPlans
<1>2. CASE cmd.op = "config:reference-scripts"
  BY <1>2, PublishProtocolScriptMirrors DEF protocolPlans, publishConfigReferenceScripts
<1>3. CASE cmd.op = "config:bootstrap"
  BY <1>3, ConfigBootstrapMirrors DEF protocolPlans
<1>4. CASE cmd.op = "config:update"
  BY <1>4, ConfigUpdateMirrors DEF protocolPlans
<1>5. CASE cmd.op = "payment-hook:bootstrap"
  BY <1>5, HookBootstrapMirrors DEF protocolPlans
<1>6. CASE cmd.op = "payment-hook:parameterize"
  BY <1>6, HookParameterizeMirrors DEF protocolPlans
<1>7. CASE cmd.op = "payment-hook:reference-script"
  BY <1>7, PublishProtocolScriptMirrors DEF protocolPlans, publishPaymentHookReferenceScript
<1>8. CASE cmd.op = "payment-hook:withdraw"
  BY <1>8, HookWithdrawMirrors DEF protocolPlans
<1>9. CASE cmd.op = "payment-hook:update"
  BY <1>9, HookUpdateMirrors DEF protocolPlans
<1>10. CASE cmd.op = "settle"
  BY <1>10, SettleMirrors DEF protocolPlans, Facing, Reading, Command, ClientOps
<1>11. CASE cmd.op \notin {"config:parameterize",
                           "config:reference-scripts",
                           "config:bootstrap",
                           "config:update",
                           "payment-hook:bootstrap",
                           "payment-hook:parameterize",
                           "payment-hook:reference-script",
                           "payment-hook:withdraw",
                           "payment-hook:update",
                           "settle"}
  BY <1>11 DEF protocolPlans
<1>. QED
  BY <1>1, <1>2, <1>3, <1>4, <1>5, <1>6, <1>7, <1>8, <1>9, <1>10, <1>11

LEMMA ClientPlansMirror ==
  ASSUME NEW seen, NEW cmd, Facing(seen, cmd), NEW p \in clientPlans(seen, cmd), Buildable(p)
  PROVE  PlanMirrors(p, seen, cmd)
<1>1. CASE cmd.op = "deposit:fund"
  BY <1>1, DepositFundMirrors DEF clientPlans
<1>2. CASE cmd.op = "deposit:merge"
  BY <1>2, ReceiverCommandsMirror DEF clientPlans
<1>3. CASE cmd.op = "receiver:bootstrap"
  BY <1>3, ReceiverBootstrapMirrors DEF clientPlans
<1>4. CASE cmd.op = "receiver:parameterize"
  BY <1>4, ReceiverParameterizeMirrors DEF clientPlans
<1>5. CASE cmd.op = "reference-scripts:publish-client"
  BY <1>5, PublishClientScriptsMirrors DEF clientPlans
<1>6. CASE cmd.op = "receiver:top-up"
  BY <1>6, ReceiverCommandsMirror DEF clientPlans
<1>7. CASE cmd.op = "receiver:withdraw"
  BY <1>7, ReceiverCommandsMirror DEF clientPlans
<1>8. CASE cmd.op = "receiver:update-min-utxo"
  BY <1>8, ReceiverCommandsMirror DEF clientPlans
<1>9. CASE cmd.op \notin {"deposit:fund",
                          "deposit:merge",
                          "receiver:bootstrap",
                          "receiver:parameterize",
                          "reference-scripts:publish-client",
                          "receiver:top-up",
                          "receiver:withdraw",
                          "receiver:update-min-utxo"}
  BY <1>9 DEF clientPlans
<1>. QED
  BY <1>1, <1>2, <1>3, <1>4, <1>5, <1>6, <1>7, <1>8, <1>9

LEMMA PairAndBurnPlansMirror ==
  ASSUME NEW seen, NEW cmd, Facing(seen, cmd), NEW p \in pairAndBurnPlans(seen, cmd), Buildable(p)
  PROVE  PlanMirrors(p, seen, cmd)
<1>1. CASE cmd.op = "pair:update-min-utxo"
  BY <1>1, PairUpdateMinUtxoMirrors DEF pairAndBurnPlans, Facing, Reading, Command, ClientOps
<1>2. CASE cmd.op = "pair:burn"
  BY <1>2, PairBurnMirrors DEF pairAndBurnPlans, Facing, Reading, Command, ClientOps
<1>3. CASE cmd.op = "pair:dedup"
  BY <1>3, PairDedupMirrors DEF pairAndBurnPlans
<1>4. CASE cmd.op = "receiver:burn"
  BY <1>4, ReceiverBurnMirrors DEF pairAndBurnPlans
<1>5. CASE cmd.op = "payment-hook:burn"
  BY <1>5, HookBurnMirrors DEF pairAndBurnPlans
<1>6. CASE cmd.op = "config:burn"
  BY <1>6, ConfigBurnMirrors DEF pairAndBurnPlans
<1>7. CASE cmd.op \notin {"pair:update-min-utxo",
                          "pair:burn",
                          "pair:dedup",
                          "receiver:burn",
                          "payment-hook:burn",
                          "config:burn"}
  BY <1>7 DEF pairAndBurnPlans
<1>. QED
  BY <1>1, <1>2, <1>3, <1>4, <1>5, <1>6, <1>7

LEMMA UpdatePlansMirror ==
  ASSUME NEW seen, NEW cmd, Facing(seen, cmd), NEW p \in updatePlans(seen, cmd), Buildable(p)
  PROVE  PlanMirrors(p, seen, cmd)
<1>1. CASE cmd.op = "update:batch"
  BY <1>1, UpdateBatchMirrors DEF updatePlans, Facing, Reading, Command, ClientOps
<1>2. CASE cmd.op = "update"
  BY <1>2, UpdateMirrors DEF updatePlans, Facing, Reading, Command, ClientOps
<1>3. CASE cmd.op = "reclaim:global"
  BY <1>3, ReclaimsMirror DEF updatePlans
<1>4. CASE cmd.op = "reclaim:client"
  BY <1>4, ReclaimsMirror DEF updatePlans
<1>5. CASE cmd.op \notin {"update:batch",
                          "update",
                          "reclaim:global",
                          "reclaim:client"}
  BY <1>5 DEF updatePlans
<1>. QED
  BY <1>1, <1>2, <1>3, <1>4, <1>5

LEMMA TeardownPlansMirror ==
  ASSUME NEW seen, NEW cmd, Facing(seen, cmd), NEW p \in teardownPlans(seen, cmd), Buildable(p)
  PROVE  PlanMirrors(p, seen, cmd)
<1>1. CASE cmd.op = "teardown:settle"
  BY <1>1, TeardownSettleMirrors DEF teardownPlans, Facing, Reading, Command, ClientOps
<1>2. CASE cmd.op = "teardown:receiver:withdraw"
  BY <1>2, ReceiverCommandsMirror DEF teardownPlans, teardownReceiverWithdraw
<1>3. CASE cmd.op = "teardown:payment-hook:withdraw"
  BY <1>3, HookWithdrawMirrors DEF teardownPlans, teardownHookWithdraw
<1>4. CASE cmd.op \notin {"teardown:settle",
                          "teardown:receiver:withdraw",
                          "teardown:payment-hook:withdraw"}
  BY <1>4 DEF teardownPlans
<1>. QED
  BY <1>1, <1>2, <1>3, <1>4

LEMMA PlansMirror ==
  ASSUME NEW seen, NEW cmd, Facing(seen, cmd), NEW p \in buildable(seen, cmd)
  PROVE  PlanMirrors(p, seen, cmd)
BY InitPlansMirror, ProtocolPlansMirror, ClientPlansMirror,
   PairAndBurnPlansMirror, UpdatePlansMirror, TeardownPlansMirror
   DEF buildable, plans, Buildable

(* The wallet's coin takes nothing a file records. *)
LEMMA FundedMirrors ==
  ASSUME NEW t, NEW u, t = transaction(t.spends, t.refs, t.puts), u \in funded(t)
  PROVE  /\ u.puts = t.puts
         /\ \A ws, dir : Settled(ws, dir, After(t)) => Settled(ws, dir, After(u))
<1>1. u.puts = t.puts /\ DOMAIN t.spends \subseteq DOMAIN u.spends
  <2>1. CASE u = t
    BY <2>1
  <2>2. CASE u # t
    <3>1. PICK coin \in coins : u = paidBy(t, coin)
      BY <2>2 DEF funded
    <3>2. DOMAIN t = {"spends", "refs", "puts"}
      BY DEF transaction
    <3>3. u.puts = t.puts /\ u.spends = beside(t.spends, one(coin, "key"))
      BY <3>1, <3>2 DEF paidBy
    <3>. QED
      BY <3>3 DEF beside
  <2>. QED
    BY <2>1, <2>2
<1>2. \A n \in DOMAIN After(u) : n \in DOMAIN After(t) /\ After(u)[n] = After(t)[n]
  <2>. TAKE n \in DOMAIN After(u)
  <2>1. CASE n \in DOMAIN u.puts
    <3>1. n \in DOMAIN After(t) /\ After(t)[n] = t.puts[n] /\ After(u)[n] = u.puts[n]
      BY <1>1, <2>1, AfterDef
    <3>. QED
      BY <1>1, <3>1
  <2>2. CASE n \notin DOMAIN u.puts
    <3>1. n \in DOMAIN utxo /\ n \notin DOMAIN u.spends /\ After(u)[n] = utxo[n]
      BY <2>2, AfterDef
    <3>2. n \in DOMAIN After(t) \ DOMAIN t.puts
      BY <1>1, <2>2, <3>1, AfterDef
    <3>. QED
      BY <3>1, <3>2, AfterDef
  <2>. QED
    BY <2>1, <2>2
<1>3. ASSUME NEW f, NEW x, Mirrors(f, x, After(t))
      PROVE  Mirrors(f, x, After(u))
  <2>1. gone(x.configRef, DOMAIN After(t)) => gone(x.configRef, DOMAIN After(u))
    BY <1>2 DEF gone
  <2>. QED
    BY <1>2, <1>3, <2>1, StillMirrors
<1>. QED
  BY <1>1, <1>3 DEF Settled

LEMMA FundedPlanMirrors ==
  ASSUME NEW p, NEW dir, NEW cmd, PlanSound(p), PlanMirrors(p, dir, cmd),
         AllMirror(dir, utxo), NEW txs \in fundedTxs(p.txs)
  PROVE  \/ txs = <<>> /\ Settled(p.writes, dir, utxo)
         \/ /\ Len(txs) = 1 /\ Founds(txs[1].puts, cmd)
            /\ Settled(p.writes, dir, After(txs[1]))
         \/ p.writes = <<>> /\ \A i \in DOMAIN txs : Harmless(txs[i])
<1>1. CASE p.txs = <<>>
  <2>1. txs = <<>>
    BY <1>1 DEF fundedTxs
  <2>2. Len(p.txs) = 0
    BY <1>1
  <2>3. p.writes = <<>> => Settled(p.writes, dir, utxo)
    BY DEF Settled, AllMirror
  <2>. QED
    BY <2>1, <2>2, <2>3 DEF PlanMirrors
<1>2. CASE p.txs # <<>>
  <2>. DEFINE t == p.txs[1]
              tail == Tail(p.txs)
  <2>1. /\ p.txs \in Seq(ToSet(p.txs)) /\ Head(p.txs) = t /\ 1 \in DOMAIN p.txs
        /\ tail \in Seq(ToSet(p.txs)) /\ Len(tail) = Len(p.txs) - 1
        /\ \A i \in DOMAIN tail : i + 1 \in DOMAIN p.txs /\ tail[i] = p.txs[i + 1]
    BY <1>2, TailOfSeq DEF PlanSound
  <2>2. PICK u \in funded(t) : txs = <<u>> \o tail
    BY <1>2, <2>1 DEF fundedTxs
  <2>3. t = transaction(t.spends, t.refs, t.puts)
    BY <2>1 DEF PlanSound
  <2>. HIDE DEF t, tail
  <2>4. /\ u.puts = t.puts
        /\ \A ws : Settled(ws, dir, After(t)) => Settled(ws, dir, After(u))
    BY <2>2, <2>3, FundedMirrors
  <2>5. /\ txs[1] = u /\ Len(txs) = Len(p.txs)
        /\ \A i \in DOMAIN txs :
             i = 1 \/ (i - 1 \in DOMAIN tail /\ txs[i] = tail[i - 1])
    <3>1. <<u>> \in Seq({u})
      OBVIOUS
    <3>2. Len(p.txs) \in Nat
      BY <2>1
    <3>. QED
      BY <2>1, <2>2, <3>1, <3>2
  <2>6. ASSUME \A i \in DOMAIN p.txs : Harmless(p.txs[i])
        PROVE  \A i \in DOMAIN txs : Harmless(txs[i])
    <3>. TAKE i \in DOMAIN txs
    <3>1. CASE i = 1
      BY <2>1, <2>4, <2>5, <2>6, <3>1 DEF Harmless, t
    <3>2. CASE i # 1
      BY <2>1, <2>5, <2>6, <3>2
    <3>. QED
      BY <3>1, <3>2
  <2>7. CASE /\ Len(p.txs) = 1 /\ Founds(p.txs[1].puts, cmd)
             /\ Settled(p.writes, dir, After(p.txs[1]))
    BY <2>4, <2>5, <2>7 DEF t
  <2>. QED
    BY <1>2, <2>6, <2>7 DEF PlanMirrors
<1>. QED
  BY <1>1, <1>2

-----------------------------------------------------------------------------
(* An operator alone: the invariant                                        *)

(* The transaction whose confirmation the files wait for. *)
Confirming(o) ==
  LET s == sessions[o]
  IN  /\ Len(s.txs) = 1
      /\ \A n \in DOMAIN s.txs[1].puts :
           n[1] = "pair" => n[2] \in Clients /\ n[3] \in Symbols
      /\ Settled(s.writes, files, After(s.txs[1]))
      /\ Protocols(After(s.txs[1])) # {} => NoDraft(Ahead(o))

(* Transactions that no file records. *)
Pruning(o) ==
  LET s == sessions[o]
  IN  /\ s.writes = <<>>
      /\ \A i \in DOMAIN s.txs : s.txs[i] # None => Harmless(s.txs[i])

Stage(o) ==
  LET s == sessions[o]
  IN  /\ s.at \in {"idle", "ready", "sent"} => AllMirror(files, utxo)
      /\ s.at = "ready" => s.seen = files
      /\ s.at = "sent" => Confirming(o) \/ Pruning(o)
      /\ s.at = "landed" => Settled(s.writes, files, utxo) /\ refreshed(s)

Lone(o) ==
  /\ \A q \in Operators \ {o} : sessions[q].at = "idle" /\ agenda[q] = <<>>
  /\ DraftsFirst(Ahead(o))
  /\ Protocols(utxo) # {} => NoDraft(Ahead(o))
  /\ Stage(o)

Solo == scenario.name \in Alone /\ scenario.calm
SoloInv ==
  Solo => scenario.faults = 0 /\ adrift = {} /\ \E o \in Operators : Lone(o)

LEMMA AdvancingDrafts ==
  ASSUME NEW o, NEW d \in {0, 1}, Advances(o, d)
  PROVE  /\ DraftsFirst(Ahead(o)) => DraftsFirst((Ahead(o))')
         /\ NoDraft(Ahead(o)) => NoDraft((Ahead(o))')
<1>1. \A i \in DOMAIN (Ahead(o))' : \A op :
        Calls((Ahead(o))', i, op) => i + d \in DOMAIN Ahead(o) /\ Calls(Ahead(o), i + d, op)
  BY DEF Advances, Calls
<1>2. \A i \in DOMAIN (Ahead(o))' : i \in Int
  BY DEF Advances
<1>. QED
  BY <1>1, <1>2 DEF DraftsFirst, NoDraft

(* The others never move, and what the command awaits, it sees. *)
LEMMA OthersAreStill ==
  ASSUME NEW o \in Operators, Lone(o), scenario.faults = 0, adrift = {}, Next
  PROVE  Open(o) \/ Refuse(o) \/ Submit(o) \/ Land(o) \/ Lose(o) \/ Write(o)
<1>1. ~LandAdrift
  BY DEF LandAdrift
<1>2. \A q \in Operators : ~Stop(q)
  BY DEF Stop
<1>3. ASSUME NEW q \in Operators, q # o
      PROVE  ~(Open(q) \/ Refuse(q) \/ Submit(q) \/ Land(q) \/ Lose(q)
                 \/ NoRefresh(q) \/ Write(q))
  <2>1. sessions[q].at = "idle" /\ agenda[q] = <<>>
    BY <1>3 DEF Lone
  <2>. QED
    BY <2>1 DEF Open, Refuse, Submit, Land, Lose, NoRefresh, Write
<1>4. ~NoRefresh(o)
  BY DEF NoRefresh, Lone, Stage
<1>. QED
  BY <1>1, <1>2, <1>3, <1>4 DEF Next

LEMMA LoneStep ==
  ASSUME NEW o \in Operators, Lone(o), NEW d \in {0, 1}, Advances(o, d),
         \A q \in Operators \ {o} : sessions'[q].at = "idle" /\ agenda'[q] = agenda[q],
         Protocols(utxo') # {} => NoDraft(Ahead(o)),
         Stage(o)'
  PROVE  Lone(o)'
<1>1. DraftsFirst((Ahead(o))') /\ (NoDraft(Ahead(o)) => NoDraft((Ahead(o))'))
  BY AdvancingDrafts DEF Lone
<1>2. \A q \in Operators \ {o} : sessions'[q].at = "idle" /\ agenda'[q] = <<>>
  BY DEF Lone
<1>. QED
  BY <1>1, <1>2 DEF Lone, DraftsFirst, NoDraft, Calls, Protocols

(* A step off the chain. *)
LEMMA OffChainLone ==
  ASSUME ArtifactsInv, NEW o \in Operators, Lone(o), NEW session, become(o, session),
         UNCHANGED <<utxo, agenda>>, sessions[o].at # "idle",
         session.at = "idle" \/ (session.at # "idle" /\ session.cmd = sessions[o].cmd),
         Stage(o)'
  PROVE  Lone(o)'
<1>1. DOMAIN sessions = Operators /\ agenda[o] \in Seq(ToSet(agenda[o]))
  BY DEF ArtifactsInv, AgendaSound
<1>2. sessions'[o] = session /\ \A q \in Operators \ {o} : sessions'[q] = sessions[q]
  BY <1>1 DEF become
<1>3. \E d \in {0, 1} : Advances(o, d)
  BY <1>1, <1>2, RunningKeepsQueue
<1>. QED
  BY <1>2, <1>3, LoneStep DEF Lone

LEMMA OpenKeepsLone ==
  ASSUME ArtifactsInv, NEW o \in Operators, Lone(o), Open(o)
  PROVE  Lone(o)'
<1>1. PICK cmd :
        sessions' = [sessions EXCEPT ![o] = [Idle EXCEPT !.at = "ready", !.cmd = cmd, !.seen = files]]
  BY DEF Open, become
<1>2. DOMAIN sessions = Operators /\ DOMAIN agenda = Operators
  BY DEF ArtifactsInv, AgendaSound
<1>3. /\ sessions[o].at = "idle" /\ UNCHANGED <<utxo, files>>
      /\ agenda' = [agenda EXCEPT ![o] = Tail(agenda[o])]
  BY DEF Open
<1>4. /\ sessions'[o].at = "ready" /\ sessions'[o].seen = files
      /\ \A q \in Operators \ {o} : sessions'[q] = sessions[q] /\ agenda'[q] = agenda[q]
  BY <1>1, <1>2, <1>3 DEF Idle
<1>5. AllMirror(files, utxo) /\ (Protocols(utxo) # {} => NoDraft(Ahead(o)))
  BY <1>3 DEF Lone, Stage
<1>6. AllMirror(files', utxo')
  BY <1>3, <1>5
<1>7. Stage(o)'
  BY <1>3, <1>4, <1>6 DEF Stage, AllMirror
<1>. QED
  BY <1>3, <1>4, <1>5, <1>7, OpenAdvances, LoneStep DEF Lone

(* A command that ends before it has anything to write. *)
LEMMA EndKeepsLone ==
  ASSUME ArtifactsInv, NEW o \in Operators, Lone(o), Refuse(o) \/ Lose(o)
  PROVE  Lone(o)'
<1>1. sessions[o].at \in {"ready", "sent"} /\ become(o, Idle) /\ UNCHANGED <<utxo, files, agenda>>
  BY DEF Refuse, Lose
<1>2. AllMirror(files, utxo)
  BY <1>1 DEF Lone, Stage
<1>3. DOMAIN sessions = Operators
  BY DEF ArtifactsInv
<1>4. sessions'[o].at = "idle" /\ Idle.at = "idle"
  BY <1>1, <1>3 DEF become, Idle
<1>5. AllMirror(files', utxo')
  BY <1>1, <1>2
<1>6. Stage(o)'
  BY <1>4, <1>5 DEF Stage, AllMirror
<1>. QED
  BY <1>1, <1>4, <1>6, OffChainLone

LEMMA SubmitKeepsLone ==
  ASSUME ArtifactsInv, NEW o \in Operators, Lone(o), Submit(o)
  PROVE  Lone(o)'
<1>. DEFINE cmd == sessions[o].cmd
            seen == sessions[o].seen
<1>1. sessions[o].at = "ready" /\ UNCHANGED <<utxo, files, agenda>>
  BY DEF Submit
<1>2. PICK p, txs :
        /\ p \in buildable(seen, cmd) /\ txs \in fundedTxs(p.txs)
        /\ become(o, [Idle EXCEPT !.at = IF txs = <<>> THEN "landed" ELSE "sent",
                                  !.cmd = cmd, !.txs = txs, !.writes = p.writes])
  BY <1>1 DEF Submit
<1>3. seen = files /\ AllMirror(seen, utxo) /\ Reading(seen, cmd)
  BY <1>1, ReadySessionsRead DEF Lone, Stage
<1>4. /\ 1 \in DOMAIN Ahead(o) /\ Ahead(o)[1] = {cmd}
      /\ \A j \in DOMAIN Ahead(o) : j \in Nat \ {0}
  <2>1. agenda[o] \in Seq(ToSet(agenda[o]))
    BY DEF ArtifactsInv, AgendaSound
  <2>2. Ahead(o) = <<{cmd}>> \o agenda[o]
    BY <1>1 DEF Ahead
  <2>. QED
    BY <2>1, <2>2
<1>5. Facing(seen, cmd)
  <2>1. cmd.op = "protocol:init" => Calls(Ahead(o), 1, "protocol:init")
    BY <1>4 DEF Calls
  <2>2. cmd.op = "protocol:init" => ~NoDraft(Ahead(o))
    BY <1>4, <2>1 DEF NoDraft
  <2>. QED
    BY <1>3, <2>2 DEF Facing, Lone
<1>6. PlanSound(p) /\ PlanMirrors(p, seen, cmd)
  BY <1>2, <1>3, <1>5, PlansAreSound, PlansMirror DEF buildable
<1>7. \/ txs = <<>> /\ Settled(p.writes, files, utxo)
      \/ /\ Len(txs) = 1 /\ Founds(txs[1].puts, cmd)
         /\ Settled(p.writes, files, After(txs[1]))
      \/ p.writes = <<>> /\ \A i \in DOMAIN txs : Harmless(txs[i])
  BY <1>2, <1>3, <1>6, FundedPlanMirrors
<1>8. txs \in Seq(ToSet(txs))
  BY <1>2, <1>6, FundedIsSound
<1>9. ASSUME NEW t, Founds(t.puts, cmd), Protocols(After(t)) # {}
      PROVE  NoDraft(Ahead(o))
  <2>1. Protocols(utxo) # {} \/ cmd.op = "config:bootstrap"
    <3>1. Protocols(t.puts) # {} \/ Protocols(utxo) # {}
      BY <1>9, AfterDef DEF Protocols
    <3>. QED
      BY <1>9, <3>1 DEF Founds
  <2>2. CASE cmd.op = "config:bootstrap"
    <3>1. Calls(Ahead(o), 1, "config:bootstrap")
      BY <1>4, <2>2 DEF Calls
    <3>2. \A j \in DOMAIN Ahead(o) : Calls(Ahead(o), j, "protocol:init") => j < 1
      BY <1>4, <3>1 DEF Lone, DraftsFirst
    <3>. QED
      BY <1>4, <3>2 DEF NoDraft
  <2>. QED
    BY <2>1, <2>2 DEF Lone
<1>. DEFINE at == IF txs = <<>> THEN "landed" ELSE "sent"
            session == [Idle EXCEPT !.at = at, !.cmd = cmd, !.txs = txs, !.writes = p.writes]
<1>10. /\ session.at = at /\ session.cmd = cmd /\ session.txs = txs /\ session.writes = p.writes
       /\ session.awaits = {}
  <2>. HIDE DEF at, cmd
  <2>. QED
    BY DEF Idle
<1>11. at \in {"landed", "sent"} /\ (at = "landed" => txs = <<>>) /\ (at = "sent" => txs # <<>>)
  OBVIOUS
<1>12. become(o, session)
  BY <1>2
<1>. HIDE DEF at, session
<1>13. sessions'[o] = session
  <2>1. DOMAIN sessions = Operators
    BY DEF ArtifactsInv
  <2>. QED
    BY <1>12, <2>1 DEF become
<1>14. (Ahead(o))' = Ahead(o)
  BY <1>1, <1>10, <1>11, <1>13 DEF Ahead
<1>15. Stage(o)'
  <2>1. ASSUME at = "landed"
        PROVE  Settled(p.writes, files, utxo)
    <3>1. txs = <<>> /\ Len(txs) = 0
      BY <1>11, <2>1, EmptyIsSeq
    <3>2. p.writes = <<>> => Settled(p.writes, files, utxo)
      BY <1>3 DEF Settled, AllMirror
    <3>. QED
      BY <1>7, <3>1, <3>2
  <2>2. ASSUME at = "sent"
        PROVE  Confirming(o)' \/ Pruning(o)'
    <3>1. CASE /\ Len(txs) = 1 /\ Founds(txs[1].puts, cmd)
               /\ Settled(p.writes, files, After(txs[1]))
      <4>1. PICK t : t = txs[1]
        OBVIOUS
      <4>2. (After(t))' = After(t)
        BY <1>1 DEF After, kept, beside
      <4>3. Protocols(After(t)) # {} => NoDraft((Ahead(o))')
        BY <1>9, <1>14, <3>1, <4>1
      <4>4. Settled(p.writes, files', (After(t))')
        BY <1>1, <3>1, <4>1, <4>2
      <4>5. \A n \in DOMAIN t.puts : n[1] = "pair" => n[2] \in Clients /\ n[3] \in Symbols
        BY <3>1, <4>1 DEF Founds
      <4>. QED
        BY <1>10, <1>13, <3>1, <4>1, <4>2, <4>3, <4>4, <4>5
           DEF Confirming, Settled, Protocols, NoDraft, Calls
    <3>2. CASE p.writes = <<>> /\ \A i \in DOMAIN txs : Harmless(txs[i])
      BY <1>1, <1>3, <1>10, <1>13, <3>2 DEF Pruning, AllMirror, Harmless
    <3>. QED
      BY <1>7, <1>11, <2>2, <3>1, <3>2
  <2>3. at = "landed" => Settled(p.writes, files', utxo')
    BY <1>1, <2>1
  <2>4. AllMirror(files', utxo')
    BY <1>1, <1>3
  <2>5. sessions'[o].at = at /\ sessions'[o].writes = p.writes
    BY <1>10, <1>13
  <2>6. (refreshed(sessions[o]))'
    BY <1>10, <1>13 DEF refreshed
  <2>. QED
    BY <1>11, <2>2, <2>3, <2>4, <2>5, <2>6 DEF Stage, Settled, AllMirror
<1>. QED
  BY <1>1, <1>10, <1>11, <1>12, <1>15, OffChainLone

LEMMA WrittenMirrors ==
  ASSUME NEW S, NEW ws \in Seq(S), ws # <<>>, NEW dir, DOMAIN dir = Files, NEW U,
         Settled(ws, dir, U),
         NEW next, next = [dir EXCEPT ![Head(ws).file] = Head(ws).content]
  PROVE  Settled(Tail(ws), next, U)
<1>1. /\ Head(ws) = ws[1] /\ 1 \in DOMAIN ws
      /\ \A i \in DOMAIN Tail(ws) : i + 1 \in DOMAIN ws /\ Tail(ws)[i] = ws[i + 1]
      /\ \A i \in DOMAIN ws : i = 1 \/ (i - 1 \in DOMAIN Tail(ws) /\ Tail(ws)[i - 1] = ws[i])
  OBVIOUS
<1>2. ASSUME NEW f \in Files, \A i \in DOMAIN Tail(ws) : Tail(ws)[i].file # f
      PROVE  Mirrors(f, next[f], U)
  <2>1. CASE f = ws[1].file
    BY <1>1, <2>1 DEF Settled
  <2>2. CASE f # ws[1].file
    <3>1. \A i \in DOMAIN ws : ws[i].file # f
      BY <1>1, <1>2, <2>2
    <3>. QED
      BY <1>1, <2>2, <3>1 DEF Settled
  <2>. QED
    BY <2>1, <2>2
<1>. QED
  BY <1>1, <1>2 DEF Settled

LEMMA LastOfSeq ==
  ASSUME NEW S, NEW q \in Seq(S), q # <<>>, Len(q) <= 1
  PROVE  DOMAIN Tail(q) = {}
<1>1. Len(q) \in Nat /\ Len(q) # 0
  OBVIOUS
<1>2. Len(q) = 1
  BY <1>1
<1>3. PICK rest : rest = Tail(q)
  OBVIOUS
<1>4. rest \in Seq(S) /\ Len(rest) = 0
  <2>1. Tail(q) \in Seq(S) /\ Len(Tail(q)) = Len(q) - 1
    OBVIOUS
  <2>2. \A n \in Nat : n = 1 => n - 1 = 0
    OBVIOUS
  <2>. QED
    BY <1>1, <1>2, <1>3, <2>1, <2>2
<1>5. DOMAIN rest = {}
  BY <1>4
<1>. QED
  BY <1>3, <1>5

LEMMA WriteKeepsLone ==
  ASSUME ArtifactsInv, NEW o \in Operators, Lone(o), Write(o)
  PROVE  Lone(o)'
<1>. DEFINE s == sessions[o]
            session == IF Len(s.writes) <= 1 THEN Idle
                       ELSE [s EXCEPT !.writes = Tail(@), !.awaits = {}]
<1>1. /\ s.at = "landed" /\ become(o, session) /\ UNCHANGED <<utxo, agenda>>
      /\ IF s.writes = <<>> THEN UNCHANGED files
         ELSE files' = [files EXCEPT ![Head(s.writes).file] = Head(s.writes).content]
  BY DEF Write
<1>2. /\ s.writes \in Seq(ToSet(s.writes)) /\ DOMAIN files = Files
      /\ DOMAIN s = {"at", "cmd", "seen", "txs", "awaits", "writes"} /\ DOMAIN sessions = Operators
  <2>1. SessionSound(o)
    BY DEF ArtifactsInv
  <2>2. s = [at |-> s.at, cmd |-> s.cmd, seen |-> s.seen, txs |-> s.txs,
             awaits |-> s.awaits, writes |-> s.writes]
    BY <2>1 DEF SessionSound
  <2>. QED
    BY <2>1, <2>2 DEF SessionSound, ArtifactsInv, FilesSound
<1>3. Settled(s.writes, files, utxo)
  BY <1>1 DEF Lone, Stage
<1>4. Len(s.writes) \in Nat /\ (s.writes = <<>> <=> Len(s.writes) = 0)
  BY <1>2, LengthOfSeq
<1>5. s.writes # <<>> => Settled(Tail(s.writes), files', utxo)
  BY <1>1, <1>2, <1>3, WrittenMirrors
<1>6. sessions'[o] = session
  BY <1>1, <1>2 DEF become
<1>7. CASE Len(s.writes) <= 1
  <2>1. session = Idle /\ session.at = "idle"
    BY <1>7 DEF Idle
  <2>2. AllMirror(files', utxo)
    <3>1. CASE s.writes = <<>>
      BY <1>1, <1>3, <3>1 DEF Settled, AllMirror
    <3>2. CASE s.writes # <<>>
      <4>1. DOMAIN Tail(s.writes) = {}
        BY <1>2, <1>7, <3>2, LastOfSeq
      <4>. QED
        BY <1>5, <3>2, <4>1 DEF Settled, AllMirror
    <3>. QED
      BY <3>1, <3>2
  <2>. HIDE DEF session
  <2>3. Stage(o)'
    BY <1>1, <1>6, <2>1, <2>2 DEF Stage, AllMirror
  <2>. QED
    BY <1>1, <2>1, <2>3, OffChainLone
<1>8. CASE Len(s.writes) > 1
  <2>1. session = [s EXCEPT !.writes = Tail(s.writes), !.awaits = {}]
    BY <1>4, <1>8
  <2>. HIDE DEF session
  <2>2. /\ session.at = "landed" /\ session.cmd = s.cmd /\ session.writes = Tail(s.writes)
        /\ session.awaits = {}
    BY <1>1, <1>2, <2>1
  <2>3. Settled(Tail(s.writes), files', utxo)
    BY <1>4, <1>5, <1>8
  <2>4. (refreshed(sessions[o]))'
    BY <1>6, <2>2 DEF refreshed
  <2>5. Stage(o)'
    BY <1>1, <1>6, <2>2, <2>3, <2>4 DEF Stage, Settled
  <2>. QED
    BY <1>1, <2>2, <2>5, OffChainLone
<1>. QED
  BY <1>4, <1>7, <1>8

(* What a transaction leaves is seen in one UTxO once the files, written,  *)
(* mirror the chain.                                                       *)
LEMMA LandedIsRefreshed ==
  ASSUME NEW t, NEW U, U = applied(t), NEW ws, NEW dir, Settled(ws, dir, U),
         \A n \in DOMAIN t.puts : n[1] = "pair" => n[2] \in Clients /\ n[3] \in Symbols,
         NEW n \in awaited(t.puts)
  PROVE  IF n[1] = "pair"
         THEN Cardinality({m \in DOMAIN U : m[1] = "pair" /\ m[2] = n[2] /\ m[3] = n[3]}) = 1
         ELSE n \in DOMAIN U
<1>. DEFINE held == {m \in DOMAIN U : m[1] = "pair" /\ m[2] = n[2] /\ m[3] = n[3]}
<1>1. PICK m \in DOMAIN t.puts : n = stateOf(m)
  BY DEF awaited, lived
<1>2. m \in DOMAIN U
  BY DEF applied, beside
<1>3. CASE m[1] = "pair"
  <2>1. /\ n = Pair(m[2], m[3]) /\ n[1] = "pair" /\ n[2] = m[2] /\ n[3] = m[3]
    BY <1>1, <1>3 DEF stateOf, Pair
  <2>2. n \in Files
    BY <1>3, <2>1 DEF Files
  <2>3. PICK x : Mirrors(n, x, U)
    BY <2>2 DEF Settled
  <2>4. \A k \in DOMAIN U : IsCopy(k, n) => k = m
    BY <1>2, <1>3, <2>1, <2>3 DEF Mirrors, IsCopy
  <2>5. held = {m}
    BY <1>2, <1>3, <2>1, <2>4 DEF IsCopy
  <2>. QED
    BY <2>1, <2>5, FS_Singleton
<1>4. CASE m[1] # "pair"
  BY <1>1, <1>2, <1>4 DEF stateOf
<1>. QED
  BY <1>3, <1>4

LEMMA LandKeepsLone ==
  ASSUME ArtifactsInv, NEW o \in Operators, Lone(o), Land(o)
  PROVE  Lone(o)'
<1>. DEFINE s == sessions[o]
            rest == survivors(Head(s.txs), Tail(s.txs))
            at == IF Len(s.txs) = 1 THEN "landed" ELSE "sent"
<1>1. /\ s.at = "sent" /\ Head(s.txs) # None /\ landing(Head(s.txs))
      /\ UNCHANGED <<files, agenda>>
      /\ sessions' =
           [q \in Operators |->
              IF q # o THEN [sessions[q] EXCEPT !.txs = survivors(Head(s.txs), @)]
              ELSE [s EXCEPT !.at = at, !.txs = survivors(Head(s.txs), Tail(@)),
                             !.awaits = awaited(Head(s.txs).puts)]]
  BY DEF Land
<1>2. SessionSound(o)
  BY DEF ArtifactsInv
<1>3. /\ s.txs \in Seq(ToSet(s.txs)) /\ s.txs # <<>> /\ s.writes \in Seq(ToSet(s.writes))
      /\ DOMAIN s = {"at", "cmd", "seen", "txs", "awaits", "writes"}
  <2>1. s = [at |-> s.at, cmd |-> s.cmd, seen |-> s.seen, txs |-> s.txs,
             awaits |-> s.awaits, writes |-> s.writes]
    BY <1>2 DEF SessionSound
  <2>. QED
    BY <1>1, <1>2, <2>1 DEF SessionSound
<1>4. /\ Head(s.txs) = s.txs[1] /\ 1 \in DOMAIN s.txs
      /\ Tail(s.txs) \in Seq(ToSet(s.txs))
      /\ \A i \in DOMAIN Tail(s.txs) : i + 1 \in DOMAIN s.txs /\ Tail(s.txs)[i] = s.txs[i + 1]
  BY <1>3, TailOfSeq
<1>5. PICK t : t = Head(s.txs)
  OBVIOUS
<1>6. /\ \A q \in Operators \ {o} : sessions'[q] = [sessions[q] EXCEPT !.txs = survivors(t, @)]
      /\ sessions'[o] = [s EXCEPT !.at = at, !.txs = rest, !.awaits = awaited(t.puts)]
  <2>. HIDE DEF at
  <2>. QED
    BY <1>1, <1>5
<1>7. /\ DOMAIN rest = DOMAIN Tail(s.txs)
      /\ \A i \in DOMAIN rest : rest[i] # None => rest[i] = Tail(s.txs)[i]
  BY DEF survivors
<1>. HIDE DEF rest
<1>8. /\ sessions'[o].at = at /\ sessions'[o].cmd = s.cmd /\ sessions'[o].txs = rest
      /\ sessions'[o].writes = s.writes /\ sessions'[o].awaits = awaited(t.puts)
  <2>. HIDE DEF at
  <2>. QED
    BY <1>3, <1>6
<1>9. at \in {"sent", "landed"} /\ (at = "sent" <=> Len(s.txs) # 1)
  OBVIOUS
<1>. HIDE DEF at
<1>10. (Ahead(o))' = Ahead(o) /\ \E d \in {0, 1} : Advances(o, d)
  <2>1. s.at # "idle" /\ at # "idle" /\ agenda'[o] = agenda[o]
    BY <1>1, <1>9
  <2>2. (Ahead(o))' = Ahead(o)
    BY <1>8, <2>1 DEF Ahead
  <2>3. agenda[o] \in Seq(ToSet(agenda[o]))
    BY DEF ArtifactsInv, AgendaSound
  <2>. QED
    BY <1>8, <2>1, <2>2, <2>3, RunningKeepsQueue
<1>11. \A q \in Operators \ {o} : sessions'[q].at = "idle" /\ agenda'[q] = agenda[q]
  BY <1>1, <1>6, BystanderKeepsPlace DEF Lone
<1>12. Tx(t) /\ utxo' = applied(t) /\ IsFiniteSet(taken)
  <2>1. Tx(t)
    BY <1>1, <1>2, <1>4, <1>5 DEF SessionSound
  <2>. QED
    BY <1>1, <1>5, <2>1, TakenIsFinite DEF landing
<1>13. Protocols(utxo') = Protocols(After(t))
  <2>1. DOMAIN applied(t) \subseteq DOMAIN After(t) \cup {newCoin}
    BY AppliedNames, AfterDef
  <2>2. newCoin # Config /\ newCoin # Hook
    BY <1>12, FreshNames DEF Config, Hook
  <2>3. DOMAIN After(t) \subseteq DOMAIN applied(t)
    BY DEF After, applied, beside
  <2>. QED
    BY <1>12, <2>1, <2>2, <2>3 DEF Protocols
<1>14. \A f \in Files : Mirrors(f, files[f], After(t)) => Mirrors(f, files[f], utxo')
  BY <1>12, ChangeIsFresh, LandedMirrors
<1>15. CASE Confirming(o)
  <2>1. /\ Len(s.txs) = 1 /\ Settled(s.writes, files, After(t))
        /\ Protocols(After(t)) # {} => NoDraft(Ahead(o))
    BY <1>4, <1>5, <1>15 DEF Confirming
  <2>2. Settled(s.writes, files, utxo')
    <3>1. \A i \in DOMAIN s.writes :
            Mirrors(s.writes[i].file, s.writes[i].content, After(t)) =>
              Mirrors(s.writes[i].file, s.writes[i].content, utxo')
      BY <1>12, ChangeIsFresh, LandedMirrors
    <3>. QED
      BY <1>14, <2>1, <3>1 DEF Settled
  <2>3. \A n \in DOMAIN t.puts : n[1] = "pair" => n[2] \in Clients /\ n[3] \in Symbols
    BY <1>4, <1>5, <1>15 DEF Confirming
  <2>4. (refreshed(sessions[o]))'
    <3>1. PICK U, ws : U = utxo' /\ ws = s.writes
      OBVIOUS
    <3>2. U = applied(t) /\ Settled(ws, files, U)
      BY <1>12, <2>2, <3>1
    <3>3. \A n \in awaited(t.puts) :
            IF n[1] = "pair"
            THEN Cardinality({m \in DOMAIN U : m[1] = "pair" /\ m[2] = n[2] /\ m[3] = n[3]}) = 1
            ELSE n \in DOMAIN U
      BY <2>3, <3>2, LandedIsRefreshed
    <3>. QED
      BY <1>8, <3>1, <3>3 DEF refreshed, alone, copies, live
  <2>5. Stage(o)'
    BY <1>1, <1>8, <1>9, <2>1, <2>2, <2>4 DEF Stage, Settled
  <2>. QED
    BY <1>10, <1>11, <1>13, <2>1, <2>5, LoneStep
<1>16. CASE Pruning(o)
  <2>1. s.writes = <<>> /\ Harmless(t) /\ AllMirror(files, utxo)
    BY <1>1, <1>4, <1>5, <1>16 DEF Pruning, Lone, Stage
  <2>2. AllMirror(files, utxo')
    <3>1. \A f, n : n \in DOMAIN t.puts => ~Concerns(f, n)
      BY <2>1 DEF Harmless, Concerns, Config, Hook
    <3>. QED
      BY <1>12, <1>14, <2>1, <3>1, UnputMirrors DEF AllMirror
  <2>3. Protocols(After(t)) \subseteq Protocols(utxo)
    <3>1. Config \notin DOMAIN t.puts /\ Hook \notin DOMAIN t.puts
      BY <2>1 DEF Harmless, Config, Hook
    <3>. QED
      BY <3>1, AfterDef DEF Protocols
  <2>4. \A i \in DOMAIN rest : rest[i] # None => Harmless(rest[i])
    BY <1>4, <1>7, <1>16 DEF Pruning
  <2>5. Settled(s.writes, files, utxo')
    BY <2>1, <2>2 DEF Settled, AllMirror
  <2>6. Pruning(o)'
    BY <1>8, <2>1, <2>4 DEF Pruning, Harmless
  <2>7. \A n \in DOMAIN t.puts : n[1] # "pair"
    BY <2>1 DEF Harmless
  <2>8. (refreshed(sessions[o]))'
    BY <1>8, <1>12, <2>5, <2>7, LandedIsRefreshed DEF refreshed, alone, copies, live
  <2>9. Stage(o)'
    BY <1>1, <1>8, <1>9, <2>2, <2>5, <2>6, <2>8 DEF Stage, AllMirror, Settled
  <2>10. Protocols(utxo') # {} => NoDraft(Ahead(o))
    BY <1>13, <2>3 DEF Lone
  <2>. QED
    BY <1>10, <1>11, <2>9, <2>10, LoneStep
<1>. QED
  BY <1>1, <1>15, <1>16 DEF Lone, Stage

LEMMA InitIsSolo ==
  ASSUME Init
  PROVE  SoloInv
<1>1. PICK s \in Scenarios :
        /\ scenario = [name |-> s.name, faults |-> s.faults, calm |-> s.faults = 0]
        /\ utxo = s.utxo /\ files = s.files /\ agenda = s.agenda
        /\ sessions = [o \in Operators |-> Idle] /\ adrift = {}
  BY DEF Init
<1>2. \A o \in Operators : sessions[o].at = "idle"
  BY <1>1 DEF Idle
<1>3. SUFFICES ASSUME Solo
               PROVE  scenario.faults = 0 /\ \E o \in Operators : Lone(o)
  BY <1>1 DEF SoloInv
<1>4. s.name \in Alone /\ s.faults = 0 /\ scenario.faults = 0
  BY <1>1, <1>3 DEF Solo
<1>5. /\ \A f \in Files : Mirrors(f, s.files[f], s.utxo)
      /\ \E o \in Operators :
           /\ \A q \in Operators \ {o} : s.agenda[q] = <<>>
           /\ DraftsFirst(s.agenda[o])
           /\ {Config, Hook} \cap DOMAIN s.utxo # {} => NoDraft(s.agenda[o])
  BY <1>4, SolosAreSound
<1>6. PICK o \in Operators :
        /\ \A q \in Operators \ {o} : s.agenda[q] = <<>>
        /\ DraftsFirst(s.agenda[o])
        /\ {Config, Hook} \cap DOMAIN s.utxo # {} => NoDraft(s.agenda[o])
  BY <1>5
<1>7. AllMirror(files, utxo)
  BY <1>1, <1>5 DEF AllMirror
<1>8. Ahead(o) = s.agenda[o]
  BY <1>1, <1>2 DEF Ahead
<1>9. Stage(o)
  BY <1>2, <1>7 DEF Stage
<1>10. Lone(o)
  BY <1>1, <1>2, <1>6, <1>8, <1>9 DEF Lone, Protocols
<1>. QED
  BY <1>4, <1>10

LEMMA StutterKeepsLone ==
  ASSUME NEW o \in Operators, Lone(o), UNCHANGED vars
  PROVE  Lone(o)'
<1>1. UNCHANGED <<utxo, files, sessions, agenda>>
  BY DEF vars
<1>2. (Ahead(o))' = Ahead(o)
  BY <1>1 DEF Ahead
<1>3. \A t : (After(t))' = After(t)
  BY <1>1 DEF After, beside, kept
<1>4. Stage(o)'
  <2>1. AllMirror(files, utxo)' <=> AllMirror(files, utxo)
    BY <1>1 DEF AllMirror
  <2>2. Settled(sessions[o].writes, files, utxo)' <=> Settled(sessions[o].writes, files, utxo)
    BY <1>1 DEF Settled
  <2>3. PICK t, u : t = sessions[o].txs[1] /\ u = After(t)
    OBVIOUS
  <2>4. u = (After(sessions[o].txs[1]))'
    BY <1>1, <1>3, <2>3
  <2>5. Confirming(o) => Confirming(o)'
    BY <1>1, <1>2, <2>3, <2>4 DEF Confirming, Settled, Protocols, NoDraft, Calls
  <2>6. Pruning(o) => Pruning(o)'
    BY <1>1 DEF Pruning, Harmless
  <2>7. (refreshed(sessions[o]))' <=> refreshed(sessions[o])
    BY <1>1 DEF refreshed, alone, copies, live
  <2>. QED
    BY <1>1, <2>1, <2>2, <2>5, <2>6, <2>7 DEF Lone, Stage
<1>. QED
  BY <1>1, <1>2, <1>4 DEF Lone, Protocols, DraftsFirst, NoDraft, Calls

LEMMA NextKeepsSolo ==
  ASSUME ArtifactsInv, SoloInv, [Next]_vars
  PROVE  SoloInv'
<1>1. SUFFICES ASSUME Solo'
               PROVE  (scenario.faults = 0 /\ adrift = {} /\ \E o \in Operators : Lone(o))'
  BY DEF SoloInv
<1>2. Solo
  <2>1. CASE \E o \in Operators : Stop(o)
    BY <1>1, <2>1 DEF Stop, Solo
  <2>2. CASE ~\E o \in Operators : Stop(o)
    BY <1>1, <2>2
       DEF Next, vars, Open, Refuse, Submit, Land, Lose, NoRefresh, Write, LandAdrift, Solo
  <2>. QED
    BY <2>1, <2>2
<1>3. PICK o \in Operators : Lone(o) /\ scenario.faults = 0 /\ adrift = {}
  BY <1>2 DEF SoloInv
<1>4. CASE UNCHANGED vars
  BY <1>3, <1>4, StutterKeepsLone DEF vars
<1>5. CASE Next
  <2>1. Open(o) \/ Refuse(o) \/ Submit(o) \/ Land(o) \/ Lose(o) \/ Write(o)
    BY <1>3, <1>5, OthersAreStill
  <2>2. scenario' = scenario /\ adrift' = {}
    BY <1>3, <2>1 DEF Open, Refuse, Submit, Land, Lose, Write, landing
  <2>3. Lone(o)'
    BY <1>3, <2>1, OpenKeepsLone, EndKeepsLone, SubmitKeepsLone, LandKeepsLone, WriteKeepsLone
  <2>. QED
    BY <1>3, <2>2, <2>3
<1>. QED
  BY <1>4, <1>5

(* An operator who works alone and meets no fault has, between commands,   *)
(* artifacts that hold the live Config, PaymentHook and pairs exactly,     *)
(* whatever commands are run over whatever deployment: no command of       *)
(* src/offchain/cli/src/transactions forgets, or misstates, a datum it     *)
(* moves.                                                                  *)
THEOREM SoloFilesKeepUp == Spec => []SoloFilesMirrorChain
<1>1. Init => SoloInv
  BY InitIsSolo
<1>2. ArtifactsInv /\ SoloInv /\ [Next]_vars => SoloInv'
  BY NextKeepsSolo
<1>3. SoloInv => SoloFilesMirrorChain
  <2>. SUFFICES ASSUME SoloInv, Solo, \A o \in Operators : sessions[o].at = "idle"
                PROVE  LET p == files[Protocol]
                       IN  /\ live(Config) => p.config = utxo[Config]
                           /\ live(Hook) => p.hook = utxo[Hook]
                           /\ \A c \in Clients, s \in Symbols :
                                \A n \in copies(c, s) : files[Pair(c, s)] = utxo[n]
    BY DEF SoloFilesMirrorChain, Solo
  <2>1. AllMirror(files, utxo)
    BY DEF SoloInv, Lone, Stage
  <2>2. Mirrors(Protocol, files[Protocol], utxo)
    BY <2>1, FilesOfKinds DEF AllMirror
  <2>3. ASSUME NEW c \in Clients, NEW s \in Symbols, NEW n \in copies(c, s)
        PROVE  files[Pair(c, s)] = utxo[n]
    <3>1. Mirrors(Pair(c, s), files[Pair(c, s)], utxo)
      BY <2>1, FilesOfKinds DEF AllMirror
    <3>2. Pair(c, s)[1] = "pair" /\ Pair(c, s)[2] = c /\ Pair(c, s)[3] = s
      BY DEF Pair
    <3>3. n \in DOMAIN utxo /\ n[1] = "pair" /\ n[2] = c /\ n[3] = s
      BY DEF copies
    <3>. QED
      BY <3>1, <3>2, <3>3 DEF Mirrors, IsCopy
  <2>. QED
    BY <2>2, <2>3 DEF Mirrors, live
<1>. QED
  BY <1>1, <1>2, <1>3, ArtifactsAreSound, PTL DEF Spec
=============================================================================
