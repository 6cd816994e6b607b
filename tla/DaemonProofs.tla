----------------------------- MODULE DaemonProofs -----------------------------
(***************************************************************************)
(* The in-progress guards of the refresh loop and the lanes' entries agree *)
(* (GuardsMatchTasks), for any number of clients, overlapping passes and   *)
(* failures, any thresholds and any configurations.                        *)
(*                                                                         *)
(* The property is inductive but for shapes: a lane that waits for a       *)
(* transaction has an entry that runs, and a pass that has read a lane has *)
(* that lane left.  The amounts of the entries do not matter, so S is left *)
(* open.                                                                   *)
(***************************************************************************)
EXTENDS DaemonProperties, SequenceTheorems, FiniteSetTheorems, TLAPS

QueuesOK == \E S : queue \in [Clients -> Seq(S)]

FlightOK ==
  /\ flight = [c \in Clients |-> flight[c]]
  /\ \A c \in Clients : flight[c] # None => queue[c] # <<>>

PassOK(p) ==
  /\ p = [left |-> p.left, seen |-> p.seen]
  /\ p.left \in Seq(Clients)
  /\ p.seen # None => p.left # <<>>

PassesOK ==
  /\ passes = [p \in 1 .. Passes |-> passes[p]]
  /\ \A p \in 1 .. Passes : PassOK(passes[p])

Shapes == QueuesOK /\ FlightOK /\ PassesOK

Inv == Shapes /\ GuardsMatchTasks

-----------------------------------------------------------------------------
(* Sequences of entries *)

\* No two entries of one kind.
Distinct(s) == \A i, j \in DOMAIN s : s[i].kind = s[j].kind => i = j

\* Entries at the end of a lane add their kinds.
LEMMA KindsOfConcat ==
  ASSUME NEW S, NEW s \in Seq(S), NEW t \in Seq(S)
  PROVE  kindsOf(s \o t) = kindsOf(s) \cup kindsOf(t)
<1>1. /\ Len(s) \in Nat /\ DOMAIN s = 1 .. Len(s)
      /\ Len(t) \in Nat /\ DOMAIN t = 1 .. Len(t)
  BY LenProperties
<1>2. /\ s \o t \in Seq(S)
      /\ Len(s \o t) = Len(s) + Len(t)
      /\ \A i \in 1 .. Len(s) + Len(t) :
           (s \o t)[i] = IF i <= Len(s) THEN s[i] ELSE t[i - Len(s)]
  BY ConcatProperties
<1>3. DOMAIN (s \o t) = 1 .. Len(s) + Len(t)
  BY <1>2, LenProperties
<1>4. ASSUME NEW i \in DOMAIN (s \o t)
      PROVE  (s \o t)[i].kind \in kindsOf(s) \cup kindsOf(t)
  <2>1. CASE i <= Len(s)
    <3>1. i \in DOMAIN s /\ (s \o t)[i] = s[i]
      BY <1>1, <1>2, <1>3, <2>1
    <3> QED
      BY <3>1 DEF kindsOf
  <2>2. CASE ~(i <= Len(s))
    <3>1. i - Len(s) \in DOMAIN t /\ (s \o t)[i] = t[i - Len(s)]
      BY <1>1, <1>2, <1>3, <2>2
    <3> QED
      BY <3>1 DEF kindsOf
  <2> QED
    BY <2>1, <2>2
<1>5. ASSUME NEW i \in DOMAIN s PROVE s[i].kind \in kindsOf(s \o t)
  <2>1. i \in DOMAIN (s \o t) /\ (s \o t)[i] = s[i]
    BY <1>1, <1>2, <1>3
  <2> QED
    BY <2>1 DEF kindsOf
<1>6. ASSUME NEW i \in DOMAIN t PROVE t[i].kind \in kindsOf(s \o t)
  <2>1. i + Len(s) \in DOMAIN (s \o t) /\ (s \o t)[i + Len(s)] = t[i]
    BY <1>1, <1>2, <1>3
  <2> QED
    BY <2>1 DEF kindsOf
<1> QED
  BY <1>4, <1>5, <1>6 DEF kindsOf

\* The kinds of a lane are that of the entry that runs and those behind it.
LEMMA KindsOfTail ==
  ASSUME NEW S, NEW s \in Seq(S), s # <<>>
  PROVE  kindsOf(s) = {Head(s).kind} \cup kindsOf(Tail(s))
<1>1. /\ Len(s) \in Nat \ {0} /\ DOMAIN s = 1 .. Len(s)
  BY LenProperties, EmptySeq
<1>2. /\ Tail(s) \in Seq(S) /\ Len(Tail(s)) = Len(s) - 1
      /\ \A i \in 1 .. Len(Tail(s)) : Tail(s)[i] = s[i + 1]
  BY HeadTailProperties
<1>3. DOMAIN Tail(s) = 1 .. Len(s) - 1
  BY <1>2, LenProperties
<1>4. Head(s) = s[1]
  BY <1>1
<1>5. ASSUME NEW i \in DOMAIN s PROVE s[i].kind \in {Head(s).kind} \cup kindsOf(Tail(s))
  <2>1. CASE i = 1
    BY <1>4, <2>1
  <2>2. CASE i # 1
    <3>1. i - 1 \in DOMAIN Tail(s) /\ Tail(s)[i - 1] = s[i]
      BY <1>1, <1>2, <1>3, <2>2
    <3> QED
      BY <3>1 DEF kindsOf
  <2> QED
    BY <2>1, <2>2
<1>6. ASSUME NEW i \in DOMAIN Tail(s) PROVE Tail(s)[i].kind \in kindsOf(s)
  <2>1. i + 1 \in DOMAIN s /\ Tail(s)[i] = s[i + 1]
    BY <1>1, <1>2, <1>3
  <2> QED
    BY <2>1 DEF kindsOf
<1>7. Head(s).kind \in kindsOf(s)
  <2>1. 1 \in DOMAIN s
    BY <1>1
  <2> QED
    BY <1>4, <2>1 DEF kindsOf
<1> QED
  BY <1>5, <1>6, <1>7 DEF kindsOf

-----------------------------------------------------------------------------
(* The two ways a lane changes *)

\* The guards of the kinds are taken for lane c.
Takes(c, kinds) ==
  /\ guards'.merging = guards.merging \cup (IF "merge" \in kinds THEN {c} ELSE {})
  /\ guards'.settling = guards.settling \cup (IF "settle" \in kinds THEN {c} ELSE {})
  /\ guards'.withdrawing <=> guards.withdrawing \/ "withdraw" \in kinds

\* A pass that adds tasks of different kinds, none of a kind whose guard is
\* held, and takes their guards keeps the agreement; so do intents.
LEMMA AppendKeepsGuards ==
  ASSUME GuardsMatchTasks, NEW S, queue \in [Clients -> Seq(S)],
         NEW c \in Clients, NEW tasks \in Seq(S),
         Distinct(tasks),
         "merge" \in kindsOf(tasks) => c \notin guards.merging,
         "settle" \in kindsOf(tasks) => c \notin guards.settling,
         "withdraw" \in kindsOf(tasks) => ~guards.withdrawing,
         queue' = [queue EXCEPT ![c] = @ \o tasks],
         Takes(c, kindsOf(tasks))
  PROVE  GuardsMatchTasks'
<1>1. /\ \A d \in Clients \ {c} : queue'[d] = queue[d]
      /\ queue'[c] = queue[c] \o tasks
  OBVIOUS
<1>2. kindsOf(queue'[c]) = kindsOf(queue[c]) \cup kindsOf(tasks)
  BY <1>1, KindsOfConcat
<1>3. \A d \in Clients \ {c} : kindsOf(queue'[d]) = kindsOf(queue[d])
  BY <1>1
<1>4. /\ guards'.merging = guards.merging \cup (IF "merge" \in kindsOf(tasks) THEN {c} ELSE {})
      /\ guards'.settling = guards.settling \cup (IF "settle" \in kindsOf(tasks) THEN {c} ELSE {})
      /\ guards'.withdrawing <=> guards.withdrawing \/ "withdraw" \in kindsOf(tasks)
  BY DEF Takes
<1>5. guards'.merging = {d \in Clients : "merge" \in kindsOf(queue'[d])}
  BY <1>2, <1>3, <1>4 DEF GuardsMatchTasks
<1>6. guards'.settling = {d \in Clients : "settle" \in kindsOf(queue'[d])}
  BY <1>2, <1>3, <1>4 DEF GuardsMatchTasks
<1>7. guards'.withdrawing <=> \E d \in Clients : "withdraw" \in kindsOf(queue'[d])
  BY <1>2, <1>3, <1>4 DEF GuardsMatchTasks
<1>8. ASSUME NEW g \in Clients, NEW kind \in kindsOf(tasks), kind \in kindsOf(queue[g]),
             kind = "withdraw" \/ (g = c /\ kind \in {"merge", "settle"})
      PROVE  FALSE
  <2>1. CASE kind = "withdraw"
    <3>1. guards.withdrawing
      BY <1>8, <2>1 DEF GuardsMatchTasks
    <3> QED
      BY <1>8, <2>1, <3>1
  <2>2. CASE g = c /\ kind = "merge"
    <3>1. c \in guards.merging
      BY <1>8, <2>2 DEF GuardsMatchTasks
    <3> QED
      BY <1>8, <2>2, <3>1
  <2>3. CASE g = c /\ kind = "settle"
    <3>1. c \in guards.settling
      BY <1>8, <2>3 DEF GuardsMatchTasks
    <3> QED
      BY <1>8, <2>3, <3>1
  <2> QED
    BY <1>8, <2>1, <2>2, <2>3
<1>9. ASSUME NEW d \in Clients, NEW e \in Clients,
             NEW i \in DOMAIN queue'[d], NEW j \in DOMAIN queue'[e],
             queue'[d][i].kind = queue'[e][j].kind,
             \/ queue'[d][i].kind = "withdraw"
             \/ d = e /\ queue'[d][i].kind \in {"merge", "settle"}
      PROVE  d = e /\ i = j
  <2> DEFINE old(f, k) == k \in DOMAIN queue[f] /\ queue'[f][k] = queue[f][k]
             new(f, k) == /\ f = c /\ k - Len(queue[c]) \in DOMAIN tasks
                          /\ queue'[f][k] = tasks[k - Len(queue[c])]
  <2>1. /\ queue[c] \in Seq(S)
        /\ Len(queue[c]) \in Nat /\ DOMAIN queue[c] = 1 .. Len(queue[c])
        /\ Len(tasks) \in Nat /\ DOMAIN tasks = 1 .. Len(tasks)
    BY LenProperties
  <2>2. /\ queue'[c] \in Seq(S) /\ DOMAIN queue'[c] = 1 .. Len(queue[c]) + Len(tasks)
        /\ \A k \in DOMAIN queue'[c] :
             queue'[c][k] = IF k <= Len(queue[c]) THEN queue[c][k] ELSE tasks[k - Len(queue[c])]
    BY <1>1, <2>1, ConcatProperties, LenProperties
  <2>3. \A f \in Clients : \A k \in DOMAIN queue'[f] : old(f, k) \/ new(f, k)
    <3> SUFFICES ASSUME NEW f \in Clients, NEW k \in DOMAIN queue'[f]
                 PROVE  old(f, k) \/ new(f, k)
      OBVIOUS
    <3>1. CASE f # c
      BY <1>1, <3>1
    <3>2. CASE f = c
      BY <2>1, <2>2, <3>2
    <3> QED
      BY <3>1, <3>2
  <2>4. \A f \in Clients : \A k : new(f, k) => queue'[f][k].kind \in kindsOf(tasks)
    BY DEF kindsOf
  <2>5. \A f \in Clients : \A k : old(f, k) => queue'[f][k].kind \in kindsOf(queue[f])
    BY DEF kindsOf
  <2>6. CASE old(d, i) /\ old(e, j)
    BY <1>9, <2>6 DEF GuardsMatchTasks
  <2>7. CASE new(d, i) /\ new(e, j)
    <3>1. i - Len(queue[c]) = j - Len(queue[c])
      BY <1>9, <2>7 DEF Distinct
    <3>2. i \in Int /\ j \in Int
      BY <2>1, <2>2, <2>7
    <3> QED
      BY <2>1, <2>7, <3>1, <3>2
  <2>8. ASSUME NEW f \in Clients, NEW g \in Clients, NEW k, NEW m, new(f, k), old(g, m),
               queue'[f][k].kind = queue'[g][m].kind,
               \/ queue'[f][k].kind = "withdraw"
               \/ f = g /\ queue'[f][k].kind \in {"merge", "settle"}
        PROVE  FALSE
    <3> DEFINE kind == queue'[f][k].kind
    <3>1. f = c /\ kind \in kindsOf(tasks) /\ kind \in kindsOf(queue[g])
      BY <2>4, <2>5, <2>8
    <3>2. kind = "withdraw" \/ (g = c /\ kind \in {"merge", "settle"})
      BY <2>8, <3>1
    <3> HIDE DEF kind
    <3> QED
      BY <1>8, <3>1, <3>2
  <2> HIDE DEF old, new
  <2>9. CASE new(d, i) /\ old(e, j)
    BY <1>9, <2>8, <2>9
  <2>10. CASE old(d, i) /\ new(e, j)
    BY <1>9, <2>8, <2>10
  <2> QED
    BY <2>3, <2>6, <2>7, <2>9, <2>10
<1> QED
  BY SMTT(60), <1>5, <1>6, <1>7, <1>9 DEF GuardsMatchTasks

\* An entry that settles leaves its lane and its guard together.
LEMMA TailKeepsGuards ==
  ASSUME GuardsMatchTasks, NEW S, queue \in [Clients -> Seq(S)],
         NEW c \in Clients, queue[c] # <<>>, settles(c)
  PROVE  GuardsMatchTasks'
<1> DEFINE kind == Head(queue[c]).kind
<1>1. /\ queue' = [queue EXCEPT ![c] = Tail(@)]
      /\ guards' = released(c, kind)
  BY DEF settles, running
<1>2. /\ \A d \in Clients \ {c} : queue'[d] = queue[d]
      /\ queue'[c] = Tail(queue[c])
  BY <1>1
<1>3. /\ queue[c] \in Seq(S)
      /\ Len(queue[c]) \in Nat \ {0} /\ DOMAIN queue[c] = 1 .. Len(queue[c])
      /\ Len(Tail(queue[c])) = Len(queue[c]) - 1 /\ Tail(queue[c]) \in Seq(S)
      /\ \A i \in 1 .. Len(Tail(queue[c])) : Tail(queue[c])[i] = queue[c][i + 1]
  BY LenProperties, EmptySeq, HeadTailProperties
<1>4. /\ DOMAIN queue'[c] = 1 .. Len(queue[c]) - 1
      /\ \A i \in DOMAIN queue'[c] : i + 1 \in DOMAIN queue[c] /\ queue'[c][i] = queue[c][i + 1]
      /\ 1 \in DOMAIN queue[c] /\ kind = queue[c][1].kind
  BY <1>2, <1>3, LenProperties
<1>5. kindsOf(queue[c]) = {kind} \cup kindsOf(queue'[c])
  BY <1>2, <1>3, KindsOfTail
<1>6. \A d \in Clients \ {c} : kindsOf(queue'[d]) = kindsOf(queue[d])
  BY <1>2
<1>7. kind \in {"merge", "settle", "withdraw"} => kind \notin kindsOf(queue'[c])
  <2> SUFFICES ASSUME kind \in {"merge", "settle", "withdraw"},
                      NEW i \in DOMAIN queue'[c], queue'[c][i].kind = kind
               PROVE  FALSE
    BY DEF kindsOf
  <2>1. i + 1 \in DOMAIN queue[c] /\ queue[c][i + 1].kind = queue[c][1].kind /\ i \in 1 .. Len(queue[c]) - 1
    BY <1>4
  <2>2. i + 1 = 1
    BY <1>4, <2>1 DEF GuardsMatchTasks
  <2> QED
    BY <1>3, <2>1, <2>2
<1>8. kind = "withdraw" => \A d \in Clients \ {c} : "withdraw" \notin kindsOf(queue[d])
  <2> SUFFICES ASSUME kind = "withdraw", NEW d \in Clients \ {c},
                      NEW i \in DOMAIN queue[d], queue[d][i].kind = "withdraw"
               PROVE  FALSE
    BY DEF kindsOf
  <2> QED
    BY <1>4 DEF GuardsMatchTasks
<1> HIDE DEF kind
<1>9. /\ guards'.merging = guards.merging \ (IF kind = "merge" THEN {c} ELSE {})
      /\ guards'.settling = guards.settling \ (IF kind = "settle" THEN {c} ELSE {})
      /\ guards'.withdrawing <=> guards.withdrawing /\ kind # "withdraw"
  BY <1>1 DEF released
<1>10. guards'.merging = {d \in Clients : "merge" \in kindsOf(queue'[d])}
  BY <1>5, <1>6, <1>7, <1>9 DEF GuardsMatchTasks
<1>11. guards'.settling = {d \in Clients : "settle" \in kindsOf(queue'[d])}
  BY <1>5, <1>6, <1>7, <1>9 DEF GuardsMatchTasks
<1>12. guards'.withdrawing <=> \E d \in Clients : "withdraw" \in kindsOf(queue'[d])
  BY <1>5, <1>6, <1>7, <1>8, <1>9 DEF GuardsMatchTasks
<1>13. ASSUME NEW d \in Clients, NEW e \in Clients,
              NEW i \in DOMAIN queue'[d], NEW j \in DOMAIN queue'[e],
              queue'[d][i].kind = queue'[e][j].kind,
              \/ queue'[d][i].kind = "withdraw"
              \/ d = e /\ queue'[d][i].kind \in {"merge", "settle"}
       PROVE  d = e /\ i = j
  <2> DEFINE was(f, k) == IF f = c THEN k + 1 ELSE k
  <2>1. \A f \in Clients : \A k \in DOMAIN queue'[f] :
          was(f, k) \in DOMAIN queue[f] /\ queue'[f][k] = queue[f][was(f, k)]
    BY <1>2, <1>4
  <2>2. d = e /\ was(d, i) = was(e, j)
    <3> HIDE DEF was
    <3> QED
      BY <1>13, <2>1 DEF GuardsMatchTasks
  <2>3. CASE d = c
    <3>1. i \in Int /\ j \in Int
      BY <1>3, <1>4, <2>2, <2>3
    <3> QED
      BY <2>2, <2>3, <3>1
  <2>4. CASE d # c
    BY <2>2, <2>4
  <2> QED
    BY <2>3, <2>4
<1> QED
  BY <1>10, <1>11, <1>12, <1>13 DEF GuardsMatchTasks
-----------------------------------------------------------------------------
(* What a pass adds *)

LEMMA DistinctConcat ==
  ASSUME NEW S, NEW s \in Seq(S), NEW t \in Seq(S), Distinct(s), Distinct(t),
         kindsOf(s) \cap kindsOf(t) = {}
  PROVE  Distinct(s \o t)
<1>1. /\ Len(s) \in Nat /\ DOMAIN s = 1 .. Len(s)
      /\ Len(t) \in Nat /\ DOMAIN t = 1 .. Len(t)
  BY LenProperties
<1>2. /\ s \o t \in Seq(S)
      /\ Len(s \o t) = Len(s) + Len(t)
      /\ \A i \in 1 .. Len(s) + Len(t) :
           (s \o t)[i] = IF i <= Len(s) THEN s[i] ELSE t[i - Len(s)]
  BY ConcatProperties
<1>3. DOMAIN (s \o t) = 1 .. Len(s) + Len(t)
  BY <1>2, LenProperties
<1> SUFFICES ASSUME NEW i \in DOMAIN (s \o t), NEW j \in DOMAIN (s \o t),
                    (s \o t)[i].kind = (s \o t)[j].kind
             PROVE  i = j
  BY DEF Distinct
<1>4. CASE i <= Len(s) /\ j <= Len(s)
  BY <1>1, <1>2, <1>3, <1>4 DEF Distinct
<1>5. CASE ~(i <= Len(s)) /\ ~(j <= Len(s))
  <2>1. i - Len(s) \in DOMAIN t /\ j - Len(s) \in DOMAIN t
    BY <1>1, <1>3, <1>5
  <2>2. i - Len(s) = j - Len(s)
    BY <1>2, <1>3, <1>5, <2>1 DEF Distinct
  <2> QED
    BY <1>1, <1>3, <2>2
<1>6. CASE i <= Len(s) /\ ~(j <= Len(s))
  <2>1. i \in DOMAIN s /\ j - Len(s) \in DOMAIN t
    BY <1>1, <1>3, <1>6
  <2>2. (s \o t)[i] = s[i] /\ (s \o t)[j] = t[j - Len(s)]
    BY <1>2, <1>3, <1>6
  <2>3. s[i].kind \in kindsOf(s) /\ t[j - Len(s)].kind \in kindsOf(t)
    BY <2>1 DEF kindsOf
  <2> QED
    BY <2>2, <2>3
<1>7. CASE ~(i <= Len(s)) /\ j <= Len(s)
  <2>1. j \in DOMAIN s /\ i - Len(s) \in DOMAIN t
    BY <1>1, <1>3, <1>7
  <2>2. (s \o t)[j] = s[j] /\ (s \o t)[i] = t[i - Len(s)]
    BY <1>2, <1>3, <1>7
  <2>3. s[j].kind \in kindsOf(s) /\ t[i - Len(s)].kind \in kindsOf(t)
    BY <2>1 DEF kindsOf
  <2> QED
    BY <2>2, <2>3
<1> QED
  BY <1>4, <1>5, <1>6, <1>7

\* One task, or none.
LEMMA OneTask ==
  ASSUME NEW kind, NEW amount, NEW S, [kind |-> kind, amount |-> amount] \in S
  PROVE  /\ task(kind, amount) \in Seq(S) /\ task(kind, amount) # <<>>
         /\ kindsOf(task(kind, amount)) = {kind} /\ Distinct(task(kind, amount))
         /\ <<>> \in Seq(S) /\ kindsOf(<<>>) = {} /\ Distinct(<<>>)
  BY DEF task, kindsOf, Distinct

\* A pass adds tasks of different kinds, none of a kind whose guard is held.
LEMMA EnqueuedTasks ==
  ASSUME NEW c, NEW seen
  PROVE  \E S : /\ enqueued(c, seen) \in Seq(S) /\ Distinct(enqueued(c, seen))
                /\ "merge" \in kindsOf(enqueued(c, seen)) => c \notin guards.merging
                /\ "settle" \in kindsOf(enqueued(c, seen)) => c \notin guards.settling
                /\ "withdraw" \in kindsOf(enqueued(c, seen)) => ~guards.withdrawing
<1> DEFINE merge == shouldAutoMergeDeposits(seen, c \in guards.merging)
           settle == shouldAutoSettle(seen, c \in guards.settling)
           withdraw == shouldAutoWithdraw(seen, guards.withdrawing)
           x == IF merge THEN task("merge", 0) ELSE <<>>
           y == IF settle THEN task("settle", 0) ELSE <<>>
           z == IF withdraw THEN task("withdraw", seen.hook) ELSE <<>>
           S == [kind : Management, amount : {0, seen.hook}]
<1>1. /\ merge => c \notin guards.merging
      /\ settle => c \notin guards.settling
      /\ withdraw => ~guards.withdrawing
  BY DEF shouldAutoMergeDeposits, shouldAutoSettle, shouldAutoWithdraw
<1> HIDE DEF merge, settle, withdraw
<1>3. /\ [kind |-> "merge", amount |-> 0] \in S /\ [kind |-> "settle", amount |-> 0] \in S
      /\ [kind |-> "withdraw", amount |-> seen.hook] \in S
  BY DEF Management
<1> HIDE DEF S
<1>4. x \in Seq(S) /\ Distinct(x) /\ kindsOf(x) = IF merge THEN {"merge"} ELSE {}
  BY <1>3, OneTask
<1>5. y \in Seq(S) /\ Distinct(y) /\ kindsOf(y) = IF settle THEN {"settle"} ELSE {}
  BY <1>3, OneTask
<1>6. z \in Seq(S) /\ Distinct(z) /\ kindsOf(z) = IF withdraw THEN {"withdraw"} ELSE {}
  BY <1>3, OneTask
<1> DEFINE w == x \o y
<1>2. enqueued(c, seen) = w \o z
  BY DEF enqueued, merge, settle, withdraw
<1> HIDE DEF x, y, z
<1>7. w \in Seq(S) /\ Distinct(w) /\ kindsOf(w) = kindsOf(x) \cup kindsOf(y)
  <2>1. kindsOf(x) \cap kindsOf(y) = {}
    BY <1>4, <1>5
  <2> QED
    BY <1>4, <1>5, <2>1, KindsOfConcat, DistinctConcat, ConcatProperties
<1> HIDE DEF w
<1>8. w \o z \in Seq(S) /\ Distinct(w \o z) /\ kindsOf(w \o z) = kindsOf(w) \cup kindsOf(z)
  <2>1. kindsOf(w) \cap kindsOf(z) = {}
    BY <1>4, <1>5, <1>6, <1>7
  <2> QED
    BY <1>6, <1>7, <2>1, KindsOfConcat, DistinctConcat, ConcatProperties
<1>9. /\ "merge" \in kindsOf(enqueued(c, seen)) => merge
      /\ "settle" \in kindsOf(enqueued(c, seen)) => settle
      /\ "withdraw" \in kindsOf(enqueued(c, seen)) => withdraw
  BY <1>2, <1>4, <1>5, <1>6, <1>7, <1>8
<1> QED
  BY <1>1, <1>2, <1>8, <1>9
-----------------------------------------------------------------------------
(* The steps, by what they change *)

LEMMA OrderIsASequence == Order \in Seq(Clients)
<1> DEFINE n == Cardinality(Clients)
<1>1. n \in Nat /\ ExistsBijection(1 .. n, Clients)
  BY UpkeepParameters, FS_CardinalityType
<1>2. PICK s \in Bijection(1 .. n, Clients) : TRUE
  BY <1>1 DEF ExistsBijection
<1> HIDE DEF n
<1>3. s \in [1 .. n -> Clients] /\ \A i, j \in DOMAIN s : s[i] = s[j] => i = j
  BY <1>2 DEF Bijection, Injection, IsInjective
<1>4. Order \in [1 .. n -> Clients]
  BY <1>3 DEF Order, n
<1> QED
  BY <1>1, <1>4

LEMMA EmptyLanes ==
  ASSUME NEW lanes, lanes = [c \in Clients |-> <<>>]
  PROVE  /\ lanes \in [Clients -> Seq({})]
         /\ \A c \in Clients : lanes[c] = <<>> /\ DOMAIN lanes[c] = {} /\ kindsOf(lanes[c]) = {}
  BY DEF kindsOf

LEMMA IdlePass == PassOK(idle)
<1>1. idle.left = <<>> /\ idle.seen = None /\ idle = [left |-> idle.left, seen |-> idle.seen]
  BY DEF idle
<1> QED
  BY <1>1, EmptySeq DEF PassOK

LEMMA InitInv == Init => Inv
<1> SUFFICES ASSUME Init PROVE Inv
  OBVIOUS
<1>1. /\ queue = [c \in Clients |-> <<>>] /\ flight = [c \in Clients |-> None]
      /\ guards = noGuards /\ passes = [p \in 1 .. Passes |-> idle]
  BY DEF Init, UpkeepInit
<1>2. QueuesOK
  BY <1>1, EmptyLanes DEF QueuesOK
<1>3. FlightOK
  BY <1>1 DEF FlightOK
<1>4. PassesOK
  BY <1>1, IdlePass DEF PassesOK
<1>5. GuardsMatchTasks
  BY <1>1, EmptyLanes DEF GuardsMatchTasks, noGuards
<1> QED
  BY <1>2, <1>3, <1>4, <1>5 DEF Inv, Shapes

\* A process that ends leaves an empty memory.
LEMMA ForgetKeeps ==
  ASSUME Forget PROVE Inv'
<1>1. /\ queue' = [c \in Clients |-> <<>>] /\ flight' = [c \in Clients |-> None]
      /\ guards' = noGuards /\ passes' = [p \in 1 .. Passes |-> idle]
  BY DEF Forget
<1>2. QueuesOK'
  BY <1>1, EmptyLanes DEF QueuesOK
<1>3. FlightOK'
  BY <1>1 DEF FlightOK
<1>4. PassesOK'
  BY <1>1, IdlePass DEF PassesOK
<1>5. GuardsMatchTasks'
  BY <1>1, EmptyLanes DEF GuardsMatchTasks, noGuards
<1> QED
  BY <1>2, <1>3, <1>4, <1>5 DEF Inv, Shapes

\* Steps that leave the lanes' entries and guards alone.
LEMMA QueuesUnchanged ==
  ASSUME Inv, UNCHANGED <<queue, guards>> PROVE QueuesOK' /\ GuardsMatchTasks'
  BY DEF Inv, Shapes, QueuesOK, GuardsMatchTasks

LEMMA FlightUnchanged ==
  ASSUME Inv, UNCHANGED <<queue, flight>> PROVE FlightOK'
  BY DEF Inv, Shapes, FlightOK

LEMMA PassesUnchanged ==
  ASSUME Inv, UNCHANGED passes PROVE PassesOK'
  BY DEF Inv, Shapes, PassesOK, PassOK

LEMMA OthersKeep ==
  ASSUME Inv, UNCHANGED <<laneVars, passes>> PROVE Inv'
  BY QueuesUnchanged, FlightUnchanged, PassesUnchanged DEF Inv, Shapes, laneVars

\* What becomes of a transaction does not change which lanes wait.
LEMMA FlightsKeep ==
  ASSUME Inv, UNCHANGED <<queue, guards, passes>>,
         flight' = [c \in Clients |-> flight'[c]],
         \A c \in Clients : flight'[c] # None => flight[c] # None \/ queue[c] # <<>>
  PROVE  Inv'
<1>1. FlightOK'
  BY DEF Inv, Shapes, FlightOK
<1> QED
  BY <1>1, QueuesUnchanged, PassesUnchanged DEF Inv, Shapes

\* One pass moves.
LEMMA PassKeeps ==
  ASSUME Inv, UNCHANGED laneVars, NEW p, NEW pass, passes' = [passes EXCEPT ![p] = pass],
         p \in 1 .. Passes => PassOK(pass)
  PROVE  Inv'
<1>1. PassesOK'
  <2>1. passes' = [q \in 1 .. Passes |-> IF q = p THEN pass ELSE passes[q]]
    BY DEF Inv, Shapes, PassesOK
  <2>2. \A q \in 1 .. Passes : PassOK(passes'[q])
    BY <2>1 DEF Inv, Shapes, PassesOK
  <2> QED
    BY <2>1, <2>2 DEF PassesOK
<1> QED
  BY <1>1, QueuesUnchanged, FlightUnchanged DEF Inv, Shapes, laneVars
\* Entries of different kinds join a lane and take their guards.
LEMMA AppendKeeps ==
  ASSUME Inv, NEW c \in Clients, NEW T, NEW tasks \in Seq(T), Distinct(tasks),
         "merge" \in kindsOf(tasks) => c \notin guards.merging,
         "settle" \in kindsOf(tasks) => c \notin guards.settling,
         "withdraw" \in kindsOf(tasks) => ~guards.withdrawing,
         queue' = [queue EXCEPT ![c] = @ \o tasks],
         Takes(c, kindsOf(tasks)), UNCHANGED flight
  PROVE  QueuesOK' /\ FlightOK' /\ GuardsMatchTasks'
<1>1. PICK U : queue \in [Clients -> Seq(U)]
  BY DEF Inv, Shapes, QueuesOK
<1> DEFINE S == U \cup T
<1>2. tasks \in Seq(S)
  BY SeqMonotonic
<1>3. queue \in [Clients -> Seq(S)]
  <2>1. \A d \in Clients : queue[d] \in Seq(S)
    BY <1>1, SeqMonotonic
  <2> QED
    BY <1>1, <2>1
<1> HIDE DEF S
<1>4. /\ queue[c] \o tasks \in Seq(S)
      /\ queue[c] # <<>> => queue[c] \o tasks # <<>>
  BY <1>2, <1>3, ConcatProperties, ConcatEqualIffEmpty
<1>5. QueuesOK'
  <2>1. queue' \in [Clients -> Seq(S)]
    BY <1>3, <1>4
  <2> QED
    BY <2>1 DEF QueuesOK
<1>6. FlightOK'
  <2>1. \A d \in Clients : queue[d] # <<>> => queue'[d] # <<>>
    BY <1>3, <1>4
  <2> QED
    BY <2>1 DEF Inv, Shapes, FlightOK
<1>7. GuardsMatchTasks'
  BY <1>2, <1>3, AppendKeepsGuards DEF Inv
<1> QED
  BY <1>5, <1>6, <1>7

LEMMA RequestKeeps ==
  ASSUME Inv, NEW c \in Clients, NEW n, Request(c, n) PROVE Inv'
<1> DEFINE tasks == task("update", n)
           T == {[kind |-> "update", amount |-> n]}
<1>1. tasks \in Seq(T) /\ kindsOf(tasks) = {"update"} /\ Distinct(tasks)
  BY OneTask
<1>2. queue' = [queue EXCEPT ![c] = @ \o tasks] /\ UNCHANGED <<flight, guards, passes>>
  BY DEF Request
<1> HIDE DEF tasks, T
<1>3. Takes(c, kindsOf(tasks))
  BY <1>1, <1>2 DEF Takes
<1> QED
  BY <1>1, <1>2, <1>3, AppendKeeps, PassesUnchanged DEF Inv, Shapes

LEMMA DecideKeeps ==
  ASSUME Inv, NEW p \in 1 .. Passes, Decide(p) PROVE Inv'
<1> DEFINE c == Head(passes[p].left)
           tasks == enqueued(c, passes[p].seen)
           pass == [left |-> Tail(passes[p].left), seen |-> None]
<1>1. /\ queue' = [queue EXCEPT ![c] = @ \o tasks]
      /\ guards' = held(c, kindsOf(tasks))
      /\ passes' = [passes EXCEPT ![p] = pass]
      /\ UNCHANGED flight
  BY DEF Decide, moveOn
<1>2. passes[p].left \in Seq(Clients) /\ passes[p].left # <<>>
  BY DEF Inv, Shapes, PassesOK, PassOK, Decide
<1>3. c \in Clients /\ Tail(passes[p].left) \in Seq(Clients)
  BY <1>2, HeadTailProperties
<1>4. PICK T : /\ tasks \in Seq(T) /\ Distinct(tasks)
               /\ "merge" \in kindsOf(tasks) => c \notin guards.merging
               /\ "settle" \in kindsOf(tasks) => c \notin guards.settling
               /\ "withdraw" \in kindsOf(tasks) => ~guards.withdrawing
  BY EnqueuedTasks
<1>5. PassOK(pass)
  BY <1>3 DEF PassOK
<1> HIDE DEF c, tasks, pass
<1>6. Takes(c, kindsOf(tasks))
  BY <1>1 DEF Takes, held
<1>7. QueuesOK' /\ FlightOK' /\ GuardsMatchTasks'
  BY <1>1, <1>3, <1>4, <1>6, AppendKeeps
<1>8. PassesOK'
  <2>1. passes' = [q \in 1 .. Passes |-> IF q = p THEN pass ELSE passes[q]]
    BY <1>1 DEF Inv, Shapes, PassesOK
  <2>2. \A q \in 1 .. Passes : PassOK(passes'[q])
    BY <1>5, <2>1 DEF Inv, Shapes, PassesOK
  <2> QED
    BY <2>1, <2>2 DEF PassesOK
<1> QED
  BY <1>7, <1>8 DEF Inv, Shapes

LEMMA SettlesKeeps ==
  ASSUME Inv, NEW c \in Clients, queue[c] # <<>>, settles(c), UNCHANGED passes PROVE Inv'
<1>1. PICK S : queue \in [Clients -> Seq(S)]
  BY DEF Inv, Shapes, QueuesOK
<1>2. /\ queue' = [queue EXCEPT ![c] = Tail(@)]
      /\ flight' = [flight EXCEPT ![c] = None]
  BY DEF settles
<1>3. QueuesOK'
  <2>1. Tail(queue[c]) \in Seq(S)
    BY <1>1, HeadTailProperties
  <2>2. queue' \in [Clients -> Seq(S)]
    BY <1>1, <1>2, <2>1
  <2> QED
    BY <2>2 DEF QueuesOK
<1>4. FlightOK'
  <2>1. flight' = [d \in Clients |-> IF d = c THEN None ELSE flight[d]]
    BY <1>2 DEF Inv, Shapes, FlightOK
  <2>2. \A d \in Clients \ {c} : queue'[d] = queue[d]
    BY <1>1, <1>2
  <2>3. \A d \in Clients : flight'[d] # None => queue'[d] # <<>>
    BY <2>1, <2>2 DEF Inv, Shapes, FlightOK
  <2> QED
    BY <2>1, <2>3 DEF FlightOK
<1>5. GuardsMatchTasks'
  BY <1>1, TailKeepsGuards DEF Inv
<1> QED
  BY <1>3, <1>4, <1>5, PassesUnchanged DEF Inv, Shapes
-----------------------------------------------------------------------------
(* The daemon's actions *)

LEMMA FlightStepKeeps ==
  ASSUME Inv, NEW c \in Clients, Build(c) \/ Land(c) PROVE Inv'
<1>1. flight = [d \in Clients |-> flight[d]]
  BY DEF Inv, Shapes, FlightOK
<1>2. CASE Build(c)
  <2>1. PICK next : flight' = [flight EXCEPT ![c] = next]
    BY <1>2 DEF Build
  <2>2. flight' = [d \in Clients |-> IF d = c THEN next ELSE flight[d]]
    BY <1>1, <2>1
  <2>3. queue[c] # <<>> /\ UNCHANGED <<queue, guards, passes>>
    BY <1>2 DEF Build
  <2> QED
    BY <2>2, <2>3, FlightsKeep
<1>3. CASE Land(c)
  <2>1. /\ flight[c] # None /\ UNCHANGED <<queue, guards, passes>>
        /\ flight' = [fates(flight[c].tx, waiting \ {c}) EXCEPT ![c] = [flight[c] EXCEPT !.fate = "landed"]]
    BY <1>3 DEF Land
  <2>2. \A d \in Clients : flight[d] = None => fates(flight[c].tx, waiting \ {c})[d] = None
    BY DEF fates, waiting
  <2>3. fates(flight[c].tx, waiting \ {c}) =
          [d \in Clients |-> fates(flight[c].tx, waiting \ {c})[d]]
    BY DEF fates
  <2>4. flight' = [d \in Clients |-> flight'[d]]
    BY <2>1, <2>3
  <2>5. \A d \in Clients : flight'[d] # None => flight[d] # None
    BY <2>1, <2>2, <2>3
  <2> QED
    BY <2>1, <2>4, <2>5, FlightsKeep
<1> QED
  BY <1>2, <1>3

LEMMA LandAdriftKeeps ==
  ASSUME Inv, LandAdrift PROVE Inv'
<1>1. PICK tx : flight' = fates(tx, waiting) /\ UNCHANGED <<queue, guards, passes>>
  BY DEF LandAdrift
<1>2. flight' = [c \in Clients |-> flight'[c]]
  BY <1>1 DEF fates
<1>3. \A c \in Clients : flight'[c] # None => flight[c] # None
  BY <1>1 DEF fates, waiting
<1> QED
  BY <1>1, <1>2, <1>3, FlightsKeep

LEMMA SettlingStepKeeps ==
  ASSUME Inv, NEW c \in Clients,
         Refuse(c) \/ Trap(c) \/ Confirm(c) \/ Outrun(c) \/ Fail(c) \/ LoseAnswer(c)
  PROVE  Inv'
<1>1. settles(c) /\ UNCHANGED passes
  BY DEF Refuse, Trap, Confirm, Outrun, Fail, LoseAnswer
<1>2. queue[c] # <<>>
  BY DEF Refuse, Trap, Confirm, Outrun, Fail, LoseAnswer, Inv, Shapes, FlightOK
<1> QED
  BY <1>1, <1>2, SettlesKeeps

LEMMA PassStepKeeps ==
  ASSUME Inv, NEW p \in 1 .. Passes, Tick(p) \/ Read(p) \/ ReadFails(p) \/ Decide(p)
  PROVE  Inv'
<1>1. PassOK(passes[p]) /\ passes = [q \in 1 .. Passes |-> passes[q]]
  BY DEF Inv, Shapes, PassesOK
<1>2. CASE Tick(p)
  <2>1. PassOK([left |-> Order, seen |-> None])
    BY OrderIsASequence DEF PassOK
  <2> QED
    BY <1>2, <2>1, PassKeeps DEF Tick
<1>3. CASE Read(p)
  <2> DEFINE seen == snapshotBalances(Head(passes[p].left))
             pass == [left |-> passes[p].left, seen |-> seen]
  <2>1. [passes[p] EXCEPT !.seen = seen] = pass
    BY <1>1 DEF PassOK
  <2>2. passes' = [passes EXCEPT ![p] = pass]
    BY <1>3, <2>1 DEF Read
  <2>3. PassOK(pass)
    BY <1>1, <1>3 DEF PassOK, Read
  <2> HIDE DEF pass
  <2> QED
    BY <1>3, <2>2, <2>3, PassKeeps DEF Read
<1>4. CASE ReadFails(p)
  <2>1. Tail(passes[p].left) \in Seq(Clients)
    BY <1>1, <1>4, HeadTailProperties DEF PassOK, ReadFails
  <2>2. PassOK([left |-> Tail(passes[p].left), seen |-> None])
    BY <2>1 DEF PassOK
  <2> QED
    BY <1>4, <2>2, PassKeeps DEF ReadFails, moveOn
<1>5. CASE Decide(p)
  BY <1>5, DecideKeeps
<1> QED
  BY <1>2, <1>3, <1>4, <1>5

LEMMA RunKeeps ==
  ASSUME Inv, Run PROVE Inv'
<1>1. PassOK([left |-> Order, seen |-> None])
  BY OrderIsASequence DEF PassOK
<1> QED
  BY <1>1, PassKeeps DEF Run

LEMMA NextKeeps == Inv /\ [Next]_vars => Inv'
<1> SUFFICES ASSUME Inv, [Next]_vars PROVE Inv'
  OBVIOUS
<1>1. CASE Boot
  <2>1. CASE Run
    BY <2>1, RunKeeps
  <2>2. CASE Start \/ Refused \/ Serve \/ Throws
    BY <2>2, OthersKeep DEF Start, Refused, Serve, Throws, upkeepVars
  <2> QED
    BY <1>1, <2>1, <2>2 DEF Boot
<1>2. CASE Signal
  BY <1>2, OthersKeep DEF Signal
<1>3. CASE Stop \/ Crash \/ \E c \in Clients : WasmExit(c)
  BY <1>3, ForgetKeeps DEF Stop, Crash, WasmExit
<1>4. CASE \E c \in Clients : Intents(c)
  BY <1>4, RequestKeeps DEF Intents
<1>5. CASE \E c \in Clients : Lane(c)
  BY <1>5, FlightStepKeeps, SettlingStepKeeps DEF Lane
<1>6. CASE \E c \in Clients : Chain(c)
  BY <1>6, FlightStepKeeps DEF Chain
<1>7. CASE \E p \in 1 .. Passes : Pass(p) \/ Timer(p)
  BY <1>7, PassStepKeeps DEF Pass, Timer
<1>8. CASE Meter
  <2>1. UNCHANGED <<laneVars, passes>>
    BY <1>8 DEF Meter, WriteMeter
  <2> QED
    BY <2>1, OthersKeep
<1>9. CASE Faults
  <2>1. CASE \E p \in 1 .. Passes : ReadFails(p)
    BY <2>1, PassStepKeeps
  <2>2. CASE \E c \in Clients : Fail(c) \/ LoseAnswer(c)
    BY <2>2, SettlingStepKeeps
  <2>3. CASE (\E kind \in Management : MeterFails(kind)) \/ Poison
    BY <2>3, OthersKeep DEF MeterFails, Poison
  <2> QED
    BY <1>9, <2>1, <2>2, <2>3 DEF Faults
<1>10. CASE Outside
  <2>1. CASE LandAdrift
    BY <2>1, LandAdriftKeeps
  <2>2. CASE Expire \/ \E c \in Clients : PayIn(c)
    BY <2>2, OthersKeep DEF Expire, PayIn
  <2> QED
    BY <1>10, <2>1, <2>2 DEF Outside
<1>11. CASE UNCHANGED vars
  BY <1>11, OthersKeep DEF vars, upkeepVars
<1> QED
  BY <1>1, <1>2, <1>3, <1>4, <1>5, <1>6, <1>7, <1>8, <1>9, <1>10, <1>11 DEF Next

-----------------------------------------------------------------------------

\* A merge, settle or withdraw guard is held exactly while its task is on a
\* lane, and there is one such task at most, over passes that overlap, lost
\* answers, crashes and restarts, for any clients, thresholds and bounds.
THEOREM GuardsAgree == Spec => []GuardsMatchTasks
<1>1. Init => Inv
  BY InitInv
<1>2. Inv /\ [Next]_vars => Inv'
  BY NextKeeps
<1>3. Inv => GuardsMatchTasks
  BY DEF Inv
<1> QED
  BY <1>1, <1>2, <1>3, PTL DEF Spec
-----------------------------------------------------------------------------
(* One request per lane *)

\* A router that names symbols by eq or in receives intents of these only: the
\* event has no symbol, so a condition on that field lets no intent through.
LEMMA RoutedSymbolIsNamed ==
  ASSUME NEW router, NEW intent, evaluateConditions(router, intent),
         extractRouterSymbols(router) # {}
  PROVE  intent.symbol \in extractRouterSymbols(router)
<1>1. PICK n \in DOMAIN router.conditions :
        /\ router.conditions[n].field \in SymbolFields
        /\ router.conditions[n].operator \in {"eq", "in"}
  BY DEF extractRouterSymbols, Range
<1> DEFINE d == router.conditions[n]
<1>2. evaluateCondition(d, resolveField(d.field, intent))
  BY DEF evaluateConditions, holds
<1>3. resolveField(d.field, intent) \cap d.value # {}
  BY <1>1, <1>2 DEF evaluateCondition
<1>4. resolveField(d.field, intent) = {intent.symbol} \/ resolveField(d.field, intent) = {}
  BY <1>1 DEF resolveField, SymbolFields, PriceFields
<1>5. intent.symbol \in d.value
  BY <1>3, <1>4
<1> QED
  BY <1>1, <1>5 DEF extractRouterSymbols, Range

\* The loader refuses a second router of one key.
LEMMA KeyNamesRouter ==
  ASSUME NEW c, loadModularConfig(c), NEW r \in routersOf(c), NEW q \in routersOf(c), r.key = q.key
  PROVE  r = q
<1>1. PICK at \in listed(c.files) : r = c.files[at[1]][at[2]]
  BY DEF routersOf, loadRouterDirectory
<1>2. PICK to \in listed(c.files) : q = c.files[to[1]][to[2]]
  BY DEF routersOf, loadRouterDirectory
<1>3. ~duplicates(c.files)
  BY SMTT(60) DEF loadModularConfig
<1>4. at = to
  BY <1>1, <1>2, <1>3 DEF duplicates
<1> QED
  BY <1>1, <1>2, <1>4

\* What the validation of routers buys: two destinations on one lane that are
\* handed one intent are one destination.
LEMMA AcceptedRoutesOnce ==
  ASSUME NEW c, loadModularConfig(c), validateModularConfig(c)
  PROVE  oneRequestPerLane(c)
<1> SUFFICES ASSUME NEW intent, NEW rd \in routeIntent(c, intent), NEW to \in routeIntent(c, intent),
                    laneKey(rd[1].destinations[rd[2]]) = laneKey(to[1].destinations[to[2]]),
                    extractRouterSymbols(rd[1]) # {}, extractRouterSymbols(to[1]) # {}
             PROVE  rd = to
  BY DEF oneRequestPerLane
<1> DEFINE routed(pair, r, i) == /\ pair = <<r, i>> /\ r \in forEvent(c)
                                 /\ evaluateConditions(r, intent) /\ i \in DOMAIN r.destinations
<1>1. PICK r, i : routed(rd, r, i)
  BY DEF routeIntent
<1>2. PICK q, j : routed(to, q, j)
  BY DEF routeIntent
<1>3. /\ r \in routersOf(c) /\ r.enabled /\ i \in DOMAIN r.destinations
      /\ q \in routersOf(c) /\ q.enabled /\ j \in DOMAIN q.destinations
  BY <1>1, <1>2 DEF forEvent
<1>4. intent.symbol \in extractRouterSymbols(r) \cap extractRouterSymbols(q)
  BY <1>1, <1>2, RoutedSymbolIsNamed
<1>5. laneKey(r.destinations[i]) = laneKey(q.destinations[j])
  BY <1>1, <1>2
<1>6. validateSharedLaneSymbolCollisions(routersOf(c))
  BY DEF validateModularConfig, validateRoutersMap
<1>7. <<r.key, i>> = <<q.key, j>>
  BY <1>3, <1>4, <1>5, <1>6 DEF validateSharedLaneSymbolCollisions
<1>8. r = q /\ i = j
  BY <1>3, <1>7, KeyNamesRouter
<1> QED
  BY <1>1, <1>2, <1>8

\* A process that got past its configuration had it accepted.
Accepted(c) == loadModularConfig(c) /\ validateModularConfig(c)

RunsAccepted ==
  life \in {"serving", "running", "stopping"} => Accepted(Configs[setup.config])

LEMMA ConfigStays ==
  ASSUME [Next]_vars
  PROVE  setup' = setup
<1>1. CASE Boot
  BY <1>1 DEF Boot, Start, Refused, Serve, Throws, Run
<1>2. CASE Signal \/ Stop \/ Crash \/ \E c \in Clients : WasmExit(c)
  BY <1>2 DEF Signal, Stop, Crash, WasmExit
<1>3. CASE ~(Boot \/ Signal \/ Stop \/ Crash \/ \E c \in Clients : WasmExit(c))
  BY <1>3 DEF Next, Intents, Lane, Chain, Pass, Timer, Meter, Faults, Outside, processUnchanged, vars
<1> QED
  BY <1>1, <1>2, <1>3

LEMMA RunsAcceptedKeeps ==
  ASSUME RunsAccepted, [Next]_vars
  PROVE  RunsAccepted'
<1>1. setup' = setup
  BY ConfigStays
<1>2. CASE Boot
  <2>1. CASE Serve
    <3>1. life = "loading" /\ accepts
      BY <2>1 DEF Serve
    <3>2. Accepted(Configs[setup.config])
      BY <3>1 DEF accepts, read, acceptable, Accepted
    <3> QED
      BY <1>1, <3>2 DEF RunsAccepted
  <2>2. CASE Run
    <3>1. life = "serving"
      BY <2>2 DEF Run
    <3> QED
      BY <1>1, <3>1 DEF RunsAccepted
  <2>3. CASE Start \/ Refused \/ Throws
    <3>1. life' \in {"loading", "down"}
      BY <2>3 DEF Start, Refused, Throws, exits
    <3> QED
      BY <3>1 DEF RunsAccepted
  <2> QED
    BY <1>2, <2>1, <2>2, <2>3 DEF Boot
<1>3. CASE Signal
  <2>1. life = "running"
    BY <1>3 DEF Signal
  <2> QED
    BY <1>1, <2>1 DEF RunsAccepted
<1>4. CASE Stop \/ Crash \/ \E c \in Clients : WasmExit(c)
  <2>1. life' = "down"
    BY <1>4 DEF Stop, Crash, WasmExit, exits
  <2> QED
    BY <2>1 DEF RunsAccepted
<1>5. CASE ~(Boot \/ Signal \/ Stop \/ Crash \/ \E c \in Clients : WasmExit(c))
  <2>1. life' = life
    BY <1>5 DEF Next, Intents, Lane, Chain, Pass, Timer, Meter, Faults, Outside, processUnchanged, vars
  <2> QED
    BY <1>1, <2>1 DEF RunsAccepted
<1> QED
  BY <1>2, <1>3, <1>4, <1>5

\* A running daemon hands an intent to a lane once, through routers that name
\* their symbols, whatever its configuration says: loading and validation refused
\* the others, and only a restart reads another one.
THEOREM OneSourcePerLane == Spec => []OneRequestPerLane
<1>1. Init => RunsAccepted
  BY DEF Init, RunsAccepted
<1>2. RunsAccepted /\ [Next]_vars => RunsAccepted'
  BY RunsAcceptedKeeps
<1>3. RunsAccepted => OneRequestPerLane
  BY AcceptedRoutesOnce DEF RunsAccepted, Accepted, OneRequestPerLane, read
<1> QED
  BY <1>1, <1>2, <1>3, PTL DEF Spec
-----------------------------------------------------------------------------
(* Types *)

Amounts == [deposit : Int, balance : Int, accrued : Int]
Snapshot == [deposit : Int, balance : Int, accrued : Int, hook : Int]

ChainTypes ==
  /\ purse \in [Clients -> Int] /\ account \in [Clients -> Amounts] /\ hook \in Int
  /\ adrift \subseteq Tx

LaneTypes ==
  queue \in [Clients -> Seq(Task)] /\ flight \in [Clients -> {None} \cup Flight]

PassTypes == \A p \in 1 .. Passes : passes[p].seen \in {None} \cup Snapshot

CountTypes ==
  /\ unwritten \in [Management -> Nat] /\ totals \in [Management -> Nat]
  /\ landed \in [Management -> Nat] /\ faults \in Nat

Types == setup \in Setups /\ ChainTypes /\ LaneTypes /\ PassTypes /\ CountTypes

LEMMA InitTypes == Init => Types
<1> SUFFICES ASSUME Init PROVE Types
  OBVIOUS
<1>1. SetupOK(setup) /\ UpkeepInit(setup)
  BY DaemonParameters DEF Init
<1>2. ChainTypes
  <2>1. setup.purse \in [Clients -> Nat] /\ setup.account \in [Clients -> Account] /\ setup.hook \in Nat
    BY <1>1 DEF SetupOK
  <2>2. purse = setup.purse /\ account = setup.account /\ hook = setup.hook /\ adrift = {}
    BY <1>1 DEF UpkeepInit
  <2> QED
    BY <2>1, <2>2 DEF ChainTypes, Account, Amounts
<1>3. LaneTypes
  BY <1>1 DEF UpkeepInit, LaneTypes
<1>4. PassTypes
  <2>1. idle.seen = None
    BY DEF idle
  <2> QED
    BY <1>1, <2>1 DEF UpkeepInit, PassTypes
<1>5. CountTypes
  BY <1>1 DEF UpkeepInit, CountTypes, none
<1> QED
  BY <1>2, <1>3, <1>4, <1>5 DEF Types, Init

LEMMA OneMore ==
  ASSUME NEW counts \in [Management -> Nat], NEW kind \in Management
  PROVE  /\ [counts EXCEPT ![kind] = @ + 1] \in [Management -> Nat]
         /\ \A k \in Management : [counts EXCEPT ![kind] = @ + 1][k] =
                                   IF k = kind THEN counts[k] + 1 ELSE counts[k]
  OBVIOUS

LEMMA ChainSame == ASSUME ChainTypes, UNCHANGED chainVars PROVE ChainTypes'
  BY DEF ChainTypes, chainVars

LEMMA LaneSame == ASSUME LaneTypes, UNCHANGED laneVars PROVE LaneTypes'
  BY DEF LaneTypes, laneVars

LEMMA PassSame == ASSUME PassTypes, UNCHANGED passes PROVE PassTypes'
  BY DEF PassTypes

LEMMA CountSame ==
  ASSUME CountTypes, UNCHANGED <<meterVars, landed>>, faults' \in {faults, faults + 1}
  PROVE  CountTypes'
  BY DEF CountTypes, meterVars

LEMMA FieldTypes ==
  /\ \A f \in Flight : f.tx \in Tx /\ f.fate \in {"pending", "landed", "outrun"}
                       /\ f = [tx |-> f.tx, fate |-> f.fate]
  /\ \A tx \in Tx : /\ tx.kind \in Management \cup {"update"} /\ tx.client \in Clients
                    /\ tx.amount \in Int /\ tx.fold \in Int
  /\ \A e \in Task : e.kind \in Management \cup {"update"} /\ e.amount \in Int
  /\ \A s \in Snapshot : s.hook \in Int
  /\ \A a \in Amounts : a.deposit \in Int /\ a.balance \in Int /\ a.accrued \in Int
  BY DEF Flight, Tx, Task, Snapshot, Amounts

LEMMA RunningTypes ==
  ASSUME LaneTypes, NEW c \in Clients, queue[c] # <<>>
  PROVE  /\ running(c) \in Task /\ running(c).kind \in Management \cup {"update"}
         /\ running(c).amount \in Int
  BY FieldTypes DEF LaneTypes, running

LEMMA SettlesTypes ==
  ASSUME LaneTypes, NEW c \in Clients, queue[c] # <<>>, settles(c)
  PROVE  LaneTypes'
<1>1. Tail(queue[c]) \in Seq(Task)
  BY DEF LaneTypes
<1> QED
  BY <1>1 DEF LaneTypes, settles

LEMMA AppendTypes ==
  ASSUME LaneTypes, NEW c \in Clients, NEW tasks \in Seq(Task),
         queue' = [queue EXCEPT ![c] = @ \o tasks], flight' = flight
  PROVE  LaneTypes'
<1>1. queue[c] \o tasks \in Seq(Task)
  BY DEF LaneTypes
<1> QED
  BY <1>1 DEF LaneTypes

LEMMA TaskTypes ==
  ASSUME NEW kind \in Management \cup {"update"}, NEW amount \in Int
  PROVE  task(kind, amount) \in Seq(Task)
  BY DEF task, Task

LEMMA EnqueuedTypes ==
  ASSUME NEW c, NEW seen \in Snapshot
  PROVE  enqueued(c, seen) \in Seq(Task)
<1>1. /\ task("merge", 0) \in Seq(Task) /\ task("settle", 0) \in Seq(Task)
      /\ task("withdraw", seen.hook) \in Seq(Task) /\ <<>> \in Seq(Task)
  BY TaskTypes, FieldTypes DEF Management
<1> QED
  BY <1>1, ConcatProperties DEF enqueued

LEMMA FlightTypes ==
  ASSUME NEW tx \in Tx, NEW fate \in {"pending", "landed", "outrun"}
  PROVE  [tx |-> tx, fate |-> fate] \in Flight
  BY DEF Flight

LEMMA BuiltTypes ==
  ASSUME ChainTypes, LaneTypes, NEW c \in Clients, queue[c] # <<>>, NEW fold \in folds(c)
  PROVE  built(c, fold) \in Tx
<1>1. account[c].deposit \in Int /\ account[c].accrued \in Int
  BY FieldTypes DEF ChainTypes
<1>2. fold \in Int
  <2>1. \A limit : swept(c, limit) \subseteq Int
    BY <1>1 DEF swept
  <2> QED
    BY <2>1 DEF folds
<1>3. Fee * running(c).amount \in Int
  BY RunningTypes, UpkeepParameters
<1>4. (IF running(c).kind = "update" THEN fold ELSE 0) \in Int
  BY <1>2
<1>5. (CASE running(c).kind = "update" -> Fee * running(c).amount
         [] running(c).kind = "merge" -> fold
         [] running(c).kind = "settle" -> account[c].accrued
         [] OTHER -> running(c).amount) \in Int
  BY <1>1, <1>2, <1>3, RunningTypes
<1> QED
  BY <1>4, <1>5, RunningTypes DEF built, Tx

\* What lands moves numbers, and only what it spends.
LEMMA LandsTypes ==
  ASSUME ChainTypes, CountTypes, NEW tx \in Tx, lands(tx), UNCHANGED <<purse, meterVars, faults>>
  PROVE  ChainTypes' /\ CountTypes'
<1>1. account[tx.client] \in Amounts
  BY FieldTypes DEF ChainTypes
<1>2. effect(account[tx.client], tx) \in Amounts
  <2> DEFINE a == account[tx.client]
  <2>1. /\ a \in [deposit : Int, balance : Int, accrued : Int]
        /\ tx.amount \in Int /\ tx.fold \in Int
    BY <1>1, FieldTypes DEF Amounts
  <2> HIDE DEF a
  <2>2. CASE tx.kind = "update"
    <3>1. effect(a, tx) = [deposit |-> a.deposit - tx.fold,
                           balance |-> a.balance - tx.amount + tx.fold,
                           accrued |-> a.accrued + tx.amount]
      BY <2>2 DEF effect
    <3> QED
      BY <2>1, <3>1 DEF Amounts, a
  <2>3. CASE tx.kind = "merge"
    <3>1. effect(a, tx) = [a EXCEPT !.deposit = @ - tx.amount, !.balance = @ + tx.amount]
      BY <2>3 DEF effect
    <3>2. effect(a, tx) = [deposit |-> a.deposit - tx.amount,
                           balance |-> a.balance + tx.amount, accrued |-> a.accrued]
      BY <2>1, <3>1
    <3> QED
      BY <2>1, <3>2 DEF Amounts, a
  <2>4. CASE tx.kind = "settle"
    <3>1. effect(a, tx) = [a EXCEPT !.accrued = 0]
      BY <2>4 DEF effect
    <3> QED
      BY <2>1, <3>1 DEF Amounts, a
  <2>5. CASE tx.kind = "withdraw"
    <3>1. effect(a, tx) = a
      BY <2>5 DEF effect
    <3> QED
      BY <2>1, <3>1 DEF Amounts, a
  <2> QED
    BY <2>2, <2>3, <2>4, <2>5, FieldTypes DEF Management
<1>3. account' \in [Clients -> Amounts]
  BY <1>2 DEF lands, ChainTypes
<1>4. hook' \in Int
  BY FieldTypes DEF lands, ChainTypes
<1>5. landed' \in [Management -> Nat]
  <2>1. CASE tx.kind = "update"
    BY <2>1 DEF lands, CountTypes
  <2>2. CASE tx.kind # "update"
    <3>1. tx.kind \in Management
      BY <2>2, FieldTypes
    <3>2. landed' = [landed EXCEPT ![tx.kind] = @ + 1]
      BY <2>2 DEF lands
    <3> QED
      BY <3>1, <3>2, OneMore DEF CountTypes
  <2> QED
    BY <2>1, <2>2
<1> QED
  BY <1>3, <1>4, <1>5 DEF lands, ChainTypes, CountTypes, meterVars

LEMMA FatesTypes ==
  ASSUME LaneTypes, NEW tx, NEW lanes \in SUBSET waiting, NEW c \in Clients
  PROVE  /\ fates(tx, lanes)[c] \in {None} \cup Flight
         /\ fates(tx, lanes)[c] = None <=> flight[c] = None
         /\ flight[c] # None => /\ fates(tx, lanes)[c].tx = flight[c].tx
                                /\ fates(tx, lanes)[c].fate = "landed" <=> flight[c].fate = "landed"
<1>1. fates(tx, lanes)[c] = IF c \in lanes /\ flight[c].fate = "pending" /\ conflict(tx, flight[c].tx)
                            THEN [flight[c] EXCEPT !.fate = "outrun"] ELSE flight[c]
  BY DEF fates
<1>2. CASE c \in lanes /\ flight[c].fate = "pending" /\ conflict(tx, flight[c].tx)
  <2>1. flight[c] \in Flight
    BY <1>2 DEF waiting, LaneTypes
  <2>2. fates(tx, lanes)[c] = [tx |-> flight[c].tx, fate |-> "outrun"]
    BY <1>1, <1>2, <2>1 DEF Flight
  <2>3. fates(tx, lanes)[c] \in Flight
    BY <2>1, <2>2, FieldTypes, FlightTypes
  <2> QED
    BY <1>2, <2>1, <2>2, <2>3, NoneIsNoFlight
<1>3. CASE ~(c \in lanes /\ flight[c].fate = "pending" /\ conflict(tx, flight[c].tx))
  BY <1>1, <1>3 DEF LaneTypes
<1> QED
  BY <1>2, <1>3

\* A pass that starts or moves on has read nothing of its next lane.
LEMMA PassesWith ==
  ASSUME Inv, PassTypes, NEW p, NEW left,
         passes' = [passes EXCEPT ![p] = [left |-> left, seen |-> None]]
  PROVE  PassTypes'
<1>1. \A q \in 1 .. Passes : passes'[q].seen = IF q = p THEN None ELSE passes[q].seen
  BY DEF Inv, Shapes, PassesOK
<1> QED
  BY <1>1 DEF PassTypes

LEMMA BatchTypes ==
  ASSUME setup \in Setups, NEW c \in Clients, NEW n \in setup.batches[c]
  PROVE  n \in Int
<1>1. setup.batches \in [Clients -> SUBSET (1 .. MaxBatch)]
  BY DaemonParameters DEF SetupOK
<1>2. n \in 1 .. MaxBatch
  BY <1>1
<1> QED
  BY <1>2

\* Every step keeps the types.
LEMMA TypesKeep ==
  ASSUME Inv, Types, [Next]_vars
  PROVE  Types'
<1> USE DEF Types
<1>0. setup' \in Setups
  BY ConfigStays
<1>1. ASSUME UNCHANGED <<chainVars, laneVars, meterVars, faults>>, PassTypes'
      PROVE  Types'
  BY <1>0, <1>1, ChainSame, LaneSame, CountSame DEF chainVars
<1>2. ASSUME Forget, faults' \in {faults, faults + 1}
      PROVE  Types'
  <2>1. ChainTypes'
    <3>1. {flight[c].tx : c \in {d \in waiting : flight[d].fate = "pending"}} \subseteq Tx
      BY FieldTypes DEF waiting, LaneTypes
    <3> QED
      BY <1>0, <1>2, <3>1 DEF Forget, ChainTypes
  <2>2. LaneTypes'
    BY <1>2 DEF Forget, LaneTypes
  <2>3. PassTypes'
    <3>1. idle.seen = None
      BY DEF idle
    <3> QED
      BY <1>0, <1>2, <3>1 DEF Forget, PassTypes
  <2>4. CountTypes'
    BY <1>2 DEF Forget, CountTypes, none
  <2> QED
    BY <1>0, <2>1, <2>2, <2>3, <2>4
<1>3. CASE Boot
  <2>1. CASE Start
    <3>1. CountTypes'
      BY <2>1 DEF Start, CountTypes, none, chainVars
    <3> QED
      BY <1>0, <2>1, <3>1, ChainSame, LaneSame, PassSame DEF Start
  <2>2. CASE Refused \/ Serve \/ Throws
    BY <1>0, <2>2, <1>1, PassSame DEF Refused, Serve, Throws, upkeepVars
  <2>3. CASE Run
    <3>1. PassTypes'
      BY <2>3, PassesWith DEF Run
    <3> QED
      BY <1>0, <2>3, <3>1, <1>1 DEF Run
  <2> QED
    BY <1>0, <1>3, <2>1, <2>2, <2>3 DEF Boot
<1>4. CASE Signal
  BY <1>0, <1>4, ChainSame, LaneSame, PassSame, CountSame DEF Signal, chainVars
<1>5. CASE Stop \/ Crash \/ \E c \in Clients : WasmExit(c)
  BY <1>0, <1>2, <1>5 DEF Stop, Crash, WasmExit
<1>6. ASSUME NEW c \in Clients, Intents(c)
      PROVE  Types'
  <2>1. PICK n \in setup.batches[c] : Request(c, n)
    BY <1>6 DEF Intents
  <2>2. n \in Int
    BY <2>1, BatchTypes
  <2>3. LaneTypes'
    BY <2>1, <2>2, TaskTypes, AppendTypes DEF Request
  <2> QED
    BY <1>0, <2>1, <2>3, ChainSame, PassSame, CountSame DEF Request, chainVars
<1>7. ASSUME NEW c \in Clients, Lane(c) \/ Fail(c) \/ LoseAnswer(c)
      PROVE  Types'
  <2>1. CASE Build(c)
    <3>1. PICK fold \in folds(c) :
            flight' = [flight EXCEPT ![c] = [tx |-> built(c, fold), fate |-> "pending"]]
      BY <2>1 DEF Build
    <3>2. built(c, fold) \in Tx
      BY <2>1, BuiltTypes DEF Build
    <3>3. LaneTypes'
      BY <2>1, <3>1, <3>2, FlightTypes DEF Build, LaneTypes
    <3> QED
      BY <1>0, <2>1, <3>3, ChainSame, PassSame, CountSame DEF Build, chainVars
  <2>2. CASE ~Build(c)
    <3>1. settles(c) /\ UNCHANGED passes
      BY <1>7, <2>2 DEF Lane, Refuse, Trap, Confirm, Outrun, Fail, LoseAnswer
    <3>2. queue[c] # <<>>
      BY <1>7, <2>2 DEF Lane, Refuse, Trap, Confirm, Outrun, Fail, LoseAnswer, Inv, Shapes, FlightOK
    <3>3. ChainTypes'
      <4>1. CASE LoseAnswer(c)
        <5>1. flight[c].tx \in Tx
          BY <4>1, FieldTypes DEF LoseAnswer, LaneTypes
        <5> QED
          BY <4>1, <5>1 DEF LoseAnswer, ChainTypes
      <4>2. CASE ~LoseAnswer(c)
        BY <1>7, <2>2, <4>2, ChainSame DEF Lane, Refuse, Trap, Confirm, Outrun, Fail
      <4> QED
        BY <4>1, <4>2
    <3>4. CountTypes'
      <4>1. CASE Confirm(c) /\ running(c).kind # "update"
        <5>1. unwritten' = [unwritten EXCEPT ![running(c).kind] = @ + 1]
          BY <4>1 DEF Confirm
        <5>2. running(c).kind \in Management
          BY <3>2, <4>1, RunningTypes
        <5>3. unwritten' \in [Management -> Nat]
          BY <5>1, <5>2, OneMore DEF CountTypes
        <5> QED
          BY <4>1, <5>3 DEF Confirm, CountTypes, chainVars
      <4>2. CASE ~(Confirm(c) /\ running(c).kind # "update")
        BY <1>7, <2>2, <4>2, CountSame
        DEF Lane, Refuse, Trap, Confirm, Outrun, Fail, LoseAnswer, chainVars, meterVars
      <4> QED
        BY <4>1, <4>2
    <3> QED
      BY <1>0, <3>1, <3>2, <3>3, <3>4, SettlesTypes, PassSame
  <2> QED
    BY <1>0, <2>1, <2>2
<1>8. ASSUME NEW c \in Clients, Chain(c)
      PROVE  Types'
  <2>1. Land(c) /\ flight[c].tx \in Tx /\ flight[c] \in Flight
    BY <1>8, FieldTypes DEF Chain, Land, LaneTypes
  <2>2. ChainTypes' /\ CountTypes'
    BY <2>1, LandsTypes DEF Land
  <2>3. LaneTypes'
    <3> DEFINE others == fates(flight[c].tx, waiting \ {c})
    <3>1. flight' = [others EXCEPT ![c] = [flight[c] EXCEPT !.fate = "landed"]] /\ queue' = queue
      BY <2>1 DEF Land
    <3>2. [flight[c] EXCEPT !.fate = "landed"] \in Flight
      BY <2>1 DEF Flight
    <3>3. others = [d \in Clients |-> others[d]] /\ \A d \in Clients : others[d] \in {None} \cup Flight
      BY FatesTypes DEF fates
    <3> QED
      BY <1>0, <3>1, <3>2, <3>3 DEF LaneTypes
  <2> QED
    BY <1>0, <2>1, <2>2, <2>3, PassSame DEF Land
<1>9. ASSUME NEW p \in 1 .. Passes, Pass(p) \/ Timer(p) \/ ReadFails(p)
      PROVE  Types'
  <2>1. CASE Tick(p)
    BY <1>0, <2>1, <1>1, PassesWith DEF Tick
  <2>2. CASE Read(p)
    <3>1. Head(passes[p].left) \in Clients
      BY <2>2 DEF Read, Inv, Shapes, PassesOK, PassOK
    <3>2. snapshotBalances(Head(passes[p].left)) \in Snapshot
      BY <3>1, FieldTypes DEF snapshotBalances, Snapshot, ChainTypes
    <3>3. PassTypes'
      <4>1. \A q \in 1 .. Passes :
              passes'[q].seen = IF q = p THEN snapshotBalances(Head(passes[p].left)) ELSE passes[q].seen
        BY <2>2 DEF Read, Inv, Shapes, PassesOK, PassOK
      <4> QED
        BY <3>2, <4>1 DEF PassTypes
    <3> QED
      BY <1>0, <2>2, <3>3, <1>1 DEF Read
  <2>3. CASE ReadFails(p)
    <3>1. PassTypes'
      BY <2>3, PassesWith DEF ReadFails, moveOn
    <3> QED
      BY <1>0, <2>3, <3>1, ChainSame, LaneSame, CountSame DEF ReadFails, chainVars
  <2>4. CASE Decide(p)
    <3> DEFINE c == Head(passes[p].left)
               tasks == enqueued(c, passes[p].seen)
    <3>1. c \in Clients
      BY <2>4 DEF Decide, Inv, Shapes, PassesOK, PassOK
    <3>2. tasks \in Seq(Task)
      BY <2>4, EnqueuedTypes DEF Decide, PassTypes
    <3>3. queue' = [queue EXCEPT ![c] = @ \o tasks] /\ flight' = flight
      BY <2>4 DEF Decide
    <3>4. LaneTypes'
      <4> HIDE DEF c, tasks
      <4> QED
        BY <3>1, <3>2, <3>3, AppendTypes
    <3>5. PassTypes'
      BY <2>4, PassesWith DEF Decide, moveOn
    <3> QED
      BY <1>0, <2>4, <3>4, <3>5, ChainSame, CountSame DEF Decide, chainVars
  <2> QED
    BY <1>0, <1>9, <2>1, <2>2, <2>3, <2>4 DEF Pass, Timer
<1>10. ASSUME NEW kind \in Management, WriteMeter(kind) \/ MeterFails(kind)
       PROVE  Types'
  <2>1. unwritten[kind] \in Nat /\ unwritten[kind] > 0 /\ unwritten[kind] - 1 \in Nat /\ totals[kind] \in Nat
    BY <1>10 DEF WriteMeter, MeterFails, CountTypes
  <2>2. CountTypes'
    BY <1>10, <2>1 DEF WriteMeter, MeterFails, CountTypes, chainVars
  <2> QED
    BY <1>0, <1>10, <2>2, ChainSame, LaneSame, PassSame DEF WriteMeter, MeterFails
<1>11. CASE Poison
  BY <1>0, <1>11, ChainSame, LaneSame, PassSame, CountSame DEF Poison, chainVars
<1>12. CASE LandAdrift
  <2>1. PICK tx \in adrift : /\ lands(tx) /\ flight' = fates(tx, waiting)
                             /\ UNCHANGED <<purse, queue, passes, meterVars, faults>>
    BY <1>12 DEF LandAdrift
  <2>2. ChainTypes' /\ CountTypes'
    BY <2>1, LandsTypes DEF ChainTypes
  <2>3. fates(tx, waiting) = [d \in Clients |-> fates(tx, waiting)[d]]
    BY DEF fates
  <2>4. LaneTypes'
    BY <2>1, <2>3, FatesTypes DEF LaneTypes
  <2> QED
    BY <1>0, <2>1, <2>2, <2>4, PassSame
<1>13. CASE Expire
  BY <1>0, <1>13, LaneSame, PassSame, CountSame DEF Expire, ChainTypes
<1>14. ASSUME NEW c \in Clients, PayIn(c)
       PROVE  Types'
  <2>1. PICK lovelace \in 1 .. purse[c] :
          /\ purse' = [purse EXCEPT ![c] = @ - lovelace]
          /\ account' = [account EXCEPT ![c].deposit = @ + lovelace]
    BY <1>14 DEF PayIn
  <2>2. /\ lovelace \in Int /\ purse[c] \in Int
        /\ account[c] \in [deposit : Int, balance : Int, accrued : Int]
    BY <2>1 DEF ChainTypes, Amounts
  <2>3. [account[c] EXCEPT !.deposit = @ + lovelace] \in Amounts
    BY <2>2 DEF Amounts
  <2>4. ChainTypes'
    BY <1>14, <2>1, <2>2, <2>3 DEF PayIn, ChainTypes
  <2> QED
    BY <1>0, <1>14, <2>4, LaneSame, PassSame, CountSame DEF PayIn
<1>15. CASE UNCHANGED vars
  BY <1>0, <1>1, <1>15, PassSame DEF vars, upkeepVars
<1> QED
  BY <1>3, <1>4, <1>5, <1>6, <1>7, <1>8, <1>9, <1>10, <1>11, <1>12, <1>13, <1>14, <1>15
  DEF Next, Pass, Timer, Meter, Faults, Outside
-----------------------------------------------------------------------------
(* The meter *)

\* The lanes that have a management transaction on chain and do not know yet.
answering(kind) == {c \in waiting : flight[c].tx.kind = kind /\ flight[c].fate = "landed"}

counted(kind) == totals[kind] + unwritten[kind] + Cardinality(answering(kind))

\* A lane waits for what the entry that runs has built.
FlightKinds == \A c \in Clients : flight[c] # None => flight[c].tx.kind = running(c).kind

\* Only failures leave a transaction without a lane, stop the process or trap a
\* build.
LossesCounted == adrift # {} \/ poisoned \/ life = "stopping" => faults > 0

MeterInv == Inv /\ Types /\ FlightKinds /\ LossesCounted /\ MeterTrue

LEMMA LanesAreFinite ==
  ASSUME NEW lanes \in SUBSET Clients
  PROVE  IsFiniteSet(lanes) /\ Cardinality(lanes) \in Nat
  BY UpkeepParameters, FS_Subset, FS_CardinalityType

LEMMA AnsweringLanes ==
  ASSUME NEW kind
  PROVE  answering(kind) \in SUBSET Clients /\ answering(kind)' \in SUBSET Clients
  BY DEF answering, waiting

LEMMA MeterTrueSays ==
  MeterTrue <=> \A kind \in Management :
                  /\ counted(kind) <= landed[kind]
                  /\ faults = 0 /\ ~setup.clean => counted(kind) = landed[kind]
  BY DEF MeterTrue, counted, answering

LEMMA MeterTrueSaysNext ==
  MeterTrue' <=> \A kind \in Management :
                   /\ counted(kind)' <= landed'[kind]
                   /\ faults' = 0 /\ ~setup'.clean => counted(kind)' = landed'[kind]
  BY DEF MeterTrue, counted, answering

\* A step keeps the meter true when the count and the chain advance together,
\* or the count loses ground to a failure or a start that wipes it.
LEMMA MeterKeeps ==
  ASSUME MeterTrue, Types, setup' = setup, faults' \in {faults, faults + 1},
         \A kind \in Management :
           /\ {counted(kind), counted(kind)', landed[kind], landed'[kind]} \subseteq Int
           /\ counted(kind)' - landed'[kind] <= counted(kind) - landed[kind]
           /\ \/ faults' > 0 \/ setup.clean
              \/ counted(kind)' - landed'[kind] = counted(kind) - landed[kind]
  PROVE  MeterTrue'
<1>1. faults \in Nat
  BY DEF Types, CountTypes
<1> SUFFICES ASSUME NEW kind \in Management
             PROVE  /\ counted(kind)' <= landed'[kind]
                    /\ faults' = 0 /\ ~setup'.clean => counted(kind)' = landed'[kind]
  BY MeterTrueSaysNext
<1> DEFINE n == counted(kind)
           m == counted(kind)'
           x == landed[kind]
           y == landed'[kind]
<1>2. /\ n <= x /\ (faults = 0 /\ ~setup.clean => n = x)
      /\ {n, m, x, y} \subseteq Int
      /\ m - y <= n - x
      /\ faults' > 0 \/ setup.clean \/ m - y = n - x
  BY MeterTrueSays
<1> HIDE DEF n, m, x, y
<1>3. m <= y
  BY <1>2
<1>4. ASSUME faults' = 0, ~setup'.clean PROVE m = y
  <2>1. ~setup.clean
    BY <1>4
  <2>2. faults = 0 /\ ~(faults' > 0)
    BY <1>1, <1>4
  <2>3. n = x
    BY <1>2, <2>1, <2>2
  <2>4. m - y = n - x
    BY <1>2, <2>1, <2>2
  <2> QED
    BY <1>2, <2>3, <2>4
<1> QED
  BY <1>3, <1>4 DEF m, y

LEMMA CountedIsNat ==
  ASSUME Types, NEW kind \in Management
  PROVE  counted(kind) \in Nat /\ landed[kind] \in Nat
  BY AnsweringLanes, LanesAreFinite DEF counted, Types, CountTypes

LEMMA CountedIsNatNext ==
  ASSUME Types', NEW kind \in Management
  PROVE  counted(kind)' \in Nat /\ landed'[kind] \in Nat
<1>1. Cardinality(answering(kind)') \in Nat
  BY AnsweringLanes, LanesAreFinite
<1>2. totals'[kind] \in Nat /\ unwritten'[kind] \in Nat /\ landed'[kind] \in Nat
  BY DEF Types, CountTypes
<1>3. counted(kind)' = totals'[kind] + unwritten'[kind] + Cardinality(answering(kind)')
  BY DEF counted
<1> QED
  BY <1>1, <1>2, <1>3

\* A step that moves neither the counters nor a lane's landed transaction.
LEMMA MeterFrame ==
  ASSUME MeterTrue, Types, setup' = setup, faults' \in {faults, faults + 1},
         UNCHANGED <<meterVars, landed>>,
         \A kind \in Management : answering(kind)' = answering(kind)
  PROVE  MeterTrue'
<1>1. \A kind \in Management : counted(kind)' = counted(kind) /\ landed'[kind] = landed[kind]
  BY DEF counted, meterVars
<1>2. \A kind \in Management : counted(kind) \in Nat /\ landed[kind] \in Nat
  BY CountedIsNat
<1> QED
  BY <1>1, <1>2, MeterKeeps

LEMMA SameFlights ==
  ASSUME flight' = flight
  PROVE  \A kind : answering(kind)' = answering(kind)
  BY DEF answering, waiting

LEMMA InitMeter == Init => MeterInv
<1> SUFFICES ASSUME Init PROVE MeterInv
  OBVIOUS
<1>1. UpkeepInit(setup) /\ life = "down"
  BY DEF Init
<1>2. FlightKinds /\ LossesCounted
  BY <1>1 DEF UpkeepInit, FlightKinds, LossesCounted
<1>3. \A kind \in Management : answering(kind) = {}
  BY <1>1 DEF UpkeepInit, answering, waiting
<1>4. \A kind \in Management : counted(kind) = 0 /\ landed[kind] = 0
  <2> SUFFICES ASSUME NEW kind \in Management PROVE counted(kind) = 0 /\ landed[kind] = 0
    OBVIOUS
  <2>1. totals[kind] = 0 /\ unwritten[kind] = 0 /\ landed[kind] = 0
    BY <1>1 DEF UpkeepInit, none
  <2>2. Cardinality(answering(kind)) = 0
    BY <1>3, FS_EmptySet
  <2> QED
    BY <2>1, <2>2 DEF counted
<1> QED
  BY <1>2, <1>4, InitInv, InitTypes, MeterTrueSays DEF MeterInv

\* The entry that runs stays the first when others join its lane.
LEMMA AppendKeepsKinds ==
  ASSUME Inv, Types, FlightKinds, NEW c \in Clients, NEW tasks \in Seq(Task),
         queue' = [queue EXCEPT ![c] = @ \o tasks], flight' = flight
  PROVE  FlightKinds'
<1> SUFFICES ASSUME NEW d \in Clients, flight[d] # None
             PROVE  flight[d].tx.kind = Head(queue'[d]).kind
  BY DEF FlightKinds, running
<1>1. queue[d] \in Seq(Task) /\ queue[d] # <<>> /\ queue[c] \in Seq(Task)
  BY DEF Types, LaneTypes, Inv, Shapes, FlightOK
<1>2. queue'[d] = IF d = c THEN queue[d] \o tasks ELSE queue[d]
  BY DEF Types, LaneTypes
<1>3. Head(queue[d] \o tasks) = Head(queue[d])
  BY <1>1, ConcatProperties
<1> QED
  BY <1>2, <1>3 DEF FlightKinds, running

\* An entry that settles: its lane waits no more.
LEMMA SettlesKeepsKinds ==
  ASSUME Types, FlightKinds, NEW c \in Clients, settles(c)
  PROVE  /\ FlightKinds'
         /\ \A kind : answering(kind)' = answering(kind) \ {c}
<1>1. \A d \in Clients : /\ flight'[d] = IF d = c THEN None ELSE flight[d]
                         /\ d # c => queue'[d] = queue[d]
  BY DEF settles, Types, LaneTypes
<1> QED
  BY <1>1 DEF FlightKinds, running, answering, waiting

LEMMA RanBefore ==
  ASSUME Inv, Types, NEW c \in Clients, flight[c] # None
  PROVE  queue[c] # <<>> /\ flight[c] \in Flight /\ flight[c].tx \in Tx
  BY FieldTypes DEF Inv, Shapes, FlightOK, Types, LaneTypes

\* What lands counts once on the chain; of the lanes only that of an awaited
\* transaction has something to report.
LEMMA LandMeters ==
  ASSUME MeterInv, Types', NEW c \in Clients, Land(c), setup' = setup
  PROVE  MeterTrue' /\ FlightKinds'
<1> DEFINE tx == flight[c].tx
           others == fates(tx, waiting \ {c})
<1>1. /\ flight[c] # None /\ flight[c].fate = "pending" /\ lands(tx)
      /\ flight' = [others EXCEPT ![c] = [flight[c] EXCEPT !.fate = "landed"]]
      /\ UNCHANGED <<queue, meterVars, faults>>
  BY DEF Land
<1>2. flight[c] \in Flight /\ tx \in Tx
  BY <1>1, RanBefore DEF MeterInv
<1>3. [flight[c] EXCEPT !.fate = "landed"] = [tx |-> tx, fate |-> "landed"]
  BY <1>2 DEF Flight
<1>4. [tx |-> tx, fate |-> "landed"] # None
  BY <1>2, FlightTypes, NoneIsNoFlight
<1>5. \A d \in Clients : flight'[d] = IF d = c THEN [tx |-> tx, fate |-> "landed"] ELSE others[d]
  BY <1>1, <1>3 DEF fates
<1>6. \A d \in Clients : /\ others[d] = None <=> flight[d] = None
                         /\ flight[d] # None => /\ others[d].tx = flight[d].tx
                                                /\ others[d].fate = "landed" <=> flight[d].fate = "landed"
  BY FatesTypes DEF MeterInv, Types
<1>7. \A kind : answering(kind)' = IF kind = tx.kind THEN answering(kind) \cup {c} ELSE answering(kind)
  <2> HIDE DEF tx, others
  <2> SUFFICES ASSUME NEW kind, NEW d \in Clients
               PROVE  d \in answering(kind)' <=> d \in answering(kind) \/ (kind = tx.kind /\ d = c)
    BY AnsweringLanes
  <2>1. CASE d = c
    BY <1>1, <1>4, <1>5, <2>1 DEF answering, waiting
  <2>2. CASE d # c
    <3>1. /\ flight'[d] = None <=> flight[d] = None
          /\ flight[d] # None => /\ flight'[d].tx = flight[d].tx
                                 /\ flight'[d].fate = "landed" <=> flight[d].fate = "landed"
      BY <1>5, <1>6, <2>2
    <3> QED
      BY <2>2, <3>1 DEF answering, waiting
  <2> QED
    BY <2>1, <2>2
<1>8. FlightKinds'
  <2> SUFFICES ASSUME NEW d \in Clients, flight'[d] # None
               PROVE  flight'[d].tx.kind = running(d)'.kind
    BY DEF FlightKinds
  <2>1. CASE d = c
    <3>1. flight'[c].tx = tx
      BY <1>5
    <3> QED
      BY <1>1, <2>1, <3>1 DEF FlightKinds, running, MeterInv
  <2>2. CASE d # c
    <3>1. flight[d] # None /\ flight'[d].tx = flight[d].tx
      <4> HIDE DEF others
      <4> QED
        BY <1>5, <1>6, <2>2
    <3> QED
      BY <1>1, <3>1 DEF FlightKinds, running, MeterInv
  <2> QED
    BY <2>1, <2>2
<1>9. ASSUME NEW kind \in Management
      PROVE  counted(kind)' - landed'[kind] = counted(kind) - landed[kind]
  <2>1. counted(kind) \in Nat /\ landed[kind] \in Nat /\ counted(kind)' \in Nat /\ landed'[kind] \in Nat
    BY CountedIsNat, CountedIsNatNext DEF MeterInv
  <2>2. totals'[kind] = totals[kind] /\ unwritten'[kind] = unwritten[kind]
    BY <1>1 DEF meterVars
  <2>3. CASE kind = tx.kind
    <3>1. c \notin answering(kind)
      BY <1>1 DEF answering
    <3>2. Cardinality(answering(kind)') = Cardinality(answering(kind)) + 1
      BY <1>7, <2>3, <3>1, AnsweringLanes, LanesAreFinite, FS_AddElement
    <3>3. landed'[kind] = landed[kind] + 1
      <4>1. landed' = [landed EXCEPT ![kind] = @ + 1]
        BY <1>1, <2>3 DEF lands, Management
      <4> QED
        BY <4>1, OneMore DEF MeterInv, Types, CountTypes
    <3>4. Cardinality(answering(kind)) \in Nat /\ totals[kind] \in Nat /\ unwritten[kind] \in Nat
      BY AnsweringLanes, LanesAreFinite DEF MeterInv, Types, CountTypes
    <3>5. counted(kind)' = counted(kind) + 1
      BY <2>2, <3>2, <3>4 DEF counted
    <3> QED
      BY <2>1, <3>3, <3>5
  <2>4. CASE kind # tx.kind
    <3>1. answering(kind)' = answering(kind)
      BY <1>7, <2>4
    <3>2. landed'[kind] = landed[kind]
      <4>1. landed' = landed \/ landed' = [landed EXCEPT ![tx.kind] = @ + 1]
        BY <1>1 DEF lands
      <4> HIDE DEF tx
      <4> QED
        BY <2>4, <4>1 DEF MeterInv, Types, CountTypes
    <3>3. counted(kind)' = counted(kind)
      BY <2>2, <3>1 DEF counted
    <3> QED
      BY <3>2, <3>3
  <2> QED
    BY <2>3, <2>4
<1>10. \A kind \in Management : /\ counted(kind) \in Nat /\ landed[kind] \in Nat
                                /\ counted(kind)' \in Nat /\ landed'[kind] \in Nat
  BY CountedIsNat, CountedIsNatNext DEF MeterInv
<1>11. MeterTrue'
  <2>1. faults' \in {faults, faults + 1}
    BY <1>1
  <2>2. \A kind \in Management :
           /\ {counted(kind), counted(kind)', landed[kind], landed'[kind]} \subseteq Int
           /\ counted(kind)' - landed'[kind] <= counted(kind) - landed[kind]
           /\ counted(kind)' - landed'[kind] = counted(kind) - landed[kind]
    BY <1>9, <1>10
  <2> QED
    BY <2>1, <2>2, MeterKeeps DEF MeterInv
<1> QED
  BY <1>8, <1>11

\* A transaction that no lane waits for lands: a failure made it drift.
LEMMA LandAdriftMeters ==
  ASSUME MeterInv, Types', LandAdrift, setup' = setup
  PROVE  MeterTrue' /\ FlightKinds'
<1>1. PICK tx \in adrift : lands(tx) /\ flight' = fates(tx, waiting) /\ UNCHANGED <<queue, meterVars, faults>>
  BY DEF LandAdrift
<1>2. faults > 0 /\ tx \in Tx
  BY <1>1 DEF MeterInv, LossesCounted, Types, ChainTypes
<1>3. \A d \in Clients : /\ flight'[d] = None <=> flight[d] = None
                         /\ flight[d] # None => /\ flight'[d].tx = flight[d].tx
                                                /\ flight'[d].fate = "landed" <=> flight[d].fate = "landed"
  BY <1>1, FatesTypes DEF MeterInv, Types
<1>4. \A kind : answering(kind)' = answering(kind)
  <2> SUFFICES ASSUME NEW kind, NEW d \in Clients
               PROVE  d \in answering(kind)' <=> d \in answering(kind)
    BY AnsweringLanes
  <2> QED
    BY <1>3 DEF answering, waiting
<1>5. FlightKinds'
  BY <1>1, <1>3 DEF FlightKinds, running, MeterInv
<1>6. \A kind \in Management :
         /\ counted(kind)' = counted(kind)
         /\ landed'[kind] \in {landed[kind], landed[kind] + 1}
  <2> SUFFICES ASSUME NEW kind \in Management
               PROVE  counted(kind)' = counted(kind) /\ landed'[kind] \in {landed[kind], landed[kind] + 1}
    OBVIOUS
  <2>1. landed' = landed \/ landed' = [landed EXCEPT ![tx.kind] = @ + 1]
    BY <1>1 DEF lands
  <2>2. landed \in [Management -> Nat]
    BY DEF MeterInv, Types, CountTypes
  <2>3. landed'[kind] \in {landed[kind], landed[kind] + 1}
    BY <2>1, <2>2
  <2> QED
    BY <1>1, <1>4, <2>3 DEF counted, meterVars
<1>7. \A kind \in Management : counted(kind) \in Nat /\ landed[kind] \in Nat
  BY CountedIsNat DEF MeterInv
<1>8. \A kind \in Management :
         /\ {counted(kind), counted(kind)', landed[kind], landed'[kind]} \subseteq Int
         /\ counted(kind)' - landed'[kind] <= counted(kind) - landed[kind]
  BY <1>6, <1>7
<1>9. faults' > 0 /\ faults' \in {faults, faults + 1}
  BY <1>1, <1>2
<1> QED
  BY <1>5, <1>8, <1>9, MeterKeeps DEF MeterInv

\* A process that ends takes unanswered and unwritten counts with it.
LEMMA ForgetMeters ==
  ASSUME MeterInv, Types', Forget, setup' = setup, faults' \in {faults, faults + 1}, faults' > 0
  PROVE  MeterTrue' /\ FlightKinds'
<1>1. /\ unwritten' = none /\ totals' = totals /\ landed' = landed
      /\ \A c \in Clients : flight'[c] = None
  BY DEF Forget
<1>2. ASSUME NEW kind \in Management
      PROVE  /\ counted(kind) \in Nat /\ counted(kind)' \in Nat /\ counted(kind)' <= counted(kind)
             /\ landed[kind] \in Nat /\ landed'[kind] = landed[kind]
  <2>1. answering(kind)' = {}
    BY <1>1 DEF answering, waiting
  <2>2. Cardinality(answering(kind)') = 0
    BY <2>1, FS_EmptySet
  <2>3. unwritten'[kind] = 0
    BY <1>1 DEF none
  <2>4. counted(kind)' = totals[kind] + 0 + 0
    BY <1>1, <2>2, <2>3 DEF counted
  <2>5. /\ totals[kind] \in Nat /\ unwritten[kind] \in Nat /\ landed[kind] \in Nat
        /\ Cardinality(answering(kind)) \in Nat
    BY AnsweringLanes, LanesAreFinite DEF MeterInv, Types, CountTypes
  <2>6. counted(kind) = totals[kind] + unwritten[kind] + Cardinality(answering(kind))
    BY DEF counted
  <2> QED
    BY <1>1, <2>4, <2>5, <2>6
<1>3. \A kind \in Management :
         /\ {counted(kind), counted(kind)', landed[kind], landed'[kind]} \subseteq Int
         /\ counted(kind)' - landed'[kind] <= counted(kind) - landed[kind]
  BY <1>2
<1>4. FlightKinds'
  BY <1>1 DEF FlightKinds
<1> QED
  BY <1>3, <1>4, MeterKeeps DEF MeterInv

\* A lane's answer: a confirmed management transaction passes from the lane to
\* the meter's writes, a lost one is a failure.
LEMMA LaneMeters ==
  ASSUME MeterInv, Types', NEW c \in Clients, Lane(c) \/ Fail(c) \/ LoseAnswer(c), setup' = setup
  PROVE  MeterTrue' /\ FlightKinds'
<1>1. CASE Build(c)
  <2>1. PICK fold \in folds(c) :
          flight' = [flight EXCEPT ![c] = [tx |-> built(c, fold), fate |-> "pending"]]
    BY <1>1 DEF Build
  <2>2. /\ flight[c] = None
        /\ UNCHANGED <<queue, meterVars, landed, faults>>
    BY <1>1 DEF Build, chainVars
  <2>3. built(c, fold).kind = running(c).kind
    BY DEF built
  <2>4. \A d \in Clients : flight'[d] = IF d = c THEN [tx |-> built(c, fold), fate |-> "pending"] ELSE flight[d]
    BY <2>1 DEF MeterInv, Types, LaneTypes
  <2>5. FlightKinds'
    BY <2>2, <2>3, <2>4 DEF MeterInv, FlightKinds, running
  <2>6. \A kind : answering(kind)' = answering(kind)
    BY <2>2, <2>4 DEF answering, waiting
  <2> QED
    BY <2>2, <2>5, <2>6, MeterFrame DEF MeterInv
<1>2. CASE Confirm(c)
  <2>1. /\ settles(c) /\ flight[c] # None /\ flight[c].fate = "landed"
        /\ UNCHANGED <<totals, landed, faults>>
    BY <1>2 DEF Confirm, chainVars
  <2>2. FlightKinds' /\ \A kind : answering(kind)' = answering(kind) \ {c}
    BY <2>1, SettlesKeepsKinds DEF MeterInv
  <2>3. flight[c].tx.kind = running(c).kind
    BY <2>1 DEF MeterInv, FlightKinds
  <2>4. ASSUME NEW kind \in Management
        PROVE  counted(kind)' = counted(kind) /\ landed'[kind] = landed[kind]
    <3>1. CASE kind = running(c).kind
      <4>1. unwritten'[kind] = unwritten[kind] + 1
        <5>1. unwritten' = [unwritten EXCEPT ![kind] = @ + 1]
          BY <1>2, <3>1 DEF Confirm, Management
        <5> QED
          BY <5>1, OneMore DEF MeterInv, Types, CountTypes
      <4>2. c \in answering(kind)
        BY <2>1, <2>3, <3>1 DEF answering, waiting
      <4>3. Cardinality(answering(kind)') = Cardinality(answering(kind)) - 1
        BY <2>2, <4>2, AnsweringLanes, LanesAreFinite, FS_RemoveElement
      <4>4. /\ totals[kind] \in Nat /\ unwritten[kind] \in Nat
            /\ Cardinality(answering(kind)) \in Nat
        BY AnsweringLanes, LanesAreFinite DEF MeterInv, Types, CountTypes
      <4> QED
        BY <2>1, <4>1, <4>3, <4>4 DEF counted
    <3>2. CASE kind # running(c).kind
      <4>1. unwritten'[kind] = unwritten[kind]
        <5>1. unwritten' = unwritten \/ unwritten' = [unwritten EXCEPT ![running(c).kind] = @ + 1]
          BY <1>2 DEF Confirm
        <5> QED
          BY <3>2, <5>1 DEF MeterInv, Types, CountTypes
      <4>2. c \notin answering(kind)
        BY <2>3, <3>2 DEF answering
      <4>3. answering(kind)' = answering(kind)
        BY <2>2, <4>2
      <4> QED
        BY <2>1, <4>1, <4>3 DEF counted
    <3> QED
      BY <3>1, <3>2
  <2>5. \A kind \in Management : counted(kind) \in Nat /\ landed[kind] \in Nat
    BY CountedIsNat DEF MeterInv
  <2> QED
    BY <2>1, <2>2, <2>4, <2>5, MeterKeeps DEF MeterInv
<1>3. CASE Refuse(c) \/ Trap(c) \/ Outrun(c) \/ Fail(c)
  <2>1. settles(c) /\ UNCHANGED <<meterVars, landed>> /\ faults' \in {faults, faults + 1}
    BY <1>3 DEF Refuse, Trap, Outrun, Fail, chainVars
  <2>2. FlightKinds' /\ \A kind : answering(kind)' = answering(kind) \ {c}
    BY <2>1, SettlesKeepsKinds DEF MeterInv
  <2>3. flight[c] = None \/ flight[c].fate = "outrun"
    BY <1>3 DEF Refuse, Trap, Outrun, Fail
  <2>4. \A kind : answering(kind)' = answering(kind)
    BY <2>2, <2>3 DEF answering, waiting
  <2> QED
    BY <2>1, <2>2, <2>4, MeterFrame DEF MeterInv
<1>4. CASE LoseAnswer(c)
  <2>1. settles(c) /\ UNCHANGED <<meterVars, landed>> /\ faults' = faults + 1
    BY <1>4 DEF LoseAnswer
  <2>2. FlightKinds' /\ \A kind : answering(kind)' = answering(kind) \ {c}
    BY <2>1, SettlesKeepsKinds DEF MeterInv
  <2>3. ASSUME NEW kind \in Management
        PROVE  /\ counted(kind) \in Nat /\ counted(kind)' \in Nat /\ counted(kind)' <= counted(kind)
               /\ landed[kind] \in Nat /\ landed'[kind] = landed[kind]
    <3>1. Cardinality(answering(kind)') <= Cardinality(answering(kind))
      BY <2>2, AnsweringLanes, LanesAreFinite, FS_Subset
    <3>2. /\ Cardinality(answering(kind)) \in Nat /\ Cardinality(answering(kind)') \in Nat
          /\ totals[kind] \in Nat /\ unwritten[kind] \in Nat /\ landed[kind] \in Nat
      BY AnsweringLanes, LanesAreFinite DEF MeterInv, Types, CountTypes
    <3>3. /\ counted(kind) = totals[kind] + unwritten[kind] + Cardinality(answering(kind))
          /\ counted(kind)' = totals[kind] + unwritten[kind] + Cardinality(answering(kind)')
      BY <2>1 DEF counted, meterVars
    <3> QED
      BY <2>1, <3>1, <3>2, <3>3
  <2>4. faults' > 0
    BY <2>1 DEF MeterInv, Types, CountTypes
  <2>5. \A kind \in Management :
         /\ {counted(kind), counted(kind)', landed[kind], landed'[kind]} \subseteq Int
         /\ counted(kind)' - landed'[kind] <= counted(kind) - landed[kind]
    BY <2>3
  <2> QED
    BY <2>1, <2>2, <2>4, <2>5, MeterKeeps DEF MeterInv
<1> QED
  BY <1>1, <1>2, <1>3, <1>4 DEF Lane

\* A write moves a count from memory to the table; one that fails loses it.
LEMMA WritesMeter ==
  ASSUME MeterInv, Types', NEW kind \in Management, WriteMeter(kind) \/ MeterFails(kind), setup' = setup
  PROVE  MeterTrue'
<1>1. /\ unwritten[kind] \in Nat /\ unwritten[kind] > 0 /\ flight' = flight /\ landed' = landed
      /\ \A k \in Management : unwritten'[k] = IF k = kind THEN unwritten[k] - 1 ELSE unwritten[k]
  BY DEF WriteMeter, MeterFails, MeterInv, Types, CountTypes, laneVars, chainVars
<1>2. \A k : answering(k)' = answering(k)
  BY <1>1, SameFlights
<1>3. \A k \in Management : /\ totals[k] \in Nat /\ unwritten[k] \in Nat /\ landed[k] \in Nat
                            /\ Cardinality(answering(k)) \in Nat
  BY AnsweringLanes, LanesAreFinite DEF MeterInv, Types, CountTypes
<1>4. \A k : /\ counted(k) = totals[k] + unwritten[k] + Cardinality(answering(k))
             /\ counted(k)' = totals'[k] + unwritten'[k] + Cardinality(answering(k))
  BY <1>2 DEF counted
<1>5. CASE WriteMeter(kind)
  <2>1. /\ faults' = faults
        /\ \A k \in Management : totals'[k] = IF k = kind THEN totals[k] + 1 ELSE totals[k]
    BY <1>5, OneMore DEF WriteMeter, MeterInv, Types, CountTypes
  <2>2. \A k \in Management : counted(k) \in Nat /\ counted(k)' = counted(k) /\ landed'[k] = landed[k] /\ landed[k] \in Nat
    BY <1>1, <1>3, <1>4, <2>1
  <2> QED
    BY <2>1, <2>2, MeterKeeps DEF MeterInv
<1>6. CASE MeterFails(kind)
  <2>1. totals' = totals /\ faults' = faults + 1 /\ faults' > 0
    BY <1>6 DEF MeterFails, MeterInv, Types, CountTypes
  <2>2. \A k \in Management :
         /\ {counted(k), counted(k)', landed[k], landed'[k]} \subseteq Int
         /\ counted(k)' - landed'[k] <= counted(k) - landed[k]
    BY <1>1, <1>3, <1>4, <2>1
  <2> QED
    BY <2>1, <2>2, MeterKeeps DEF MeterInv
<1> QED
  BY <1>5, <1>6

\* --clean wipes the table; the chain keeps what it has.
LEMMA StartMeters ==
  ASSUME MeterInv, Types', Start
  PROVE  MeterTrue'
<1>1. CASE ~setup.clean
  BY <1>1, MeterFrame, SameFlights DEF Start, MeterInv, meterVars, laneVars, chainVars
<1>2. CASE setup.clean
  <2>1. totals' = none /\ UNCHANGED <<setup, unwritten, landed, flight, faults>>
    BY <1>2 DEF Start, laneVars, chainVars
  <2>2. \A k : answering(k)' = answering(k)
    BY <2>1, SameFlights
  <2>3. \A k \in Management : /\ totals[k] \in Nat /\ unwritten[k] \in Nat /\ landed[k] \in Nat
                              /\ Cardinality(answering(k)) \in Nat /\ totals'[k] = 0
    BY <2>1, AnsweringLanes, LanesAreFinite DEF MeterInv, Types, CountTypes, none
  <2>4. \A k : /\ counted(k) = totals[k] + unwritten[k] + Cardinality(answering(k))
               /\ counted(k)' = totals'[k] + unwritten[k] + Cardinality(answering(k))
    BY <2>1, <2>2 DEF counted
  <2>5. \A k \in Management :
         /\ {counted(k), counted(k)', landed[k], landed'[k]} \subseteq Int
         /\ counted(k)' - landed'[k] <= counted(k) - landed[k]
    BY <2>1, <2>3, <2>4
  <2> QED
    BY <1>2, <2>1, <2>5, MeterKeeps DEF MeterInv
<1> QED
  BY <1>1, <1>2

LEMMA LossesKeep ==
  ASSUME MeterInv, [Next]_vars
  PROVE  /\ LossesCounted'
         /\ faults' \in {faults, faults + 1}
         /\ Stop \/ Crash \/ (\E c \in Clients : WasmExit(c)) => faults' > 0
<1>1. faults \in Nat /\ LossesCounted
  BY DEF MeterInv, Types, CountTypes
<1>2. ASSUME adrift' \subseteq adrift, poisoned' => poisoned, life' = "stopping" => life = "stopping",
             faults' = faults
      PROVE  LossesCounted' /\ faults' \in {faults, faults + 1}
  BY <1>1, <1>2 DEF LossesCounted
<1>3. ASSUME faults' = faults + 1
      PROVE  LossesCounted' /\ faults' \in {faults, faults + 1} /\ faults' > 0
  BY <1>1, <1>3 DEF LossesCounted
<1>4. ASSUME Boot
      PROVE  LossesCounted' /\ faults' \in {faults, faults + 1}
  BY <1>2, <1>4 DEF Boot, Start, Refused, Serve, Throws, Run, exits, upkeepVars, chainVars, wasmVars,
                    Stop, Crash, WasmExit
<1>5. ASSUME Signal \/ Crash
      PROVE  LossesCounted' /\ faults' \in {faults, faults + 1}
  BY <1>3, <1>5 DEF Signal, Crash
<1>6. ASSUME Stop
      PROVE  LossesCounted' /\ faults' \in {faults, faults + 1}
  <2>1. life = "stopping" /\ faults' = faults
    BY <1>6 DEF Stop
  <2> QED
    BY <1>1, <2>1 DEF LossesCounted
<1>7. ASSUME NEW c \in Clients, WasmExit(c)
      PROVE  LossesCounted' /\ faults' = faults /\ faults > 0
  <2>1. poisoned /\ faults' = faults
    BY <1>7 DEF WasmExit
  <2> QED
    BY <1>1, <2>1 DEF LossesCounted
<1>8. ASSUME NEW c \in Clients, Intents(c) \/ Lane(c)
      PROVE  LossesCounted' /\ faults' = faults
  <2>1. adrift' = adrift /\ (poisoned' => poisoned) /\ life' = life /\ faults' = faults
    BY <1>8 DEF Intents, Request, Lane, Build, Refuse, Trap, Confirm, Outrun, processUnchanged, chainVars, wasmVars
  <2> QED
    BY <1>1, <1>2, <2>1
<1>9. ASSUME NEW c \in Clients, Chain(c)
      PROVE  LossesCounted' /\ faults' = faults
  <2>1. adrift' \subseteq adrift /\ poisoned' = poisoned /\ life' = life /\ faults' = faults
    BY <1>9 DEF Chain, Land, lands, processUnchanged, wasmVars
  <2> QED
    BY <1>1, <1>2, <2>1
<1>10. ASSUME NEW p \in 1 .. Passes, Pass(p) \/ Timer(p)
       PROVE  LossesCounted' /\ faults' = faults
  <2>1. adrift' = adrift /\ poisoned' = poisoned /\ life' = life /\ faults' = faults
    BY <1>10 DEF Pass, Timer, Tick, Read, Decide, processUnchanged, chainVars, wasmVars
  <2> QED
    BY SMTT(60), <1>1, <1>2, <2>1
<1>11. ASSUME Meter
       PROVE  LossesCounted' /\ faults' \in {faults, faults + 1}
  <2>1. adrift' = adrift /\ poisoned' = poisoned /\ life' = life /\ faults' = faults
    BY <1>11 DEF Meter, WriteMeter, processUnchanged, chainVars, wasmVars
  <2> QED
    BY <1>1, <1>2, <2>1
<1>12. ASSUME Faults
       PROVE  LossesCounted' /\ faults' \in {faults, faults + 1}
  BY <1>3, <1>12 DEF Faults, ReadFails, Fail, LoseAnswer, MeterFails, Poison
<1>13. ASSUME Outside
       PROVE  LossesCounted' /\ faults' \in {faults, faults + 1}
  <2>1. adrift' \subseteq adrift /\ poisoned' = poisoned /\ life' = life /\ faults' = faults
    BY <1>13 DEF Outside, LandAdrift, lands, Expire, PayIn, processUnchanged, wasmVars
  <2> QED
    BY <1>1, <1>2, <2>1
<1>14. ASSUME UNCHANGED vars
       PROVE  LossesCounted' /\ faults' \in {faults, faults + 1}
  BY <1>1, <1>2, <1>14 DEF vars, upkeepVars, chainVars, wasmVars
<1>15. LossesCounted' /\ faults' \in {faults, faults + 1}
  BY <1>4, <1>5, <1>6, <1>7, <1>8, <1>9, <1>10, <1>11, <1>12, <1>13, <1>14, <1>2, <1>3, <1>1
  DEF Next, Stop
<1>16. Stop \/ Crash \/ (\E c \in Clients : WasmExit(c)) => faults' > 0
  <2>1. CASE Stop
    <3>1. life = "stopping" /\ faults' = faults
      BY <2>1 DEF Stop
    <3> QED
      BY <1>1, <3>1 DEF LossesCounted
  <2>2. CASE Crash
    BY <1>3, <2>2 DEF Crash
  <2>3. CASE \E c \in Clients : WasmExit(c)
    BY <1>7, <2>3
  <2> QED
    BY <2>1, <2>2, <2>3
<1> QED
  BY <1>15, <1>16

LEMMA MeterInvKeeps == MeterInv /\ [Next]_vars => MeterInv'
<1> SUFFICES ASSUME MeterInv, [Next]_vars PROVE MeterInv'
  OBVIOUS
<1>1. Inv' /\ Types' /\ setup' = setup
  BY NextKeeps, TypesKeep, ConfigStays DEF MeterInv
<1>2. LossesCounted' /\ faults' \in {faults, faults + 1}
  BY LossesKeep
<1>3. ASSUME UNCHANGED <<queue, flight, meterVars, landed>> PROVE MeterTrue' /\ FlightKinds'
  BY <1>1, <1>2, <1>3, MeterFrame, SameFlights DEF MeterInv, FlightKinds, running
<1>4. ASSUME Boot
      PROVE  MeterTrue' /\ FlightKinds'
  <2>1. CASE Start
    BY <1>1, <2>1, StartMeters DEF Start, laneVars, MeterInv, FlightKinds, running
  <2>2. CASE Refused \/ Serve \/ Throws \/ Run
    <3>1. UNCHANGED <<queue, flight, meterVars, landed>>
      BY <2>2 DEF Refused, Serve, Throws, Run, upkeepVars, laneVars, chainVars
    <3> QED
      BY <1>3, <3>1
  <2> QED
    BY <1>4, <2>1, <2>2 DEF Boot
<1>5. ASSUME Signal
      PROVE  MeterTrue' /\ FlightKinds'
  BY <1>3, <1>5 DEF Signal, laneVars, chainVars
<1>6. ASSUME Stop \/ Crash \/ \E c \in Clients : WasmExit(c)
      PROVE  MeterTrue' /\ FlightKinds'
  <2>1. Forget
    BY <1>6 DEF Stop, Crash, WasmExit
  <2>2. faults' > 0
    BY <1>6, LossesKeep
  <2> QED
    BY <1>1, <1>2, <2>1, <2>2, ForgetMeters
<1>7. ASSUME NEW c \in Clients, Intents(c)
      PROVE  MeterTrue' /\ FlightKinds'
  <2>1. PICK n \in setup.batches[c] : Request(c, n)
    BY <1>7 DEF Intents
  <2>2. task("update", n) \in Seq(Task)
    BY <2>1, BatchTypes, TaskTypes DEF MeterInv, Types
  <2>3. FlightKinds'
    BY <2>1, <2>2, AppendKeepsKinds DEF Request, MeterInv
  <2>4. MeterTrue'
    BY <1>1, <1>2, <2>1, MeterFrame, SameFlights DEF Request, chainVars, MeterInv
  <2> QED
    BY <2>3, <2>4
<1>8. ASSUME NEW c \in Clients, Lane(c) \/ Fail(c) \/ LoseAnswer(c)
      PROVE  MeterTrue' /\ FlightKinds'
  BY <1>1, <1>8, LaneMeters
<1>9. ASSUME NEW c \in Clients, Chain(c)
      PROVE  MeterTrue' /\ FlightKinds'
  BY <1>1, <1>9, LandMeters DEF Chain
<1>10. ASSUME NEW p \in 1 .. Passes, Pass(p) \/ Timer(p) \/ ReadFails(p)
       PROVE  MeterTrue' /\ FlightKinds'
  <2>1. CASE Tick(p) \/ Read(p) \/ ReadFails(p)
    BY <1>3, <2>1 DEF Tick, Read, ReadFails, laneVars, chainVars
  <2>2. CASE Decide(p)
    <3> DEFINE c == Head(passes[p].left)
               tasks == enqueued(c, passes[p].seen)
    <3>1. c \in Clients
      BY <2>2 DEF Decide, MeterInv, Inv, Shapes, PassesOK, PassOK
    <3>2. tasks \in Seq(Task)
      BY <2>2, EnqueuedTypes DEF Decide, MeterInv, Types, PassTypes
    <3>3. queue' = [queue EXCEPT ![c] = @ \o tasks] /\ flight' = flight
      BY <2>2 DEF Decide
    <3> HIDE DEF c, tasks
    <3>4. FlightKinds'
      BY <3>1, <3>2, <3>3, AppendKeepsKinds DEF MeterInv
    <3>5. MeterTrue'
      BY <1>1, <1>2, <2>2, <3>3, MeterFrame, SameFlights DEF Decide, chainVars, MeterInv
    <3> QED
      BY <3>4, <3>5
  <2> QED
    BY <1>10, <2>1, <2>2 DEF Pass, Timer
<1>11. ASSUME NEW kind \in Management, WriteMeter(kind) \/ MeterFails(kind)
       PROVE  MeterTrue' /\ FlightKinds'
  <2>1. UNCHANGED <<queue, flight>>
    BY <1>11 DEF WriteMeter, MeterFails, laneVars
  <2>2. FlightKinds'
    BY <2>1 DEF MeterInv, FlightKinds, running
  <2> QED
    BY <1>1, <1>11, <2>2, WritesMeter
<1>12. ASSUME Poison \/ Expire \/ \E c \in Clients : PayIn(c)
       PROVE  MeterTrue' /\ FlightKinds'
  BY <1>3, <1>12 DEF Poison, Expire, PayIn, laneVars, chainVars
<1>13. ASSUME LandAdrift
       PROVE  MeterTrue' /\ FlightKinds'
  BY <1>1, <1>13, LandAdriftMeters
<1>14. ASSUME UNCHANGED vars
       PROVE  MeterTrue' /\ FlightKinds'
  BY <1>3, <1>14 DEF vars, upkeepVars, laneVars, chainVars
<1>15. MeterTrue' /\ FlightKinds'
  BY <1>4, <1>5, <1>6, <1>7, <1>8, <1>9, <1>10, <1>11, <1>12, <1>13, <1>14
  DEF Next, Meter, Faults, Outside
<1> QED
  BY <1>1, <1>2, <1>15 DEF MeterInv

\* The totals never count a management transaction the chain does not have, and
\* without a failure or a wiped database they miss only those whose answer or
\* write is under way, for any number of lanes, passes and restarts.
THEOREM MeterIsTrue == Spec => []MeterTrue
<1>1. Init => MeterInv
  BY InitMeter
<1>2. MeterInv /\ [Next]_vars => MeterInv'
  BY MeterInvKeeps
<1>3. MeterInv => MeterTrue
  BY DEF MeterInv
<1> QED
  BY <1>1, <1>2, <1>3, PTL DEF Spec
=============================================================================
