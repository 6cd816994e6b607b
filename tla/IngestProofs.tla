---------------------------- MODULE IngestProofs ----------------------------
(***************************************************************************)
(* With the HTTP scanner alone, in sequential mode, the checkpoint covers  *)
(* what it says, whatever the confirmations, the range sizes, the capacity *)
(* of the dedup cache and the number of faults.                            *)
(*                                                                         *)
(* The property is not inductive: that Save may move the checkpoint        *)
(* depends on what happened to every block of the range since it was       *)
(* chosen.  The invariant follows a block from the chain into the range    *)
(* read (todo), into the call that handles it (calls), and out of both     *)
(* into handled; a duplicate is dropped because the dedup cache holds only *)
(* logs that were handled or are being handled.                            *)
(*                                                                         *)
(* In every mode, an intent is handled once until it is evicted, and the   *)
(* pool keeps its limits: the dedup cache is the tail of what was handled  *)
(* last, and calls that time out only give room back.                      *)
(***************************************************************************)
EXTENDS Ingest, TLAPS, SequenceTheorems, FiniteSetTheorems

Sequential == ~mode.ws /\ ~mode.parallel

\* The types the proof needs.  Lengths and the pool's queue play no part.
Typed ==
  /\ blocks \in Seq(Contents) /\ top \in Nat /\ Len(blocks) <= top
  /\ checkpoint \in Heights
  /\ http \in Scanner
  /\ dedup \in Seq(Logs)
  /\ calls \subseteq Calls

\* Only the HTTP scanner works, on one call at a time, which it awaits.
OnlyHttp ==
  /\ queue = <<>> /\ pushed = {}
  /\ \A c \in calls : c.by = "http"
  /\ \A c, d \in calls : c = d
  /\ http.step # "await" => calls = {}

Scanning == http.step # "poll"
Confirmed(height) == height = 0 \/ height + Confirmations <= top

\* What is scanned, or chosen to be, had its confirmations once; as long as no
\* deep reorganisation happened, it is still there.
Grounded ==
  /\ http.cursor <= checkpoint + 1
  /\ Confirmed(checkpoint) /\ (Scanning => Confirmed(http.rangeEnd))
  /\ reorg = "none" =>
       /\ checkpoint <= Len(blocks)
       /\ Scanning => http.rangeEnd <= Len(blocks)

BeingHandled(l) == \E c \in calls : c.log = l
Pending(l) == \E k \in DOMAIN http.todo : http.todo[k] = l

\* A log in the dedup cache was handled or is being handled.
DedupSound == \A k \in DOMAIN dedup : dedup[k] \in handled \/ BeingHandled(dedup[k])

\* No block of the range that was read is lost on its way.
RangeFollowed ==
  reorg = "none" /\ http.step \in {"deliver", "await", "save"} =>
    /\ \A n \in DOMAIN blocks :
         http.cursor <= n /\ n <= http.rangeEnd =>
           \/ blocks[n] = NoLog \/ blocks[n] \in handled
           \/ BeingHandled(blocks[n]) \/ Pending(blocks[n])
    /\ http.step = "save" => http.todo = <<>>

\* CheckpointCovers, for a chain that is as long as the checkpoint says.
Covered ==
  reorg = "none" =>
    \A n \in DOMAIN blocks :
      n <= checkpoint /\ blocks[n] # NoLog => blocks[n] \in handled

ScanInv == Typed /\ OnlyHttp /\ Grounded /\ DedupSound /\ RangeFollowed /\ Covered
SequentialInv == Sequential => ScanInv

-----------------------------------------------------------------------------

\* What the rest needs of sequences: an element of one has its type, and Tail
\* moves the others down.
LEMMA Elements ==
  ASSUME NEW S, NEW s \in Seq(S)
  PROVE  /\ Len(s) \in Nat /\ DOMAIN s = 1 .. Len(s)
         /\ \A k \in DOMAIN s : s[k] \in S
BY LenProperties, ElementOfSeq

LEMMA Dropping ==
  ASSUME NEW S, NEW s \in Seq(S), s # <<>>
  PROVE  /\ Head(s) \in S /\ Tail(s) \in Seq(S)
         /\ \A k \in DOMAIN s :
              s[k] = Head(s) \/ \E j \in DOMAIN Tail(s) : Tail(s)[j] = s[k]
         /\ \A j \in DOMAIN Tail(s) : \E k \in DOMAIN s : Tail(s)[j] = s[k]
<1>1. Len(s) \in Nat \ {0} /\ DOMAIN s = 1 .. Len(s)
  BY Elements, EmptySeq
<1>2. /\ Tail(s) \in Seq(S) /\ Len(Tail(s)) = Len(s) - 1
      /\ \A i \in 1 .. Len(Tail(s)) : Tail(s)[i] = s[i + 1]
  BY HeadTailProperties
<1>3. DOMAIN Tail(s) = 1 .. Len(s) - 1
  BY <1>2, LenProperties
<1>4. Head(s) = s[1] /\ Head(s) \in S
  BY <1>1, HeadTailProperties
<1>5. ASSUME NEW k \in DOMAIN s
      PROVE  s[k] = Head(s) \/ \E j \in DOMAIN Tail(s) : Tail(s)[j] = s[k]
  <2>1. CASE k = 1
    BY <2>1, <1>4
  <2>2. CASE k # 1
    <3>1. k - 1 \in DOMAIN Tail(s) /\ Tail(s)[k - 1] = s[k]
      BY <2>2, <1>1, <1>2, <1>3
    <3> QED
      BY <3>1
  <2> QED
    BY <2>1, <2>2
<1>6. ASSUME NEW j \in DOMAIN Tail(s)
      PROVE  \E k \in DOMAIN s : Tail(s)[j] = s[k]
  <2>1. j + 1 \in DOMAIN s /\ Tail(s)[j] = s[j + 1]
    BY <1>1, <1>2, <1>3
  <2> QED
    BY <2>1
<1> QED
  BY <1>2, <1>4, <1>5, <1>6

LEMMA Appending ==
  ASSUME NEW S, NEW s \in Seq(S), NEW e \in S
  PROVE  /\ Append(s, e) \in Seq(S) /\ Len(Append(s, e)) = Len(s) + 1
         /\ DOMAIN Append(s, e) = 1 .. Len(s) + 1
         /\ \A k \in DOMAIN s : Append(s, e)[k] = s[k]
         /\ Append(s, e)[Len(s) + 1] = e
         /\ \A k \in DOMAIN Append(s, e) : k \in DOMAIN s \/ k = Len(s) + 1
<1>1. Len(s) \in Nat /\ DOMAIN s = 1 .. Len(s)
  BY Elements
<1>2. Append(s, e) \in Seq(S) /\ Len(Append(s, e)) = Len(s) + 1
  BY AppendProperties
<1>3. DOMAIN Append(s, e) = 1 .. Len(s) + 1
  BY <1>2, LenProperties
<1> QED
  BY <1>1, <1>2, <1>3, AppendProperties

LEMMA Numbers ==
  ASSUME Typed
  PROVE  /\ {http.cursor, http.rangeEnd, http.highWaterHead} \subseteq Nat
         /\ checkpoint \in Nat /\ top \in Nat /\ Len(blocks) \in Nat
         /\ Confirmations \in Nat /\ BlockRange \in Nat \ {0} /\ BackfillRange \in Nat \ {0}
<1>1. Len(blocks) \in Nat
  BY Elements DEF Typed
<1>2. Confirmations \in Nat /\ BlockRange \in Nat \ {0} /\ BackfillRange \in Nat \ {0}
  BY IngestParameters
<1> QED
  BY <1>1, <1>2 DEF Typed, Scanner, Heights

-----------------------------------------------------------------------------
(* DIA's chain *)

LEMMA MineKeeps ==
  ASSUME Sequential, ScanInv, Mine
  PROVE  ScanInv'
<1> USE DEF ScanInv
<1>1. PICK content \in Contents : blocks' = Append(blocks, content) /\ top' = larger(top, Len(blocks) + 1)
  BY DEF Mine
<1>2. UNCHANGED <<mode, reorg, checkpoint, http, dedup, queue, calls, handled, pushed>>
  BY DEF Mine, Sequential, historyVars
<1>3. /\ blocks' \in Seq(Contents) /\ Len(blocks') = Len(blocks) + 1
      /\ Len(blocks) \in Nat
      /\ DOMAIN blocks = 1 .. Len(blocks)
      /\ DOMAIN blocks' = 1 .. Len(blocks) + 1
      /\ \A n \in DOMAIN blocks : blocks'[n] = blocks[n]
  BY <1>1, Appending, Elements DEF Typed
<1>4. Typed'
  BY <1>1, <1>2, <1>3 DEF Typed, larger
<1>5. OnlyHttp' /\ DedupSound'
  BY <1>2 DEF OnlyHttp, DedupSound, BeingHandled
<1>6. Grounded'
  <2>1. top <= top'
    BY <1>1, <1>3, Numbers DEF larger
  <2>2. top' \in Nat
    BY <1>4 DEF Typed
  <2>3. Confirmed(checkpoint)' /\ (Scanning => Confirmed(http.rangeEnd)')
    BY SMTT(60), <1>2, <2>1, <2>2, Numbers DEF Grounded, Confirmed
  <2> QED
    BY <1>2, <1>3, <2>3, Numbers DEF Grounded, Scanning
<1>7. RangeFollowed'
  <2>1. reorg = "none" /\ http.step \in {"deliver", "await", "save"} => http.rangeEnd <= Len(blocks)
    BY DEF Grounded, Scanning
  <2> QED
    BY SMTT(60), <1>2, <1>3, <2>1, Numbers DEF RangeFollowed, BeingHandled, Pending
<1>8. Covered'
  BY <1>2, <1>3 DEF Covered, Grounded, Typed, Heights
<1> QED
  BY <1>4, <1>5, <1>6, <1>7, <1>8

LEMMA ReorganiseKeeps ==
  ASSUME Sequential, ScanInv, Reorganise
  PROVE  ScanInv'
<1> USE DEF ScanInv
<1>1. PICK height \in 0 .. Len(blocks) - 1 :
        /\ blocks' = SubSeq(blocks, 1, height)
        /\ reorg' = IF height < scanned /\ height + Confirmations < top THEN "hidden" ELSE reorg
  BY DEF Reorganise
<1>2. UNCHANGED <<mode, top, checkpoint, http, dedup, queue, calls, handled, pushed>>
  BY DEF Reorganise, historyVars
<1>3. /\ Len(blocks) \in Nat /\ DOMAIN blocks = 1 .. Len(blocks)
      /\ \A n \in DOMAIN blocks : blocks[n] \in Contents
  BY Elements DEF Typed
<1>4. height \in Nat /\ height < Len(blocks)
  BY <1>3
<1>5. /\ blocks' \in Seq(Contents) /\ Len(blocks') = height
      /\ \A n \in 1 .. height : blocks'[n] = blocks[n]
  <2>1. \A n \in 1 .. height : blocks[n] \in Contents
    BY <1>3, <1>4
  <2> QED
    BY <1>1, <1>4, <2>1, SubSeqProperties
<1>6. DOMAIN blocks' = 1 .. height
  BY <1>5, LenProperties
<1>7. reorg' = "none" =>
        /\ reorg = "none" /\ checkpoint <= height
        /\ Scanning => http.rangeEnd <= height
  <2>1. SUFFICES ASSUME reorg' = "none"
                 PROVE  /\ reorg = "none" /\ checkpoint <= height
                        /\ Scanning => http.rangeEnd <= height
    OBVIOUS
  <2>2. reorg = "none" /\ (scanned <= height \/ top <= height + Confirmations)
    <3>1. ~(height < scanned /\ height + Confirmations < top) /\ reorg = "none"
      BY <1>1, <2>1
    <3>2. scanned \in Int
      BY Numbers DEF scanned, larger
    <3> QED
      BY <1>4, <3>1, <3>2, Numbers
  <2>3. checkpoint <= scanned /\ (Scanning => http.rangeEnd <= scanned)
    BY SMTT(60), Numbers DEF scanned, larger, Scanning
  <2>4. CASE scanned <= height
    <3>1. scanned \in Int
      BY Numbers DEF scanned, larger
    <3> QED
      BY SMTT(60), <1>4, <2>2, <2>3, <2>4, <3>1, Numbers
  <2>5. CASE top <= height + Confirmations
    BY SMTT(60), <1>4, <2>2, <2>5, Numbers DEF Grounded, Confirmed
  <2> QED
    BY <2>2, <2>4, <2>5
<1>8. Typed'
  BY <1>2, <1>4, <1>5 DEF Typed
<1>9. OnlyHttp' /\ DedupSound'
  BY <1>2 DEF OnlyHttp, DedupSound, BeingHandled
<1>10. Grounded'
  BY <1>2, <1>5, <1>7 DEF Grounded, Confirmed, Scanning
<1>11. RangeFollowed'
  BY <1>2, <1>3, <1>4, <1>5, <1>6, <1>7 DEF RangeFollowed, BeingHandled, Pending
<1>12. Covered'
  BY <1>2, <1>3, <1>4, <1>5, <1>6, <1>7 DEF Covered
<1> QED
  BY <1>8, <1>9, <1>10, <1>11, <1>12

-----------------------------------------------------------------------------
(* The HTTP scanner *)

LEMMA PollKeeps ==
  ASSUME Sequential, ScanInv, Poll
  PROVE  ScanInv'
<1> USE DEF ScanInv
<1> DEFINE head == Len(blocks)
           finalizedHead == IF head > Confirmations THEN head - Confirmations ELSE 0
<1>1. UNCHANGED <<blocks, top, mode, checkpoint, dedup, queue, calls, handled, pushed>>
  BY DEF Poll, sourceVars, historyVars
<1>2. head \in Nat
  BY Elements DEF Typed
<1>3. http.cursor \in Nat /\ http.highWaterHead \in Nat /\ http.todo \in Seq(Contents)
  BY DEF Typed, Scanner, Heights
<1>4. finalizedHead \in Nat /\ finalizedHead <= head /\ Confirmed(finalizedHead)
  BY <1>2, Numbers DEF Typed, Confirmed
<1>5. PICK cursor \in Nat, rangeEnd \in Nat, highWaterHead \in Nat, step \in {"poll", "fetch"} :
        /\ http' = [http EXCEPT !.cursor = cursor, !.highWaterHead = highWaterHead,
                                !.step = step, !.rangeEnd = rangeEnd]
        /\ cursor <= http.cursor /\ (step = "fetch" => rangeEnd <= finalizedHead)
  <2> DEFINE target == IF finalizedHead > BlockRange THEN finalizedHead - BlockRange ELSE 0
             rewinds == /\ head + Confirmations < http.highWaterHead
                        /\ http.cursor > finalizedHead /\ target < http.cursor
             cursor == IF rewinds THEN target ELSE http.cursor
             chunk == IF finalizedHead - cursor > MaxBlockGap THEN BackfillRange ELSE BlockRange
             rangeEnd == smaller(cursor + chunk - 1, finalizedHead)
             highWaterHead == IF head > http.highWaterHead THEN head ELSE http.highWaterHead
             step == IF cursor > finalizedHead THEN "poll" ELSE "fetch"
  <2>1. cursor \in Nat /\ cursor <= http.cursor
    <3> HIDE DEF finalizedHead
    <3> QED
      BY SMTT(60), <1>3, <1>4, Numbers
  <2>2. chunk \in Nat \ {0}
    BY Numbers
  <2>3. rangeEnd \in Nat /\ rangeEnd <= finalizedHead
    <3> HIDE DEF cursor, chunk, finalizedHead
    <3> QED
      BY <1>4, <2>1, <2>2 DEF smaller
  <2>4. highWaterHead \in Nat
    BY <1>2, <1>3
  <2>5. http' = [http EXCEPT !.cursor = cursor, !.highWaterHead = highWaterHead,
                             !.step = step, !.rangeEnd = rangeEnd]
    BY DEF Poll, Typed, Scanner
  <2> HIDE DEF cursor, rangeEnd, highWaterHead
  <2> QED
    BY <2>1, <2>3, <2>4, <2>5
<1>6. /\ http' \in Scanner /\ http'.cursor = cursor /\ http'.rangeEnd = rangeEnd
      /\ http'.step = step
  BY <1>5 DEF Typed, Scanner, Heights
<1>7. http.step = "poll"
  BY DEF Poll
<1>8. Typed'
  BY <1>1, <1>6 DEF Typed
<1>9. OnlyHttp' /\ DedupSound'
  BY <1>1, <1>5, <1>6, <1>7 DEF OnlyHttp, DedupSound, BeingHandled
<1>10. reorg' = "none" => reorg = "none"
  BY DEF Poll
<1>11. Grounded'
  <2> HIDE DEF finalizedHead
  <2>1. cursor <= checkpoint + 1
    BY <1>3, <1>5 DEF Grounded, Typed, Heights
  <2>2. step = "fetch" => Confirmed(rangeEnd) /\ rangeEnd <= head
    BY SMTT(60), <1>2, <1>4, <1>5, Numbers DEF Confirmed
  <2> QED
    BY <1>1, <1>5, <1>6, <1>10, <2>1, <2>2 DEF Grounded, Confirmed, Scanning
<1>12. RangeFollowed'
  BY <1>5, <1>6 DEF RangeFollowed
<1>13. Covered'
  BY <1>1, <1>10 DEF Covered
<1> QED
  BY <1>8, <1>9, <1>11, <1>12, <1>13

LEMMA FetchKeeps ==
  ASSUME Sequential, ScanInv, Fetch
  PROVE  ScanInv'
<1> USE DEF ScanInv
<1> DEFINE first == IF http.cursor = 0 THEN 1 ELSE http.cursor
           last == smaller(http.rangeEnd, Len(blocks))
<1>1. UNCHANGED <<blocks, top, mode, checkpoint, reorg, dedup, queue, calls, handled, pushed>>
  BY DEF Fetch, sourceVars, historyVars
<1>2. /\ Len(blocks) \in Nat /\ DOMAIN blocks = 1 .. Len(blocks)
      /\ \A n \in DOMAIN blocks : blocks[n] \in Contents
  BY Elements DEF Typed
<1>3. first \in Nat \ {0} /\ last \in Nat /\ last <= Len(blocks)
  BY <1>2 DEF Typed, Scanner, Heights, smaller
<1>4. /\ read \in Seq(Contents)
      /\ Len(read) = IF first <= last THEN last - first + 1 ELSE 0
      /\ \A i \in 1 .. last - first + 1 : read[i] = blocks[first + i - 1]
  <2>1. \A i \in first .. last : blocks[i] \in Contents
    BY <1>2, <1>3
  <2>2. read = SubSeq(blocks, first, last)
    BY DEF read
  <2> HIDE DEF first, last
  <2> QED
    BY <1>3, <2>1, <2>2, SubSeqProperties
<1>5. DOMAIN read = 1 .. Len(read)
  BY <1>4, LenProperties
<1>6. /\ http' = [http EXCEPT !.step = "deliver", !.todo = read]
      /\ http.step = "fetch"
  BY DEF Fetch
<1>7. /\ http' \in Scanner /\ http'.cursor = http.cursor /\ http'.rangeEnd = http.rangeEnd
      /\ http'.step = "deliver" /\ http'.todo = read
  BY <1>4, <1>6 DEF Typed, Scanner
<1>8. Typed'
  BY <1>1, <1>7 DEF Typed
<1>9. OnlyHttp' /\ DedupSound' /\ Grounded' /\ Covered'
  BY <1>1, <1>6, <1>7
     DEF OnlyHttp, DedupSound, BeingHandled, Grounded, Confirmed, Scanning, Covered
<1>10. RangeFollowed'
  <2>1. SUFFICES ASSUME reorg = "none", NEW n \in DOMAIN blocks,
                        http.cursor <= n, n <= http.rangeEnd
                 PROVE  \E k \in DOMAIN read : read[k] = blocks[n]
    BY <1>1, <1>7 DEF RangeFollowed, Pending
  <2>2. n \in Nat \ {0} /\ n \in first .. last
    BY <1>2, <1>3, <1>6, <2>1 DEF smaller, Typed, Scanner, Heights
  <2>3. n - first + 1 \in DOMAIN read /\ read[n - first + 1] = blocks[n]
    <3> HIDE DEF first, last
    <3> QED
      BY <1>3, <1>4, <1>5, <2>2
  <2> QED
    BY <2>3
<1> QED
  BY <1>8, <1>9, <1>10

LEMMA HandleNextKeeps ==
  ASSUME Sequential, ScanInv, HandleNext
  PROVE  ScanInv'
<1> USE DEF ScanInv
<1>1. UNCHANGED <<blocks, top, mode, checkpoint, reorg, queue, handled, pushed>>
  BY DEF HandleNext, sourceVars
<1>2. /\ http.step = "deliver" /\ http.todo # <<>> /\ http.todo \in Seq(Contents)
      /\ calls = {}
  BY DEF HandleNext, Typed, Scanner, OnlyHttp
<1> DEFINE next == Head(http.todo)
<1>3. /\ next \in Contents /\ Tail(http.todo) \in Seq(Contents)
      /\ \A k \in DOMAIN http.todo :
           http.todo[k] = next \/ \E j \in DOMAIN Tail(http.todo) : Tail(http.todo)[j] = http.todo[k]
  BY <1>2, Dropping
<1>4. CASE /\ next = NoLog \/ isDuplicate(next)
           /\ http' = [http EXCEPT !.todo = Tail(@)]
           /\ UNCHANGED <<dedup, calls>>
  <2>1. /\ http' \in Scanner /\ http'.cursor = http.cursor /\ http'.rangeEnd = http.rangeEnd
        /\ http'.step = "deliver" /\ http'.todo = Tail(http.todo)
    BY <1>2, <1>3, <1>4 DEF Typed, Scanner
  <2>2. Typed' /\ OnlyHttp' /\ DedupSound' /\ Grounded' /\ Covered'
    BY <1>1, <1>2, <1>4, <2>1
       DEF Typed, OnlyHttp, DedupSound, BeingHandled, Grounded, Confirmed, Scanning, Covered
  <2>3. next = NoLog \/ next \in handled
    BY <1>2, <1>4 DEF DedupSound, BeingHandled, isDuplicate
  <2>4. ASSUME NEW n \in DOMAIN blocks, Pending(blocks[n])
        PROVE  blocks[n] = NoLog \/ blocks[n] \in handled \/ Pending(blocks[n])'
    <3>1. PICK k \in DOMAIN http.todo : http.todo[k] = blocks[n]
      BY <2>4 DEF Pending
    <3>2. blocks' = blocks
      BY <1>1
    <3> HIDE DEF next
    <3> QED
      BY <1>3, <2>1, <2>3, <3>1, <3>2 DEF Pending
  <2>5. RangeFollowed'
    BY <1>1, <1>2, <1>4, <2>1, <2>4 DEF RangeFollowed, BeingHandled
  <2> QED
    BY <2>2, <2>5
<1>5. CASE /\ next # NoLog /\ ~isDuplicate(next)
           /\ add(next, "http")
           /\ http' = [http EXCEPT !.todo = Tail(@), !.step = "await"]
  <2>1. /\ http' \in Scanner /\ http'.cursor = http.cursor /\ http'.rangeEnd = http.rangeEnd
        /\ http'.step = "await" /\ http'.todo = Tail(http.todo)
    BY <1>2, <1>3, <1>5 DEF Typed, Scanner
  <2>2. next \in Logs
    BY <1>3, <1>5 DEF Contents
  <2>3. calls' = {[log |-> next, by |-> "http"]}
    BY <1>2, <1>5 DEF add
  <2>4. calls' \subseteq Calls
    BY <2>2, <2>3 DEF Calls, Callers
  <2> DEFINE kept == IF Len(dedup) >= DedupCapacity THEN Tail(dedup) ELSE dedup
  <2>5. dedup' = Append(kept, next)
    BY <1>5 DEF add
  <2>6. kept \in Seq(Logs) /\ \A k \in DOMAIN kept : \E j \in DOMAIN dedup : kept[k] = dedup[j]
    <3>1. dedup \in Seq(Logs) /\ Len(dedup) \in Nat
      BY Elements DEF Typed
    <3>2. CASE Len(dedup) >= DedupCapacity
      <4>1. dedup # <<>>
        BY <3>1, <3>2, IngestParameters, EmptySeq
      <4> QED
        BY <3>1, <3>2, <4>1, Dropping
    <3>3. CASE ~(Len(dedup) >= DedupCapacity)
      BY <3>1, <3>3
    <3> QED
      BY <3>2, <3>3
  <2>7. /\ dedup' \in Seq(Logs)
        /\ \A k \in DOMAIN dedup' : dedup'[k] = next \/ \E j \in DOMAIN dedup : dedup'[k] = dedup[j]
    <3> HIDE DEF next, kept
    <3> QED
      BY <2>2, <2>5, <2>6, Appending
  <2>8. Typed' /\ OnlyHttp' /\ Grounded' /\ Covered'
    BY <1>1, <1>2, <2>1, <2>3, <2>4, <2>7
       DEF Typed, OnlyHttp, Grounded, Confirmed, Scanning, Covered
  <2>9. DedupSound'
    BY <1>1, <1>2, <2>3, <2>7 DEF DedupSound, BeingHandled
  <2>10. ASSUME NEW n \in DOMAIN blocks, Pending(blocks[n])
         PROVE  BeingHandled(blocks[n])' \/ Pending(blocks[n])'
    <3>1. PICK k \in DOMAIN http.todo : http.todo[k] = blocks[n]
      BY <2>10 DEF Pending
    <3>2. blocks' = blocks
      BY <1>1
    <3> HIDE DEF next
    <3> QED
      BY <1>3, <2>1, <2>3, <3>1, <3>2 DEF Pending, BeingHandled
  <2>11. RangeFollowed'
    BY <1>1, <1>2, <2>1, <2>10 DEF RangeFollowed, BeingHandled
  <2> QED
    BY <2>8, <2>9, <2>11
<1> QED
  BY <1>4, <1>5 DEF HandleNext

LEMMA BatchHandledKeeps ==
  ASSUME Sequential, ScanInv, BatchHandled
  PROVE  ScanInv'
<1> USE DEF ScanInv
<1>1. UNCHANGED <<blocks, top, mode, checkpoint, reorg, dedup, queue, calls, handled, pushed>>
  BY DEF BatchHandled, sourceVars, historyVars
<1>2. http.step = "deliver" /\ http.todo = <<>> /\ http' = [http EXCEPT !.step = "save"]
  BY DEF BatchHandled
<1>3. /\ http' \in Scanner /\ http'.cursor = http.cursor /\ http'.rangeEnd = http.rangeEnd
      /\ http'.step = "save" /\ http'.todo = http.todo
  BY <1>2 DEF Typed, Scanner
<1>4. Typed' /\ OnlyHttp' /\ DedupSound' /\ Grounded' /\ Covered'
  BY <1>1, <1>2, <1>3
     DEF Typed, OnlyHttp, DedupSound, BeingHandled, Grounded, Confirmed, Scanning, Covered
<1>5. RangeFollowed'
  BY <1>1, <1>2, <1>3 DEF RangeFollowed, BeingHandled, Pending
<1> QED
  BY <1>4, <1>5

\* The step the invariant is for: every block up to the new checkpoint is below
\* the range, and was covered, or in it, and then neither in todo nor in a call.
LEMMA SaveKeeps ==
  ASSUME Sequential, ScanInv, Save
  PROVE  ScanInv'
<1> USE DEF ScanInv
<1>1. UNCHANGED <<blocks, top, mode, reorg, dedup, queue, calls, handled, pushed>>
  BY DEF Save, sourceVars, historyVars
<1>2. /\ http.step = "save" /\ checkpoint' = http.rangeEnd
      /\ http' = [http EXCEPT !.step = "poll", !.cursor = http.rangeEnd + 1]
  BY DEF Save
<1>3. http.rangeEnd \in Nat /\ http.cursor \in Nat /\ checkpoint \in Nat
  BY Numbers
<1>4. /\ http' \in Scanner /\ http'.cursor = http.rangeEnd + 1 /\ http'.step = "poll"
  <2>1. http.rangeEnd + 1 \in Heights
    BY <1>3 DEF Heights
  <2> QED
    BY <1>2, <2>1 DEF Typed, Scanner
<1>5. Typed' /\ OnlyHttp' /\ DedupSound'
  <2>1. Typed'
    BY <1>1, <1>2, <1>3, <1>4 DEF Typed, Heights
  <2>2. OnlyHttp'
    BY <1>1, <1>2 DEF OnlyHttp
  <2>3. DedupSound'
    BY <1>1 DEF DedupSound, BeingHandled
  <2> QED
    BY <2>1, <2>2, <2>3
<1>6. Grounded'
  BY <1>1, <1>2, <1>3, <1>4 DEF Grounded, Confirmed, Scanning
<1>7. RangeFollowed'
  BY <1>4 DEF RangeFollowed
<1>8. Covered'
  <2>1. SUFFICES ASSUME reorg = "none", NEW n \in DOMAIN blocks,
                        n <= http.rangeEnd, blocks[n] # NoLog
                 PROVE  blocks[n] \in handled
    BY <1>1, <1>2 DEF Covered
  <2>2. n \in Nat
    BY Elements DEF Typed
  <2>3. CASE http.cursor <= n
    <3>1. \A l : ~BeingHandled(l) /\ ~Pending(l)
      <4>1. calls = {} /\ http.todo = <<>>
        BY <1>2, <2>1 DEF OnlyHttp, RangeFollowed
      <4> QED
        BY <4>1 DEF BeingHandled, Pending
    <3> QED
      BY <1>2, <2>1, <2>3, <3>1 DEF RangeFollowed
  <2>4. CASE ~(http.cursor <= n)
    <3>1. n <= checkpoint
      BY <1>3, <2>2, <2>4 DEF Grounded
    <3> QED
      BY <2>1, <3>1 DEF Covered
  <2> QED
    BY <2>3, <2>4
<1> QED
  BY <1>5, <1>6, <1>7, <1>8

-----------------------------------------------------------------------------
(* The end of a call, and of a life *)

\* However a call ends, its log counts as handled.
LEMMA CallEndKeeps ==
  ASSUME Sequential, ScanInv, NEW c \in calls, resume(c),
         handled' = handled \cup {c.log},
         UNCHANGED <<blocks, top, mode, checkpoint, reorg, dedup, queue>>
  PROVE  ScanInv'
<1> USE DEF ScanInv
<1>1. /\ c.by = "http" /\ calls' = {} /\ pushed' = {} /\ http.step = "await"
      /\ http' = [http EXCEPT !.step = "deliver"]
  BY DEF OnlyHttp, resume
<1>2. /\ http' \in Scanner /\ http'.cursor = http.cursor /\ http'.rangeEnd = http.rangeEnd
      /\ http'.step = "deliver" /\ http'.todo = http.todo
  BY <1>1 DEF Typed, Scanner
<1>3. \A l : BeingHandled(l) => l \in handled'
  BY DEF OnlyHttp, BeingHandled
<1>4. Typed' /\ OnlyHttp' /\ Grounded' /\ Covered'
  BY <1>1, <1>2 DEF Typed, OnlyHttp, Grounded, Confirmed, Scanning, Covered
<1>5. DedupSound'
  BY <1>3 DEF DedupSound
<1>6. RangeFollowed'
  BY <1>1, <1>2, <1>3 DEF RangeFollowed, Pending
<1> QED
  BY <1>4, <1>5, <1>6

LEMMA RestartKeeps ==
  ASSUME Sequential, ScanInv, Restart
  PROVE  ScanInv'
<1> USE DEF ScanInv
<1>1. UNCHANGED <<blocks, top, mode, checkpoint, reorg, handled>>
  BY DEF Restart, sourceVars
<1>2. http' = startAt(checkpoint) /\ pushed' = {} /\ dedup' = <<>> /\ queue' = <<>> /\ calls' = {}
  BY DEF Restart
<1>3. checkpoint \in Nat /\ <<>> \in Seq(Contents) /\ <<>> \in Seq(Logs)
  BY EmptySeq, Numbers
<1>4. http' \in Scanner /\ http'.cursor = checkpoint + 1 /\ http'.step = "poll"
  BY <1>2, <1>3 DEF startAt, Scanner, Heights
<1>5. Typed' /\ OnlyHttp' /\ Grounded' /\ RangeFollowed' /\ Covered'
  BY <1>1, <1>2, <1>3, <1>4
     DEF Typed, OnlyHttp, Grounded, Confirmed, Scanning, RangeFollowed, Covered
<1>6. DedupSound'
  BY <1>2 DEF DedupSound
<1> QED
  BY <1>5, <1>6

-----------------------------------------------------------------------------

LEMMA SequentialInvInit == Init => SequentialInv
<1> SUFFICES ASSUME Init
             PROVE  ScanInv
  BY DEF SequentialInv
<1>1. <<>> \in Seq(Contents) /\ <<>> \in Seq(Logs) /\ Len(<<>>) = 0
  BY EmptySeq
<1>2. http \in Scanner /\ http.step = "poll" /\ http.cursor = 1
  BY <1>1 DEF Init, startAt, Scanner, Heights
<1> QED
  BY <1>1, <1>2
     DEF Init, ScanInv, Typed, OnlyHttp, Grounded, Confirmed, Scanning, DedupSound,
         RangeFollowed, Covered, Heights

LEMMA SequentialInvStep == SequentialInv /\ [Next]_vars => SequentialInv'
<1> SUFFICES ASSUME SequentialInv, [Next]_vars, Sequential'
             PROVE  ScanInv'
  BY DEF SequentialInv
<1>1. mode' = mode
  BY DEF Next, vars, sourceVars, Mine, Reorganise, HttpStep, Poll, Fetch, HandleNext, SubmitBatch,
         BatchHandled, Save, WsStep, WsDeliver, WsSave, WorkerStarts, Accepts, Failure,
         EnrichmentFails, HandlingFails, TimesOut, Restart
<1>2. Sequential /\ ScanInv
  BY <1>1 DEF Sequential, SequentialInv
<1>3. ~SubmitBatch /\ ~WsStep /\ ~WorkerStarts /\ ~TimesOut /\ ~HandlingFails
  BY <1>2 DEF SubmitBatch, WsStep, WsDeliver, WsSave, WorkerStarts, TimesOut, HandlingFails,
              Sequential, ScanInv, OnlyHttp
<1>4. CASE Mine
  BY <1>2, <1>4, MineKeeps
<1>5. CASE Reorganise
  BY <1>2, <1>5, ReorganiseKeeps
<1>6. CASE HttpStep
  BY <1>2, <1>3, <1>6, PollKeeps, FetchKeeps, HandleNextKeeps, BatchHandledKeeps, SaveKeeps
     DEF HttpStep
<1>7. CASE Accepts \/ EnrichmentFails
  <2>1. PICK c \in calls : resume(c) /\ handled' = handled \cup {c.log}
    BY <1>7 DEF Accepts, EnrichmentFails
  <2>2. UNCHANGED <<blocks, top, mode, checkpoint, reorg, dedup, queue>>
    BY <1>7 DEF Accepts, EnrichmentFails, sourceVars
  <2> QED
    BY <1>2, <2>1, <2>2, CallEndKeeps
<1>8. CASE Restart
  BY <1>2, <1>8, RestartKeeps
<1>9. CASE UNCHANGED vars
  BY <1>2, <1>9
     DEF vars, sourceVars, historyVars, ScanInv, Typed, OnlyHttp, Grounded, Confirmed, Scanning,
         DedupSound, RangeFollowed, Covered, BeingHandled, Pending
<1> QED
  BY <1>3, <1>4, <1>5, <1>6, <1>7, <1>8, <1>9 DEF Next, Failure

LEMMA SequentialInvImplies == SequentialInv => CheckpointCovers
<1> SUFFICES ASSUME SequentialInv, Sequential, reorg = "none",
                    NEW n \in 1 .. smaller(checkpoint, Len(blocks)), blocks[n] # NoLog
             PROVE  blocks[n] \in handled
  BY DEF CheckpointCovers, Sequential
<1>1. ScanInv
  BY DEF SequentialInv
<1>2. n \in DOMAIN blocks /\ n <= checkpoint
  <2>1. DOMAIN blocks = 1 .. Len(blocks) /\ Len(blocks) \in Nat /\ checkpoint \in Nat
    BY <1>1, Elements DEF ScanInv, Typed, Heights
  <2> QED
    BY <2>1 DEF smaller
<1> QED
  BY <1>1, <1>2 DEF ScanInv, Covered

\* A restart, which begins after the checkpoint, misses no log of a chain whose
\* scanned blocks stay: runHttpScanner saves the end of a range only when every
\* log of it was handled, whatever failed, was scanned twice, was reorganised
\* before it was scanned, or was evicted from the dedup cache.
THEOREM CheckpointIsCovered == Spec => []CheckpointCovers
<1>1. Init => SequentialInv
  BY SequentialInvInit
<1>2. SequentialInv /\ [Next]_vars => SequentialInv'
  BY SequentialInvStep
<1>3. SequentialInv => CheckpointCovers
  BY SequentialInvImplies
<1> QED
  BY <1>1, <1>2, <1>3, PTL DEF Spec

-----------------------------------------------------------------------------
(* What the daemon remembers of the intents it handled *)

\* The pool is within its limits: what a free worker or the queue can take.
PoolOK ==
  /\ queue \in Seq(Logs) /\ calls \subseteq Calls /\ IsFiniteSet(calls)
  /\ Len(queue) + Workers <= QueueSize + WorkerCount

\* The dedup cache holds the last DedupCapacity intents handled, and none of the
\* last DedupCapacity + 1 was handled twice.
Memory ==
  /\ recent \in Seq(Logs) /\ Len(recent) <= DedupCapacity + 1
  /\ dedup = IF Len(recent) > DedupCapacity THEN Tail(recent) ELSE recent
  /\ \A p, q \in DOMAIN recent : recent[p] = recent[q] => p = q

ChainOK ==
  /\ mode \in Modes
  /\ blocks \in Seq(Contents) /\ Len(blocks) <= MaxBlocks /\ top \in Len(blocks) .. MaxBlocks
  /\ reorg \in {"none", "hidden", "seen"}
  /\ faults \in 0 .. MaxFaults /\ restarted \in BOOLEAN

ScannersOK == checkpoint \in Heights /\ http \in Scanner /\ pushed \subseteq Deliveries

IntakeInv == ChainOK /\ ScannersOK /\ PoolOK /\ Memory /\ handled \subseteq Logs

LEMMA Capacities ==
  /\ DedupCapacity \in Nat \ {0} /\ WorkerCount \in Nat \ {0} /\ QueueSize \in Nat \ {0}
  /\ MaxBlocks \in Nat /\ MaxFaults \in Nat
BY IngestParameters

LEMMA TailOfAppend ==
  ASSUME NEW S, NEW s \in Seq(S), NEW e \in S, s # <<>>
  PROVE  Tail(Append(s, e)) = Append(Tail(s), e)
<1>0. Len(s) \in Nat \ {0}
  BY Elements, EmptySeq
<1>1. /\ Len(s) \in Nat \ {0}
      /\ Tail(s) \in Seq(S) /\ Len(Tail(s)) = Len(s) - 1
      /\ \A i \in 1 .. Len(s) - 1 : Tail(s)[i] = s[i + 1]
  BY Elements, EmptySeq, HeadTailProperties
<1>2. /\ Append(s, e) \in Seq(S) /\ Len(Append(s, e)) = Len(s) + 1
      /\ \A i \in 1 .. Len(s) : Append(s, e)[i] = s[i]
      /\ Append(s, e)[Len(s) + 1] = e
  BY AppendProperties
<1>. DEFINE left == Tail(Append(s, e))
            right == Append(Tail(s), e)
<1>3. /\ left \in Seq(S) /\ Len(left) = Len(s)
      /\ \A i \in 1 .. Len(s) : left[i] = Append(s, e)[i + 1]
  <2>. DEFINE a == Append(s, e)
  <2>1. a \in Seq(S) /\ Len(a) = Len(s) + 1
    BY <1>2
  <2>2. a # <<>>
    BY <2>1, <1>1, EmptySeq
  <2>. HIDE DEF a
  <2>3. /\ Tail(a) \in Seq(S) /\ Len(Tail(a)) = Len(a) - 1
        /\ \A i \in 1 .. Len(Tail(a)) : Tail(a)[i] = a[i + 1]
    BY <2>1, <2>2, HeadTailProperties
  <2>. QED
    BY <2>1, <2>3, <1>1 DEF a
<1>4. /\ right \in Seq(S) /\ Len(right) = Len(s)
      /\ \A i \in 1 .. Len(s) - 1 : right[i] = s[i + 1]
      /\ right[Len(s)] = e
  <2>1. /\ right \in Seq(S) /\ Len(right) = Len(Tail(s)) + 1
        /\ \A i \in 1 .. Len(Tail(s)) : right[i] = Tail(s)[i]
        /\ right[Len(Tail(s)) + 1] = e
    BY <1>1, AppendProperties
  <2>. QED
    BY <2>1, <1>1
<1>5. \A i \in 1 .. Len(s) : left[i] = right[i]
  <2>. SUFFICES ASSUME NEW i \in 1 .. Len(s)
                PROVE  left[i] = right[i]
    OBVIOUS
  <2>1. left[i] = Append(s, e)[i + 1]
    BY <1>3
  <2>. HIDE DEF left, right
  <2>2. CASE i = Len(s)
    BY <2>1, <2>2, <1>2, <1>4
  <2>3. CASE i # Len(s)
    <3>1. i \in 1 .. Len(s) - 1 /\ i + 1 \in 1 .. Len(s)
      BY <2>3, <1>0
    <3>. QED
      BY <2>1, <3>1, <1>2, <1>4
  <2>. QED
    BY <2>2, <2>3
<1>. HIDE DEF left, right
<1>6. left = right
  BY <1>3, <1>4, <1>5, SeqEqual
<1>. QED
  BY <1>6 DEF left, right

\* The types of what the daemon remembers.
LEMMA Remembered ==
  ASSUME Memory
  PROVE  /\ dedup \in Seq(Logs) /\ Len(dedup) <= DedupCapacity
         /\ \A p, q \in DOMAIN dedup : dedup[p] = dedup[q] => p = q
<1>1. Len(recent) \in Nat /\ DOMAIN recent = 1 .. Len(recent)
  BY Elements DEF Memory
<1>a. Len(recent) <= DedupCapacity + 1
  BY DEF Memory
<1>2. CASE Len(recent) > DedupCapacity
  <2>1. recent # <<>> /\ dedup = Tail(recent)
    BY <1>1, <1>2, EmptySeq, Capacities DEF Memory
  <2>2. /\ dedup \in Seq(Logs) /\ Len(dedup) = Len(recent) - 1
        /\ \A i \in 1 .. Len(dedup) : dedup[i] = recent[i + 1]
    BY <2>1, HeadTailProperties DEF Memory
  <2>3. DOMAIN dedup = 1 .. Len(recent) - 1
    BY <2>2, LenProperties
  <2>4. ASSUME NEW p \in DOMAIN dedup, NEW q \in DOMAIN dedup, dedup[p] = dedup[q]
        PROVE  p = q
    <3>1. p \in Nat /\ q \in Nat /\ p + 1 \in DOMAIN recent /\ q + 1 \in DOMAIN recent
      BY <1>1, <2>3
    <3>2. recent[p + 1] = recent[q + 1]
      BY <2>2, <2>3, <2>4
    <3>3. p + 1 = q + 1
      BY <3>1, <3>2 DEF Memory
    <3>. QED
      BY <3>1, <3>3
  <2>5. Len(dedup) <= DedupCapacity
    BY <2>2, <1>1, <1>a, Capacities
  <2>. QED
    BY <2>2, <2>4, <2>5
<1>3. CASE ~(Len(recent) > DedupCapacity)
  BY <1>1, <1>3, Capacities DEF Memory
<1>. QED
  BY <1>2, <1>3

\* processOneEvent remembers an intent that it does not know, and no other.
LEMMA AddKeepsMemory ==
  ASSUME Memory, NEW l \in Logs, NEW caller, add(l, caller), ~isDuplicate(l)
  PROVE  Memory'
<1>1. /\ dedup \in Seq(Logs) /\ Len(dedup) <= DedupCapacity
      /\ \A p, q \in DOMAIN dedup : dedup[p] = dedup[q] => p = q
  BY Remembered
<1>2. Len(dedup) \in Nat /\ DOMAIN dedup = 1 .. Len(dedup)
  BY <1>1, Elements
<1>3. recent' = Append(dedup, l)
  BY DEF add, remember, Memory
<1>4. /\ recent' \in Seq(Logs) /\ Len(recent') = Len(dedup) + 1
      /\ DOMAIN recent' = 1 .. Len(dedup) + 1
      /\ \A k \in DOMAIN dedup : recent'[k] = dedup[k]
      /\ recent'[Len(dedup) + 1] = l
      /\ \A k \in DOMAIN recent' : k \in DOMAIN dedup \/ k = Len(dedup) + 1
  BY <1>1, <1>3, Appending
<1>5. Len(recent') <= DedupCapacity + 1
  BY <1>1, <1>2, <1>4, Capacities
<1>6. dedup' = IF Len(recent') > DedupCapacity THEN Tail(recent') ELSE recent'
  <2>1. dedup' = Append(IF Len(dedup) >= DedupCapacity THEN Tail(dedup) ELSE dedup, l)
    BY DEF add
  <2>2. CASE Len(dedup) >= DedupCapacity
    <3>1. dedup # <<>>
      BY <1>2, <2>2, EmptySeq, Capacities
    <3>2. Tail(recent') = Append(Tail(dedup), l)
      BY <1>1, <1>3, <3>1, TailOfAppend
    <3>3. Len(recent') > DedupCapacity
      BY <1>2, <1>4, <2>2, Capacities
    <3>. QED
      BY <2>1, <2>2, <3>2, <3>3
  <2>3. CASE ~(Len(dedup) >= DedupCapacity)
    <3>1. ~(Len(recent') > DedupCapacity)
      BY <1>2, <1>4, <2>3, Capacities
    <3>. QED
      BY <2>1, <2>3, <3>1, <1>3
  <2>. QED
    BY <2>2, <2>3
<1>7. ASSUME NEW p \in DOMAIN recent', NEW q \in DOMAIN recent', recent'[p] = recent'[q]
      PROVE  p = q
  <2>1. \A k \in DOMAIN dedup : dedup[k] # l
    BY DEF isDuplicate
  <2>. QED
    BY <1>1, <1>4, <1>7, <2>1
<1>. QED
  BY <1>4, <1>5, <1>6, <1>7 DEF Memory

-----------------------------------------------------------------------------
(* The event worker pool stays within its limits *)

LEMMA WorkersType ==
  ASSUME IsFiniteSet(calls)
  PROVE  Workers \in Nat /\ IsFiniteSet({c \in calls : c.by = "worker"})
BY FS_Subset, FS_CardinalityType DEF Workers

\* Workers that are done, or go on after a timeout, make room.
LEMMA FewerWorkers ==
  ASSUME PoolOK, queue' = queue, calls' \subseteq Calls, IsFiniteSet(calls'),
         {c \in calls' : c.by = "worker"} \subseteq {c \in calls : c.by = "worker"}
  PROVE  PoolOK'
<1>1. Workers \in Nat /\ Workers' \in Nat
  <2>1. IsFiniteSet({c \in calls' : c.by = "worker"})
    BY FS_Subset
  <2>. QED
    BY <2>1, WorkersType, FS_CardinalityType DEF PoolOK, Workers
<1>2. Workers' <= Workers
  BY WorkersType, FS_Subset DEF PoolOK, Workers
<1>3. Len(queue) \in Nat
  BY Elements DEF PoolOK
<1>. QED
  BY <1>1, <1>2, <1>3, Capacities DEF PoolOK

\* A call that begins is at most one worker more, and none if a scanner made it.
LEMMA CallBegins ==
  ASSUME IsFiniteSet(calls), calls \subseteq Calls, NEW l \in Logs, NEW caller \in Callers,
         calls' = calls \cup {[log |-> l, by |-> caller]}
  PROVE  /\ calls' \subseteq Calls /\ IsFiniteSet(calls')
         /\ Workers' \in Nat /\ Workers' <= Workers + 1
         /\ caller # "worker" => Workers' = Workers
<1>. DEFINE w == {c \in calls : c.by = "worker"}
            new == [log |-> l, by |-> caller]
<1>1. new \in Calls /\ new.by = caller
  BY DEF Calls
<1>2. IsFiniteSet(calls')
  BY FS_AddElement
<1>3. IsFiniteSet(w) /\ Workers = Cardinality(w) /\ Workers \in Nat
  BY WorkersType DEF Workers
<1>4. Workers' = Cardinality({c \in calls' : c.by = "worker"})
  BY DEF Workers
<1>5. CASE caller = "worker"
  <2>1. {c \in calls' : c.by = "worker"} = w \cup {new}
    BY <1>1, <1>5
  <2>2. Workers' = IF new \in w THEN Workers ELSE Workers + 1
    BY ZenonT(60), <1>3, <1>4, <2>1, FS_AddElement
  <2>. QED
    BY <1>1, <1>2, <1>3, <1>5, <2>2
<1>6. CASE caller # "worker"
  <2>1. {c \in calls' : c.by = "worker"} = w
    BY <1>1, <1>6
  <2>2. Workers' = Workers
    BY <1>3, <1>4, <2>1
  <2>. QED
    BY <1>1, <1>2, <1>3, <2>2
<1>. QED
  BY <1>5, <1>6

\* submitAll takes what fits.
LEMMA SubmitKeepsPool ==
  ASSUME PoolOK, handled \subseteq Logs, calls' = calls,
         NEW events \in Seq(Logs), submitAll(events)
  PROVE  PoolOK' /\ handled' \subseteq Logs
<1>. DEFINE room == QueueSize + (WorkerCount - Workers) - Len(queue)
            taken == smaller(room, Len(events))
<1>1. /\ queue' = queue \o SubSeq(events, 1, taken)
      /\ handled' = handled \cup {events[k] : k \in taken + 1 .. Len(events)}
  BY DEF submitAll
<1>2. Workers \in Nat /\ Workers' = Workers
  BY WorkersType DEF PoolOK, Workers
<1>3. /\ Len(queue) \in Nat /\ Len(events) \in Nat /\ DOMAIN events = 1 .. Len(events)
      /\ \A k \in DOMAIN events : events[k] \in Logs
  BY Elements DEF PoolOK
<1>4. room \in Nat
  BY <1>2, <1>3, Capacities DEF PoolOK
<1>. HIDE DEF room
<1>5. taken \in Nat /\ taken <= room /\ taken <= Len(events)
  BY <1>3, <1>4 DEF smaller
<1>. HIDE DEF taken
<1>6. SubSeq(events, 1, taken) \in Seq(Logs) /\ Len(SubSeq(events, 1, taken)) = taken
  <2>1. \A k \in 1 .. taken : events[k] \in Logs
    BY <1>3, <1>5
  <2>2. /\ SubSeq(events, 1, taken) \in Seq(Logs)
        /\ Len(SubSeq(events, 1, taken)) = IF 1 <= taken THEN taken - 1 + 1 ELSE 0
    BY <1>5, <2>1, SubSeqProperties
  <2>. QED
    BY <1>5, <2>2
<1>7. queue' \in Seq(Logs) /\ Len(queue') = Len(queue) + taken
  BY <1>1, <1>6, ConcatProperties DEF PoolOK
<1>8. Len(queue') + Workers' <= QueueSize + WorkerCount
  BY <1>2, <1>3, <1>4, <1>5, <1>7, Capacities DEF room
<1>9. handled' \subseteq Logs
  <2>1. \A k \in taken + 1 .. Len(events) : events[k] \in Logs
    BY <1>3, <1>5
  <2>. QED
    BY <1>1, <2>1
<1>. QED
  BY <1>7, <1>8, <1>9 DEF PoolOK

-----------------------------------------------------------------------------
(* One step at a time *)

LEMMA MineKeepsIntake == ASSUME IntakeInv, Mine PROVE IntakeInv'
<1>1. PICK content \in Contents :
        /\ blocks' = Append(blocks, content)
        /\ top' = larger(top, Len(blocks) + 1)
        /\ \/ pushed' = pushed
           \/ /\ content # NoLog
              /\ pushed' = pushed \cup
                   {[log |-> content, block |-> Len(blocks) + 1, step |-> "start"]}
  BY DEF Mine
<1>2. UNCHANGED <<mode, reorg, checkpoint, faults, restarted, http, dedup, queue, calls,
                  recent, handled>> /\ Len(blocks) < MaxBlocks
  BY DEF Mine, historyVars
<1>3. Len(blocks) \in Nat /\ blocks' \in Seq(Contents) /\ Len(blocks') = Len(blocks) + 1
  BY <1>1, Appending, Elements DEF IntakeInv, ChainOK
<1>4. ChainOK'
  <2>1. Len(blocks') <= MaxBlocks /\ top' \in Len(blocks') .. MaxBlocks
    <3>1. top \in Len(blocks) .. MaxBlocks
      BY DEF IntakeInv, ChainOK
    <3>. QED
      BY <1>1, <1>2, <1>3, <3>1, Capacities DEF larger
  <2>. QED
    BY <1>2, <1>3, <2>1 DEF IntakeInv, ChainOK
<1>5. ScannersOK'
  BY <1>1, <1>2, <1>3 DEF IntakeInv, ScannersOK, Deliveries, Contents, Heights
<1>. QED
  BY <1>2, <1>4, <1>5 DEF IntakeInv, PoolOK, Workers, Memory

LEMMA ReorganiseKeepsIntake == ASSUME IntakeInv, Reorganise PROVE IntakeInv'
<1>1. PICK height \in 0 .. Len(blocks) - 1 :
        blocks' = SubSeq(blocks, 1, height) /\ reorg' \in {"hidden", reorg}
  BY DEF Reorganise
<1>2. UNCHANGED <<mode, top, checkpoint, restarted, http, pushed, dedup, queue, calls,
                  recent, handled>> /\ Fault
  BY DEF Reorganise, historyVars
<1>3. /\ Len(blocks) \in Nat /\ DOMAIN blocks = 1 .. Len(blocks)
      /\ \A n \in DOMAIN blocks : blocks[n] \in Contents
  BY Elements DEF IntakeInv, ChainOK
<1>4. height \in Nat /\ height < Len(blocks)
  BY <1>3
<1>5. blocks' \in Seq(Contents) /\ Len(blocks') = height
  <2>1. \A n \in 1 .. height : blocks[n] \in Contents
    BY <1>3, <1>4
  <2>2. /\ blocks' \in Seq(Contents)
        /\ Len(blocks') = IF 1 <= height THEN height - 1 + 1 ELSE 0
    BY <1>1, <1>4, <2>1, SubSeqProperties
  <2>. QED
    BY <1>4, <2>2
<1>6. ChainOK'
  <2>1. top \in Len(blocks) .. MaxBlocks /\ Len(blocks) <= MaxBlocks
    BY DEF IntakeInv, ChainOK
  <2>2. Len(blocks') <= MaxBlocks /\ top' \in Len(blocks') .. MaxBlocks
    BY <1>2, <1>3, <1>4, <1>5, <2>1, Capacities
  <2>3. faults' \in 0 .. MaxFaults
    BY <1>2, Capacities DEF Fault, IntakeInv, ChainOK
  <2>. QED
    BY <1>1, <1>2, <1>5, <2>2, <2>3 DEF IntakeInv, ChainOK
<1>. QED
  BY <1>2, <1>6 DEF IntakeInv, ScannersOK, PoolOK, Workers, Memory

LEMMA PollKeepsIntake == ASSUME IntakeInv, Poll PROVE IntakeInv'
<1>1. UNCHANGED <<mode, blocks, top, checkpoint, faults, restarted, pushed, dedup, queue,
                  calls, recent, handled>> /\ reorg' \in {"seen", reorg}
  BY DEF Poll, sourceVars, historyVars
<1>. DEFINE head == Len(blocks)
            finalizedHead == IF head > Confirmations THEN head - Confirmations ELSE 0
            target == IF finalizedHead > BlockRange THEN finalizedHead - BlockRange ELSE 0
            rewinds == /\ head + Confirmations < http.highWaterHead
                       /\ http.cursor > finalizedHead
                       /\ target < http.cursor
            cursor == IF rewinds THEN target ELSE http.cursor
            chunk == IF finalizedHead - cursor > MaxBlockGap THEN BackfillRange ELSE BlockRange
<1>2. /\ head \in Nat /\ Confirmations \in Nat
      /\ BlockRange \in Nat \ {0} /\ BackfillRange \in Nat \ {0}
  BY Elements, IngestParameters DEF IntakeInv, ChainOK
<1>3. http \in Scanner /\ http.cursor \in Nat /\ http.highWaterHead \in Nat
  BY DEF IntakeInv, ScannersOK, Scanner, Heights
<1>4. http' = [http EXCEPT
              !.cursor = cursor,
              !.highWaterHead = IF head > @ THEN head ELSE @,
              !.step = IF cursor > finalizedHead THEN "poll" ELSE "fetch",
              !.rangeEnd = smaller(cursor + chunk - 1, finalizedHead)]
  BY DEF Poll
<1>. HIDE DEF head
<1>5. finalizedHead \in Nat
  BY <1>2
<1>. HIDE DEF finalizedHead
<1>6. target \in Nat
  BY <1>2, <1>5
<1>. HIDE DEF target, rewinds
<1>7. cursor \in Nat
  BY <1>3, <1>6
<1>. HIDE DEF cursor
<1>8. chunk \in Nat \ {0}
  BY <1>2
<1>. HIDE DEF chunk
<1>9. smaller(cursor + chunk - 1, finalizedHead) \in Nat
  BY <1>5, <1>7, <1>8 DEF smaller
<1>. DEFINE last == smaller(cursor + chunk - 1, finalizedHead)
<1>10. last \in Nat
  BY <1>9
<1>11. http' = [http EXCEPT
              !.cursor = cursor,
              !.highWaterHead = IF head > @ THEN head ELSE @,
              !.step = IF cursor > finalizedHead THEN "poll" ELSE "fetch",
              !.rangeEnd = last]
  BY <1>4
<1>. HIDE DEF last
<1>12. http' \in Scanner
  BY <1>2, <1>3, <1>7, <1>10, <1>11 DEF Scanner, Heights
<1>. QED
  BY <1>1, <1>12 DEF IntakeInv, ChainOK, ScannersOK, PoolOK, Workers, Memory

LEMMA FetchKeepsIntake == ASSUME IntakeInv, Fetch PROVE IntakeInv'
<1>. DEFINE first == IF http.cursor = 0 THEN 1 ELSE http.cursor
            last == smaller(http.rangeEnd, Len(blocks))
<1>1. UNCHANGED <<mode, blocks, top, reorg, checkpoint, faults, restarted, pushed, dedup,
                  queue, calls, recent, handled>>
  BY DEF Fetch, sourceVars, historyVars
<1>2. /\ Len(blocks) \in Nat /\ DOMAIN blocks = 1 .. Len(blocks)
      /\ \A n \in DOMAIN blocks : blocks[n] \in Contents
  BY Elements DEF IntakeInv, ChainOK
<1>3. first \in Nat \ {0} /\ last \in Nat /\ last <= Len(blocks)
  BY <1>2 DEF IntakeInv, ScannersOK, Scanner, Heights, smaller
<1>4. read \in Seq(Contents)
  <2>1. \A i \in first .. last : blocks[i] \in Contents
    BY <1>2, <1>3
  <2>2. read = SubSeq(blocks, first, last)
    BY DEF read
  <2>. HIDE DEF first, last
  <2>. QED
    BY <1>3, <2>1, <2>2, SubSeqProperties
<1>5. http' \in Scanner
  BY <1>4 DEF Fetch, IntakeInv, ScannersOK, Scanner
<1>. QED
  BY <1>1, <1>5 DEF IntakeInv, ChainOK, ScannersOK, PoolOK, Workers, Memory

\* One event of a batch, in sequential mode.
LEMMA HandleNextKeepsIntake == ASSUME IntakeInv, HandleNext PROVE IntakeInv'
<1>1. UNCHANGED <<mode, blocks, top, reorg, checkpoint, faults, restarted, pushed, queue,
                  handled>>
  BY DEF HandleNext, sourceVars
<1>2. http \in Scanner /\ http.todo \in Seq(Contents) /\ http.todo # <<>>
  BY DEF HandleNext, IntakeInv, ScannersOK, Scanner
<1>3. Head(http.todo) \in Contents /\ Tail(http.todo) \in Seq(Contents)
  BY <1>2, Dropping
<1>4. http' \in Scanner
  BY <1>2, <1>3 DEF HandleNext, Scanner
<1>5. PoolOK' /\ Memory'
  <2>1. CASE UNCHANGED <<dedup, calls, recent>>
    BY <1>1, <2>1 DEF IntakeInv, PoolOK, Workers, Memory
  <2>2. CASE /\ Head(http.todo) # NoLog /\ ~isDuplicate(Head(http.todo))
             /\ add(Head(http.todo), "http")
    <3>1. Head(http.todo) \in Logs
      BY <1>3, <2>2 DEF Contents
    <3>2. Memory'
      BY <2>2, <3>1, AddKeepsMemory DEF IntakeInv
    <3>3. /\ calls' \subseteq Calls /\ IsFiniteSet(calls')
          /\ Workers' = Workers
      BY <2>2, <3>1, CallBegins DEF IntakeInv, PoolOK, add, Callers
    <3>. QED
      BY <1>1, <3>2, <3>3 DEF IntakeInv, PoolOK
  <2>. QED
    BY <2>1, <2>2 DEF HandleNext
<1>. QED
  BY <1>1, <1>4, <1>5 DEF IntakeInv, ChainOK, ScannersOK

\* A batch for the pool, in parallel mode.
LEMMA SubmitBatchKeepsIntake == ASSUME IntakeInv, SubmitBatch PROVE IntakeInv'
<1>1. UNCHANGED <<mode, blocks, top, reorg, checkpoint, faults, restarted, pushed, dedup,
                  calls, recent>>
  BY DEF SubmitBatch, sourceVars
<1>2. http \in Scanner /\ http.todo \in Seq(Contents)
  BY DEF IntakeInv, ScannersOK, Scanner
<1>. DEFINE places == {k \in DOMAIN http.todo : http.todo[k] # NoLog}
<1>3. PICK place \in inOrder(places) : submitAll([n \in DOMAIN place |-> http.todo[place[n]]])
  BY DEF SubmitBatch
<1>4. Cardinality(places) \in Nat
  <2>1. Len(http.todo) \in Nat /\ DOMAIN http.todo = 1 .. Len(http.todo)
    BY <1>2, Elements
  <2>2. IsFiniteSet(1 .. Len(http.todo))
    BY <2>1, FS_Interval
  <2>. QED
    BY <2>1, <2>2, FS_Subset, FS_CardinalityType
<1>5. place \in [1 .. Cardinality(places) -> places]
  BY DEF inOrder
<1>6. \A k \in places : http.todo[k] \in Logs
  BY <1>2, Elements DEF Contents
<1>. HIDE DEF places
<1>. DEFINE events == [n \in DOMAIN place |-> http.todo[place[n]]]
<1>7. events \in [1 .. Cardinality(places) -> Logs]
  BY <1>5, <1>6
<1>8. events \in Seq(Logs)
  BY <1>4, <1>7, SeqDef
<1>9. submitAll(events)
  BY <1>3
<1>. HIDE DEF events
<1>10. PoolOK' /\ handled' \subseteq Logs
  BY <1>1, <1>8, <1>9, SubmitKeepsPool DEF IntakeInv
<1>11. http' \in Scanner
  BY <1>2, EmptySeq DEF SubmitBatch, Scanner
<1>. QED
  BY <1>1, <1>10, <1>11 DEF IntakeInv, ChainOK, ScannersOK, Memory

LEMMA SaveKeepsIntake == ASSUME IntakeInv, BatchHandled \/ Save \/ WsSave PROVE IntakeInv'
<1>1. UNCHANGED <<mode, blocks, top, reorg, faults, restarted, dedup, queue, calls, recent,
                  handled>>
  BY DEF BatchHandled, Save, WsSave, sourceVars, historyVars
<1>2. checkpoint \in Nat /\ http \in Scanner /\ http.rangeEnd \in Nat /\ pushed \subseteq Deliveries
  BY DEF IntakeInv, ScannersOK, Scanner, Heights
<1>3. BatchHandled => ScannersOK'
  <2>. SUFFICES ASSUME BatchHandled PROVE ScannersOK'
    OBVIOUS
  <2>1. http' = [http EXCEPT !.step = "save"] /\ checkpoint' = checkpoint /\ pushed' = pushed
    BY DEF BatchHandled
  <2>2. http' \in Scanner
    BY ONLY <1>2, <2>1 DEF Scanner
  <2>. QED
    BY <1>2, <2>1, <2>2 DEF ScannersOK, Heights
<1>4. Save => ScannersOK'
  <2>. SUFFICES ASSUME Save PROVE ScannersOK'
    OBVIOUS
  <2>. DEFINE next == http.rangeEnd + 1
  <2>1. /\ http' = [http EXCEPT !.step = "poll", !.cursor = next]
        /\ checkpoint' = http.rangeEnd /\ pushed' = pushed
    BY DEF Save
  <2>2. next \in Nat
    BY <1>2
  <2>. HIDE DEF next
  <2>3. http' \in Scanner
    BY ONLY <1>2, <2>1, <2>2 DEF Scanner, Heights
  <2>. QED
    BY <1>2, <2>1, <2>3 DEF ScannersOK, Heights
<1>5. WsSave => ScannersOK'
  BY <1>2 DEF WsSave, ScannersOK, Deliveries, Heights
<1>6. ScannersOK'
  BY <1>3, <1>4, <1>5
<1>. QED
  BY <1>1, <1>6 DEF IntakeInv, ChainOK, PoolOK, Workers, Memory

LEMMA WsDeliverKeepsIntake == ASSUME IntakeInv, WsDeliver PROVE IntakeInv'
<1>1. UNCHANGED <<mode, blocks, top, reorg, checkpoint, faults, restarted, http>>
  BY DEF WsDeliver, sourceVars
<1>2. PICK d \in pushed :
        /\ \E step \in {"save", "await"} : pushed' = (pushed \ {d}) \cup {[d EXCEPT !.step = step]}
        /\ \/ submitAll(<<d.log>>) /\ UNCHANGED <<dedup, calls, recent>>
           \/ UNCHANGED <<dedup, calls, recent, queue, handled>>
           \/ ~isDuplicate(d.log) /\ add(d.log, "ws") /\ UNCHANGED <<queue, handled>>
  BY DEF WsDeliver
<1>3. d \in Deliveries /\ d.log \in Logs
  BY DEF IntakeInv, ScannersOK, Deliveries
<1>4. pushed' \subseteq Deliveries
  BY <1>2, <1>3 DEF IntakeInv, ScannersOK, Deliveries
<1>5. PoolOK' /\ Memory' /\ handled' \subseteq Logs
  <2>1. CASE submitAll(<<d.log>>) /\ UNCHANGED <<dedup, calls, recent>>
    <3>1. <<d.log>> \in Seq(Logs)
      BY <1>3
    <3>. QED
      BY <2>1, <3>1, SubmitKeepsPool DEF IntakeInv, Memory
  <2>2. CASE UNCHANGED <<dedup, calls, recent, queue, handled>>
    BY <2>2 DEF IntakeInv, PoolOK, Workers, Memory
  <2>3. CASE ~isDuplicate(d.log) /\ add(d.log, "ws") /\ UNCHANGED <<queue, handled>>
    <3>1. Memory'
      BY <1>3, <2>3, AddKeepsMemory DEF IntakeInv
    <3>2. calls' \subseteq Calls /\ IsFiniteSet(calls') /\ Workers' = Workers
      BY <1>3, <2>3, CallBegins DEF IntakeInv, PoolOK, add, Callers
    <3>. QED
      BY <2>3, <3>1, <3>2 DEF IntakeInv, PoolOK
  <2>. QED
    BY <1>2, <2>1, <2>2, <2>3
<1>. QED
  BY <1>1, <1>4, <1>5 DEF IntakeInv, ChainOK, ScannersOK

\* A worker takes the first event of the queue.
LEMMA WorkerKeepsIntake == ASSUME IntakeInv, WorkerStarts PROVE IntakeInv'
<1>1. UNCHANGED <<mode, blocks, top, reorg, checkpoint, faults, restarted, http, pushed,
                  handled>> /\ queue # <<>> /\ queue' = Tail(queue)
  BY DEF WorkerStarts, sourceVars
<1>2. queue \in Seq(Logs) /\ Len(queue) \in Nat
  BY Elements DEF IntakeInv, PoolOK
<1>3. Head(queue) \in Logs /\ queue' \in Seq(Logs) /\ Len(queue') = Len(queue) - 1
  BY <1>1, <1>2, HeadTailProperties
<1>4. Workers \in Nat /\ Len(queue) + Workers <= QueueSize + WorkerCount
  BY WorkersType DEF IntakeInv, PoolOK
<1>5. PoolOK' /\ Memory'
  <2>1. CASE UNCHANGED <<dedup, calls, recent>>
    <3>1. Workers' = Workers
      BY <2>1 DEF Workers
    <3>2. Len(queue') + Workers' <= QueueSize + WorkerCount
      BY <1>2, <1>3, <1>4, <3>1, Capacities
    <3>. QED
      BY <1>3, <2>1, <3>2 DEF IntakeInv, PoolOK, Memory
  <2>2. CASE ~isDuplicate(Head(queue)) /\ add(Head(queue), "worker")
    <3>1. Memory'
      BY <1>3, <2>2, AddKeepsMemory DEF IntakeInv
    <3>2. /\ calls' \subseteq Calls /\ IsFiniteSet(calls')
          /\ Workers' \in Nat /\ Workers' <= Workers + 1
      BY <1>3, <2>2, CallBegins DEF IntakeInv, PoolOK, add, Callers
    <3>3. Len(queue') + Workers' <= QueueSize + WorkerCount
      <4>1. Len(queue') = Len(queue) - 1 /\ Len(queue) \in Nat
        BY <1>2, <1>3
      <4>. QED
        BY <1>4, <3>2, <4>1, Capacities
    <3>. QED
      BY <1>3, <3>1, <3>2, <3>3 DEF PoolOK
  <2>. QED
    BY <2>1, <2>2 DEF WorkerStarts
<1>. QED
  BY <1>1, <1>5 DEF IntakeInv, ChainOK, ScannersOK

\* A call ends, or goes on without the worker that made it.
LEMMA CallEndKeepsIntake ==
  ASSUME IntakeInv, Accepts \/ EnrichmentFails \/ HandlingFails \/ TimesOut
  PROVE  IntakeInv'
<1>1. UNCHANGED <<mode, blocks, top, reorg, checkpoint, restarted, dedup, queue, recent>>
  BY DEF Accepts, EnrichmentFails, HandlingFails, TimesOut, sourceVars, historyVars
<1>2. faults' = faults \/ Fault
  BY DEF Accepts, EnrichmentFails, HandlingFails, TimesOut
<1>3. ChainOK'
  <2>1. faults' \in 0 .. MaxFaults
    BY <1>2, Capacities DEF Fault, IntakeInv, ChainOK
  <2>. QED
    BY <1>1, <2>1 DEF IntakeInv, ChainOK
<1>4. PICK c \in calls :
        /\ calls' = calls \ {c} \/ calls' = (calls \ {c}) \cup {[c EXCEPT !.by = "detached"]}
        /\ handled' \in {handled, handled \cup {c.log}}
  BY DEF Accepts, EnrichmentFails, HandlingFails, TimesOut, resume, historyVars
<1>5. c \in Calls /\ c.log \in Logs /\ [c EXCEPT !.by = "detached"] \in Calls
  BY DEF IntakeInv, PoolOK, Calls, Callers
<1>6. /\ calls' \subseteq Calls /\ IsFiniteSet(calls')
      /\ {x \in calls' : x.by = "worker"} \subseteq {x \in calls : x.by = "worker"}
  <2>1. IsFiniteSet(calls \ {c}) /\ calls \subseteq Calls
    BY FS_RemoveElement DEF IntakeInv, PoolOK
  <2>2. [c EXCEPT !.by = "detached"].by = "detached"
    BY <1>5 DEF Calls
  <2>3. IsFiniteSet((calls \ {c}) \cup {[c EXCEPT !.by = "detached"]})
    BY <2>1, FS_AddElement
  <2>4. CASE calls' = calls \ {c}
    BY <2>1, <2>4
  <2>5. CASE calls' = (calls \ {c}) \cup {[c EXCEPT !.by = "detached"]}
    BY <1>5, <2>1, <2>2, <2>3, <2>5
  <2>. QED
    BY <1>4, <2>4, <2>5
<1>7. PoolOK'
  BY <1>1, <1>6, FewerWorkers DEF IntakeInv
<1>8. http' \in Scanner
  BY DEF Accepts, EnrichmentFails, HandlingFails, TimesOut, resume, IntakeInv, ScannersOK, Scanner
<1>9. pushed' \subseteq Deliveries
  BY DEF Accepts, EnrichmentFails, HandlingFails, TimesOut, resume, IntakeInv, ScannersOK,
         Deliveries
<1>. QED
  BY <1>1, <1>3, <1>4, <1>5, <1>7, <1>8, <1>9 DEF IntakeInv, ScannersOK, Memory

LEMMA NothingRemembered ==
  /\ recent = <<>> /\ dedup = <<>> => Memory
  /\ queue = <<>> /\ calls = {} => PoolOK
<1>1. Len(<<>>) = 0 /\ <<>> \in Seq(Logs) /\ DOMAIN <<>> = {}
  BY EmptySeq
<1>2. ASSUME calls = {}
      PROVE  IsFiniteSet(calls) /\ Workers = 0
  BY <1>2, FS_EmptySet DEF Workers
<1>3. recent = <<>> /\ dedup = <<>> => Memory
  BY <1>1, Capacities DEF Memory
<1>4. ASSUME queue = <<>>, calls = {}
      PROVE  PoolOK
  <2>1. Len(queue) = 0 /\ Workers = 0
    BY <1>1, <1>2, <1>4
  <2>2. Len(queue) + Workers <= QueueSize + WorkerCount
    BY <2>1, Capacities
  <2>. QED
    BY <1>1, <1>2, <1>4, <2>2 DEF PoolOK
<1>. QED
  BY <1>3, <1>4

\* A restart forgets all of it.
LEMMA RestartKeepsIntake == ASSUME IntakeInv, Restart PROVE IntakeInv'
<1>1. /\ UNCHANGED <<mode, blocks, top, reorg, checkpoint, handled>> /\ Fault
      /\ restarted' = TRUE /\ http' = startAt(checkpoint) /\ pushed' = {}
      /\ dedup' = <<>> /\ queue' = <<>> /\ calls' = {} /\ recent' = <<>>
  BY DEF Restart, sourceVars
<1>2. Len(<<>>) = 0 /\ <<>> \in Seq(Logs) /\ <<>> \in Seq(Contents) /\ DOMAIN <<>> = {}
  BY EmptySeq
<1>3. Memory'
  BY <1>1, <1>2, Capacities DEF Memory
<1>4. PoolOK'
  <2>1. IsFiniteSet(calls') /\ Workers' = 0
    BY <1>1, FS_EmptySet DEF Workers
  <2>. QED
    BY <1>1, <1>2, <2>1, Capacities DEF PoolOK
<1>5. ScannersOK'
  BY <1>1, <1>2 DEF IntakeInv, ScannersOK, startAt, Scanner, Heights
<1>6. ChainOK'
  BY <1>1, Capacities DEF IntakeInv, ChainOK, Fault
<1>. QED
  BY <1>1, <1>3, <1>4, <1>5, <1>6 DEF IntakeInv

LEMMA IntakeInvInit == Init => IntakeInv
<1>. SUFFICES ASSUME Init PROVE IntakeInv
  OBVIOUS
<1>1. Len(<<>>) = 0 /\ <<>> \in Seq(Contents)
  BY EmptySeq
<1>2. ChainOK
  <2>1. Len(blocks) <= MaxBlocks /\ top \in Len(blocks) .. MaxBlocks /\ faults \in 0 .. MaxFaults
    BY <1>1, Capacities DEF Init
  <2>. QED
    BY <1>1, <2>1 DEF Init, ChainOK
<1>3. ScannersOK
  BY <1>1 DEF Init, ScannersOK, startAt, Scanner, Heights
<1>. QED
  BY <1>2, <1>3, NothingRemembered DEF Init, IntakeInv

LEMMA IntakeInvStep == IntakeInv /\ [Next]_vars => IntakeInv'
<1>. SUFFICES ASSUME IntakeInv, [Next]_vars PROVE IntakeInv'
  OBVIOUS
<1>1. CASE Mine \/ Reorganise
  BY <1>1, MineKeepsIntake, ReorganiseKeepsIntake
<1>2. CASE HttpStep
  BY <1>2, PollKeepsIntake, FetchKeepsIntake, HandleNextKeepsIntake, SubmitBatchKeepsIntake,
     SaveKeepsIntake DEF HttpStep
<1>3. CASE WsStep
  BY <1>3, WsDeliverKeepsIntake, SaveKeepsIntake DEF WsStep
<1>4. CASE WorkerStarts
  BY <1>4, WorkerKeepsIntake
<1>5. CASE Accepts \/ Failure
  BY <1>5, CallEndKeepsIntake DEF Failure
<1>6. CASE Restart
  BY <1>6, RestartKeepsIntake
<1>7. CASE UNCHANGED vars
  BY <1>7 DEF vars, sourceVars, historyVars, IntakeInv, ChainOK, ScannersOK, PoolOK, Workers,
              Memory
<1>. QED
  BY <1>1, <1>2, <1>3, <1>4, <1>5, <1>6, <1>7 DEF Next

LEMMA IntakeInvImplies == IntakeInv => IngestTypeOK /\ HandledAgainOnlyAfterEviction
<1>. SUFFICES ASSUME IntakeInv PROVE IngestTypeOK /\ HandledAgainOnlyAfterEviction
  OBVIOUS
<1>1. dedup \in Seq(Logs) /\ Len(dedup) <= DedupCapacity
  BY Remembered DEF IntakeInv
<1>2. Len(queue) <= QueueSize + WorkerCount
  <2>1. Workers \in Nat /\ Len(queue) \in Nat
    BY WorkersType, Elements DEF IntakeInv, PoolOK
  <2>. QED
    BY <2>1, Capacities DEF IntakeInv, PoolOK
<1>3. IngestTypeOK
  BY <1>1, <1>2 DEF IntakeInv, ChainOK, ScannersOK, PoolOK, Memory, IngestTypeOK
<1>4. HandledAgainOnlyAfterEviction
  <2>1. Len(recent) \in Nat /\ DOMAIN recent = 1 .. Len(recent)
    BY Elements DEF IntakeInv, Memory
  <2>. QED
    BY <2>1 DEF IntakeInv, Memory, HandledAgainOnlyAfterEviction
<1>. QED
  BY <1>3, <1>4

\* The state of the intake has its types; in particular the pool never queues
\* more than the queue and its workers can take, whatever is submitted at once.
THEOREM IntakeTypeCorrect == Spec => []IngestTypeOK
<1>. QED
  BY IntakeInvInit, IntakeInvStep, IntakeInvImplies, PTL DEF Spec

\* In one life of the daemon an intent is handled again only if DedupCapacity
\* others came between: the dedup cache is checked and filled without an await,
\* so two transports, rescans and workers cannot both miss it.
THEOREM HandledOnce == Spec => []HandledAgainOnlyAfterEviction
<1>. QED
  BY IntakeInvInit, IntakeInvStep, IntakeInvImplies, PTL DEF Spec

=============================================================================
