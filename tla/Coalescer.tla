----------------------------- MODULE Coalescer ------------------------------
(***************************************************************************)
(* The coalescer of one submission lane (submitter/coalescer.ts): it       *)
(* buffers the newest intent of every symbol and flushes the buffer, in    *)
(* batches, through a serial queue.  A step ends where the code awaits, so *)
(* that an intent may arrive between any two steps.                        *)
(*                                                                         *)
(* An intent is accepted at most once and is its own request.  Its age is  *)
(* not modelled: a flush may find any intent too old.                      *)
(***************************************************************************)
EXTENDS Integers, FiniteSets, Sequences

CONSTANTS
  Intents,       \* signed intents that DIA may publish for this lane
  MaxBatchSize,  \* maxBatchSize
  SizeFallback   \* sizeFallbackEnabled

Symbols == {i.symbol : i \in Intents}

ASSUME CoalescerParameters ==
  /\ \A i \in Intents : {i.timestamp, i.nonce} \subseteq Int
  /\ MaxBatchSize \in Nat \ {0}
  /\ SizeFallback \in BOOLEAN

VARIABLES
  lane,     \* state of the lane
  buffer,   \* buffered intents, in insertion order
  flush,    \* what the flush of an in-flight lane does next
  aged,     \* intents it dropped for their age and has still to report
  batches,  \* batches it has still to answer; the first is being submitted
  chunks,   \* what is still to be submitted of that batch
  results,  \* the results of that batch still to be reported
  marks,    \* symbols the in-flight tracker holds
  status    \* status[i]: what the daemon's callbacks were told of i: "unseen", "held",
            \* "superseded", "discarded" or one of Results

coalescerVars == <<lane, buffer, flush, aged, batches, chunks, results, marks, status>>

\* Results of a request: BuilderError stands for every failure that is retried,
\* InsufficientFunds for every one that is not and has no name of its own here.
NON_RETRIABLE_CODES ==
  {"NonMonotonicNonce", "BatchSizeExceeded", "IntentAgedOut", "InsufficientFunds"}
Results == NON_RETRIABLE_CODES \cup {"BuilderError", "ok"}

CoalescerInit ==
  /\ lane = "idle" /\ flush = "none"
  /\ buffer = <<>> /\ aged = <<>> /\ batches = <<>>
  /\ chunks = <<>> /\ results = <<>>
  /\ marks = {}
  /\ status = [i \in Intents |-> "unseen"]

Elements(seq) == {seq[k] : k \in DOMAIN seq}

-----------------------------------------------------------------------------
(* accept *)

isNewer(incoming, existing) ==
  /\ incoming.timestamp > existing.timestamp
  /\ incoming.nonce > existing.nonce

accept(i) ==
  /\ status[i] = "unseen"
  /\ LET slot == {k \in DOMAIN buffer : buffer[k].symbol = i.symbol}
     IN  \/ /\ slot = {}
            /\ buffer' = Append(buffer, i)
            /\ status' = [status EXCEPT ![i] = "held"]
         \/ \E k \in slot :
              /\ isNewer(i, buffer[k])
              /\ buffer' = [buffer EXCEPT ![k] = i]
              /\ status' = [status EXCEPT ![i] = "held",
                                          ![buffer[k]] = "superseded"]
         \/ \E k \in slot :
              /\ ~isNewer(i, buffer[k])
              /\ status' = [status EXCEPT ![i] = "discarded"]
              /\ UNCHANGED buffer
  /\ lane' = IF lane = "idle" THEN "accumulating" ELSE lane
  /\ UNCHANGED <<flush, aged, batches, chunks, results, marks>>

-----------------------------------------------------------------------------
(* flush: a round takes the whole buffer, reports what is too old, submits *)
(* the rest in batches, reports every result, and starts over while the    *)
(* buffer has refilled.                                                    *)

\* Mutant: the requests left over after the last full batch are forgotten.
chunkRequestsWholeOnly(requests) ==
  [n \in 1 .. Len(requests) \div MaxBatchSize |->
     SubSeq(requests, (n - 1) * MaxBatchSize + 1, n * MaxBatchSize)]

chunkRequests(requests) ==
  LET count == (Len(requests) + MaxBatchSize - 1) \div MaxBatchSize
      last(n) == IF n * MaxBatchSize < Len(requests) THEN n * MaxBatchSize
                                                     ELSE Len(requests)
  IN  [n \in 1 .. count |->
         SubSeq(requests, (n - 1) * MaxBatchSize + 1, last(n))]

\* The requests that are in the set, in their order.
filter(requests, set) ==
  LET places == {k \in DOMAIN requests : requests[k] \in set}
      order == CHOOSE f \in [1 .. Cardinality(places) -> places] :
                 \A m, n \in DOMAIN f : m < n => f[m] < f[n]
  IN  [n \in DOMAIN order |-> requests[order[n]]]

startRound ==
  \E old \in SUBSET Elements(buffer) :
    /\ lane' = "in-flight" /\ flush' = "age"
    /\ aged' = filter(buffer, old)
    /\ batches' = chunkRequests(filter(buffer, Elements(buffer) \ old))
    /\ buffer' = <<>>

TimerFires ==
  /\ lane = "accumulating"
  /\ startRound
  /\ UNCHANGED <<chunks, results, marks, status>>

ReportAged ==
  /\ flush = "age" /\ aged # <<>>
  /\ status' = [status EXCEPT ![Head(aged)] = "IntentAgedOut"]
  /\ aged' = Tail(aged)
  /\ UNCHANGED <<lane, buffer, flush, batches, chunks, results, marks>>

MarkInFlight ==
  /\ flush = "age" /\ aged = <<>>
  /\ marks' = marks \cup {i.symbol : i \in UNION {Elements(b) : b \in Elements(batches)}}
  /\ flush' = "chunk"
  /\ UNCHANGED <<lane, buffer, aged, batches, chunks, results, status>>

SubmitChunk ==
  /\ flush = "chunk" /\ batches # <<>>
  /\ chunks' = IF chunks = <<>> THEN <<Head(batches)>> ELSE chunks
  /\ flush' = "queue"
  /\ UNCHANGED <<lane, buffer, aged, batches, results, marks, status>>

isBatchSizeFailure(codes) == Elements(codes) = {"BatchSizeExceeded"}

\* The two halves of an oversized chunk.
halves(requests) ==
  LET midpoint == (Len(requests) + 1) \div 2
  IN  <<SubSeq(requests, 1, midpoint), SubSeq(requests, midpoint + 1, Len(requests))>>

\* The queue resolves the chunk with these results and submitChunk resumes.
ChunkAnswered(codes) ==
  LET chunk == Head(chunks)
      split == SizeFallback /\ Len(chunk) > 1 /\ isBatchSizeFailure(codes)
  IN  /\ flush = "queue"
      /\ chunks' = (IF split THEN halves(chunk) ELSE <<>>) \o Tail(chunks)
      /\ results' = IF split THEN results ELSE results \o codes
      /\ flush' = IF chunks' = <<>> THEN "result" ELSE "chunk"
      /\ UNCHANGED <<lane, buffer, aged, batches, marks, status>>

\* onResult, then clear: the mark outlives the callback.
ReportResult ==
  /\ flush = "result"
  /\ status' = [status EXCEPT ![Head(Head(batches))] = Head(results)]
  /\ flush' = "clear"
  /\ UNCHANGED <<lane, buffer, aged, batches, chunks, results, marks>>

\* Mutant: the first result of a batch clears the marks of all of it.
ClearMarksOfBatch ==
  /\ flush = "clear"
  /\ marks' = marks \ {i.symbol : i \in Elements(Head(batches))}
  /\ results' = Tail(results)
  /\ \/ /\ Tail(results) = <<>>
        /\ batches' = Tail(batches) /\ flush' = "chunk"
     \/ /\ Tail(results) # <<>>
        /\ batches' = <<Tail(Head(batches))>> \o Tail(batches)
        /\ flush' = "result"
  /\ UNCHANGED <<lane, buffer, aged, chunks, status>>

ClearMark ==
  /\ flush = "clear"
  /\ marks' = marks \ {Head(Head(batches)).symbol}
  /\ results' = Tail(results)
  /\ \/ /\ Tail(results) = <<>>
        /\ batches' = Tail(batches) /\ flush' = "chunk"
     \/ /\ Tail(results) # <<>>
        /\ batches' = <<Tail(Head(batches))>> \o Tail(batches)
        /\ flush' = "result"
  /\ UNCHANGED <<lane, buffer, aged, chunks, status>>

\* Mutant: the lane goes idle without a look at what arrived meanwhile.
RoundEndsIdle ==
  /\ flush = "chunk" /\ batches = <<>>
  /\ lane' = "idle" /\ flush' = "none"
  /\ UNCHANGED <<buffer, aged, batches, chunks, results, marks, status>>

RoundEnds ==
  /\ flush = "chunk" /\ batches = <<>>
  /\ \/ /\ buffer # <<>>
        /\ startRound
     \/ /\ buffer = <<>>
        /\ lane' = "idle" /\ flush' = "none"
        /\ UNCHANGED <<buffer, aged, batches>>
  /\ UNCHANGED <<chunks, results, marks, status>>

-----------------------------------------------------------------------------

\* The steps the daemon's event loop takes by itself.
CoalescerStep ==
  \/ TimerFires
  \/ ReportAged
  \/ MarkInFlight
  \/ SubmitChunk
  \/ ReportResult
  \/ ClearMark
  \/ RoundEnds

=============================================================================
