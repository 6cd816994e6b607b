--------------------------- MODULE WalletArbiter ---------------------------
(***************************************************************************)
(* The feeder's wallet pool: the arbiter that reserves UTxOs under         *)
(* expiring locks, the lanes, fee-loop tasks and maintenance jobs that     *)
(* build from them, the refresh that replaces the cached UTxOs, and the    *)
(* chain they spend from.                                                  *)
(*                                                                         *)
(* A slot holds at most one job: a lane runs one entry of its queue at a   *)
(* time, and the daemon's splitInProgress, consolidateInProgress and       *)
(* fundInProgress admit one maintenance job per wallet.  A reservation is  *)
(* named by its slot.  The pool has more than one wallet, so coin          *)
(* selection is pinned to the reserved UTxOs.  Fees are below the unit of  *)
(* the amounts.  Least-recently-used order among equals is any order.      *)
(***************************************************************************)
EXTENDS WalletPlans

CONSTANTS
  Lanes,             \* submission lanes
  Main,              \* the wallet that signs the fee-loop tasks
  PoolWallets,       \* the wallets with role "pool"
  Openings,          \* what the wallets may hold at startup
  LockTtl,           \* worker_pool.inflight_timeout_ms
  ConsolidateBelow,  \* auto_consolidate_below_lovelace
  MinUsable,         \* wallet_shape.min_usable_utxos
  Low, Target,       \* pool_wallet_low_lovelace, pool_wallet_target_lovelace
  MainReserve,       \* main_wallet_reserve_lovelace
  FundInterval,      \* pool_fund_min_interval_ms
  FundFeeBuffer,     \* POOL_FUND_FEE_BUFFER_LOVELACE
  Accrued,           \* what one withdraw drains from the PaymentHook
  Ticks,             \* bound: refreshes that may overlap
  MaxTime, MaxJobs, MaxFaults  \* bounds

Wallets == {Main} \cup PoolWallets

ASSUME ArbiterParameters ==
  /\ Main \notin PoolWallets /\ PoolWallets # {}
  /\ \A o \in Openings : DOMAIN o = Wallets
  /\ {LockTtl, FundInterval, MaxTime, MaxJobs, MaxFaults, Accrued} \subseteq Nat
  /\ {ConsolidateBelow, MinUsable, Low, Target, MainReserve, FundFeeBuffer}
        \subseteq Nat
  /\ LockTtl > 0 /\ Low < Target

VARIABLES
  now,         \* the clock
  chain,       \* each wallet's unspent UTxOs
  mempool,     \* transactions submitted and not yet landed
  landed,      \* transactions that landed
  cache,       \* the pool's view of each wallet's UTxOs
  locks,       \* the lock table: [ref, slot, until]
  jobs,        \* what each slot runs
  ticks,       \* refreshes under way: wallets left, and the UTxOs just read
  pass,        \* maintenance decisions left in this tick; they do not yield
  purse,       \* the main wallet's balance that the fundings of the tick see
  lastFunded,  \* when each pool wallet was last funded
  started,     \* jobs started, at most MaxJobs
  faults,      \* calls failed and transactions lost, at most MaxFaults
  clean        \* no answer was lost, no lock outlived, no merge started

walletVars == <<cache, locks, jobs, ticks, pass, purse, lastFunded>>
chainVars == <<chain, mempool, landed>>
boundVars == <<started, faults, clean>>
vars == <<now, walletVars, chainVars, boundVars>>

Slots == (({"lane"} \X Lanes) \cup ({"split", "consolidate"} \X Wallets))
            \cup ({"fund"} \X PoolWallets)
LaneKinds == {"update", "settle", "withdraw", "merge"}
Never == -FundInterval

UTxOs == [ref : (Nat \X Nat), lovelace : Nat]
\* A transaction's slot and since record, for the properties, which job made it
\* and when that was decided.  A job is "idle", "reserved", "built" or
\* "submitted", pays and since are a funding's plan, until is its locks' end.
NoTx == [id |-> 0, inputs |-> {}, outputs |-> [w \in Wallets |-> {}],
         slot |-> <<"fund", CHOOSE w \in PoolWallets : TRUE>>, since |-> 0]
Idle == [phase |-> "idle", kind |-> "none", id |-> 0, wallet |-> Main,
         reserved |-> {}, until |-> 0, pays |-> <<>>, since |-> 0, tx |-> NoTx]
Quiet == [left |-> <<>>, reading |-> FALSE, read |-> {}]

\* The cache is primed before the queues start.
Init ==
  /\ now = 0
  /\ chain \in Openings /\ cache = chain
  /\ mempool = {} /\ landed = {} /\ locks = {}
  /\ jobs = [s \in Slots |-> Idle] /\ ticks = [t \in Ticks |-> Quiet]
  /\ pass = <<>> /\ purse = 0 /\ lastFunded = [w \in PoolWallets |-> Never]
  /\ started = 0 /\ faults = 0 /\ clean = TRUE

-----------------------------------------------------------------------------
(* The arbiter.                                                            *)

(* Mutant: locks are never looked at.                                      *)
lockIgnored(u) == FALSE
isLocked(u) == \E l \in locks : l.ref = u.ref /\ now < l.until
spendable(w) == {u \in cache[w] : ~isLocked(u)}
isUsable(w) ==
  /\ Cardinality(spendable(w)) >= RESERVED_UTXOS_PER_TX
  /\ usableCount(spendable(w)) > 0
isFree(w) == \A s \in Slots : jobs[s].reserved # {} => jobs[s].wallet # w

\* Free wallets first, then pool wallets.
rank(w) == (IF isFree(w) THEN 0 ELSE 2) + (IF w = Main THEN 1 ELSE 0)
choices == {w \in Wallets : isUsable(w) /\
              \A v \in Wallets : isUsable(v) => rank(w) <= rank(v)}

running(s) == jobs[s].phase # "idle"

begin(s, kind, w, utxos, pays) ==
  /\ started < MaxJobs /\ started' = started + 1
  /\ jobs' = [jobs EXCEPT ![s] =
       [phase |-> "reserved", kind |-> kind, id |-> started + 1, wallet |-> w,
        reserved |-> utxos, until |-> now + LockTtl, pays |-> pays,
        since |-> now, tx |-> NoTx]]

reserveExact(s, kind, w, utxos, pays) ==
  /\ begin(s, kind, w, utxos, pays)
  /\ locks' = {l \in locks : l.ref \notin refs(utxos)} \cup
       {[ref |-> r, slot |-> s, until |-> now + LockTtl] : r \in refs(utxos)}

reserveFrom(s, kind, w, pays) ==
  reserveExact(s, kind, w, pickUtxos(spendable(w)), pays)

\* The four ways to ask the arbiter; "unavailable" is a step that is not taken.
acquire(s, kind, pays) == \E w \in choices : reserveFrom(s, kind, w, pays)
acquireWallet(s, kind, w, pays) == isUsable(w) /\ reserveFrom(s, kind, w, pays)
acquireSpecificUtxos(s, kind, w, utxos, pays) ==
  /\ utxos # {} /\ utxos \subseteq spendable(w)
  /\ reserveExact(s, kind, w, utxos, pays)
acquireWalletForAmount(s, kind, w, amount, pays) ==
  /\ covers(spendable(w), amount)
  /\ reserveExact(s, kind, w, covering(spendable(w), amount), pays)

\* Unlocks the reservation, and applies the transaction to the cache.
release(s, consumed, produced) ==
  /\ locks' = {l \in locks : l.slot # s}
  /\ cache' = [cache EXCEPT ![jobs[s].wallet] = (@ \ consumed) \cup produced]
  /\ jobs' = [jobs EXCEPT ![s] = Idle]

(* Mutant: a failing job applies nothing, and unlocks nothing.             *)
forgetful(s) == jobs' = [jobs EXCEPT ![s] = Idle] /\ UNCHANGED <<cache, locks>>
releaseUntouched(s) == release(s, {}, {})
releaseSettled(s) ==
  release(s, jobs[s].tx.inputs, jobs[s].tx.outputs[jobs[s].wallet])

-----------------------------------------------------------------------------
(* The jobs of the lanes.  The main wallet signs all but the updates, and  *)
(* the merge of deposits reserves nothing.                                 *)

lane(l) == <<"lane", l>>
admits(l) == pass = <<>> /\ ~running(lane(l))

StartUpdate(l) ==
  /\ admits(l)
  /\ acquire(lane(l), "update", <<>>)
  /\ UNCHANGED <<now, chainVars, cache, ticks, pass, purse, lastFunded, faults, clean>>

StartSettle(l) ==
  /\ admits(l)
  /\ acquireWallet(lane(l), "settle", Main, <<>>)
  /\ UNCHANGED <<now, chainVars, cache, ticks, pass, purse, lastFunded, faults, clean>>

StartWithdraw(l) ==
  /\ admits(l)
  /\ \A s \in Slots : jobs[s].kind # "withdraw"
  /\ acquireWallet(lane(l), "withdraw", Main, <<Accrued>>)
  /\ UNCHANGED <<now, chainVars, cache, ticks, pass, purse, lastFunded, faults, clean>>

StartMerge(l) ==
  /\ admits(l)
  /\ begin(lane(l), "merge", Main, {}, <<>>)
  /\ clean' = FALSE
  /\ UNCHANGED <<now, chainVars, cache, locks, ticks, pass, purse, lastFunded, faults>>

-----------------------------------------------------------------------------
(* The maintenance of the wallets, decided from the cache after a refresh. *)

wantsSplit(w) ==
  /\ ~running(<<"split", w>>)
  /\ usableCount(cache[w]) < MinUsable
  /\ planWalletSplit(cache[w]).outputs # <<>>
  /\ planWalletSplit(cache[w]).consume \subseteq spendable(w)

wantsConsolidation(w) ==
  /\ ~running(<<"consolidate", w>>)
  /\ maxUtxo(cache[w]) < ConsolidateBelow
  /\ worthMerging(cache[w])
  /\ dust(cache[w]) \subseteq spendable(w)

shortage(w) == Target - total(spendable(w))
funding(w) == planShapeOutputs(cache[w], shortage(w), TRUE)
(* Mutant: no cooldown.                                                    *)
fundWithoutCooldown(w) ==
  /\ ~running(<<"fund", w>>)
  /\ total(spendable(w)) < Low
  /\ purse - shortage(w) >= MainReserve
shouldFundPoolWallet(w) ==
  /\ ~running(<<"fund", w>>)
  /\ total(spendable(w)) < Low
  /\ now - lastFunded[w] >= FundInterval
  /\ purse - shortage(w) >= MainReserve
wantsFunding(w) ==
  /\ shouldFundPoolWallet(w)
  /\ funding(w) # <<>>
  /\ covers(spendable(Main), sum(funding(w)) + FundFeeBuffer)

next(kind, w) == pass # <<>> /\ Head(pass) = [kind |-> kind, wallet |-> w]
passOn == /\ pass' = Tail(pass)
          /\ UNCHANGED <<now, chainVars, cache, ticks, lastFunded, faults, clean>>

SplitWallet(w) ==
  /\ next("split", w) /\ wantsSplit(w)
  /\ LET plan == planWalletSplit(cache[w])
     IN  acquireSpecificUtxos(<<"split", w>>, "split", w, plan.consume, plan.outputs)
  /\ passOn /\ UNCHANGED purse

ConsolidateWallet(w) ==
  /\ next("consolidate", w) /\ wantsConsolidation(w)
  /\ acquireSpecificUtxos(<<"consolidate", w>>, "consolidate", w, dust(cache[w]),
                          <<CollateralLovelace>>)
  /\ passOn /\ UNCHANGED purse

Measure ==
  /\ next("measure", Main) /\ purse' = total(spendable(Main))
  /\ passOn /\ UNCHANGED <<locks, jobs, started>>

FundPoolWallet(w) ==
  /\ next("fund", w) /\ wantsFunding(w)
  /\ acquireWalletForAmount(<<"fund", w>>, "fund", Main, sum(funding(w)) + FundFeeBuffer,
                            funding(w))
  /\ passOn /\ UNCHANGED purse

\* The decisions not to act, up to the next one that does.
acts(d) ==
  \/ d.kind = "measure"
  \/ /\ started < MaxJobs
     /\ CASE d.kind = "split" -> wantsSplit(d.wallet)
          [] d.kind = "consolidate" -> wantsConsolidation(d.wallet)
          [] d.kind = "fund" -> wantsFunding(d.wallet)
Skip ==
  LET acting == {i \in DOMAIN pass : acts(pass[i])}
  IN  /\ pass # <<>> /\ 1 \notin acting
      /\ pass' = SubSeq(pass, Min(acting \cup {Len(pass) + 1}), Len(pass))
      /\ UNCHANGED <<now, chainVars, cache, ticks, lastFunded, faults, clean,
                     purse, locks, jobs, started>>

-----------------------------------------------------------------------------
(* The refresh of the cache.                                               *)

poolOrder == SetToSeq(PoolWallets)
walletOrder == <<Main>> \o poolOrder
decisions(kind, wallets) ==
  [i \in 1 .. Len(wallets) |-> [kind |-> kind, wallet |-> wallets[i]]]
agenda ==
  decisions("split", walletOrder) \o decisions("consolidate", walletOrder)
    \o decisions("measure", <<Main>>) \o decisions("fund", poolOrder)

untouched == <<now, chainVars, locks, jobs, lastFunded, started, clean>>

\* The timer starts a refresh, which reads one wallet after the other.
left(t) == IF ticks[t] = Quiet THEN walletOrder ELSE ticks[t].left
ReadWallet(t) ==
  /\ pass = <<>> /\ ~ticks[t].reading
  /\ ticks' = [ticks EXCEPT ![t] = [left |-> left(t), reading |-> TRUE,
                                    read |-> chain[Head(left(t))]]]
  /\ UNCHANGED <<untouched, cache, pass, purse, faults>>

advance(t) ==
  /\ ticks' = [ticks EXCEPT ![t] = [Quiet EXCEPT !.left = Tail(ticks[t].left)]]
  /\ pass' = IF Len(ticks[t].left) = 1 THEN agenda ELSE <<>>
  /\ purse' = 0

ApplyRead(t) ==
  /\ pass = <<>> /\ ticks[t].reading
  /\ cache' = [cache EXCEPT ![Head(ticks[t].left)] = ticks[t].read]
  /\ advance(t)
  /\ UNCHANGED <<untouched, faults>>

ReadFails(t) ==
  /\ pass = <<>> /\ ticks[t].reading
  /\ faults < MaxFaults /\ faults' = faults + 1
  /\ advance(t)
  /\ UNCHANGED <<untouched, cache>>

-----------------------------------------------------------------------------
(* What happens to a job.                                                  *)

live == UNION {chain[w] : w \in Wallets}
Acceptable(tx) ==
  tx.inputs \subseteq live /\ \A t \in mempool : t.inputs \cap tx.inputs = {}

change(job, inputs) ==
  total(inputs) - IF job.kind = "withdraw" THEN 0 ELSE sum(job.pays)
payee(s) == IF s[1] = "fund" THEN s[2] ELSE jobs[s].wallet

\* The transaction that spends the inputs: the pieces, then the change.
transaction(s, inputs) ==
  LET job == jobs[s]
      pieces == {[ref |-> <<job.id, i>>, lovelace |-> job.pays[i]] :
                   i \in DOMAIN job.pays}
      rest == {[ref |-> <<job.id, 0>>, lovelace |-> change(job, inputs)]}
  IN  [id |-> job.id, inputs |-> inputs, slot |-> s, since |-> job.since,
       outputs |-> [w \in Wallets |-> (IF w = payee(s) THEN pieces ELSE {})
                                   \cup (IF w = job.wallet THEN rest ELSE {})]]

\* Which inputs the build may draw: exactly the reserved ones for a split
\* or a consolidation, any of the wallet's for a merge, and no more of the
\* reserved ones than the transaction needs otherwise.
suffices(job, inputs) == change(job, inputs) > 0
inputChoices(job) ==
  CASE job.kind \in {"split", "consolidate"} -> {job.reserved}
    [] job.kind = "merge" -> {{u} : u \in chain[Main]}
    [] OTHER -> {inputs \in SUBSET job.reserved :
                   /\ suffices(job, inputs)
                   /\ \A u \in inputs : ~suffices(job, inputs \ {u})}

(* Mutant: coin selection is not pinned to what is still live.             *)
BuildUnchecked(s) ==
  /\ pass = <<>> /\ jobs[s].phase = "reserved"
  /\ \E inputs \in inputChoices(jobs[s]) :
       jobs' = [jobs EXCEPT ![s].phase = "built", ![s].tx = transaction(s, inputs)]
  /\ UNCHANGED <<now, chainVars, cache, locks, ticks, pass, purse, lastFunded, boundVars>>
Build(s) ==
  /\ pass = <<>> /\ jobs[s].phase = "reserved"
  /\ jobs[s].reserved \subseteq chain[jobs[s].wallet]
  /\ \E inputs \in inputChoices(jobs[s]) :
       jobs' = [jobs EXCEPT ![s].phase = "built", ![s].tx = transaction(s, inputs)]
  /\ UNCHANGED <<now, chainVars, cache, locks, ticks, pass, purse, lastFunded, boundVars>>

\* A reserved UTxO is not live any more, or a call failed.
BuildFails(s) ==
  /\ pass = <<>> /\ jobs[s].phase = "reserved"
  /\ \/ ~(jobs[s].reserved \subseteq chain[jobs[s].wallet]) /\ UNCHANGED faults
     \/ faults < MaxFaults /\ faults' = faults + 1
  /\ releaseUntouched(s)
  /\ UNCHANGED <<now, chainVars, ticks, pass, purse, lastFunded, started, clean>>

Submit(s) ==
  /\ pass = <<>> /\ jobs[s].phase = "built" /\ Acceptable(jobs[s].tx)
  /\ mempool' = mempool \cup {jobs[s].tx}
  /\ jobs' = [jobs EXCEPT ![s].phase = "submitted"]
  /\ UNCHANGED <<now, chain, landed, cache, locks, ticks, pass, purse, lastFunded, boundVars>>

Rejected(s) ==
  /\ pass = <<>> /\ jobs[s].phase = "built" /\ ~Acceptable(jobs[s].tx)
  /\ releaseUntouched(s)
  /\ UNCHANGED <<now, chainVars, ticks, pass, purse, lastFunded, boundVars>>

\* Submitted, but the call reports an error.
LoseAnswer(s) ==
  /\ pass = <<>> /\ jobs[s].phase = "built" /\ Acceptable(jobs[s].tx)
  /\ faults < MaxFaults /\ faults' = faults + 1 /\ clean' = FALSE
  /\ mempool' = mempool \cup {jobs[s].tx}
  /\ releaseUntouched(s)
  /\ UNCHANGED <<now, chain, landed, ticks, pass, purse, lastFunded, started>>

Confirm(s) ==
  /\ pass = <<>> /\ jobs[s].phase = "submitted" /\ jobs[s].tx \in landed
  /\ IF jobs[s].reserved = {} THEN UNCHANGED <<cache, locks>> /\ jobs' = [jobs EXCEPT ![s] = Idle]
                              ELSE releaseSettled(s)
  /\ lastFunded' = IF s[1] = "fund" THEN [lastFunded EXCEPT ![s[2]] = jobs[s].since]
                                    ELSE lastFunded
  /\ UNCHANGED <<now, chainVars, ticks, pass, purse, boundVars>>

\* The confirmation times out.  Only an update has noted by then what its
\* transaction consumed.
GiveUp(s) ==
  /\ pass = <<>> /\ jobs[s].phase = "submitted" /\ jobs[s].tx \notin landed
  /\ \/ jobs[s].tx \notin mempool /\ UNCHANGED faults
     \/ faults < MaxFaults /\ faults' = faults + 1
  /\ clean' = FALSE
  /\ IF jobs[s].kind = "update" THEN releaseSettled(s) ELSE releaseUntouched(s)
  /\ UNCHANGED <<now, chainVars, ticks, pass, purse, lastFunded, started>>

-----------------------------------------------------------------------------
(* Cardano, and the clock.                                                 *)

Land(tx) ==
  /\ pass = <<>> /\ tx \in mempool
  /\ mempool' = mempool \ {tx} /\ landed' = landed \cup {tx}
  /\ chain' = [w \in Wallets |-> (chain[w] \ tx.inputs) \cup tx.outputs[w]]
  /\ UNCHANGED <<now, walletVars, boundVars>>

Evict(tx) ==
  /\ pass = <<>> /\ tx \in mempool
  /\ faults < MaxFaults /\ faults' = faults + 1 /\ clean' = FALSE
  /\ mempool' = mempool \ {tx}
  /\ UNCHANGED <<now, chain, landed, walletVars, started>>

Tick ==
  /\ pass = <<>> /\ now < MaxTime /\ now' = now + 1
  /\ clean' = (clean /\ \A s \in Slots : jobs[s].reserved # {} => now' < jobs[s].until)
  /\ UNCHANGED <<walletVars, chainVars, started, faults>>

JobStep(s) ==
  \/ Build(s) \/ BuildFails(s) \/ Submit(s) \/ Rejected(s)
  \/ LoseAnswer(s) \/ Confirm(s) \/ GiveUp(s)
LaneStep(l) == StartUpdate(l) \/ StartSettle(l) \/ StartWithdraw(l) \/ StartMerge(l)
Maintain ==
  \/ \E w \in Wallets : SplitWallet(w) \/ ConsolidateWallet(w)
  \/ Measure
  \/ \E w \in PoolWallets : FundPoolWallet(w)
  \/ Skip
RefreshStep(t) == ReadWallet(t) \/ ApplyRead(t) \/ ReadFails(t)

Next ==
  \/ \E l \in Lanes : LaneStep(l)
  \/ \E s \in Slots : JobStep(s)
  \/ Maintain
  \/ \E t \in Ticks : RefreshStep(t)
  \/ \E tx \in mempool : Land(tx) \/ Evict(tx)
  \/ Tick

Spec == Init /\ [][Next]_vars
=============================================================================
