------------------------ MODULE WalletArbiterProofs ------------------------
(***************************************************************************)
(* The reservations of the wallet arbiter are disjoint, and no lock        *)
(* outlives its job, for any number of lanes and wallets and any TTL.      *)
(*                                                                         *)
(* The disjointness is not inductive: it needs that the lock table has one *)
(* entry per UTxO (it is a map) and that a reservation that has not        *)
(* expired still has its own entries, because only a UTxO without a        *)
(* running lock is ever reserved.                                          *)
(*                                                                         *)
(* As long as no answer is lost, no lock outlived and no merge started     *)
(* (clean), more follows: what is in the mempool is a transaction that a   *)
(* job awaits and drew from what the job holds, so that a built            *)
(* transaction stays acceptable, and a funding that is over was decided no *)
(* later than the one that is noted, so that the cooldown is kept.         *)
(***************************************************************************)
EXTENDS WalletProperties, TLAPS

\* The job is a record of the right shape; what it holds is left open.
Shaped(j) ==
  /\ j = [phase |-> j.phase, kind |-> j.kind, id |-> j.id, wallet |-> j.wallet,
          reserved |-> j.reserved, until |-> j.until, pays |-> j.pays,
          since |-> j.since, tx |-> j.tx]
  /\ j.until \in Nat

ShapeOK ==
  /\ now \in Nat
  /\ jobs = [s \in Slots |-> jobs[s]]
  /\ \A s \in Slots : Shaped(jobs[s])
  /\ \A l \in locks : l = [ref |-> l.ref, slot |-> l.slot, until |-> l.until]

\* A lock belongs to the reservation of a running job, and expires with it.
LocksMatch ==
  \A l \in locks :
    /\ l.slot \in Slots
    /\ running(l.slot)
    /\ l.ref \in refs(jobs[l.slot].reserved)
    /\ l.until = jobs[l.slot].until

\* A reservation that has not expired has all its locks.
LocksKept ==
  \A s \in Slots : now < jobs[s].until =>
    \A r \in refs(jobs[s].reserved) :
      [ref |-> r, slot |-> s, until |-> jobs[s].until] \in locks

OnePerRef == \A l, m \in locks : l.ref = m.ref => l = m

Inv == ShapeOK /\ LocksMatch /\ LocksKept /\ OnePerRef

-----------------------------------------------------------------------------
LEMMA InitInv == Init => Inv
<1> SUFFICES ASSUME Init PROVE Inv
    OBVIOUS
<1>1. locks = {} /\ now = 0 /\ jobs = [s \in Slots |-> Idle]
  BY DEF Init
<1>2. Shaped(Idle)
  BY DEF Idle, Shaped
<1>3. Idle.until = 0
  BY DEF Idle
<1>4. ShapeOK
  BY <1>1, <1>2 DEF ShapeOK
<1>5. LocksKept
  BY <1>1, <1>3 DEF LocksKept
<1> QED
  BY <1>1, <1>4, <1>5 DEF Inv, LocksMatch, OnePerRef

(* What every way of choosing UTxOs returns lies within what was offered.  *)
LEMMA PickedAreOffered ==
  ASSUME NEW free, NEW amount
  PROVE  pickUtxos(free) \subseteq free /\ covering(free, amount) \subseteq free
  BY DEF pickUtxos, covering, smallest, largest

(* A job may change anything but what it reserved and until when.          *)
LEMMA SameHoldings ==
  ASSUME Inv, NEW s \in Slots, NEW j, Shaped(j),
         jobs' = [jobs EXCEPT ![s] = j],
         j.reserved = jobs[s].reserved, j.until = jobs[s].until, j.phase # "idle",
         UNCHANGED <<now, locks>>
  PROVE  Inv'
<1> USE DEF Inv
<1>1. \A t \in Slots : jobs'[t] = IF t = s THEN j ELSE jobs[t]
  BY DEF ShapeOK
<1>2. \A t \in Slots : /\ jobs'[t].reserved = jobs[t].reserved
                       /\ jobs'[t].until = jobs[t].until
                       /\ running(t) => jobs'[t].phase # "idle"
  BY <1>1 DEF running
<1>3. ShapeOK'
  BY <1>1 DEF ShapeOK
<1>4. LocksMatch'
  BY <1>2 DEF LocksMatch, running, refs
<1>5. LocksKept'
  BY <1>2 DEF LocksKept, refs
<1>6. OnePerRef'
  BY DEF OnePerRef
<1> QED
  BY <1>3, <1>4, <1>5, <1>6

(* A reservation of UTxOs that are spendable, by a slot that is idle.      *)
LEMMA ReservePreserves ==
  ASSUME Inv, NEW s \in Slots, ~running(s), NEW kind, NEW w, NEW utxos, NEW pays,
         \A u \in utxos : ~isLocked(u),
         reserveExact(s, kind, w, utxos, pays), UNCHANGED now
  PROVE  Inv'
<1> USE DEF Inv
<1> DEFINE j == [phase |-> "reserved", kind |-> kind, id |-> started + 1,
                 wallet |-> w, reserved |-> utxos, until |-> now + LockTtl,
                 pays |-> pays, since |-> now, tx |-> NoTx]
           new == {[ref |-> r, slot |-> s, until |-> now + LockTtl] : r \in refs(utxos)}
           kept == {l \in locks : l.ref \notin refs(utxos)}
<1>1. jobs' = [jobs EXCEPT ![s] = j] /\ locks' = kept \cup new
  BY DEF reserveExact, begin
<1>2. \A t \in Slots : jobs'[t] = IF t = s THEN j ELSE jobs[t]
  BY <1>1 DEF ShapeOK
<1>3. now + LockTtl \in Nat
  BY ArbiterParameters DEF ShapeOK
<1>4. Shaped(j)
  BY <1>3 DEF Shaped
<1>5. ShapeOK'
  <2>1. \A l \in locks' : l = [ref |-> l.ref, slot |-> l.slot, until |-> l.until]
    BY <1>1 DEF ShapeOK
  <2> QED
    BY <1>1, <1>2, <1>4, <2>1 DEF ShapeOK
<1>6. \A l \in kept : l.slot \in Slots /\ l.slot # s
  BY DEF LocksMatch
<1>7. LocksMatch'
  <2>1. ASSUME NEW l \in kept
        PROVE  /\ l.slot \in Slots /\ running(l.slot)'
               /\ l.ref \in refs(jobs'[l.slot].reserved)
               /\ l.until = jobs'[l.slot].until
    BY <1>2, <1>6 DEF LocksMatch, running
  <2>2. ASSUME NEW l \in new
        PROVE  /\ l.slot \in Slots /\ running(l.slot)'
               /\ l.ref \in refs(jobs'[l.slot].reserved)
               /\ l.until = jobs'[l.slot].until
    BY <1>2 DEF running
  <2> QED
    BY <1>1, <2>1, <2>2 DEF LocksMatch, refs
<1>8. LocksKept'
  <2> SUFFICES ASSUME NEW t \in Slots, now < jobs'[t].until,
                      NEW r \in refs(jobs'[t].reserved)
               PROVE  [ref |-> r, slot |-> t, until |-> jobs'[t].until] \in locks'
    BY DEF LocksKept, refs
  <2>1. CASE t = s
    BY <1>1, <1>2, <2>1
  <2>2. CASE t # s
    <3> DEFINE l == [ref |-> r, slot |-> t, until |-> jobs[t].until]
    <3>1. jobs'[t] = jobs[t]
      BY <1>2, <2>2
    <3>2. l \in locks /\ l.ref = r /\ l.until = jobs[t].until
      BY <3>1 DEF LocksKept
    <3>3. r \notin refs(utxos)
      <4> SUFFICES ASSUME NEW u \in utxos, u.ref = r PROVE FALSE
        BY DEF refs
      <4>1. now < l.until
        BY <3>1, <3>2
      <4> QED
        BY <3>2, <4>1 DEF isLocked
    <3> QED
      BY <1>1, <3>1, <3>2, <3>3
  <2> QED
    BY <2>1, <2>2
<1>9. OnePerRef'
  <2>1. \A l \in kept, m \in new : l.ref # m.ref
    OBVIOUS
  <2>2. \A l, m \in new : l.ref = m.ref => l = m
    OBVIOUS
  <2> QED
    BY <1>1, <2>1, <2>2 DEF OnePerRef
<1> QED
  BY <1>5, <1>7, <1>8, <1>9

(* A release, whatever it writes to the cache.                             *)
LEMMA ReleasePreserves ==
  ASSUME Inv, NEW s \in Slots, NEW consumed, NEW produced,
         release(s, consumed, produced), UNCHANGED now
  PROVE  Inv'
<1> USE DEF Inv
<1>1. locks' = {l \in locks : l.slot # s} /\ jobs' = [jobs EXCEPT ![s] = Idle]
  BY DEF release
<1>2. \A t \in Slots : jobs'[t] = IF t = s THEN Idle ELSE jobs[t]
  BY <1>1 DEF ShapeOK
<1>3. Shaped(Idle) /\ Idle.until = 0 /\ Idle.reserved = {}
  BY DEF Idle, Shaped
<1>4. ShapeOK'
  BY <1>1, <1>2, <1>3 DEF ShapeOK
<1>5. LocksMatch'
  BY <1>1, <1>2 DEF LocksMatch, running, refs
<1>6. LocksKept'
  <2> SUFFICES ASSUME NEW t \in Slots, now < jobs'[t].until,
                      NEW r \in refs(jobs'[t].reserved)
               PROVE  [ref |-> r, slot |-> t, until |-> jobs'[t].until] \in locks'
    BY DEF LocksKept, refs
  <2>1. t # s /\ jobs'[t] = jobs[t]
    BY <1>2, <1>3 DEF refs
  <2> QED
    BY <1>1, <2>1 DEF LocksKept
<1>7. OnePerRef'
  BY <1>1 DEF OnePerRef
<1> QED
  BY <1>4, <1>5, <1>6, <1>7

(* Only the clock moves: fewer reservations are running.                   *)
LEMMA TickPreserves == Inv /\ Tick => Inv'
<1> SUFFICES ASSUME Inv, Tick PROVE Inv'
    OBVIOUS
<1> USE DEF Inv
<1>1. now' = now + 1 /\ locks' = locks /\ jobs' = jobs
  BY DEF Tick, walletVars
<1>2. ShapeOK'
  BY <1>1 DEF ShapeOK
<1>3. LocksMatch' /\ OnePerRef'
  BY <1>1 DEF LocksMatch, OnePerRef, running, refs
<1>4. LocksKept'
  <2>1. \A t \in Slots : now' < jobs[t].until => now < jobs[t].until
    BY <1>1 DEF ShapeOK, Shaped
  <2> QED
    BY <1>1, <2>1 DEF LocksKept, refs
<1> QED
  BY <1>2, <1>3, <1>4

LEMMA NothingHeldChanges ==
  ASSUME Inv, UNCHANGED <<now, locks, jobs>>
  PROVE  Inv'
  BY DEF Inv, ShapeOK, LocksMatch, LocksKept, OnePerRef, running, refs

-----------------------------------------------------------------------------
(* The steps of Next.                                                      *)

LEMMA LaneStepPreserves ==
  ASSUME Inv, NEW l \in Lanes, LaneStep(l)
  PROVE  Inv'
<1>1. lane(l) \in Slots
  BY DEF lane, Slots
<1>2. \A w : \A u \in pickUtxos(spendable(w)) : ~isLocked(u)
  BY PickedAreOffered DEF spendable
<1>3. CASE StartUpdate(l)
  <2>1. ~running(lane(l)) /\ UNCHANGED now
    BY <1>3 DEF StartUpdate, admits
  <2>2. PICK w \in choices :
          reserveExact(lane(l), "update", w, pickUtxos(spendable(w)), <<>>)
    BY <1>3 DEF StartUpdate, acquire, reserveFrom
  <2> QED
    BY <1>1, <1>2, <2>1, <2>2, ReservePreserves
<1>4. CASE StartSettle(l)
  BY <1>1, <1>2, <1>4, ReservePreserves DEF StartSettle, admits, acquireWallet, reserveFrom
<1>5. CASE StartWithdraw(l)
  BY <1>1, <1>2, <1>5, ReservePreserves DEF StartWithdraw, admits, acquireWallet, reserveFrom
<1>6. CASE StartMerge(l)
  \* A merge reserves nothing: as a reservation of the empty set.
  <2>1. ~running(lane(l)) /\ UNCHANGED <<now, locks>>
    BY <1>6 DEF StartMerge, admits
  <2>2. begin(lane(l), "merge", Main, {}, <<>>)
    BY <1>6 DEF StartMerge
  <2>3. locks' = {m \in locks : m.ref \notin refs({})} \cup
          {[ref |-> r, slot |-> lane(l), until |-> now + LockTtl] : r \in refs({})}
    BY <2>1 DEF refs
  <2>4. reserveExact(lane(l), "merge", Main, {}, <<>>)
    BY <2>2, <2>3 DEF reserveExact
  <2> QED
    BY <1>1, <2>1, <2>4, ReservePreserves
<1> QED
  BY <1>3, <1>4, <1>5, <1>6 DEF LaneStep

LEMMA MaintainPreserves ==
  ASSUME Inv, Maintain
  PROVE  Inv'
<1>1. ASSUME NEW w \in Wallets, SplitWallet(w) PROVE Inv'
  <2>1. <<"split", w>> \in Slots /\ ~running(<<"split", w>>)
    BY <1>1 DEF Slots, SplitWallet, wantsSplit
  <2>2. \A u \in planWalletSplit(cache[w]).consume : ~isLocked(u)
    BY <1>1 DEF SplitWallet, wantsSplit, spendable
  <2> QED
    BY <1>1, <2>1, <2>2, ReservePreserves
    DEF SplitWallet, passOn, acquireSpecificUtxos
<1>2. ASSUME NEW w \in Wallets, ConsolidateWallet(w) PROVE Inv'
  <2>1. <<"consolidate", w>> \in Slots /\ ~running(<<"consolidate", w>>)
    BY <1>2 DEF Slots, ConsolidateWallet, wantsConsolidation
  <2>2. \A u \in dust(cache[w]) : ~isLocked(u)
    BY <1>2 DEF ConsolidateWallet, wantsConsolidation, spendable
  <2> QED
    BY <1>2, <2>1, <2>2, ReservePreserves
    DEF ConsolidateWallet, passOn, acquireSpecificUtxos
<1>3. ASSUME NEW w \in PoolWallets, FundPoolWallet(w) PROVE Inv'
  <2> DEFINE amount == sum(funding(w)) + FundFeeBuffer
  <2>1. <<"fund", w>> \in Slots /\ ~running(<<"fund", w>>)
    BY <1>3 DEF Slots, FundPoolWallet, wantsFunding, shouldFundPoolWallet
  <2>2. \A u \in covering(spendable(Main), amount) : ~isLocked(u)
    BY PickedAreOffered DEF spendable
  <2>3. /\ UNCHANGED now
        /\ reserveExact(<<"fund", w>>, "fund", Main,
                        covering(spendable(Main), amount), funding(w))
    BY <1>3 DEF FundPoolWallet, passOn, acquireWalletForAmount
  <2> QED
    BY <2>1, <2>2, <2>3, ReservePreserves
<1>4. CASE Measure \/ Skip
  BY <1>4, NothingHeldChanges DEF Measure, Skip, passOn
<1> QED
  BY <1>1, <1>2, <1>3, <1>4 DEF Maintain

LEMMA JobStepPreserves ==
  ASSUME Inv, NEW s \in Slots, JobStep(s)
  PROVE  Inv'
<1>1. CASE Build(s)
  <2>1. PICK inputs \in inputChoices(jobs[s]) :
          jobs' = [jobs EXCEPT ![s].phase = "built", ![s].tx = transaction(s, inputs)]
    BY <1>1 DEF Build
  <2> DEFINE x == transaction(s, inputs)
             k == [jobs[s] EXCEPT !.phase = "built"]
             j == [k EXCEPT !.tx = x]
  <2>2. jobs' = [jobs EXCEPT ![s] = j]
    BY <2>1
  <2> HIDE DEF x
  <2>5. Shaped(jobs[s])
    BY DEF Inv, ShapeOK
  <2>6. k = [phase |-> "built", kind |-> jobs[s].kind, id |-> jobs[s].id,
             wallet |-> jobs[s].wallet, reserved |-> jobs[s].reserved,
             until |-> jobs[s].until, pays |-> jobs[s].pays,
             since |-> jobs[s].since, tx |-> jobs[s].tx]
    BY ONLY <2>5 DEF Shaped
  <2> HIDE DEF k
  <2>3. j = [phase |-> "built", kind |-> jobs[s].kind, id |-> jobs[s].id,
             wallet |-> jobs[s].wallet, reserved |-> jobs[s].reserved,
             until |-> jobs[s].until, pays |-> jobs[s].pays,
             since |-> jobs[s].since, tx |-> x]
    BY ONLY <2>6
  <2>4. Shaped(j) /\ j.reserved = jobs[s].reserved /\ j.until = jobs[s].until
                  /\ j.phase # "idle"
    BY <2>3 DEF Inv, ShapeOK, Shaped
  <2> HIDE DEF j
  <2> QED
    BY <1>1, <2>2, <2>4, SameHoldings DEF Build
<1>2. CASE Submit(s)
  <2> DEFINE j == [jobs[s] EXCEPT !.phase = "submitted"]
  <2>1. jobs' = [jobs EXCEPT ![s] = j]
    BY <1>2 DEF Submit
  <2>2. j = [phase |-> "submitted", kind |-> jobs[s].kind, id |-> jobs[s].id,
             wallet |-> jobs[s].wallet, reserved |-> jobs[s].reserved,
             until |-> jobs[s].until, pays |-> jobs[s].pays,
             since |-> jobs[s].since, tx |-> jobs[s].tx]
    BY DEF Inv, ShapeOK, Shaped
  <2>3. Shaped(j) /\ j.reserved = jobs[s].reserved /\ j.until = jobs[s].until
                  /\ j.phase # "idle"
    BY <2>2 DEF Inv, ShapeOK, Shaped
  <2> HIDE DEF j
  <2> QED
    BY <1>2, <2>1, <2>3, SameHoldings DEF Submit
<1>3. CASE BuildFails(s) \/ Rejected(s) \/ LoseAnswer(s)
  BY <1>3, ReleasePreserves
  DEF BuildFails, Rejected, LoseAnswer, releaseUntouched
<1>4. CASE GiveUp(s)
  BY <1>4, ReleasePreserves DEF GiveUp, releaseUntouched, releaseSettled
<1>5. CASE Confirm(s)
  <2>1. CASE jobs[s].reserved # {}
    BY <1>5, <2>1, ReleasePreserves DEF Confirm, releaseSettled
  <2>2. CASE jobs[s].reserved = {}
    \* Nothing was reserved, so the slot has no lock to release.
    <3>1. jobs' = [jobs EXCEPT ![s] = Idle] /\ UNCHANGED <<now, cache, locks>>
      BY <1>5, <2>2 DEF Confirm
    <3>2. locks' = {l \in locks : l.slot # s}
      BY <2>2, <3>1 DEF Inv, LocksMatch, refs
    <3>3. jobs' = [t \in Slots |-> IF t = s THEN Idle ELSE jobs[t]]
      BY <3>1 DEF Inv, ShapeOK
    <3>4. Shaped(Idle) /\ Idle.until = 0 /\ Idle.reserved = {}
      BY DEF Idle, Shaped
    <3>5. ShapeOK'
      BY <3>1, <3>3, <3>4 DEF Inv, ShapeOK
    <3>6. LocksMatch'
      BY <3>1, <3>2, <3>3 DEF Inv, LocksMatch, running, refs
    <3>7. LocksKept'
      BY <3>1, <3>3, <3>4 DEF Inv, LocksKept, refs
    <3>8. OnePerRef'
      BY <3>1 DEF Inv, OnePerRef
    <3> QED
      BY <3>5, <3>6, <3>7, <3>8 DEF Inv
  <2> QED
    BY <2>1, <2>2
<1> QED
  BY <1>1, <1>2, <1>3, <1>4, <1>5 DEF JobStep

LEMMA NextPreserves == Inv /\ [Next]_vars => Inv'
<1> SUFFICES ASSUME Inv, [Next]_vars PROVE Inv'
    OBVIOUS
<1>1. ASSUME NEW l \in Lanes, LaneStep(l) PROVE Inv'
  BY <1>1, LaneStepPreserves
<1>2. ASSUME NEW s \in Slots, JobStep(s) PROVE Inv'
  BY <1>2, JobStepPreserves
<1>3. CASE Maintain
  BY <1>3, MaintainPreserves
<1>4. ASSUME NEW t \in Ticks, RefreshStep(t) PROVE Inv'
  BY <1>4, NothingHeldChanges DEF RefreshStep, ReadWallet, ApplyRead, ReadFails, untouched
<1>5. ASSUME NEW tx \in mempool, Land(tx) \/ Evict(tx) PROVE Inv'
  BY <1>5, NothingHeldChanges DEF Land, Evict, walletVars
<1>6. CASE Tick
  BY <1>6, TickPreserves
<1>7. CASE UNCHANGED vars
  BY <1>7, NothingHeldChanges DEF vars, walletVars
<1> QED
  BY <1>1, <1>2, <1>3, <1>4, <1>5, <1>6, <1>7 DEF Next

LEMMA InvHolds == Spec => []Inv
  BY InitInv, NextPreserves, PTL DEF Spec

-----------------------------------------------------------------------------
(* No two jobs hold the same UTxO at once, for any number of lanes and     *)
(* wallets and any TTL: the claim of the arbiter (wallet-arbiter.ts).      *)
THEOREM DisjointReservations == Spec => []ReservationsDisjoint
<1>1. Inv => ReservationsDisjoint
  <2> SUFFICES ASSUME Inv, NEW s \in Slots, NEW t \in Slots, s # t,
                      NEW r \in holds(s), r \in holds(t)
               PROVE  FALSE
    BY DEF ReservationsDisjoint
  <2>1. [ref |-> r, slot |-> s, until |-> jobs[s].until] \in locks
    BY DEF holds, Inv, LocksKept
  <2>2. [ref |-> r, slot |-> t, until |-> jobs[t].until] \in locks
    BY DEF holds, Inv, LocksKept
  <2> QED
    BY <2>1, <2>2 DEF Inv, OnePerRef
<1> QED
  BY <1>1, InvHolds, PTL

(* No lock is left behind by a job that ended, whichever way it ended.     *)
THEOREM LocksAreOwned == Spec => []LocksOwned
<1>1. Inv => LocksOwned
  BY DEF Inv, LocksMatch, LocksOwned
<1> QED
  BY <1>1, InvHolds, PTL

-----------------------------------------------------------------------------
(* What holds while clean: jobs hold what they reserved.                   *)

Made(s) == jobs[s].phase \in {"built", "submitted"}
Unexpired == \A s \in Slots : jobs[s].reserved # {} => now < jobs[s].until

\* A transaction draws on what its job reserved, in the job's wallet, and
\* carries the job's slot and the time of its decision.
DrawsReserved ==
  \A s \in Slots :
    /\ jobs[s].wallet \in Wallets
    /\ jobs[s].kind # "merge"
    /\ Made(s) => /\ jobs[s].tx.inputs \subseteq jobs[s].reserved
                  /\ jobs[s].tx.id = jobs[s].id
                  /\ jobs[s].tx.slot = s /\ jobs[s].tx.since = jobs[s].since
    /\ jobs[s].phase = "built" => jobs[s].tx.inputs \subseteq live

\* Ids are given once, so a job that has not submitted has no transaction out.
IdsFresh ==
  /\ started \in Nat
  /\ \A s \in Slots : running(s) => jobs[s].id \in Nat /\ jobs[s].id <= started
  /\ \A s, t \in Slots :
       running(s) /\ running(t) /\ jobs[s].id = jobs[t].id => s = t
  /\ \A x \in mempool \cup landed :
       /\ x.id \in Nat /\ x.id <= started
       /\ \A s \in Slots : running(s) /\ x.id = jobs[s].id => jobs[s].phase = "submitted"

\* What is in the mempool has a job that waits for it.
MempoolAwaited ==
  /\ mempool \cap landed = {}
  /\ \A x \in mempool : \E s \in Slots :
       jobs[s].phase = "submitted" /\ jobs[s].tx = x

\* A funding that is under way respects the cooldown; those that are over were
\* decided no later than the last one that was noted.
FundingsNoted ==
  /\ lastFunded \in [PoolWallets -> Int]
  /\ \A w \in PoolWallets :
       /\ running(<<"fund", w>>) =>
            /\ jobs[<<"fund", w>>].since \in Int
            /\ jobs[<<"fund", w>>].since - lastFunded[w] >= FundInterval
       /\ \A x \in mempool \cup landed :
            x.slot = <<"fund", w>> =>
              /\ x.since \in Int
              /\ \/ x.since <= lastFunded[w]
                 \/ /\ jobs[<<"fund", w>>].phase = "submitted"
                    /\ x = jobs[<<"fund", w>>].tx

CleanInv ==
  clean => /\ Unexpired /\ DrawsReserved /\ IdsFresh /\ MempoolAwaited
           /\ FundingsNoted /\ Spaced
LEMMA InitClean == Init => CleanInv
<1> SUFFICES ASSUME Init PROVE CleanInv
    OBVIOUS
<1>1. /\ jobs = [s \in Slots |-> Idle] /\ mempool = {} /\ landed = {} /\ started = 0
      /\ lastFunded = [w \in PoolWallets |-> Never]
  BY DEF Init
<1>2. Idle.phase = "idle" /\ Idle.kind = "none" /\ Idle.reserved = {} /\ Idle.wallet = Main
  BY DEF Idle
<1>3. \A s \in Slots : jobs[s] = Idle
  BY <1>1
<1>4. Unexpired /\ DrawsReserved
  BY <1>2, <1>3 DEF Unexpired, DrawsReserved, Made, Wallets
<1>5. IdsFresh /\ MempoolAwaited
  BY <1>1, <1>2, <1>3 DEF IdsFresh, MempoolAwaited, running
<1>6. FundingsNoted
  <2>1. Never \in Int
    BY ArbiterParameters DEF Never
  <2>2. \A w \in PoolWallets : <<"fund", w>> \in Slots
    BY DEF Slots
  <2> QED
    BY <1>1, <1>2, <1>3, <2>1, <2>2 DEF FundingsNoted, running
<1>7. Spaced
  BY <1>1 DEF Spaced
<1> QED
  BY <1>4, <1>5, <1>6, <1>7 DEF CleanInv

(* A reservation by a slot that is idle, of a wallet's UTxOs.              *)
LEMMA ReserveKeepsClean ==
  ASSUME Inv, CleanInv, NEW s \in Slots, ~running(s), NEW kind, kind # "merge",
         NEW w \in Wallets, NEW utxos, NEW pays,
         reserveExact(s, kind, w, utxos, pays),
         \A v \in PoolWallets : s = <<"fund", v>> => now - lastFunded[v] >= FundInterval,
         UNCHANGED <<now, chainVars, lastFunded, clean>>
  PROVE  CleanInv'
<1> SUFFICES ASSUME clean PROVE CleanInv'
    BY DEF CleanInv
<1> USE DEF CleanInv
<1> DEFINE j == [phase |-> "reserved", kind |-> kind, id |-> started + 1,
                 wallet |-> w, reserved |-> utxos, until |-> now + LockTtl,
                 pays |-> pays, since |-> now, tx |-> NoTx]
<1>1. jobs' = [jobs EXCEPT ![s] = j] /\ started' = started + 1
  BY DEF reserveExact, begin
<1>2. /\ jobs'[s] = j
      /\ \A t \in Slots : t # s => jobs'[t] = jobs[t]
  BY <1>1 DEF Inv, ShapeOK
<1>3. /\ j.phase = "reserved" /\ j.kind = kind /\ j.id = started + 1 /\ j.wallet = w
      /\ j.until = now + LockTtl /\ j.since = now
  OBVIOUS
<1> HIDE DEF j
<1>4. now \in Nat /\ started \in Nat /\ now < now + LockTtl
  BY ArbiterParameters DEF Inv, ShapeOK, IdsFresh
<1>5. Unexpired'
  BY <1>2, <1>3, <1>4 DEF Unexpired
<1>6. live' = live
  BY DEF live, chainVars
<1>7. DrawsReserved'
  <2> SUFFICES ASSUME NEW t \in Slots
               PROVE  /\ jobs'[t].wallet \in Wallets
                      /\ jobs'[t].kind # "merge"
                      /\ Made(t)' => /\ jobs'[t].tx.inputs \subseteq jobs'[t].reserved
                                     /\ jobs'[t].tx.id = jobs'[t].id
                                     /\ jobs'[t].tx.slot = t
                                     /\ jobs'[t].tx.since = jobs'[t].since
                      /\ jobs'[t].phase = "built" => jobs'[t].tx.inputs \subseteq live
    BY <1>6 DEF DrawsReserved
  <2>1. CASE t = s
    BY <1>2, <1>3, <2>1 DEF Made
  <2>2. CASE t # s
    BY <1>2, <2>2 DEF DrawsReserved, Made
  <2> QED
    BY <2>1, <2>2
<1>8. IdsFresh'
  <2>1. \A t \in Slots : t # s /\ running(t)' =>
          running(t) /\ jobs'[t].id = jobs[t].id /\ jobs[t].id \in Nat /\ jobs[t].id <= started
    BY <1>2 DEF IdsFresh, running
  <2>2. jobs'[s].id = started + 1
    BY <1>2, <1>3
  <2>3. \A t \in Slots : running(t)' => jobs'[t].id \in Nat /\ jobs'[t].id <= started'
    BY <1>1, <1>4, <2>1, <2>2
  <2>4. ASSUME NEW t \in Slots, NEW u \in Slots, running(t)', running(u)',
               jobs'[t].id = jobs'[u].id, t # u
        PROVE  FALSE
    <3>1. CASE t = s
      BY <1>4, <2>1, <2>2, <2>4, <3>1
    <3>2. CASE u = s
      BY <1>4, <2>1, <2>2, <2>4, <3>2
    <3>3. CASE t # s /\ u # s
      BY <2>1, <2>4, <3>3 DEF IdsFresh
    <3> QED
      BY <3>1, <3>2, <3>3
  <2>5. ASSUME NEW x \in mempool \cup landed
        PROVE  /\ x.id \in Nat /\ x.id <= started'
               /\ \A t \in Slots : running(t)' /\ x.id = jobs'[t].id
                                     => jobs'[t].phase = "submitted"
    <3>1. x.id \in Nat /\ x.id <= started
      BY DEF IdsFresh
    <3>2. x.id <= started' /\ x.id # started + 1
      BY <1>1, <1>4, <3>1
    <3>3. \A t \in Slots : t # s /\ running(t)' /\ x.id = jobs'[t].id
                             => jobs'[t].phase = "submitted"
      BY <1>2, <2>1 DEF IdsFresh
    <3> QED
      BY <2>2, <3>1, <3>2, <3>3
  <2>6. started' \in Nat /\ mempool' \cup landed' = mempool \cup landed
    BY <1>1, <1>4 DEF chainVars
  <2> QED
    BY <2>3, <2>4, <2>5, <2>6 DEF IdsFresh
<1>9. MempoolAwaited'
  <2>1. jobs[s].phase # "submitted"
    BY DEF running
  <2> QED
    BY <1>2, <2>1 DEF MempoolAwaited, chainVars
<1>10. FundingsNoted'
  <2> SUFFICES ASSUME NEW v \in PoolWallets
               PROVE  /\ running(<<"fund", v>>)' =>
                           /\ jobs'[<<"fund", v>>].since \in Int
                           /\ jobs'[<<"fund", v>>].since - lastFunded[v] >= FundInterval
                      /\ \A x \in mempool \cup landed :
                           x.slot = <<"fund", v>> =>
                             /\ x.since \in Int
                             /\ \/ x.since <= lastFunded[v]
                                \/ /\ jobs'[<<"fund", v>>].phase = "submitted"
                                   /\ x = jobs'[<<"fund", v>>].tx
    BY DEF FundingsNoted, chainVars
  <2>1. <<"fund", v>> \in Slots
    BY DEF Slots
  <2>2. CASE s = <<"fund", v>>
    <3>1. jobs[<<"fund", v>>].phase = "idle"
      BY <2>2 DEF running
    <3>2. \A x \in mempool \cup landed :
            x.slot = <<"fund", v>> => x.since \in Int /\ x.since <= lastFunded[v]
      BY <3>1 DEF FundingsNoted
    <3>3. jobs'[<<"fund", v>>].since = now
      BY <1>2, <1>3, <2>2
    <3> QED
      BY <1>4, <2>2, <3>2, <3>3 DEF FundingsNoted
  <2>3. CASE s # <<"fund", v>>
    BY <1>2, <2>1, <2>3 DEF FundingsNoted, running
  <2> QED
    BY <2>2, <2>3
<1>11. Spaced'
  BY DEF Spaced, chainVars
<1> QED
  BY <1>5, <1>7, <1>8, <1>9, <1>10, <1>11

(* A job that ends without a transaction that counts, or is confirmed: its *)
(* transaction, if it submitted one, is in landed and noted as a funding.  *)
LEMMA EndKeepsClean ==
  ASSUME Inv, CleanInv, NEW s \in Slots, running(s),
         jobs' = [jobs EXCEPT ![s] = Idle],
         jobs[s].phase = "submitted" => jobs[s].tx \in landed,
         lastFunded' = IF jobs[s].phase = "submitted" /\ s[1] = "fund"
                       THEN [lastFunded EXCEPT ![s[2]] = jobs[s].since] ELSE lastFunded,
         UNCHANGED <<now, chainVars, started, clean>>
  PROVE  CleanInv'
<1> SUFFICES ASSUME clean PROVE CleanInv'
    BY DEF CleanInv
<1> USE DEF CleanInv
<1>1. \A t \in Slots : jobs'[t] = IF t = s THEN Idle ELSE jobs[t]
  BY DEF Inv, ShapeOK
<1>2. Idle.phase = "idle" /\ Idle.kind = "none" /\ Idle.reserved = {} /\ Idle.wallet = Main
  BY DEF Idle
<1>3. Unexpired'
  BY <1>1, <1>2 DEF Unexpired
<1>4. live' = live
  BY DEF live, chainVars
<1>5. DrawsReserved'
  BY <1>1, <1>2, <1>4 DEF DrawsReserved, Made, Wallets
<1>6. IdsFresh'
  BY <1>1, <1>2 DEF IdsFresh, running, chainVars
<1>7. MempoolAwaited'
  <2>1. \A x \in mempool : \E t \in Slots :
          jobs[t].phase = "submitted" /\ jobs[t].tx = x /\ t # s
    BY DEF MempoolAwaited
  <2> QED
    BY <1>1, <2>1 DEF MempoolAwaited, chainVars
<1>8. FundingsNoted'
  <2>0. lastFunded' \in [PoolWallets -> Int]
    BY DEF FundingsNoted, running, Slots
  <2> SUFFICES ASSUME NEW v \in PoolWallets
               PROVE  /\ running(<<"fund", v>>)' =>
                           /\ jobs'[<<"fund", v>>].since \in Int
                           /\ jobs'[<<"fund", v>>].since - lastFunded'[v] >= FundInterval
                      /\ \A x \in mempool \cup landed :
                           x.slot = <<"fund", v>> =>
                             /\ x.since \in Int
                             /\ \/ x.since <= lastFunded'[v]
                                \/ /\ jobs'[<<"fund", v>>].phase = "submitted"
                                   /\ x = jobs'[<<"fund", v>>].tx
    BY <2>0 DEF FundingsNoted, chainVars
  <2>1. <<"fund", v>> \in Slots
    BY DEF Slots
  <2>2. CASE s = <<"fund", v>>
    <3>1. s[1] = "fund" /\ s[2] = v
      BY <2>2
    <3>2. ~running(<<"fund", v>>)'
      BY <1>1, <1>2, <2>2 DEF running
    <3>3. CASE jobs[s].phase = "submitted"
      <4>1. lastFunded'[v] = jobs[s].since
        BY <3>1, <3>3 DEF FundingsNoted
      <4>2. /\ lastFunded[v] \in Int /\ jobs[s].since \in Int
            /\ jobs[s].since - lastFunded[v] >= FundInterval
        BY <2>2 DEF FundingsNoted
      <4>3. lastFunded[v] <= jobs[s].since
        BY <4>2, ArbiterParameters
      <4>4. jobs[s].tx.since = jobs[s].since
        BY <3>3 DEF DrawsReserved, Made
      <4>5. ASSUME NEW x \in mempool \cup landed, x.slot = <<"fund", v>>
            PROVE  x.since \in Int /\ x.since <= jobs[s].since
        <5>1. x.since \in Int /\ (x.since <= lastFunded[v] \/ x = jobs[s].tx)
          BY <2>2, <4>5 DEF FundingsNoted
        <5>2. CASE x = jobs[s].tx
          BY <4>2, <4>4, <5>2
        <5>3. CASE x.since <= lastFunded[v]
          BY <4>2, <4>3, <5>1, <5>3
        <5> QED
          BY <5>1, <5>2, <5>3
      <4> QED
        BY <3>2, <4>1, <4>2, <4>5
    <3>4. CASE jobs[s].phase # "submitted"
      BY <2>2, <3>2, <3>4 DEF FundingsNoted
    <3> QED
      BY <3>3, <3>4
  <2>3. CASE s # <<"fund", v>>
    <3>1. jobs'[<<"fund", v>>] = jobs[<<"fund", v>>]
      BY <1>1, <2>1, <2>3
    <3>2. s[1] = "fund" => s[2] # v
      BY <2>3 DEF Slots
    <3>3. lastFunded'[v] = lastFunded[v]
      BY <3>2
    <3> QED
      BY <3>1, <3>3 DEF FundingsNoted, running
  <2> QED
    BY <2>2, <2>3
<1>9. Spaced'
  BY DEF Spaced, chainVars
<1> QED
  BY <1>3, <1>5, <1>6, <1>7, <1>8, <1>9

(* A build: the inputs are reserved, and live.                             *)
LEMMA BuildKeepsClean ==
  ASSUME Inv, CleanInv, NEW s \in Slots, Build(s)
  PROVE  CleanInv'
<1> SUFFICES ASSUME clean PROVE CleanInv'
    BY DEF CleanInv, Build, boundVars
<1> USE DEF CleanInv
<1>1. PICK inputs \in inputChoices(jobs[s]) :
        jobs' = [jobs EXCEPT ![s].phase = "built", ![s].tx = transaction(s, inputs)]
  BY DEF Build
<1>2. /\ jobs[s].phase = "reserved" /\ jobs[s].reserved \subseteq chain[jobs[s].wallet]
      /\ UNCHANGED <<now, chain, mempool, landed, lastFunded, started>>
  BY DEF Build, chainVars, boundVars
<1> DEFINE x == transaction(s, inputs)
           j == [jobs[s] EXCEPT !.phase = "built", !.tx = x]
<1>3. x.id = jobs[s].id /\ x.inputs = inputs /\ x.slot = s /\ x.since = jobs[s].since
  BY DEF transaction
<1>4. jobs' = [jobs EXCEPT ![s] = j]
  BY <1>1
<1> HIDE DEF x
<1>5. /\ j.phase = "built" /\ j.kind = jobs[s].kind /\ j.id = jobs[s].id
      /\ j.wallet = jobs[s].wallet /\ j.reserved = jobs[s].reserved
      /\ j.until = jobs[s].until /\ j.since = jobs[s].since /\ j.tx = x
  BY DEF Inv, ShapeOK, Shaped
<1> HIDE DEF j
<1>6. \A t \in Slots : jobs'[t] = IF t = s THEN j ELSE jobs[t]
  BY <1>4 DEF Inv, ShapeOK
<1>7. inputs \subseteq jobs[s].reserved
  BY DEF inputChoices, DrawsReserved
<1>8. inputs \subseteq live /\ live' = live
  BY <1>2, <1>7 DEF live, DrawsReserved
<1>9. Unexpired'
  BY <1>2, <1>5, <1>6 DEF Unexpired
<1>10. DrawsReserved'
  BY <1>3, <1>5, <1>6, <1>7, <1>8 DEF DrawsReserved, Made
<1>11. IdsFresh'
  <2>1. \A t \in Slots : jobs'[t].id = jobs[t].id /\ (running(t)' <=> running(t))
    BY <1>2, <1>5, <1>6 DEF running
  <2>2. \A y \in mempool \cup landed : y.id # jobs[s].id
    BY <1>2 DEF IdsFresh, running
  <2> QED
    BY <1>2, <1>6, <2>1, <2>2 DEF IdsFresh
<1>12. MempoolAwaited'
  BY <1>2, <1>6 DEF MempoolAwaited
<1>13. FundingsNoted'
  <2>1. \A v \in PoolWallets : <<"fund", v>> \in Slots
    BY DEF Slots
  <2>2. \A t \in Slots : jobs'[t].since = jobs[t].since /\ (running(t)' <=> running(t))
    BY <1>2, <1>5, <1>6 DEF running
  <2>3. \A t \in Slots : jobs[t].phase = "submitted" => jobs'[t] = jobs[t]
    BY <1>2, <1>6
  <2> QED
    BY <1>2, <2>1, <2>2, <2>3 DEF FundingsNoted
<1>14. Spaced'
  BY <1>2 DEF Spaced
<1> QED
  BY <1>9, <1>10, <1>11, <1>12, <1>13, <1>14

(* A transaction enters the mempool: the job's first, and a funding only   *)
(* after the cooldown that its decision kept.                              *)
LEMMA SubmitKeepsClean ==
  ASSUME Inv, CleanInv, NEW s \in Slots, Submit(s)
  PROVE  CleanInv'
<1> SUFFICES ASSUME clean PROVE CleanInv'
    BY DEF CleanInv, Submit, boundVars
<1> USE DEF CleanInv
<1> DEFINE x == jobs[s].tx
           j == [jobs[s] EXCEPT !.phase = "submitted"]
<1>1. /\ jobs[s].phase = "built" /\ mempool' = mempool \cup {x}
      /\ UNCHANGED <<now, chain, landed, lastFunded, started>>
  BY DEF Submit, boundVars
<1>2. jobs' = [jobs EXCEPT ![s] = j]
  BY DEF Submit
<1>3. /\ j.phase = "submitted" /\ j.kind = jobs[s].kind /\ j.id = jobs[s].id
      /\ j.wallet = jobs[s].wallet /\ j.reserved = jobs[s].reserved
      /\ j.until = jobs[s].until /\ j.since = jobs[s].since /\ j.tx = x
  BY DEF Inv, ShapeOK, Shaped
<1> HIDE DEF j
<1>4. \A t \in Slots : jobs'[t] = IF t = s THEN j ELSE jobs[t]
  BY <1>2 DEF Inv, ShapeOK
<1>5. /\ x.inputs \subseteq jobs[s].reserved /\ x.id = jobs[s].id
      /\ x.slot = s /\ x.since = jobs[s].since
  BY <1>1 DEF DrawsReserved, Made
<1>6. \A y \in mempool \cup landed : y.id # jobs[s].id
  BY <1>1 DEF IdsFresh, running
<1>7. live' = live
  BY <1>1 DEF live
<1> HIDE DEF x
<1>8. \A t \in Slots : /\ jobs'[t].id = jobs[t].id /\ jobs'[t].since = jobs[t].since
                       /\ (running(t)' <=> running(t))
  BY <1>1, <1>3, <1>4 DEF running
<1>9. Unexpired'
  BY <1>1, <1>3, <1>4 DEF Unexpired
<1>10. DrawsReserved'
  BY <1>1, <1>3, <1>4, <1>5, <1>7 DEF DrawsReserved, Made
<1>11. IdsFresh'
  <2>1. started \in Nat /\ running(s) /\ jobs[s].id \in Nat /\ jobs[s].id <= started
    BY <1>1 DEF IdsFresh, running
  <2>2. \A t \in Slots : running(t) /\ x.id = jobs[t].id => t = s
    BY <1>5, <2>1 DEF IdsFresh
  <2>3. \A t \in Slots : running(t)' /\ x.id = jobs'[t].id => jobs'[t].phase = "submitted"
    BY <1>3, <1>4, <1>8, <2>2
  <2>4. \A y \in mempool \cup landed : \A t \in Slots :
          running(t)' /\ y.id = jobs'[t].id => jobs'[t].phase = "submitted"
    BY <1>3, <1>4, <1>8 DEF IdsFresh
  <2> QED
    BY <1>1, <1>5, <1>8, <2>1, <2>3, <2>4 DEF IdsFresh
<1>12. MempoolAwaited'
  <2>1. mempool' \cap landed' = {}
    BY <1>1, <1>5, <1>6 DEF MempoolAwaited
  <2>2. ASSUME NEW y \in mempool
        PROVE  \E t \in Slots : jobs'[t].phase = "submitted" /\ jobs'[t].tx = y
    <3>1. PICK t \in Slots : jobs[t].phase = "submitted" /\ jobs[t].tx = y
      BY DEF MempoolAwaited
    <3>2. t # s
      BY <1>1, <3>1
    <3> QED
      BY <1>4, <3>1, <3>2
  <2>3. jobs'[s].phase = "submitted" /\ jobs'[s].tx = x
    BY <1>3, <1>4
  <2> QED
    BY <1>1, <2>1, <2>2, <2>3 DEF MempoolAwaited
<1>13. FundingsNoted'
  <2> SUFFICES ASSUME NEW v \in PoolWallets
               PROVE  /\ running(<<"fund", v>>)' =>
                           /\ jobs'[<<"fund", v>>].since \in Int
                           /\ jobs'[<<"fund", v>>].since - lastFunded[v] >= FundInterval
                      /\ \A y \in mempool' \cup landed :
                           y.slot = <<"fund", v>> =>
                             /\ y.since \in Int
                             /\ \/ y.since <= lastFunded[v]
                                \/ /\ jobs'[<<"fund", v>>].phase = "submitted"
                                   /\ y = jobs'[<<"fund", v>>].tx
    BY <1>1 DEF FundingsNoted
  <2>1. <<"fund", v>> \in Slots
    BY DEF Slots
  <2>2. CASE s = <<"fund", v>>
    <3>1. jobs[s].since \in Int /\ jobs[s].since - lastFunded[v] >= FundInterval
      BY <1>1, <2>2 DEF FundingsNoted, running
    <3>2. \A y \in mempool \cup landed :
            y.slot = <<"fund", v>> => y.since \in Int /\ y.since <= lastFunded[v]
      BY <1>1, <2>2 DEF FundingsNoted
    <3> QED
      BY <1>1, <1>3, <1>4, <1>5, <1>8, <2>2, <3>1, <3>2
  <2>3. CASE s # <<"fund", v>>
    <3>1. jobs'[<<"fund", v>>] = jobs[<<"fund", v>>]
      BY <1>4, <2>1, <2>3
    <3> QED
      BY <1>1, <1>5, <2>3, <3>1 DEF FundingsNoted, running
  <2> QED
    BY <2>2, <2>3
<1>14. Spaced'
  \* Older fundings of the slot were decided a cooldown before this one.
  <2>1. ASSUME s[1] = "fund", NEW y \in mempool \cup landed, y.slot = s
        PROVE  x.since - y.since >= FundInterval
    <3>1. PICK v \in PoolWallets : s = <<"fund", v>>
      BY <2>1 DEF Slots
    <3>2. /\ lastFunded[v] \in Int /\ y.since \in Int /\ y.since <= lastFunded[v]
          /\ jobs[s].since \in Int /\ jobs[s].since - lastFunded[v] >= FundInterval
      BY <1>1, <2>1, <3>1 DEF FundingsNoted, running
    <3>3. jobs[s].since - y.since >= FundInterval
      BY <3>2, ArbiterParameters
    <3> QED
      BY <1>5, <3>3
  <2> SUFFICES ASSUME NEW t \in mempool' \cup landed, NEW u \in mempool' \cup landed,
                      t # u, t.slot = u.slot, t.slot[1] = "fund"
               PROVE  t.since - u.since >= FundInterval \/ u.since - t.since >= FundInterval
    BY <1>1 DEF Spaced
  <2>2. CASE t = x
    BY <1>1, <1>5, <2>1, <2>2
  <2>3. CASE u = x
    BY <1>1, <1>5, <2>1, <2>3
  <2>4. CASE t # x /\ u # x
    BY <1>1, <2>4 DEF Spaced
  <2> QED
    BY <2>2, <2>3, <2>4
<1> QED
  BY <1>9, <1>10, <1>11, <1>12, <1>13, <1>14

(* Reservations that run are disjoint as sets of UTxOs.                    *)
LEMMA ReservedApart ==
  ASSUME Inv, CleanInv, clean, NEW s \in Slots, NEW t \in Slots, s # t
  PROVE  jobs[s].reserved \cap jobs[t].reserved = {}
<1> SUFFICES ASSUME NEW u \in jobs[s].reserved, u \in jobs[t].reserved PROVE FALSE
    OBVIOUS
<1>1. now < jobs[s].until /\ now < jobs[t].until
  BY DEF CleanInv, Unexpired
<1>2. u.ref \in refs(jobs[s].reserved) /\ u.ref \in refs(jobs[t].reserved)
  BY DEF refs
<1>3. /\ [ref |-> u.ref, slot |-> s, until |-> jobs[s].until] \in locks
      /\ [ref |-> u.ref, slot |-> t, until |-> jobs[t].until] \in locks
  BY <1>1, <1>2 DEF Inv, LocksKept
<1> QED
  BY <1>3 DEF Inv, OnePerRef

(* What a job has built shares no input with a transaction that is out.    *)
LEMMA BuiltApart ==
  ASSUME Inv, CleanInv, clean, NEW s \in Slots, jobs[s].phase = "built", NEW x \in mempool
  PROVE  x.inputs \cap jobs[s].tx.inputs = {}
<1>1. PICK t \in Slots : jobs[t].phase = "submitted" /\ jobs[t].tx = x
  BY DEF CleanInv, MempoolAwaited
<1>2. s # t
  BY <1>1
<1>3. jobs[s].reserved \cap jobs[t].reserved = {}
  BY <1>2, ReservedApart
<1>4. /\ jobs[s].tx.inputs \subseteq jobs[s].reserved
      /\ jobs[t].tx.inputs \subseteq jobs[t].reserved
  BY <1>1 DEF CleanInv, DrawsReserved, Made
<1> QED
  BY <1>1, <1>3, <1>4

LEMMA LandKeepsClean ==
  ASSUME Inv, CleanInv, NEW x \in mempool, Land(x)
  PROVE  CleanInv'
<1> SUFFICES ASSUME clean PROVE CleanInv'
    BY DEF CleanInv, Land, boundVars
<1> USE DEF CleanInv
<1>1. /\ mempool' = mempool \ {x} /\ landed' = landed \cup {x}
      /\ chain' = [w \in Wallets |-> (chain[w] \ x.inputs) \cup x.outputs[w]]
      /\ UNCHANGED <<now, jobs, lastFunded, started>>
  BY DEF Land, walletVars, boundVars
<1>2. mempool' \cup landed' = mempool \cup landed
  BY <1>1
<1>3. live \ x.inputs \subseteq live'
  <2> SUFFICES ASSUME NEW w \in Wallets, NEW u \in chain[w], u \notin x.inputs
               PROVE  u \in chain'[w]
    BY DEF live
  <2> QED
    BY <1>1
<1>4. Unexpired'
  BY <1>1 DEF Unexpired
<1>5. DrawsReserved'
  <2>1. \A s \in Slots : jobs[s].phase = "built" => jobs[s].tx.inputs \subseteq live'
    <3> SUFFICES ASSUME NEW s \in Slots, jobs[s].phase = "built"
                 PROVE  jobs[s].tx.inputs \subseteq live'
      OBVIOUS
    <3>1. x.inputs \cap jobs[s].tx.inputs = {}
      BY BuiltApart
    <3> QED
      BY <1>3, <3>1 DEF DrawsReserved
  <2> QED
    BY <1>1, <2>1 DEF DrawsReserved, Made
<1>6. IdsFresh'
  BY <1>1, <1>2 DEF IdsFresh, running
<1>7. MempoolAwaited'
  BY <1>1 DEF MempoolAwaited
<1>8. FundingsNoted'
  BY <1>1, <1>2 DEF FundingsNoted, running
<1>9. Spaced'
  BY <1>2 DEF Spaced
<1> QED
  BY <1>4, <1>5, <1>6, <1>7, <1>8, <1>9

(* The clock: a lock that is outlived is not clean.                        *)
LEMMA TickKeepsClean ==
  ASSUME Inv, CleanInv, Tick
  PROVE  CleanInv'
<1> SUFFICES ASSUME clean' PROVE CleanInv'
    BY DEF CleanInv
<1>1. clean /\ \A s \in Slots : jobs[s].reserved # {} => now' < jobs[s].until
  BY DEF Tick
<1>2. UNCHANGED <<jobs, chain, mempool, landed, lastFunded, started>>
  BY DEF Tick, walletVars, chainVars
<1>3. Unexpired'
  BY <1>1, <1>2 DEF Unexpired
<1>4. DrawsReserved' /\ IdsFresh' /\ MempoolAwaited' /\ FundingsNoted' /\ Spaced'
  BY <1>1, <1>2
  DEF CleanInv, DrawsReserved, Made, live, IdsFresh, running, MempoolAwaited,
      FundingsNoted, Spaced
<1> QED
  BY <1>3, <1>4 DEF CleanInv

LEMMA NothingMovedKeepsClean ==
  ASSUME CleanInv, UNCHANGED <<now, jobs, chainVars, lastFunded, started, clean>>
  PROVE  CleanInv'
<1> SUFFICES ASSUME clean PROVE CleanInv'
    BY DEF CleanInv
<1> QED
  BY DEF CleanInv, chainVars, Unexpired, DrawsReserved, Made, live, IdsFresh, running,
         MempoolAwaited, FundingsNoted, Spaced

LEMMA StartsKeepClean ==
  ASSUME Inv, CleanInv, NEW l \in Lanes, LaneStep(l)
  PROVE  CleanInv'
<1>1. lane(l) \in Slots /\ \A v \in PoolWallets : lane(l) # <<"fund", v>>
  BY DEF lane, Slots
<1>2. Main \in Wallets /\ choices \subseteq Wallets
  BY DEF Wallets, choices
<1>3. CASE StartUpdate(l)
  <2>1. PICK w \in choices :
          reserveExact(lane(l), "update", w, pickUtxos(spendable(w)), <<>>)
    BY <1>3 DEF StartUpdate, acquire, reserveFrom
  <2>2. ~running(lane(l)) /\ UNCHANGED <<now, chainVars, lastFunded, clean>>
    BY <1>3 DEF StartUpdate, admits
  <2> QED
    BY <1>1, <1>2, <2>1, <2>2, ReserveKeepsClean
<1>4. CASE StartSettle(l)
  BY <1>1, <1>2, <1>4, ReserveKeepsClean
  DEF StartSettle, admits, acquireWallet, reserveFrom
<1>5. CASE StartWithdraw(l)
  BY <1>1, <1>2, <1>5, ReserveKeepsClean
  DEF StartWithdraw, admits, acquireWallet, reserveFrom
<1>6. CASE StartMerge(l)
  BY <1>6 DEF StartMerge, CleanInv
<1> QED
  BY <1>3, <1>4, <1>5, <1>6 DEF LaneStep

LEMMA MaintainKeepsClean ==
  ASSUME Inv, CleanInv, Maintain
  PROVE  CleanInv'
<1>1. ASSUME NEW w \in Wallets, SplitWallet(w) PROVE CleanInv'
  <2>1. /\ <<"split", w>> \in Slots /\ ~running(<<"split", w>>)
        /\ \A v \in PoolWallets : <<"split", w>> # <<"fund", v>>
    BY <1>1 DEF Slots, SplitWallet, wantsSplit
  <2> QED
    BY <1>1, <2>1, ReserveKeepsClean DEF SplitWallet, passOn, acquireSpecificUtxos
<1>2. ASSUME NEW w \in Wallets, ConsolidateWallet(w) PROVE CleanInv'
  <2>1. /\ <<"consolidate", w>> \in Slots /\ ~running(<<"consolidate", w>>)
        /\ \A v \in PoolWallets : <<"consolidate", w>> # <<"fund", v>>
    BY <1>2 DEF Slots, ConsolidateWallet, wantsConsolidation
  <2> QED
    BY <1>2, <2>1, ReserveKeepsClean DEF ConsolidateWallet, passOn, acquireSpecificUtxos
<1>3. ASSUME NEW w \in PoolWallets, FundPoolWallet(w) PROVE CleanInv'
  <2> DEFINE amount == sum(funding(w)) + FundFeeBuffer
  <2>1. /\ <<"fund", w>> \in Slots /\ ~running(<<"fund", w>>)
        /\ now - lastFunded[w] >= FundInterval
    BY <1>3 DEF Slots, FundPoolWallet, wantsFunding, shouldFundPoolWallet
  <2>2. \A v \in PoolWallets :
          <<"fund", w>> = <<"fund", v>> => now - lastFunded[v] >= FundInterval
    BY <2>1
  <2>3. /\ UNCHANGED <<now, chainVars, lastFunded, clean>> /\ Main \in Wallets
        /\ reserveExact(<<"fund", w>>, "fund", Main,
                        covering(spendable(Main), amount), funding(w))
    BY <1>3 DEF FundPoolWallet, passOn, acquireWalletForAmount, Wallets
  <2> QED
    BY <2>1, <2>2, <2>3, ReserveKeepsClean
<1>4. CASE Measure \/ Skip
  BY <1>4, NothingMovedKeepsClean DEF Measure, Skip, passOn
<1> QED
  BY <1>1, <1>2, <1>3, <1>4 DEF Maintain

LEMMA JobsKeepClean ==
  ASSUME Inv, CleanInv, NEW s \in Slots, JobStep(s)
  PROVE  CleanInv'
<1>1. CASE Build(s)
  BY <1>1, BuildKeepsClean
<1>2. CASE Submit(s)
  BY <1>2, SubmitKeepsClean
<1>3. CASE BuildFails(s)
  <2>1. /\ jobs[s].phase = "reserved" /\ jobs' = [jobs EXCEPT ![s] = Idle]
        /\ UNCHANGED <<now, chainVars, lastFunded, started, clean>>
    BY <1>3 DEF BuildFails, releaseUntouched, release
  <2> QED
    BY <2>1, EndKeepsClean DEF running
<1>4. CASE Rejected(s)
  <2>1. /\ jobs[s].phase = "built" /\ jobs' = [jobs EXCEPT ![s] = Idle]
        /\ UNCHANGED <<now, chainVars, lastFunded, started, clean>>
    BY <1>4 DEF Rejected, releaseUntouched, release, boundVars
  <2> QED
    BY <2>1, EndKeepsClean DEF running
<1>5. CASE LoseAnswer(s) \/ GiveUp(s)
  BY <1>5 DEF LoseAnswer, GiveUp, CleanInv
<1>6. CASE Confirm(s)
  <2>1. /\ jobs[s].phase = "submitted" /\ jobs[s].tx \in landed
        /\ jobs' = [jobs EXCEPT ![s] = Idle]
        /\ lastFunded' = IF s[1] = "fund" THEN [lastFunded EXCEPT ![s[2]] = jobs[s].since]
                                          ELSE lastFunded
        /\ UNCHANGED <<now, chainVars, started, clean>>
    BY <1>6 DEF Confirm, releaseSettled, release, boundVars
  <2> QED
    BY <2>1, EndKeepsClean DEF running
<1> QED
  BY <1>1, <1>2, <1>3, <1>4, <1>5, <1>6 DEF JobStep

LEMMA NextKeepsClean == Inv /\ CleanInv /\ [Next]_vars => CleanInv'
<1> SUFFICES ASSUME Inv, CleanInv, [Next]_vars PROVE CleanInv'
    OBVIOUS
<1>1. ASSUME NEW l \in Lanes, LaneStep(l) PROVE CleanInv'
  BY <1>1, StartsKeepClean
<1>2. ASSUME NEW s \in Slots, JobStep(s) PROVE CleanInv'
  BY <1>2, JobsKeepClean
<1>3. CASE Maintain
  BY <1>3, MaintainKeepsClean
<1>4. ASSUME NEW t \in Ticks, RefreshStep(t) PROVE CleanInv'
  BY <1>4, NothingMovedKeepsClean
  DEF RefreshStep, ReadWallet, ApplyRead, ReadFails, untouched
<1>5. ASSUME NEW x \in mempool, Land(x) PROVE CleanInv'
  BY <1>5, LandKeepsClean
<1>6. ASSUME NEW x \in mempool, Evict(x) PROVE CleanInv'
  BY <1>6 DEF Evict, CleanInv
<1>7. CASE Tick
  BY <1>7, TickKeepsClean
<1>8. CASE UNCHANGED vars
  BY <1>8, NothingMovedKeepsClean DEF vars, walletVars, boundVars
<1> QED
  BY <1>1, <1>2, <1>3, <1>4, <1>5, <1>6, <1>7, <1>8 DEF Next

(* While clean, every running job holds its reservation, and the mempool   *)
(* and the fundings are accounted for by the jobs (arbiter and bridge).    *)
THEOREM CleanIsSound == Spec => [](Inv /\ CleanInv)
<1>1. Init => Inv /\ CleanInv
  BY InitInv, InitClean
<1>2. (Inv /\ CleanInv) /\ [Next]_vars => (Inv /\ CleanInv)'
  BY NextPreserves, NextKeepsClean
<1> QED
  BY <1>1, <1>2, PTL DEF Spec

(* Without a lost answer, an outlived lock or a merge, what a job has      *)
(* built spends live UTxOs that nothing in the mempool spends, whatever a  *)
(* refresh wrote to the cache: it holds them, and so does nobody else.     *)
THEOREM BuiltStaysAcceptable == Spec => []BuiltIsAcceptable
<1>1. Inv /\ CleanInv => BuiltIsAcceptable
  <2> SUFFICES ASSUME Inv, CleanInv, clean, NEW s \in Slots, jobs[s].phase = "built"
               PROVE  Acceptable(jobs[s].tx)
    BY DEF BuiltIsAcceptable
  <2>1. jobs[s].tx.inputs \subseteq live
    BY DEF CleanInv, DrawsReserved
  <2>2. \A x \in mempool : x.inputs \cap jobs[s].tx.inputs = {}
    BY BuiltApart
  <2> QED
    BY <2>1, <2>2 DEF Acceptable
<1> QED
  BY <1>1, CleanIsSound, PTL

(* Without a lost answer, a pool wallet is not funded twice within the     *)
(* cooldown, for any interval and any number of overlapping refreshes      *)
(* (maybeFundPoolWallets, lastPoolFundAt).                                 *)
THEOREM FundingsKeepCooldown == Spec => []FundingsSpaced
<1>1. CleanInv => FundingsSpaced
  BY DEF CleanInv, Spaced, FundingsSpaced
<1> QED
  BY <1>1, CleanIsSound, PTL
=============================================================================
