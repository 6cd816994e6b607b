-------------------------- MODULE WalletProperties --------------------------
EXTENDS WalletArbiter

holds(s) == IF now < jobs[s].until THEN refs(jobs[s].reserved) ELSE {}

(* Two jobs never hold the same UTxO, however their reservations, releases *)
(* and expiries interleave: the lock table keeps parallel lanes off each   *)
(* other's inputs (wallet-arbiter.ts acquire, release).                    *)
ReservationsDisjoint ==
  \A s, t \in Slots : s # t => holds(s) \cap holds(t) = {}

(* No path out of a job leaves a lock behind: what is locked belongs to a  *)
(* job that runs and reserved it (the finally of every bridge method).     *)
LocksOwned ==
  \A l \in locks : running(l.slot) /\ l.ref \in refs(jobs[l.slot].reserved)

(* While no lock is outlived, no answer lost and no merge started, what a  *)
(* job has built is never contended, however stale the cache was.          *)
BuiltIsAcceptable ==
  clean => \A s \in Slots : jobs[s].phase = "built" => Acceptable(jobs[s].tx)

Spaced ==
  \A t, u \in mempool \cup landed :
    (t # u /\ t.slot = u.slot /\ t.slot[1] = "fund") =>
      t.since - u.since >= FundInterval \/ u.since - t.since >= FundInterval

(* While no answer is lost, a pool wallet is not funded again before its   *)
(* cooldown is over, counted between the decisions, whatever stale balance *)
(* a late refresh shows (maybeFundPoolWallets).                            *)
FundingsSpaced == clean => Spaced
=============================================================================
