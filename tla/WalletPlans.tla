---------------------------- MODULE WalletPlans ----------------------------
(***************************************************************************)
(* The pure choices made about a wallet's UTxOs: which ones back a         *)
(* transaction, cover an amount or are folded as dust, and into which      *)
(* pieces a UTxO or a transfer is laid out (wallet-arbiter.ts,             *)
(* split-plan.ts, lib-bridge).  A UTxO is [ref |-> <<transaction, index>>, *)
(* lovelace |-> n] and holds nothing but ADA.  The code breaks ties by the *)
(* order of its cache; here the older reference comes first.               *)
(***************************************************************************)
EXTENDS Integers, SequencesExt

CONSTANTS
  RESERVED_UTXOS_PER_TX,  \* UTxOs that back one transaction
  MIN_COLLATERAL,         \* the smallest UTxO usable as collateral
  WorkingLovelace,        \* profile: size and number of working UTxOs,
  WorkingCount,
  CollateralLovelace,     \* and of collateral UTxOs
  CollateralCount,
  FeeBuffer,              \* profile.feeBufferLovelace
  MaxInputs,              \* DEFAULT_CONSOLIDATE_MAX_INPUTS
  Headroom                \* CONSOLIDATE_MIN_HEADROOM_LOVELACE

ASSUME PlanParameters ==
  /\ {RESERVED_UTXOS_PER_TX, MIN_COLLATERAL, WorkingLovelace, WorkingCount,
      CollateralLovelace, MaxInputs, FeeBuffer} \subseteq Nat \ {0}
  /\ {CollateralCount, Headroom} \subseteq Nat
  /\ MIN_COLLATERAL <= CollateralLovelace
  /\ CollateralLovelace < WorkingLovelace

refs(utxos) == {u.ref : u \in utxos}
total(utxos) == MapThenSumSet(LAMBDA u : u.lovelace, utxos)
sum(amounts) == FoldSeq(LAMBDA x, y : x + y, 0, amounts)
older(r, s) == r[1] < s[1] \/ (r[1] = s[1] /\ r[2] < s[2])

before(u, v) ==
  u.lovelace < v.lovelace \/ (u.lovelace = v.lovelace /\ older(u.ref, v.ref))

smallest(utxos, n) ==
  {u \in utxos : Cardinality({v \in utxos : before(v, u)}) < n}
largest(utxos, n) ==
  {u \in utxos : Cardinality({v \in utxos : before(u, v)}) < n}

usableCount(utxos) == Cardinality({u \in utxos : u.lovelace >= MIN_COLLATERAL})
maxUtxo(utxos) == Max({u.lovelace : u \in utxos} \cup {0})

(* The smallest UTxO that can be collateral, and the largest of the rest.  *)
pickUtxos(free) ==
  LET collateral == smallest({u \in free : u.lovelace >= MIN_COLLATERAL}, 1)
  IN  collateral \cup largest(free \ collateral, RESERVED_UTXOS_PER_TX - 1)

(* The fewest largest UTxOs that hold the amount; the wallet may lack it.  *)
covers(free, amount) == total(free) >= amount
covering(free, amount) ==
  {u \in free : total({v \in free : before(u, v)}) < amount}

(* The pieces of the shape that `existing` lacks, working UTxOs first,     *)
(* that `available` pays for.                                              *)
fits(amount, size) ==
  IF amount >= FeeBuffer + size THEN (amount - FeeBuffer) \div size ELSE 0
missing(count, have) == Max({0, count - Cardinality(have)})

planShapeOutputs(existing, available, absorbRemainder) ==
  LET haveWorking == {u \in existing : u.lovelace >= WorkingLovelace}
      haveCollateral == {u \in existing \ haveWorking :
                            u.lovelace >= CollateralLovelace}
      working == Min({missing(WorkingCount, haveWorking),
                      fits(available, WorkingLovelace)})
      left == available - working * WorkingLovelace
      lanesFull == Cardinality(haveWorking) + working >= WorkingCount
      collateral == IF lanesFull
                    THEN Min({missing(CollateralCount, haveCollateral),
                              fits(left, CollateralLovelace)})
                    ELSE 0
      remainder == left - collateral * CollateralLovelace
  IN  [i \in 1 .. working |-> WorkingLovelace]
        \o [i \in 1 .. collateral |-> CollateralLovelace]
        \o (IF absorbRemainder /\ remainder >= FeeBuffer
            THEN <<remainder>> ELSE <<>>)

(* The wallet's largest UTxO broken into the pieces it lacks; no pieces    *)
(* means that there is nothing to do.                                      *)
planWalletSplit(utxos) ==
  LET source == largest(utxos, 1)
  IN  IF total(source) <= FeeBuffer
      THEN [consume |-> {}, outputs |-> <<>>]
      ELSE [consume |-> source,
            outputs |-> planShapeOutputs(utxos \ source, total(source), FALSE)]

(* The smallest UTxOs, when folding them leaves collateral and change.     *)
dust(utxos) == smallest(utxos, MaxInputs)
worthMerging(utxos) ==
  /\ Cardinality(dust(utxos)) >= 2
  /\ total(dust(utxos)) >= CollateralLovelace + Headroom
=============================================================================
