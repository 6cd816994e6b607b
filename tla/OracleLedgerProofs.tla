------------------------- MODULE OracleLedgerProofs -------------------------
(***************************************************************************)
(* Proofs about the ledger for every deployment: any set of clients, hooks,*)
(* intents, admins and keys, any amounts and any bounds.                   *)
(***************************************************************************)
EXTENDS OracleSafety, TLAPS, FiniteSetTheorems

-----------------------------------------------------------------------------
(* What a transaction may write, group by group. *)

LEMMA ConfigTxTypes ==
  ASSUME TypeOK, NEW signer \in Wallets, ConfigTx(signer)
  PROVE  TypeOK'
BY DEF TypeOK, ConfigTx, ConfigAdminUpdate, ConfigAdminUpdateOutputs, BurnConfig

LEMMA BootstrapTypes == ASSUME TypeOK, BootstrapConfig PROVE TypeOK'
BY DEF TypeOK, BootstrapConfig

LEMMA HookTxTypes ==
  ASSUME TypeOK, NEW signer \in Wallets, NEW h \in HookIds, HookTx(h, signer)
  PROVE  TypeOK'
<1>1. CASE BootstrapHook(h, signer)
  BY <1>1 DEF TypeOK, BootstrapHook, ConfigAdminUpdateOutputs
<1>2. CASE HookAdminUpdate(h, signer)
  BY <1>2 DEF TypeOK, HookAdminUpdate
<1>3. CASE HookWithdraw(h, signer)
  BY <1>3 DEF TypeOK, HookWithdraw
<1>4. CASE BurnHook(h, signer)
  BY <1>4 DEF TypeOK, BurnHook
<1> QED
  BY <1>1, <1>2, <1>3, <1>4 DEF HookTx

LEMMA ReceiverTxTypes ==
  ASSUME TypeOK, NEW signer \in Wallets, NEW c \in Clients,
         ReceiverTx(c, signer)
  PROVE  TypeOK'
<1>1. CASE BootstrapReceiver(c, signer)
  BY <1>1 DEF TypeOK, BootstrapReceiver
<1>2. CASE ReceiverWithdraw(c, signer)
  BY <1>2 DEF TypeOK, ReceiverWithdraw
<1>3. CASE ReceiverUpdateMinUtxo(c, signer)
  BY <1>3 DEF TypeOK, ReceiverUpdateMinUtxo
<1>4. CASE BurnReceiver(c, signer)
  BY <1>4 DEF TypeOK, BurnReceiver
<1> QED
  BY <1>1, <1>2, <1>3, <1>4 DEF ReceiverTx

LEMMA DepositTypes ==
  ASSUME TypeOK, NEW D \in SUBSET DepositIds, SpendDeposits(D)
  PROVE  deposit' \in [DepositIds -> Deposit \cup {Absent, Spent}]
BY DEF TypeOK, SpendDeposits

LEMMA FundingTypes ==
  ASSUME TypeOK, NEW c \in Clients, TopUp(c) \/ MergeDeposits(c)
  PROVE  TypeOK'
<1>1. CASE TopUp(c)
  BY <1>1 DEF TypeOK, TopUp
<1>2. CASE MergeDeposits(c)
  <2>1. PICK D \in SUBSET PendingDeposits(c), next \in ReceiverUtxo :
          receiver' = [receiver EXCEPT ![c] = next] /\ SpendDeposits(D)
    BY <1>2 DEF MergeDeposits
  <2>2. D \in SUBSET DepositIds
    BY DEF PendingDeposits
  <2> QED
    BY <1>2, <2>1, <2>2, DepositTypes DEF TypeOK, MergeDeposits
<1> QED
  BY <1>1, <1>2

LEMMA SendDepositTypes ==
  ASSUME TypeOK, NEW d \in DepositIds, NEW c \in Clients, SendDeposit(d, c)
  PROVE  TypeOK'
BY DEF TypeOK, SendDeposit, Deposit

LEMMA PairTxTypes ==
  ASSUME TypeOK, NEW signer \in Wallets, NEW p \in PairSlots, PairTx(p, signer)
  PROVE  TypeOK'
BY DEF TypeOK, PairTx, PairUpdateMinUtxo, BurnPair

-----------------------------------------------------------------------------
(* An update writes to a Pair UTxO what the validators accept for one of   *)
(* its witnesses, or leaves it alone.                                      *)

LEMMA PairsWritten ==
  ASSUME NEW c \in Clients, NEW W \in SUBSET Intents,
         NEW slot \in [W -> Copies], NEW D, NEW built, NEW signer,
         ApplyIntents(c, W, slot, D, built, signer)
  PROVE  /\ pair' = [p \in PairSlots |-> pair'[p]]
         /\ \A p \in PairSlots :
              \/ pair'[p] = pair[p]
              \/ \E i \in W :
                   /\ p = <<c, i.symbol, slot[i]>>
                   /\ pair'[p] \in PairOutputs(pair[p], i, ValidFrom(built))
<1> DEFINE target(i) == <<c, i.symbol, slot[i]>>
           accepted(i) == PairOutputs(pair[target(i)], i, ValidFrom(built))
<1>1. PICK next \in [W -> UNION {accepted(i) : i \in W}] :
        /\ \A i \in W : next[i] \in accepted(i)
        /\ pair' = [p \in PairSlots |->
                      IF \E i \in W : p = target(i)
                      THEN next[CHOOSE i \in W : p = target(i)]
                      ELSE pair[p]]
  BY DEF ApplyIntents
<1>2. pair' = [p \in PairSlots |-> pair'[p]]
  BY <1>1
<1>3. ASSUME NEW p \in PairSlots, pair'[p] # pair[p]
      PROVE  \E i \in W : p = target(i) /\ pair'[p] \in accepted(i)
  <2>1. \E i \in W : p = target(i)
    BY <1>1, <1>3
  <2> DEFINE j == CHOOSE i \in W : p = target(i)
  <2>2. j \in W /\ p = target(j)
    BY <2>1
  <2>3. pair'[p] = next[j]
    BY <1>1, <2>1
  <2> HIDE DEF j
  <2> QED
    BY <1>1, <2>2, <2>3
<1> QED
  BY <1>2, <1>3

LEMMA PairOutputsTypes ==
  ASSUME NEW utxo, NEW i, NEW lower
  PROVE  PairOutputs(utxo, i, lower) \subseteq PairUtxo
BY DEF PairOutputs, PairCreateOutputs, PairUpdateOutputs

LEMMA ApplyIntentsTypes ==
  ASSUME TypeOK, NEW c \in Clients, NEW W \in SUBSET Intents,
         NEW slot \in [W -> Copies], NEW D \in SUBSET PendingDeposits(c),
         NEW built, NEW signer, ApplyIntents(c, W, slot, D, built, signer)
  PROVE  TypeOK'
<1>1. pair' \in [PairSlots -> PairUtxo \cup {Absent}]
  BY PairsWritten, PairOutputsTypes DEF TypeOK
<1>2. AccrueFee(c, Cardinality(W), D) /\ UNCHANGED <<config, hook, now>>
  BY DEF ApplyIntents
<1>3. receiver' \in [Clients -> ReceiverUtxo \cup {Absent, Spent}]
  BY <1>2 DEF AccrueFee, TypeOK
<1>4. SpendDeposits(D) /\ D \in SUBSET DepositIds
  BY <1>2 DEF AccrueFee, PendingDeposits
<1> QED
  BY <1>1, <1>2, <1>3, <1>4, DepositTypes DEF TypeOK

LEMMA UpdateTypes ==
  ASSUME TypeOK, NEW c \in Clients, NEW signer \in Wallets,
         ApplySingle(c, signer) \/ ApplyBatch(c, signer)
  PROVE  TypeOK'
<1>1. CASE ApplySingle(c, signer)
  <2>1. PICK intent \in Intents, k \in Copies,
             D \in SUBSET PendingDeposits(c), built \in 0 .. now :
          ApplyIntents(c, {intent}, [i \in {intent} |-> k], D, built, signer)
    BY <1>1 DEF ApplySingle
  <2>2. {intent} \in SUBSET Intents /\ [i \in {intent} |-> k] \in [{intent} -> Copies]
    OBVIOUS
  <2> QED
    BY <2>1, <2>2, ApplyIntentsTypes
<1>2. CASE ApplyBatch(c, signer)
  BY <1>2, ApplyIntentsTypes DEF ApplyBatch, Batches
<1> QED
  BY <1>1, <1>2

LEMMA SettleTypes ==
  ASSUME TypeOK, NEW S \in SUBSET Clients, NEW h \in HookIds,
         NEW signer \in Wallets, ApplySettle(S, h, signer)
  PROVE  TypeOK'
<1>1. hook' \in [HookIds -> PaymentHookUtxo \cup {Absent, Spent}]
  BY DEF ApplySettle, TypeOK
<1>2. receiver' \in [Clients -> ReceiverUtxo \cup {Absent, Spent}]
  <2>1. PICK next : /\ \A c \in S : next[c] \in SettleOutputs(c)
                    /\ receiver' = [c \in Clients |->
                         IF c \in S THEN next[c] ELSE receiver[c]]
    BY DEF ApplySettle
  <2> QED
    BY <2>1 DEF SettleOutputs, TypeOK
<1> QED
  BY <1>1, <1>2 DEF ApplySettle, TypeOK

LEMMA TickTypes == ASSUME TypeOK, Tick PROVE TypeOK'
BY TimesAreNatural DEF TypeOK, Tick

LEMMA SignedTypes ==
  ASSUME TypeOK, NEW signer \in Wallets, SignedTx(signer) PROVE TypeOK'
<1>1. CASE ConfigTx(signer)
  BY <1>1, ConfigTxTypes
<1>2. CASE \E h \in HookIds : HookTx(h, signer)
  BY <1>2, HookTxTypes
<1>3. CASE \E c \in Clients : ReceiverTx(c, signer)
  BY <1>3, ReceiverTxTypes
<1>4. CASE \E c \in Clients : ApplySingle(c, signer) \/ ApplyBatch(c, signer)
  BY <1>4, UpdateTypes
<1>5. CASE \E S \in SUBSET Clients, h \in HookIds : ApplySettle(S, h, signer)
  BY <1>5, SettleTypes
<1>6. CASE \E p \in PairSlots : PairTx(p, signer)
  BY <1>6, PairTxTypes
<1> QED
  BY <1>1, <1>2, <1>3, <1>4, <1>5, <1>6 DEF SignedTx

LEMMA NextTypes == TypeOK /\ [Next]_vars => TypeOK'
<1> SUFFICES ASSUME TypeOK, [Next]_vars PROVE TypeOK'
  OBVIOUS
<1>1. CASE UNCHANGED vars
  BY <1>1 DEF TypeOK, vars
<1>2. CASE BootstrapConfig
  BY <1>2, BootstrapTypes
<1>3. CASE Tick
  BY <1>3, TickTypes
<1>4. CASE \E d \in DepositIds, c \in Clients : SendDeposit(d, c)
  BY <1>4, SendDepositTypes
<1>5. CASE \E c \in Clients : TopUp(c) \/ MergeDeposits(c)
  BY <1>5, FundingTypes
<1>6. CASE \E signer \in Wallets : SignedTx(signer)
  BY <1>6, SignedTypes
<1> QED
  BY <1>1, <1>2, <1>3, <1>4, <1>5, <1>6 DEF Next

(* Type correctness of the ledger. *)
THEOREM LedgerTypeCorrect == Spec => []TypeOK
<1>1. Init => TypeOK
  BY TimesAreNatural DEF Init, TypeOK
<1> QED
  BY <1>1, NextTypes, PTL DEF Spec

-----------------------------------------------------------------------------
(* What a step may do to each UTxO, whichever transaction it is. *)

PairWritten(p) ==
  \/ pair'[p] \in {pair[p], Absent}
  \/ /\ pair[p] = Absent
     /\ \E i \in Intents, lower \in Int :
          i.symbol = p[2] /\ pair'[p] \in PairCreateOutputs(i, lower)
  \/ /\ pair[p] # Absent
     /\ \E i \in Intents :
          i.symbol = p[2] /\ pair'[p] \in PairUpdateOutputs(pair[p], i)
  \/ /\ pair[p] # Absent
     /\ pair'[p].intent = pair[p].intent
     /\ valid_pair_state(pair'[p]) /\ pair_exact_locked(pair'[p])

LEMMA IntentsWritePairs ==
  ASSUME TypeOK, NEW c \in Clients, NEW W \in SUBSET Intents,
         NEW slot \in [W -> Copies], NEW D, NEW built \in Int, NEW signer,
         ApplyIntents(c, W, slot, D, built, signer), NEW p \in PairSlots
  PROVE  PairWritten(p)
<1>1. CASE pair'[p] = pair[p]
  BY <1>1 DEF PairWritten
<1>2. CASE pair'[p] # pair[p]
  <2>1. PICK i \in W :
          /\ p = <<c, i.symbol, slot[i]>>
          /\ pair'[p] \in PairOutputs(pair[p], i, ValidFrom(built))
    BY <1>2, PairsWritten
  <2>2. i \in Intents /\ i.symbol = p[2]
    BY <2>1
  <2>3. ValidFrom(built) \in Int
    BY TimesAreNatural DEF ValidFrom
  <2> QED
    BY <2>1, <2>2, <2>3 DEF PairWritten, PairOutputs
<1> QED
  BY <1>1, <1>2

LEMMA UpdatesWritePairs ==
  ASSUME TypeOK, NEW c \in Clients, NEW signer,
         ApplySingle(c, signer) \/ ApplyBatch(c, signer), NEW p \in PairSlots
  PROVE  PairWritten(p)
<1>1. CASE ApplySingle(c, signer)
  <2>1. PICK intent \in Intents, k \in Copies,
             D \in SUBSET PendingDeposits(c), built \in 0 .. now :
          ApplyIntents(c, {intent}, [i \in {intent} |-> k], D, built, signer)
    BY <1>1 DEF ApplySingle
  <2>2. /\ {intent} \in SUBSET Intents
        /\ [i \in {intent} |-> k] \in [{intent} -> Copies]
        /\ built \in Int
    OBVIOUS
  <2> QED
    BY <2>1, <2>2, IntentsWritePairs
<1>2. CASE ApplyBatch(c, signer)
  BY <1>2, IntentsWritePairs DEF ApplyBatch, Batches
<1> QED
  BY <1>1, <1>2

LEMMA StepsWritePairs ==
  ASSUME TypeOK, [Next]_vars, NEW p \in PairSlots
  PROVE  PairWritten(p)
<1>1. CASE pair' = pair
  BY <1>1 DEF PairWritten
<1>2. CASE \E signer \in Wallets, c \in Clients :
             ApplySingle(c, signer) \/ ApplyBatch(c, signer)
  BY <1>2, UpdatesWritePairs
<1>3. CASE \E signer \in Wallets, q \in PairSlots : PairTx(q, signer)
  BY <1>3 DEF PairTx, PairUpdateMinUtxo, BurnPair, PairWritten, TypeOK
<1>4. \/ pair' = pair
      \/ \E signer \in Wallets, c \in Clients :
           ApplySingle(c, signer) \/ ApplyBatch(c, signer)
      \/ \E signer \in Wallets, q \in PairSlots : PairTx(q, signer)
  BY DEF Next, vars, SignedTx, ConfigTx, HookTx, ReceiverTx, ApplySettle,
         BootstrapConfig, ConfigAdminUpdate, BurnConfig, BootstrapHook,
         HookAdminUpdate, HookWithdraw, BurnHook, BootstrapReceiver,
         ReceiverWithdraw, ReceiverUpdateMinUtxo, BurnReceiver, SendDeposit,
         TopUp, MergeDeposits, Tick
<1> QED
  BY <1>1, <1>2, <1>3, <1>4

(* A Pair UTxO never goes back in timestamp or nonce while its NFT lives.  *)
THEOREM PairsAdvance == Spec => PairAdvances
<1>1. ASSUME TypeOK, [Next]_vars
      PROVE  \A p \in PairSlots :
               (pair[p] # Absent /\ pair'[p] # Absent) =>
                 \/ pair'[p].intent = pair[p].intent
                 \/ /\ pair'[p].intent.timestamp > pair[p].intent.timestamp
                    /\ pair'[p].intent.nonce > pair[p].intent.nonce
  <2> SUFFICES ASSUME NEW p \in PairSlots, pair[p] # Absent, pair'[p] # Absent
               PROVE  \/ pair'[p].intent = pair[p].intent
                      \/ /\ pair'[p].intent.timestamp > pair[p].intent.timestamp
                         /\ pair'[p].intent.nonce > pair[p].intent.nonce
    OBVIOUS
  <2>1. PairWritten(p)
    BY <1>1, StepsWritePairs
  <2> QED
    BY <2>1 DEF PairWritten, PairUpdateOutputs, next_pair_matches_witness,
              is_fresh_update
<1>2. TypeOK /\ [Next]_vars =>
        [\A p \in PairSlots :
           (pair[p] # Absent /\ pair'[p] # Absent) =>
             \/ pair'[p].intent = pair[p].intent
             \/ /\ pair'[p].intent.timestamp > pair[p].intent.timestamp
                /\ pair'[p].intent.nonce > pair[p].intent.nonce]_vars
  BY <1>1
<1> QED
  BY <1>2, LedgerTypeCorrect, PTL DEF Spec, PairAdvances

(* The UTxO of a pair carries intents for the symbol of the pair only. *)
THEOREM PairsKeepTheirSymbol == Spec => []PairsCarryTheirSymbol
<1>1. Init => PairsCarryTheirSymbol
  BY DEF Init, PairsCarryTheirSymbol
<1>2. TypeOK /\ PairsCarryTheirSymbol /\ [Next]_vars => PairsCarryTheirSymbol'
  <2> SUFFICES ASSUME TypeOK, PairsCarryTheirSymbol, [Next]_vars,
                      NEW p \in PairSlots, pair'[p] # Absent
               PROVE  pair'[p].intent.symbol = p[2]
    BY DEF PairsCarryTheirSymbol
  <2>1. PairWritten(p)
    BY StepsWritePairs
  <2>2. pair[p] # Absent => pair[p].intent.symbol = p[2]
    BY DEF PairsCarryTheirSymbol
  <2> QED
    BY <2>1, <2>2 DEF PairWritten, PairCreateOutputs, PairUpdateOutputs,
       initial_pair_matches_witness, next_pair_matches_witness
<1> QED
  BY <1>1, <1>2, LedgerTypeCorrect, PTL DEF Spec

-----------------------------------------------------------------------------

ReceiverSound(utxo) == valid_receiver_state(utxo) /\ receiver_exact_locked(utxo)

HookSound(utxo) == valid_payment_hook_state(utxo) /\ hook_exact_locked(utxo)

ConfigSound(utxo) ==
  valid_config_state(utxo.datum) /\ config_exact_lovelace(utxo)

\* How a transaction may change the counters of a hook that lives on.
HookCounters(previous, next) ==
  \/ hook_admin_update_transition(previous, next)
  \/ \E delta \in Int : apply_settle_transition(previous, next, delta)
  \/ \E amount \in Int : hook_withdraw_transition(previous, next, amount)

HookWritten(h) ==
  \/ hook'[h] \in {hook[h], Spent}
  \/ /\ hook[h] = Absent
     /\ HookSound(hook'[h])
     /\ hook'[h].accrued_fees_lovelace = 0
     /\ hook'[h].lifetime_collected_lovelace = 0
     /\ hook'[h].lifetime_withdrawn_lovelace = 0
  \/ /\ Live(hook[h])
     /\ hook'[h] \in PaymentHookUtxo
     /\ HookSound(hook'[h])
     /\ HookCounters(hook[h], hook'[h])

LEMMA UpdatesFrame ==
  ASSUME NEW signer, NEW c, ApplySingle(c, signer) \/ ApplyBatch(c, signer)
  PROVE  UNCHANGED <<config, hook, now>>
<1>1. CASE ApplySingle(c, signer)
  BY <1>1 DEF ApplySingle, ApplyIntents
<1>2. CASE ApplyBatch(c, signer)
  BY <1>2 DEF ApplyBatch, ApplyIntents
<1> QED
  BY <1>1, <1>2

LEMMA StepsWriteConfig ==
  ASSUME TypeOK, [Next]_vars
  PROVE  config' \in {config, Spent} \/ ConfigSound(config')
<1>1. CASE BootstrapConfig
  BY <1>1 DEF BootstrapConfig, ConfigSound
<1>2. CASE \E signer \in Wallets : ConfigTx(signer)
  BY <1>2 DEF ConfigTx, ConfigAdminUpdate, BurnConfig,
     ConfigAdminUpdateOutputs, ConfigSound
<1>3. CASE \E signer \in Wallets, h \in HookIds : BootstrapHook(h, signer)
  BY <1>3 DEF BootstrapHook, ConfigAdminUpdateOutputs, ConfigSound
<1>4. \/ UNCHANGED config
      \/ BootstrapConfig
      \/ \E signer \in Wallets : ConfigTx(signer)
      \/ \E signer \in Wallets, h \in HookIds : BootstrapHook(h, signer)
  BY UpdatesFrame DEF Next, vars, SignedTx, HookTx, ReceiverTx, PairTx,
     ApplySettle, HookAdminUpdate, HookWithdraw, BurnHook, BootstrapReceiver,
     ReceiverWithdraw, ReceiverUpdateMinUtxo, BurnReceiver, SendDeposit, TopUp,
     MergeDeposits, Tick, PairUpdateMinUtxo, BurnPair
<1> QED
  BY <1>1, <1>2, <1>3, <1>4

LEMMA HookTxWritesHooks ==
  ASSUME TypeOK, NEW signer, NEW g \in HookIds, HookTx(g, signer),
         NEW h \in HookIds
  PROVE  HookWritten(h)
<1>1. CASE BootstrapHook(g, signer)
  BY <1>1 DEF BootstrapHook, HookWritten, HookSound, TypeOK
<1>2. CASE HookAdminUpdate(g, signer)
  BY <1>2 DEF HookAdminUpdate, HookContinues, HookWritten, HookSound,
     HookCounters, TypeOK
<1>3. CASE HookWithdraw(g, signer)
  BY <1>3, AmountsAreIntegers DEF HookWithdraw, HookContinues, HookWritten,
     HookSound, HookCounters, TypeOK
<1>4. CASE BurnHook(g, signer)
  BY <1>4 DEF BurnHook, HookWritten, TypeOK
<1> QED
  BY <1>1, <1>2, <1>3, <1>4 DEF HookTx

LEMMA SettleWritesHooks ==
  ASSUME TypeOK, NEW signer, NEW S, NEW g \in HookIds,
         ApplySettle(S, g, signer), NEW h \in HookIds
  PROVE  HookWritten(h)
<1>1. PICK next \in PaymentHookUtxo :
        /\ apply_settle_transition(hook[g], next,
             next.accrued_fees_lovelace - hook[g].accrued_fees_lovelace)
        /\ HookContinues(hook[g], next)
        /\ hook' = [hook EXCEPT ![g] = next]
  BY DEF ApplySettle
<1>2. hook[g] \in PaymentHookUtxo /\ Live(hook[g])
  BY DEF ApplySettle, TypeOK, Live
<1>3. next.accrued_fees_lovelace - hook[g].accrued_fees_lovelace \in Int
  <2>1. next.accrued_fees_lovelace \in Int
    BY AmountsAreIntegers DEF PaymentHookUtxo
  <2>2. hook[g].accrued_fees_lovelace \in Int
    BY <1>2, AmountsAreIntegers DEF PaymentHookUtxo
  <2> QED
    BY <2>1, <2>2
<1> QED
  BY <1>1, <1>2, <1>3 DEF HookWritten, HookSound, HookContinues, HookCounters,
     TypeOK

LEMMA StepsWriteHooks ==
  ASSUME TypeOK, [Next]_vars, NEW h \in HookIds
  PROVE  HookWritten(h)
<1>1. CASE UNCHANGED hook
  BY <1>1 DEF HookWritten
<1>2. CASE \E signer \in Wallets, g \in HookIds : HookTx(g, signer)
  BY <1>2, HookTxWritesHooks
<1>3. CASE \E signer \in Wallets, S \in SUBSET Clients, g \in HookIds :
             ApplySettle(S, g, signer)
  BY <1>3, SettleWritesHooks
<1>4. \/ UNCHANGED hook
      \/ \E signer \in Wallets, g \in HookIds : HookTx(g, signer)
      \/ \E signer \in Wallets, S \in SUBSET Clients, g \in HookIds :
           ApplySettle(S, g, signer)
  BY UpdatesFrame DEF Next, vars, SignedTx, ConfigTx, ReceiverTx, PairTx,
     BootstrapConfig, ConfigAdminUpdate, BurnConfig, BootstrapReceiver,
     ReceiverWithdraw, ReceiverUpdateMinUtxo, BurnReceiver, SendDeposit, TopUp,
     MergeDeposits, Tick, PairUpdateMinUtxo, BurnPair
<1> QED
  BY <1>1, <1>2, <1>3, <1>4

ReceiverWritten(c) ==
  receiver'[c] \in {receiver[c], Spent} \/ ReceiverSound(receiver'[c])

LEMMA UpdatesWriteReceivers ==
  ASSUME TypeOK, NEW signer, NEW b \in Clients,
         ApplySingle(b, signer) \/ ApplyBatch(b, signer), NEW c \in Clients
  PROVE  ReceiverWritten(c)
<1>1. PICK pair_count, D : AccrueFee(b, pair_count, D)
  <2>1. CASE ApplySingle(b, signer)
    BY <2>1 DEF ApplySingle, ApplyIntents
  <2>2. CASE ApplyBatch(b, signer)
    BY <2>2 DEF ApplyBatch, ApplyIntents
  <2> QED
    BY <2>1, <2>2
<1> QED
  BY <1>1 DEF AccrueFee, ReceiverContinues, ReceiverWritten, ReceiverSound, TypeOK

LEMMA SettleWritesReceivers ==
  ASSUME TypeOK, NEW signer, NEW S \in SUBSET Clients, NEW h,
         ApplySettle(S, h, signer), NEW c \in Clients
  PROVE  ReceiverWritten(c)
<1>1. PICK next : /\ \A b \in S : next[b] \in SettleOutputs(b)
                  /\ receiver' = [b \in Clients |->
                       IF b \in S THEN next[b] ELSE receiver[b]]
  BY DEF ApplySettle
<1> QED
  BY <1>1 DEF SettleOutputs, ReceiverContinues, ReceiverWritten, ReceiverSound

LEMMA StepsWriteReceivers ==
  ASSUME TypeOK, [Next]_vars, NEW c \in Clients
  PROVE  ReceiverWritten(c)
<1>1. CASE UNCHANGED receiver
  BY <1>1 DEF ReceiverWritten
<1>2. CASE \E signer \in Wallets, b \in Clients : ReceiverTx(b, signer)
  BY <1>2 DEF ReceiverTx, BootstrapReceiver, ReceiverWithdraw,
     ReceiverUpdateMinUtxo, BurnReceiver, ReceiverContinues, ReceiverWritten,
     ReceiverSound, TypeOK
<1>3. CASE \E b \in Clients : TopUp(b) \/ MergeDeposits(b)
  BY <1>3 DEF TopUp, MergeDeposits, ReceiverContinues, ReceiverWritten,
     ReceiverSound, TypeOK
<1>4. CASE \E signer \in Wallets, b \in Clients :
             ApplySingle(b, signer) \/ ApplyBatch(b, signer)
  BY <1>4, UpdatesWriteReceivers
<1>5. CASE \E signer \in Wallets, S \in SUBSET Clients, h \in HookIds :
             ApplySettle(S, h, signer)
  BY <1>5, SettleWritesReceivers
<1>6. \/ UNCHANGED receiver
      \/ \E signer \in Wallets, b \in Clients : ReceiverTx(b, signer)
      \/ \E b \in Clients : TopUp(b) \/ MergeDeposits(b)
      \/ \E signer \in Wallets, b \in Clients :
           ApplySingle(b, signer) \/ ApplyBatch(b, signer)
      \/ \E signer \in Wallets, S \in SUBSET Clients, h \in HookIds :
           ApplySettle(S, h, signer)
  BY DEF Next, vars, SignedTx, ConfigTx, HookTx, PairTx, BootstrapConfig,
     ConfigAdminUpdate, BurnConfig, BootstrapHook, HookAdminUpdate,
     HookWithdraw, BurnHook, SendDeposit, Tick, PairUpdateMinUtxo, BurnPair
<1> QED
  BY <1>1, <1>2, <1>3, <1>4, <1>5, <1>6

(* The lovelace and the datum of every state UTxO agree, no account is     *)
(* negative and the Config stays usable, after any sequence of             *)
(* transactions.                                                           *)
THEOREM StateUtxosStaySound == Spec => []StateUtxosSound
<1>1. Init => StateUtxosSound
  BY DEF Init, StateUtxosSound, Live
<1>2. TypeOK /\ StateUtxosSound /\ [Next]_vars => StateUtxosSound'
  <2> SUFFICES ASSUME TypeOK, StateUtxosSound, [Next]_vars
               PROVE  StateUtxosSound'
    OBVIOUS
  <2>1. Live(config') => ConfigSound(config')
    BY StepsWriteConfig DEF StateUtxosSound, ConfigSound, Live
  <2>2. ASSUME NEW h \in HookIds, Live(hook'[h])
        PROVE  HookSound(hook'[h])
    BY <2>2, StepsWriteHooks DEF HookWritten, StateUtxosSound, HookSound, Live
  <2>3. ASSUME NEW c \in Clients, Live(receiver'[c])
        PROVE  ReceiverSound(receiver'[c])
    BY <2>3, StepsWriteReceivers
       DEF ReceiverWritten, StateUtxosSound, ReceiverSound, Live
  <2>4. ASSUME NEW p \in PairSlots, pair'[p] # Absent
        PROVE  valid_pair_state(pair'[p]) /\ pair_exact_locked(pair'[p])
    <3>1. PairWritten(p)
      BY StepsWritePairs
    <3>2. \A i, lower : pair'[p] \in PairCreateOutputs(i, lower) =>
            valid_pair_state(pair'[p]) /\ pair_exact_locked(pair'[p])
      BY DEF PairCreateOutputs, initial_pair_matches_witness
    <3>3. \A i : pair'[p] \in PairUpdateOutputs(pair[p], i) =>
            valid_pair_state(pair'[p]) /\ pair_exact_locked(pair'[p])
      BY DEF PairUpdateOutputs, next_pair_matches_witness, pair_exact_locked
    <3> QED
      BY <2>4, <3>1, <3>2, <3>3 DEF PairWritten, StateUtxosSound
  <2> QED
    BY <2>1, <2>2, <2>3, <2>4
       DEF StateUtxosSound, ConfigSound, HookSound, ReceiverSound, Live
<1> QED
  BY <1>1, <1>2, LedgerTypeCorrect, PTL DEF Spec

(* What a hook holds is what it ever collected less what it ever paid.     *)
THEOREM HookBooksStayBalanced == Spec => []HookBooksBalance
<1>1. Init => HookBooksBalance
  BY DEF Init, HookBooksBalance, Live
<1>2. TypeOK /\ HookBooksBalance /\ [Next]_vars => HookBooksBalance'
  <2> SUFFICES ASSUME TypeOK, HookBooksBalance, [Next]_vars,
                      NEW h \in HookIds, Live(hook'[h])
               PROVE  hook'[h].accrued_fees_lovelace =
                        hook'[h].lifetime_collected_lovelace
                          - hook'[h].lifetime_withdrawn_lovelace
    BY DEF HookBooksBalance, Live
  <2>1. HookWritten(h)
    BY StepsWriteHooks
  <2>2. CASE hook'[h] \in {hook[h], Spent}
    BY <2>2 DEF HookBooksBalance, Live
  <2>3. CASE Live(hook[h]) /\ HookCounters(hook[h], hook'[h])
    <3>1. hook[h] \in PaymentHookUtxo
      BY <2>3 DEF TypeOK, Live
    <3>2. /\ hook[h].accrued_fees_lovelace \in Int
          /\ hook[h].lifetime_collected_lovelace \in Int
          /\ hook[h].lifetime_withdrawn_lovelace \in Int
      BY <3>1, AmountsAreIntegers DEF PaymentHookUtxo
    <3>3. hook[h].accrued_fees_lovelace =
            hook[h].lifetime_collected_lovelace
              - hook[h].lifetime_withdrawn_lovelace
      BY <2>3 DEF HookBooksBalance
    <3> QED
      BY <2>3, <3>2, <3>3 DEF HookCounters, hook_admin_update_transition,
         apply_settle_transition, hook_withdraw_transition
  <2> QED
    BY <2>1, <2>2, <2>3 DEF HookWritten
<1> QED
  BY <1>1, <1>2, LedgerTypeCorrect, PTL DEF Spec
-----------------------------------------------------------------------------
(* What an update publishes.                                               *)

LEMMA IntentNumbers ==
  ASSUME NEW i \in Intents
  PROVE  /\ i.symbol \in Symbols
         /\ i.timestamp \in Int /\ i.nonce \in Int /\ i.expiry \in Int
BY IntentsAreSigned

(* A single update is a batch of one.                                      *)
LEMMA UpdateShape ==
  ASSUME NEW c \in Clients, NEW signer, ApplySingle(c, signer) \/ ApplyBatch(c, signer)
  PROVE  \E W \in Batches, D \in SUBSET PendingDeposits(c), built \in 0 .. now :
           \E slot \in [W -> Copies] : ApplyIntents(c, W, slot, D, built, signer)
<1>1. CASE ApplySingle(c, signer)
  <2>1. PICK intent \in Intents, k \in Copies,
             D \in SUBSET PendingDeposits(c), built \in 0 .. now :
          ApplyIntents(c, {intent}, [i \in {intent} |-> k], D, built, signer)
    BY <1>1 DEF ApplySingle
  <2>2. {intent} \in Batches /\ [i \in {intent} |-> k] \in [{intent} -> Copies]
    BY DEF Batches
  <2> QED
    BY <2>1, <2>2
<1>2. CASE ApplyBatch(c, signer)
  BY <1>2 DEF ApplyBatch
<1> QED
  BY <1>1, <1>2

(* Each witness of a batch has a pair of its own, which gets its intent.   *)
LEMMA WitnessWritten ==
  ASSUME TypeOK, NEW c \in Clients, NEW W \in Batches, NEW slot \in [W -> Copies],
         NEW D, NEW built, NEW signer, ApplyIntents(c, W, slot, D, built, signer),
         NEW i \in W
  PROVE  /\ <<c, i.symbol, slot[i]>> \in PairSlots
         /\ pair'[<<c, i.symbol, slot[i]>>]
              \in PairOutputs(pair[<<c, i.symbol, slot[i]>>], i, ValidFrom(built))
<1> DEFINE target(w) == <<c, w.symbol, slot[w]>>
           accepted(w) == PairOutputs(pair[target(w)], w, ValidFrom(built))
<1>1. PICK next \in [W -> UNION {accepted(w) : w \in W}] :
        /\ \A w \in W : next[w] \in accepted(w)
        /\ pair' = [p \in PairSlots |->
                      IF \E w \in W : p = target(w)
                      THEN next[CHOOSE w \in W : p = target(w)]
                      ELSE pair[p]]
  BY DEF ApplyIntents
<1>2. i \in Intents /\ \A w \in W : w.symbol = i.symbol => w = i
  BY DEF Batches
<1>3. target(i) \in PairSlots
  BY <1>2, IntentNumbers DEF PairSlots
<1> DEFINE j == CHOOSE w \in W : target(i) = target(w)
<1>4. j \in W /\ target(i) = target(j)
  OBVIOUS
<1>5. pair'[target(i)] = next[j]
  BY <1>1, <1>3
<1> HIDE DEF j
<1>6. j = i
  BY <1>2, <1>4
<1> QED
  BY <1>1, <1>3, <1>5, <1>6

(* What the validators accept for a witness is a pair with its intent, and *)
(* with another intent than before.                                        *)
LEMMA AcceptedIsNew ==
  ASSUME NEW utxo \in PairUtxo \cup {Absent}, NEW i \in Intents, NEW lower,
         NEW next \in PairOutputs(utxo, i, lower)
  PROVE  /\ next.intent = i /\ next # Absent
         /\ utxo # Absent => next.intent # utxo.intent
<1>1. next \in PairUtxo
  BY PairOutputsTypes
<1>2. next # Absent
  BY <1>1, MarkersAreNotUtxos
<1>3. next.intent = i
  BY DEF PairOutputs, PairCreateOutputs, PairUpdateOutputs,
         initial_pair_matches_witness, next_pair_matches_witness
<1>4. ASSUME utxo # Absent PROVE i # utxo.intent
  <2>1. i.nonce > utxo.intent.nonce
    BY <1>4 DEF PairOutputs, PairUpdateOutputs, next_pair_matches_witness, is_fresh_update
  <2>2. utxo.intent \in Intents
    BY <1>4 DEF PairUtxo
  <2> QED
    BY <2>1, <2>2, IntentNumbers
<1> QED
  BY <1>2, <1>3, <1>4

LEMMA PublishedByUpdate ==
  ASSUME TypeOK, NEW c \in Clients, NEW W \in Batches, NEW slot \in [W -> Copies],
         NEW D, NEW built, NEW signer, ApplyIntents(c, W, slot, D, built, signer)
  PROVE  /\ Published(c) = {<<c, i.symbol, slot[i]>> : i \in W}
         /\ \A b \in Clients : b # c => Published(b) = {}
<1> DEFINE target(i) == <<c, i.symbol, slot[i]>>
<1>1. W \in SUBSET Intents
  BY DEF Batches
<1>2. ASSUME NEW b \in Clients, NEW p \in Published(b)
      PROVE  b = c /\ \E i \in W : p = target(i)
  <2>1. p \in PairSlots /\ p[1] = b /\ pair'[p] # pair[p]
    BY <1>2 DEF Published
  <2> QED
    BY <1>1, <2>1, PairsWritten
<1>3. ASSUME NEW i \in W PROVE target(i) \in Published(c)
  <2>1. /\ target(i) \in PairSlots
        /\ pair'[target(i)] \in PairOutputs(pair[target(i)], i, ValidFrom(built))
    BY WitnessWritten
  <2>2. pair[target(i)] \in PairUtxo \cup {Absent} /\ i \in Intents
    BY <1>1, <2>1 DEF TypeOK
  <2>3. /\ pair'[target(i)] # Absent
        /\ pair[target(i)] # Absent => pair'[target(i)].intent # pair[target(i)].intent
    BY <2>1, <2>2, AcceptedIsNew
  <2> QED
    BY <2>1, <2>3 DEF Published
<1> QED
  BY <1>2, <1>3

(* What is left of Next: steps that publish nothing.                       *)
LEMMA OthersPublishNothing ==
  ASSUME TypeOK, [Next]_vars,
         ~\E signer \in Wallets, c \in Clients :
            ApplySingle(c, signer) \/ ApplyBatch(c, signer),
         NEW c \in Clients
  PROVE  Published(c) = {}
<1>1. CASE pair' = pair
  BY <1>1 DEF Published
<1>2. ASSUME NEW signer \in Wallets, NEW p \in PairSlots, PairTx(p, signer)
      PROVE  Published(c) = {}
  BY <1>2 DEF PairTx, PairUpdateMinUtxo, BurnPair, Published, TypeOK
<1>3. \/ pair' = pair
      \/ \E signer \in Wallets, p \in PairSlots : PairTx(p, signer)
  BY DEF Next, vars, SignedTx, ConfigTx, HookTx, ReceiverTx, ApplySettle,
         BootstrapConfig, ConfigAdminUpdate, BurnConfig, BootstrapHook,
         HookAdminUpdate, HookWithdraw, BurnHook, BootstrapReceiver,
         ReceiverWithdraw, ReceiverUpdateMinUtxo, BurnReceiver, SendDeposit,
         TopUp, MergeDeposits, Tick
<1> QED
  BY <1>1, <1>2, <1>3

-----------------------------------------------------------------------------
(* Time *)

(* The validity range ends before the intent expires and within the TTL.   *)
LEMMA RangeBounds ==
  ASSUME TypeOK, NEW c \in Clients, NEW W \in Batches, NEW slot \in [W -> Copies],
         NEW D, NEW built \in 0 .. now, NEW signer,
         ApplyIntents(c, W, slot, D, built, signer)
  PROVE  /\ now < built + ValidityTtl
         /\ \A i \in W : now < i.expiry * Millis
         /\ built - ValidityBackoff <= ValidFrom(built) /\ ValidFrom(built) \in Int
<1>1. now \in Int /\ built \in Int /\ ValidityTtl \in Int /\ ValidityBackoff \in Nat
  BY TimesAreNatural DEF TypeOK
<1>2. PICK upper \in ValidTo(built, W) :
        now < upper /\ \A i \in W : intent_expiry_satisfied(i, upper)
  BY DEF ApplyIntents
<1>3. \A i \in W : i.expiry \in Int /\ i.expiry * Millis \in Int
  BY IntentNumbers, AmountsAreIntegers DEF Batches
<1>4. ExpiryMargin \in Int
  BY TimesAreNatural
<1>5. upper \in Int /\ upper <= built + ValidityTtl
  <2> DEFINE ends == {i.expiry * Millis - ExpiryMargin : i \in W}
  <2>1. ends \subseteq Int
    BY <1>3, <1>4
  <2>2. upper \in {built + ValidityTtl} \cup ends
    BY DEF ValidTo
  <2>3. upper <= built + ValidityTtl
    BY DEF ValidTo
  <2> QED
    BY <1>1, <2>1, <2>2, <2>3
<1>6. \A i \in W : upper <= i.expiry * Millis
  BY <1>2, <1>3, <1>5 DEF intent_expiry_satisfied
<1>7. now < built + ValidityTtl
  BY <1>1, <1>2, <1>5
<1>8. \A i \in W : now < i.expiry * Millis
  <2> TAKE i \in W
  <2>1. PICK e \in Int : e = i.expiry * Millis
    BY <1>3
  <2> QED
    BY <1>1, <1>2, <1>5, <1>6, <2>1
<1>9. built - ValidityBackoff <= ValidFrom(built) /\ ValidFrom(built) \in Int
  BY <1>1 DEF ValidFrom
<1> QED
  BY <1>7, <1>8, <1>9

LEMMA UpdateInTime ==
  ASSUME TypeOK, NEW c \in Clients, NEW W \in Batches, NEW slot \in [W -> Copies],
         NEW D, NEW built \in 0 .. now, NEW signer,
         ApplyIntents(c, W, slot, D, built, signer), NEW p \in Published(c)
  PROVE  InTime(p)
<1>1. PICK i \in W : p = <<c, i.symbol, slot[i]>>
  BY PublishedByUpdate
<1>2. pair'[p] \in PairOutputs(pair[p], i, ValidFrom(built))
  BY <1>1, WitnessWritten
<1>3. i \in Intents /\ i.timestamp \in Int
  BY IntentNumbers DEF Batches
<1>4. p \in PairSlots /\ pair[p] \in PairUtxo \cup {Absent}
  BY DEF Published, TypeOK
<1>5. pair'[p].intent = i
  BY <1>2, <1>3, <1>4, AcceptedIsNew
<1>6. now < i.expiry * Millis
  BY RangeBounds
<1> DEFINE drift == config.datum.max_bootstrap_drift_seconds
<1>7. ASSUME pair[p] = Absent
      PROVE  now < (i.timestamp + drift) * Millis + ValidityBackoff + ValidityTtl
  <2>1. i.timestamp * Millis >= ValidFrom(built) - drift * Millis
    BY <1>2, <1>7 DEF PairOutputs, PairCreateOutputs, intent_freshness_satisfied
  <2>2. drift \in Int /\ Millis \in Int
    <3>1. CoordinatorRuns
      BY DEF ApplyIntents
    <3>2. config \in ConfigUtxo
      BY <3>1 DEF CoordinatorRuns, TypeOK, Live
    <3> QED
      BY <3>2, ConfigDatumsAreWellTyped, AmountsAreIntegers DEF ConfigUtxo
  <2> HIDE DEF drift
  <2>3. (i.timestamp + drift) * Millis = i.timestamp * Millis + drift * Millis
    BY <1>3, <2>2
  <2>4. PICK x \in Int, y \in Int : x = i.timestamp * Millis /\ y = drift * Millis
    BY <1>3, <2>2
  <2>5. /\ now \in Int /\ built \in Int /\ ValidityTtl \in Int /\ ValidityBackoff \in Int
        /\ now < built + ValidityTtl /\ ValidFrom(built) \in Int
        /\ built - ValidityBackoff <= ValidFrom(built)
    BY TimesAreNatural, RangeBounds DEF TypeOK
  <2>6. now < x + y + ValidityBackoff + ValidityTtl
    BY <2>1, <2>4, <2>5
  <2> QED
    BY <2>3, <2>4, <2>6
<1> QED
  BY <1>5, <1>6, <1>7 DEF InTime

(* An intent on chain was neither expired nor, as the first of its pair,   *)
(* out of date when the ledger took it, whatever time the builder read     *)
(* (transaction-time.ts, oracle_logic.ak).                                 *)
THEOREM PublicationIsTimely == Spec => PublishedInTime
<1>1. ASSUME TypeOK, [Next]_vars, NEW c \in Clients, NEW p \in Published(c)
      PROVE  InTime(p)
  <2>1. PICK signer \in Wallets, b \in Clients :
          ApplySingle(b, signer) \/ ApplyBatch(b, signer)
    BY <1>1, OthersPublishNothing
  <2>2. PICK W \in Batches, D \in SUBSET PendingDeposits(b), built \in 0 .. now :
          \E slot \in [W -> Copies] : ApplyIntents(b, W, slot, D, built, signer)
    BY <2>1, UpdateShape
  <2>3. PICK slot \in [W -> Copies] : ApplyIntents(b, W, slot, D, built, signer)
    BY <2>2
  <2>4. b = c
    BY <1>1, <2>3, PublishedByUpdate
  <2> QED
    BY <1>1, <2>3, <2>4, UpdateInTime
<1>2. TypeOK /\ [Next]_vars =>
        [\A c \in Clients : \A p \in Published(c) : InTime(p)]_vars
  BY <1>1
<1> QED
  BY <1>2, LedgerTypeCorrect, PTL DEF Spec, PublishedInTime

-----------------------------------------------------------------------------
(* Money *)

LEMMA BatchesAreFinite ==
  ASSUME NEW W \in Batches
  PROVE  IsFiniteSet(W) /\ Cardinality(W) \in Nat \ {0}
<1>1. W \in SUBSET Intents /\ W # {}
  BY DEF Batches
<1>2. IsFiniteSet(W)
  BY <1>1, FS_Subset, IntentsAreFinite
<1> QED
  BY <1>1, <1>2, FS_CardinalityType, FS_EmptySet

(* An update publishes as many pairs as it carries witnesses.              *)
LEMMA PublishedCount ==
  ASSUME TypeOK, NEW c \in Clients, NEW W \in Batches, NEW slot \in [W -> Copies],
         NEW D, NEW built, NEW signer, ApplyIntents(c, W, slot, D, built, signer)
  PROVE  Cardinality(Published(c)) = Cardinality(W)
<1> DEFINE f == [i \in W |-> <<c, i.symbol, slot[i]>>]
<1>1. Published(c) = {<<c, i.symbol, slot[i]>> : i \in W}
  BY PublishedByUpdate
<1>2. f \in [W -> Published(c)] /\ \A p \in Published(c) : \E i \in W : f[i] = p
  BY <1>1
<1>3. \A i, j \in W : f[i] = f[j] => i = j
  BY DEF Batches
<1> HIDE DEF f
<1>4. f \in Bijection(W, Published(c))
  BY <1>2, <1>3 DEF Bijection, Injection, Surjection, IsInjective
<1>5. ExistsBijection(W, Published(c))
  BY <1>4 DEF ExistsBijection
<1> QED
  BY <1>5, BatchesAreFinite, FS_Bijection

LEMMA ReceiverNumbers ==
  ASSUME NEW utxo \in ReceiverUtxo
  PROVE  /\ utxo.balance_lovelace \in Int /\ utxo.accrued_to_hook_lovelace \in Int
         /\ utxo.min_utxo_lovelace \in Int /\ utxo.lovelace \in Int
         /\ Live(utxo)
<1>1. /\ utxo.balance_lovelace \in Amount /\ utxo.accrued_to_hook_lovelace \in Amount
      /\ utxo.min_utxo_lovelace \in MinUtxo /\ utxo.lovelace \in Coin
  BY DEF ReceiverUtxo
<1>2. Coin \subseteq Int /\ Amount \subseteq Int /\ MinUtxo \subseteq Int
  BY AmountsAreIntegers
<1>3. Live(utxo)
  <2> HIDE DEF ReceiverUtxo
  <2> QED
    BY MarkersAreNotUtxos DEF Live
<1> QED
  BY <1>1, <1>2, <1>3

(* The Receiver that pays: the fee becomes pending, what the transaction   *)
(* adds becomes prepaid, and the deposits it takes are part of it.         *)
LEMMA FeeAccrued ==
  ASSUME TypeOK, NEW c \in Clients, NEW n \in Nat, NEW D, AccrueFee(c, n, D), Live(config)
  PROVE  /\ receiver[c] \in ReceiverUtxo /\ receiver'[c] \in ReceiverUtxo
         /\ accrue_fee_transition(receiver[c], receiver'[c],
                                  calculate_protocol_fee(config.datum, n))
         /\ calculate_protocol_fee(config.datum, n) \in Int
         /\ D # {} => collect_deposit_ok(receiver[c], receiver'[c], Swept(D))
         /\ receiver' = [receiver EXCEPT ![c] = receiver'[c]]
<1>1. PICK next \in ReceiverUtxo :
        /\ accrue_fee_transition(receiver[c], next, calculate_protocol_fee(config.datum, n))
        /\ D # {} => collect_deposit_ok(receiver[c], next, Swept(D))
        /\ receiver' = [receiver EXCEPT ![c] = next]
  BY DEF AccrueFee
<1>2. receiver[c] \in ReceiverUtxo
  BY DEF AccrueFee, TypeOK, Live
<1>3. receiver'[c] = next
  BY <1>1 DEF TypeOK
<1>4. calculate_protocol_fee(config.datum, n) \in Int
  <2>1. config \in ConfigUtxo
    BY DEF TypeOK, Live
  <2>2. /\ config.datum.base_fee_lovelace \in Int
        /\ config.datum.per_pair_fee_lovelace \in Int
    BY <2>1, ConfigDatumsAreWellTyped DEF ConfigUtxo
  <2> QED
    BY <2>2 DEF calculate_protocol_fee
<1> QED
  BY <1>1, <1>2, <1>3, <1>4

(* What the steps that are not updates do to a Receiver.                   *)
LEMMA OthersOnReceivers ==
  ASSUME TypeOK, [Next]_vars,
         ~\E signer \in Wallets, c \in Clients :
            ApplySingle(c, signer) \/ ApplyBatch(c, signer)
  PROVE  \/ UNCHANGED receiver
         \/ \E signer \in Wallets, b \in Clients : ReceiverTx(b, signer)
         \/ \E b \in Clients : TopUp(b) \/ MergeDeposits(b)
         \/ \E signer \in Wallets, S \in SUBSET Clients, h \in HookIds :
              ApplySettle(S, h, signer)
BY DEF Next, vars, SignedTx, ConfigTx, HookTx, PairTx, BootstrapConfig,
   ConfigAdminUpdate, BurnConfig, BootstrapHook, HookAdminUpdate,
   HookWithdraw, BurnHook, SendDeposit, Tick, PairUpdateMinUtxo, BurnPair

LEMMA OthersDoNotCharge ==
  ASSUME TypeOK, StateUtxosSound, [Next]_vars,
         ~\E signer \in Wallets, c \in Clients :
            ApplySingle(c, signer) \/ ApplyBatch(c, signer),
         NEW c \in Clients
  PROVE  AccruedOf(receiver'[c]) - AccruedOf(receiver[c]) <= 0
<1>1. AccruedOf(receiver[c]) \in Int
  BY ReceiverNumbers DEF AccruedOf, TypeOK, Live
<1>2. CASE receiver'[c] = receiver[c]
  BY <1>1, <1>2
<1>3. ASSUME NEW signer \in Wallets, ReceiverTx(c, signer)
      PROVE  AccruedOf(receiver'[c]) - AccruedOf(receiver[c]) <= 0
  <2>1. CASE BootstrapReceiver(c, signer)
    <3>1. receiver'[c] \in ReceiverUtxo /\ receiver'[c].accrued_to_hook_lovelace = 0
      BY <2>1 DEF BootstrapReceiver, TypeOK
    <3>2. AccruedOf(receiver[c]) = 0
      BY <2>1 DEF BootstrapReceiver, AccruedOf, Live
    <3> QED
      BY <3>1, <3>2, ReceiverNumbers DEF AccruedOf
  <2>2. CASE ReceiverWithdraw(c, signer) \/ ReceiverUpdateMinUtxo(c, signer)
    <3>1. /\ receiver[c] \in ReceiverUtxo /\ receiver'[c] \in ReceiverUtxo
          /\ receiver'[c].accrued_to_hook_lovelace = receiver[c].accrued_to_hook_lovelace
      BY <2>2 DEF ReceiverWithdraw, ReceiverUpdateMinUtxo, TypeOK, Live,
         receiver_withdraw_transition, receiver_update_min_utxo_transition
    <3> QED
      BY <3>1, ReceiverNumbers DEF AccruedOf
  <2>3. CASE BurnReceiver(c, signer)
    <3>1. AccruedOf(receiver[c]) = 0 /\ AccruedOf(receiver'[c]) = 0
      BY <2>3 DEF BurnReceiver, AccruedOf, TypeOK, Live
    <3> QED
      BY <3>1
  <2> QED
    BY <1>3, <2>1, <2>2, <2>3 DEF ReceiverTx
<1>4. ASSUME TopUp(c) \/ MergeDeposits(c)
      PROVE  AccruedOf(receiver'[c]) - AccruedOf(receiver[c]) <= 0
  <2>1. /\ receiver[c] \in ReceiverUtxo /\ receiver'[c] \in ReceiverUtxo
        /\ receiver'[c].accrued_to_hook_lovelace = receiver[c].accrued_to_hook_lovelace
    BY <1>4 DEF TopUp, MergeDeposits, TypeOK, Live, top_up_transition
  <2> QED
    BY <2>1, ReceiverNumbers DEF AccruedOf
<1>5. ASSUME NEW signer \in Wallets, NEW S \in SUBSET Clients, NEW h \in HookIds,
             ApplySettle(S, h, signer)
      PROVE  AccruedOf(receiver'[c]) - AccruedOf(receiver[c]) <= 0
  <2>1. PICK next : /\ \A b \in S : next[b] \in SettleOutputs(b)
                    /\ receiver' = [b \in Clients |->
                         IF b \in S THEN next[b] ELSE receiver[b]]
    BY <1>5 DEF ApplySettle
  <2>2. CASE c \in S
    <3>1. receiver'[c] \in SettleOutputs(c)
      BY <2>1, <2>2
    <3>2. receiver[c] \in ReceiverUtxo
      BY <1>5, <2>2 DEF ApplySettle, TypeOK, Live
    <3> QED
      BY <3>1, <3>2, ReceiverNumbers DEF SettleOutputs, settle_transition, AccruedOf
  <2>3. CASE c \notin S
    BY <1>2, <2>1, <2>3
  <2> QED
    BY <2>2, <2>3
<1>6. ASSUME NEW signer \in Wallets, NEW b \in Clients, b # c,
             ReceiverTx(b, signer)
      PROVE  receiver'[c] = receiver[c]
  BY <1>6 DEF ReceiverTx, BootstrapReceiver, ReceiverWithdraw, ReceiverUpdateMinUtxo,
     BurnReceiver, TypeOK
<1>7. ASSUME NEW b \in Clients, b # c, TopUp(b) \/ MergeDeposits(b)
      PROVE  receiver'[c] = receiver[c]
  BY <1>7 DEF TopUp, MergeDeposits, TypeOK
<1> QED
  BY <1>2, <1>3, <1>4, <1>5, <1>6, <1>7, OthersOnReceivers

LEMMA UpdateChargesExactly ==
  ASSUME TypeOK, NEW b \in Clients, NEW W \in Batches, NEW slot \in [W -> Copies],
         NEW D, NEW built, NEW signer, ApplyIntents(b, W, slot, D, built, signer),
         NEW c \in Clients
  PROVE  FeeExact(c)
<1> DEFINE n == Cardinality(W)
           fee == calculate_protocol_fee(config.datum, n)
<1>1. n \in Nat \ {0}
  BY BatchesAreFinite
<1>2. AccrueFee(b, n, D) /\ Live(config)
  BY DEF ApplyIntents, CoordinatorRuns
<1>3. CASE c = b
  <2>1. /\ receiver[c] \in ReceiverUtxo /\ receiver'[c] \in ReceiverUtxo
        /\ accrue_fee_transition(receiver[c], receiver'[c], fee) /\ fee \in Int
    BY <1>1, <1>2, <1>3, FeeAccrued
  <2>2. AccruedOf(receiver'[c]) - AccruedOf(receiver[c]) = fee
    BY <2>1, ReceiverNumbers DEF AccruedOf, accrue_fee_transition
  <2>3. Cardinality(Published(c)) = n
    BY <1>3, PublishedCount
  <2> QED
    BY <1>1, <2>2, <2>3 DEF FeeExact
<1>4. CASE c # b
  <2>1. receiver'[c] = receiver[c]
    BY <1>2, <1>4 DEF AccrueFee, TypeOK
  <2>2. Cardinality(Published(c)) = 0
    BY <1>4, PublishedByUpdate, FS_EmptySet
  <2>3. AccruedOf(receiver[c]) \in Int
    BY ReceiverNumbers DEF AccruedOf, TypeOK, Live
  <2> QED
    BY <2>1, <2>2, <2>3 DEF FeeExact
<1> QED
  BY <1>3, <1>4

(* A transaction that publishes N pairs of a client adds exactly the fee   *)
(* for N pairs to what the client owes, and no other adds anything, for    *)
(* any batch size (receiver_logic.ak, coordinator_logic.ak).               *)
THEOREM FeesAreExact == Spec => FeeIsExact
<1>1. ASSUME TypeOK, StateUtxosSound, [Next]_vars, NEW c \in Clients
      PROVE  FeeExact(c)
  <2>1. ASSUME NEW signer \in Wallets, NEW b \in Clients,
               ApplySingle(b, signer) \/ ApplyBatch(b, signer)
        PROVE  FeeExact(c)
    BY <1>1, <2>1, UpdateShape, UpdateChargesExactly
  <2>2. CASE ~\E signer \in Wallets, b \in Clients :
                ApplySingle(b, signer) \/ ApplyBatch(b, signer)
    <3>1. Cardinality(Published(c)) = 0
      BY <1>1, <2>2, OthersPublishNothing, FS_EmptySet
    <3>2. AccruedOf(receiver'[c]) - AccruedOf(receiver[c]) <= 0
      BY <1>1, <2>2, OthersDoNotCharge
    <3> QED
      BY <3>1, <3>2 DEF FeeExact
  <2> QED
    BY <2>1, <2>2
<1>2. TypeOK /\ StateUtxosSound /\ [Next]_vars => [\A c \in Clients : FeeExact(c)]_vars
  BY <1>1
<1> QED
  BY <1>2, LedgerTypeCorrect, StateUtxosStaySound, PTL DEF Spec, FeeIsExact

(* The deposits that a step takes from a client are those that its own     *)
(* Receiver absorbs.                                                       *)
LEMMA SweepIsWhole ==
  ASSUME TypeOK, NEW b \in Clients, NEW D \in SUBSET PendingDeposits(b),
         SpendDeposits(D), NEW c \in Clients
  PROVE  { d \in PendingDeposits(c) : deposit'[d] # deposit[d] } = IF c = b THEN D ELSE {}
<1>1. \A d \in DepositIds : deposit'[d] = IF d \in D THEN Spent ELSE deposit[d]
  BY DEF SpendDeposits
<1>2. \A d \in D : d \in DepositIds /\ deposit[d] # Spent /\ deposit[d].client = b
  BY DEF PendingDeposits, Live
<1> QED
  BY <1>1, <1>2 DEF PendingDeposits

LEMMA SweepsEnrichOwner ==
  ASSUME TypeOK, NEW b \in Clients, NEW D \in SUBSET PendingDeposits(b),
         SpendDeposits(D),
         D # {} =>
           /\ receiver[b] \in ReceiverUtxo /\ receiver'[b] \in ReceiverUtxo
           /\ collect_deposit_ok(receiver[b], receiver'[b], Swept(D))
           /\ receiver'[b].balance_lovelace + receiver'[b].accrued_to_hook_lovelace
                - (receiver[b].balance_lovelace + receiver[b].accrued_to_hook_lovelace)
                = receiver'[b].lovelace - receiver[b].lovelace,
         NEW c \in Clients
  PROVE  OwnerGains(c)
<1>1. { d \in PendingDeposits(c) : deposit'[d] # deposit[d] } = IF c = b THEN D ELSE {}
  BY SweepIsWhole
<1>2. ASSUME D # {} PROVE OwnerGains(b)
  <2> DEFINE was == BalanceOf(receiver[b]) + AccruedOf(receiver[b])
             is  == BalanceOf(receiver'[b]) + AccruedOf(receiver'[b])
  <2>1. receiver[b] \in ReceiverUtxo /\ receiver'[b] \in ReceiverUtxo
    BY <1>2
  <2>2. Live(receiver[b]) /\ Live(receiver'[b])
    BY <2>1, ReceiverNumbers
  <2>3. /\ was = receiver[b].balance_lovelace + receiver[b].accrued_to_hook_lovelace
        /\ is = receiver'[b].balance_lovelace + receiver'[b].accrued_to_hook_lovelace
    BY <2>2, Zenon DEF BalanceOf, AccruedOf
  <2> HIDE DEF was, is
  <2>4. /\ receiver[b].balance_lovelace \in Int /\ receiver[b].accrued_to_hook_lovelace \in Int
        /\ receiver'[b].balance_lovelace \in Int /\ receiver'[b].accrued_to_hook_lovelace \in Int
        /\ receiver[b].lovelace \in Int /\ receiver'[b].lovelace \in Int
    BY <2>1, ReceiverNumbers
  <2>5. is - was = receiver'[b].lovelace - receiver[b].lovelace
    BY <1>2, <2>3, <2>4
  <2>6. is - was >= Swept(D)
    BY <1>2, <2>5 DEF collect_deposit_ok
  <2>7. { d \in PendingDeposits(b) : deposit'[d] # deposit[d] } = D
    BY SweepIsWhole
  <2> QED
    BY <2>6, <2>7, Zenon DEF OwnerGains, was, is
<1>3. CASE ~(c = b /\ D # {})
  BY <1>1, <1>3 DEF OwnerGains
<1> QED
  BY <1>2, <1>3

LEMMA UpdateEnrichesOwner ==
  ASSUME TypeOK, NEW b \in Clients, NEW W \in Batches, NEW slot \in [W -> Copies],
         NEW D \in SUBSET PendingDeposits(b), NEW built, NEW signer,
         ApplyIntents(b, W, slot, D, built, signer), NEW c \in Clients
  PROVE  OwnerGains(c)
<1> DEFINE fee == calculate_protocol_fee(config.datum, Cardinality(W))
<1>1. AccrueFee(b, Cardinality(W), D) /\ Live(config)
  BY DEF ApplyIntents, CoordinatorRuns
<1>2. Cardinality(W) \in Nat
  BY BatchesAreFinite
<1>3. /\ receiver[b] \in ReceiverUtxo /\ receiver'[b] \in ReceiverUtxo
      /\ accrue_fee_transition(receiver[b], receiver'[b], fee) /\ fee \in Int
      /\ D # {} => collect_deposit_ok(receiver[b], receiver'[b], Swept(D))
  BY <1>1, <1>2, FeeAccrued
<1> HIDE DEF fee
<1>4. receiver'[b].balance_lovelace + receiver'[b].accrued_to_hook_lovelace
        - (receiver[b].balance_lovelace + receiver[b].accrued_to_hook_lovelace)
        = receiver'[b].lovelace - receiver[b].lovelace
  BY <1>3, ReceiverNumbers DEF accrue_fee_transition
<1>5. SpendDeposits(D)
  BY <1>1 DEF AccrueFee
<1> QED
  BY <1>3, <1>4, <1>5, SweepsEnrichOwner

LEMMA MergeEnrichesOwner ==
  ASSUME TypeOK, NEW b \in Clients, MergeDeposits(b), NEW c \in Clients
  PROVE  OwnerGains(c)
<1>1. PICK D \in SUBSET PendingDeposits(b), next \in ReceiverUtxo :
        /\ top_up_transition(receiver[b], next)
        /\ collect_deposit_ok(receiver[b], next, Swept(D))
        /\ receiver' = [receiver EXCEPT ![b] = next]
        /\ SpendDeposits(D)
  BY DEF MergeDeposits
<1>2. receiver[b] \in ReceiverUtxo /\ receiver'[b] = next
  BY <1>1 DEF MergeDeposits, TypeOK, Live
<1>3. receiver'[b].balance_lovelace + receiver'[b].accrued_to_hook_lovelace
        - (receiver[b].balance_lovelace + receiver[b].accrued_to_hook_lovelace)
        = receiver'[b].lovelace - receiver[b].lovelace
  BY <1>1, <1>2, ReceiverNumbers DEF top_up_transition
<1> QED
  BY <1>1, <1>2, <1>3, SweepsEnrichOwner

(* The money in a deposit reaches the account of its owner, however many   *)
(* deposits one transaction takes and whatever else it does                *)
(* (deposit_logic.ak).                                                     *)
THEOREM DepositsComeHome == Spec => DepositsReachTheirOwner
<1>1. ASSUME TypeOK, [Next]_vars, NEW c \in Clients
      PROVE  OwnerGains(c)
  <2>1. ASSUME NEW signer \in Wallets, NEW b \in Clients,
               ApplySingle(b, signer) \/ ApplyBatch(b, signer)
        PROVE  OwnerGains(c)
    BY <1>1, <2>1, UpdateShape, UpdateEnrichesOwner
  <2>2. ASSUME NEW b \in Clients, MergeDeposits(b) PROVE OwnerGains(c)
    BY <1>1, <2>2, MergeEnrichesOwner
  <2>3. CASE UNCHANGED deposit
    BY <2>3 DEF OwnerGains
  <2>4. ASSUME NEW d \in DepositIds, NEW b \in Clients, SendDeposit(d, b)
        PROVE  OwnerGains(c)
    <3>1. \A e \in PendingDeposits(c) : deposit'[e] = deposit[e]
      BY <1>1, <2>4 DEF SendDeposit, PendingDeposits, Live, TypeOK
    <3> QED
      BY <3>1 DEF OwnerGains
  <2>5. \/ UNCHANGED deposit
        \/ \E signer \in Wallets, b \in Clients :
             ApplySingle(b, signer) \/ ApplyBatch(b, signer)
        \/ \E b \in Clients : MergeDeposits(b)
        \/ \E d \in DepositIds, b \in Clients : SendDeposit(d, b)
    BY <1>1 DEF Next, vars, SignedTx, ConfigTx, HookTx, ReceiverTx, ApplySettle,
       BootstrapConfig, ConfigAdminUpdate, BurnConfig, BootstrapHook,
       HookAdminUpdate, HookWithdraw, BurnHook, BootstrapReceiver,
       ReceiverWithdraw, ReceiverUpdateMinUtxo, BurnReceiver, TopUp, Tick,
       PairTx, PairUpdateMinUtxo, BurnPair
  <2> QED
    BY <2>1, <2>2, <2>3, <2>4, <2>5
<1>2. TypeOK /\ [Next]_vars => [\A c \in Clients : OwnerGains(c)]_vars
  BY <1>1
<1> QED
  BY <1>2, LedgerTypeCorrect, PTL DEF Spec, DepositsReachTheirOwner
-----------------------------------------------------------------------------
(* The books of OracleAccounts, as Books maps them. *)

Opened  == {c \in Clients : Live(receiver[c])} \cup {h \in HookIds : Live(hook[h])}
Prepaid == [c \in Clients |-> BalanceOf(receiver[c])]
Owed    == [c \in Clients |-> AccruedOf(receiver[c])]
Kept    == [h \in HookIds |-> HeldBy(hook[h])]

LEMMA HookNumbers ==
  ASSUME NEW utxo \in PaymentHookUtxo
  PROVE  utxo.accrued_fees_lovelace \in Int /\ Live(utxo)
<1>1. utxo.accrued_fees_lovelace \in Amount
  BY DEF PaymentHookUtxo
<1>2. Live(utxo)
  <2> HIDE DEF PaymentHookUtxo
  <2> QED
    BY MarkersAreNotUtxos DEF Live
<1> QED
  BY <1>1, <1>2, AmountsAreIntegers

LEMMA DifferencesMove ==
  ASSUME NEW x \in Amount \cup Coin, NEW y \in Amount \cup Coin
  PROVE  x - y \in Movements
BY DEF Movements

(* What a transaction that writes one Receiver does to the books.          *)
LEMMA ReceiverEntry ==
  ASSUME TypeOK, NEW c \in Clients, UNCHANGED hook,
         receiver' = [receiver EXCEPT ![c] = receiver'[c]]
  PROVE  /\ Prepaid' = [Prepaid EXCEPT ![c] = BalanceOf(receiver'[c])]
         /\ Owed' = [Owed EXCEPT ![c] = AccruedOf(receiver'[c])]
         /\ Kept' = Kept
         /\ Live(receiver[c]) /\ Live(receiver'[c]) => c \in Opened /\ Opened' = Opened
         /\ ~Live(receiver[c]) /\ Live(receiver'[c]) =>
              c \notin Opened /\ Opened' = Opened \cup {c}
         /\ Live(receiver[c]) /\ ~Live(receiver'[c]) =>
              c \in Opened /\ Opened' = Opened \ {c}
<1>1. \A b \in Clients : b # c => receiver'[b] = receiver[b]
  BY DEF TypeOK
<1>2. Prepaid' = [Prepaid EXCEPT ![c] = BalanceOf(receiver'[c])]
  BY <1>1 DEF Prepaid
<1>3. Owed' = [Owed EXCEPT ![c] = AccruedOf(receiver'[c])]
  BY <1>1 DEF Owed
<1>4. Kept' = Kept
  BY DEF Kept
<1>5. \A b \in Clients : b # c => (b \in Opened' <=> b \in Opened)
  BY <1>1, AccountsAreDistinct DEF Opened
<1>6. \A h \in HookIds : h # c /\ (h \in Opened' <=> h \in Opened)
  BY AccountsAreDistinct DEF Opened
<1>7. (c \in Opened <=> Live(receiver[c])) /\ (c \in Opened' <=> Live(receiver'[c]))
  BY AccountsAreDistinct DEF Opened
<1>8. Opened \subseteq Clients \cup HookIds /\ Opened' \subseteq Clients \cup HookIds
  BY DEF Opened
<1> HIDE DEF Opened
<1> QED
  BY <1>2, <1>3, <1>4, <1>5, <1>6, <1>7, <1>8

(* What a transaction that writes one hook, and no Receiver, does to them. *)
LEMMA HookEntry ==
  ASSUME TypeOK, NEW h \in HookIds, UNCHANGED receiver,
         hook' = [hook EXCEPT ![h] = hook'[h]]
  PROVE  /\ Prepaid' = Prepaid /\ Owed' = Owed
         /\ Kept' = [Kept EXCEPT ![h] = HeldBy(hook'[h])]
         /\ Live(hook[h]) /\ Live(hook'[h]) => h \in Opened /\ Opened' = Opened
         /\ ~Live(hook[h]) /\ Live(hook'[h]) =>
              h \notin Opened /\ Opened' = Opened \cup {h}
         /\ Live(hook[h]) /\ ~Live(hook'[h]) =>
              h \in Opened /\ Opened' = Opened \ {h}
<1>1. \A g \in HookIds : g # h => hook'[g] = hook[g]
  BY DEF TypeOK
<1>2. Kept' = [Kept EXCEPT ![h] = HeldBy(hook'[h])]
  BY <1>1 DEF Kept
<1>3. Prepaid' = Prepaid /\ Owed' = Owed
  BY DEF Prepaid, Owed
<1>4. \A g \in HookIds : g # h => (g \in Opened' <=> g \in Opened)
  BY <1>1, AccountsAreDistinct DEF Opened
<1>5. \A c \in Clients : c # h /\ (c \in Opened' <=> c \in Opened)
  BY AccountsAreDistinct DEF Opened
<1>6. (h \in Opened <=> Live(hook[h])) /\ (h \in Opened' <=> Live(hook'[h]))
  BY AccountsAreDistinct DEF Opened
<1>7. Opened \subseteq Clients \cup HookIds /\ Opened' \subseteq Clients \cup HookIds
  BY DEF Opened
<1> HIDE DEF Opened
<1> QED
  BY <1>2, <1>3, <1>4, <1>5, <1>6, <1>7

(* A Receiver opens and closes an empty account, and a withdrawal takes    *)
(* prepaid money only.                                                     *)
LEMMA ReceiverTxBooked ==
  ASSUME TypeOK, NEW signer \in Wallets, NEW c \in Clients, ReceiverTx(c, signer)
  PROVE  [Books!Next]_Books!accounts
<1>1. UNCHANGED hook /\ receiver' = [receiver EXCEPT ![c] = receiver'[c]]
  BY DEF ReceiverTx, BootstrapReceiver, ReceiverWithdraw, ReceiverUpdateMinUtxo,
     BurnReceiver, TypeOK
<1>2. Prepaid[c] = BalanceOf(receiver[c]) /\ Owed[c] = AccruedOf(receiver[c])
  BY DEF Prepaid, Owed
<1>3. Prepaid = [Prepaid EXCEPT ![c] = @] /\ Owed = [Owed EXCEPT ![c] = @]
  BY DEF Prepaid, Owed
<1>4. CASE BootstrapReceiver(c, signer)
  <2>1. /\ ~Live(receiver[c]) /\ receiver'[c] \in ReceiverUtxo
        /\ receiver'[c].balance_lovelace = 0
        /\ receiver'[c].accrued_to_hook_lovelace = 0
    BY <1>4 DEF BootstrapReceiver, Live, TypeOK
  <2>2. Live(receiver'[c])
    BY <2>1, ReceiverNumbers
  <2>3. Prepaid' = Prepaid /\ Owed' = Owed
    BY <1>1, <1>2, <1>3, <2>1, <2>2, ReceiverEntry DEF BalanceOf, AccruedOf
  <2>4. c \notin Opened /\ Opened' = Opened \cup {c} /\ Kept' = Kept
    BY <1>1, <2>1, <2>2, ReceiverEntry
  <2>5. Books!Open(c)
    BY <2>3, <2>4 DEF Books!Open, Opened, Prepaid, Owed, Kept
  <2> QED
    BY <2>5 DEF Books!Next
<1>5. CASE BurnReceiver(c, signer)
  <2>1. /\ Live(receiver[c]) /\ ~Live(receiver'[c])
        /\ BalanceOf(receiver[c]) = 0 /\ AccruedOf(receiver[c]) = 0
    BY <1>5 DEF BurnReceiver, Live, TypeOK, BalanceOf, AccruedOf
  <2>2. BalanceOf(receiver'[c]) = 0 /\ AccruedOf(receiver'[c]) = 0
    BY <2>1 DEF BalanceOf, AccruedOf
  <2>3. Prepaid' = Prepaid /\ Owed' = Owed
    BY <1>1, <1>2, <1>3, <2>1, <2>2, ReceiverEntry
  <2>4. c \in Opened /\ Opened' = Opened \ {c} /\ Kept' = Kept
    BY <1>1, <2>1, ReceiverEntry
  <2>5. Prepaid[c] = 0 /\ Owed[c] = 0
    BY <1>2, <2>1
  <2>6. Books!CloseClient(c)
    BY <2>3, <2>4, <2>5 DEF Books!CloseClient, Opened, Prepaid, Owed, Kept
  <2> QED
    BY <2>6 DEF Books!Next
<1>6. CASE ReceiverUpdateMinUtxo(c, signer)
  <2>1. /\ receiver[c] \in ReceiverUtxo /\ receiver'[c] \in ReceiverUtxo
        /\ receiver'[c].balance_lovelace = receiver[c].balance_lovelace
        /\ receiver'[c].accrued_to_hook_lovelace = receiver[c].accrued_to_hook_lovelace
    BY <1>6 DEF ReceiverUpdateMinUtxo, TypeOK, Live, receiver_update_min_utxo_transition
  <2>2. Live(receiver[c]) /\ Live(receiver'[c])
    BY <2>1, ReceiverNumbers
  <2>3. Prepaid' = Prepaid /\ Owed' = Owed
    BY <1>1, <1>2, <1>3, <2>1, <2>2, ReceiverEntry DEF BalanceOf, AccruedOf
  <2>4. Opened' = Opened /\ Kept' = Kept
    BY <1>1, <2>2, ReceiverEntry
  <2> QED
    BY <2>3, <2>4 DEF Books!accounts, Opened, Prepaid, Owed, Kept
<1>7. CASE ReceiverWithdraw(c, signer)
  <2>1. PICK amount \in Amount :
          receiver_withdraw_transition(receiver[c], receiver'[c], amount)
    BY <1>7 DEF ReceiverWithdraw, TypeOK
  <2>2. receiver[c] \in ReceiverUtxo /\ receiver'[c] \in ReceiverUtxo
    BY <1>7 DEF ReceiverWithdraw, TypeOK, Live
  <2>3. Live(receiver[c]) /\ Live(receiver'[c])
    BY <2>2, ReceiverNumbers
  <2>4. Prepaid[c] = receiver[c].balance_lovelace
    BY <1>2, <2>3 DEF BalanceOf
  <2>5. /\ amount > 0 /\ amount <= Prepaid[c]
        /\ BalanceOf(receiver'[c]) = Prepaid[c] - amount
        /\ AccruedOf(receiver'[c]) = Owed[c]
    BY <1>2, <2>1, <2>3, <2>4 DEF receiver_withdraw_transition, BalanceOf, AccruedOf
  <2>6. amount \in Movements
    <3>1. amount = receiver[c].balance_lovelace - receiver'[c].balance_lovelace
      BY <2>1, <2>2, ReceiverNumbers, AmountsAreIntegers DEF receiver_withdraw_transition
    <3>2. receiver[c].balance_lovelace \in Amount /\ receiver'[c].balance_lovelace \in Amount
      BY <2>2 DEF ReceiverUtxo
    <3> QED
      BY <3>1, <3>2, DifferencesMove
  <2>7. /\ Prepaid' = [Prepaid EXCEPT ![c] = @ - amount] /\ Owed' = Owed
        /\ Kept' = Kept /\ c \in Opened /\ Opened' = Opened
    BY <1>1, <1>3, <2>3, <2>5, ReceiverEntry
  <2>8. Books!Refund(c, amount)
    BY <2>5, <2>7 DEF Books!Refund, Opened, Prepaid, Owed, Kept
  <2> QED
    BY <2>6, <2>8 DEF Books!Next
<1> QED
  BY <1>4, <1>5, <1>6, <1>7 DEF ReceiverTx

(* Money from outside is credited to the Receiver it is locked in.         *)
LEMMA FundingBooked ==
  ASSUME TypeOK, NEW c \in Clients, TopUp(c) \/ MergeDeposits(c)
  PROVE  Books!Next
<1>1. /\ UNCHANGED hook /\ receiver' = [receiver EXCEPT ![c] = receiver'[c]]
      /\ receiver[c] \in ReceiverUtxo /\ receiver'[c] \in ReceiverUtxo
      /\ top_up_transition(receiver[c], receiver'[c])
  BY DEF TopUp, MergeDeposits, TypeOK, Live
<1> DEFINE added == receiver'[c].lovelace - receiver[c].lovelace
<1>2. Live(receiver[c]) /\ Live(receiver'[c])
  BY <1>1, ReceiverNumbers
<1>3. /\ Prepaid[c] = receiver[c].balance_lovelace
      /\ Owed[c] = receiver[c].accrued_to_hook_lovelace
      /\ BalanceOf(receiver'[c]) = receiver'[c].balance_lovelace
      /\ AccruedOf(receiver'[c]) = receiver'[c].accrued_to_hook_lovelace
  BY <1>2 DEF Prepaid, Owed, BalanceOf, AccruedOf
<1>4. /\ added > 0
      /\ BalanceOf(receiver'[c]) = Prepaid[c] + added
      /\ AccruedOf(receiver'[c]) = Owed[c]
  BY <1>1, <1>3 DEF top_up_transition
<1>5. added \in Movements
  <2>1. receiver'[c].lovelace \in Coin /\ receiver[c].lovelace \in Coin
    BY <1>1 DEF ReceiverUtxo
  <2> QED
    BY <2>1, DifferencesMove
<1> HIDE DEF added
<1>6. Owed = [Owed EXCEPT ![c] = @]
  BY DEF Owed
<1>7. /\ Prepaid' = [Prepaid EXCEPT ![c] = @ + added] /\ Owed' = Owed
      /\ Kept' = Kept /\ c \in Opened /\ Opened' = Opened
  BY <1>1, <1>2, <1>4, <1>6, ReceiverEntry
<1>8. Books!Credit(c, added)
  BY <1>4, <1>7 DEF Books!Credit, Opened, Prepaid, Owed, Kept
<1> QED
  BY <1>5, <1>8 DEF Books!Next

(* An update moves its fee from prepaid to pending, after what it adds.    *)
LEMMA UpdateBooked ==
  ASSUME TypeOK, NEW c \in Clients, NEW W \in Batches, NEW slot \in [W -> Copies],
         NEW D, NEW built, NEW signer, ApplyIntents(c, W, slot, D, built, signer)
  PROVE  Books!Next
<1> DEFINE fee == calculate_protocol_fee(config.datum, Cardinality(W))
           added == receiver'[c].lovelace - receiver[c].lovelace
<1>1. AccrueFee(c, Cardinality(W), D) /\ Live(config) /\ UNCHANGED hook
  BY DEF ApplyIntents, CoordinatorRuns
<1>2. Cardinality(W) \in Nat
  BY BatchesAreFinite
<1>3. /\ receiver[c] \in ReceiverUtxo /\ receiver'[c] \in ReceiverUtxo
      /\ accrue_fee_transition(receiver[c], receiver'[c], fee) /\ fee \in Int
      /\ receiver' = [receiver EXCEPT ![c] = receiver'[c]]
  BY <1>1, <1>2, FeeAccrued
<1> HIDE DEF fee
<1>4. Live(receiver[c]) /\ Live(receiver'[c])
  BY <1>3, ReceiverNumbers
<1>5. /\ Prepaid[c] = receiver[c].balance_lovelace
      /\ Owed[c] = receiver[c].accrued_to_hook_lovelace
      /\ BalanceOf(receiver'[c]) = receiver'[c].balance_lovelace
      /\ AccruedOf(receiver'[c]) = receiver'[c].accrued_to_hook_lovelace
  BY <1>4 DEF Prepaid, Owed, BalanceOf, AccruedOf
<1>6. /\ fee >= 0 /\ added >= 0 /\ fee <= Prepaid[c] + added
      /\ BalanceOf(receiver'[c]) = Prepaid[c] - fee + added
      /\ AccruedOf(receiver'[c]) = Owed[c] + fee
  BY <1>3, <1>5 DEF accrue_fee_transition
<1>7. added \in Movements /\ fee \in Movements
  <2>1. receiver'[c].lovelace \in Coin /\ receiver[c].lovelace \in Coin
    BY <1>3 DEF ReceiverUtxo
  <2>2. /\ receiver[c].accrued_to_hook_lovelace \in Amount
        /\ receiver'[c].accrued_to_hook_lovelace \in Amount
    BY <1>3 DEF ReceiverUtxo
  <2>3. fee = receiver'[c].accrued_to_hook_lovelace - receiver[c].accrued_to_hook_lovelace
    BY <1>3, ReceiverNumbers DEF accrue_fee_transition
  <2> QED
    BY <2>1, <2>2, <2>3, DifferencesMove
<1> HIDE DEF added
<1>8. /\ Prepaid' = [Prepaid EXCEPT ![c] = @ - fee + added]
      /\ Owed' = [Owed EXCEPT ![c] = @ + fee]
      /\ Kept' = Kept /\ c \in Opened /\ Opened' = Opened
  BY <1>1, <1>3, <1>4, <1>6, ReceiverEntry
<1>9. Books!Charge(c, fee, added)
  BY <1>6, <1>8 DEF Books!Charge, Opened, Prepaid, Owed, Kept
<1> QED
  BY <1>7, <1>9 DEF Books!Next

(* A hook opens and closes empty, and pays out only what it holds.         *)
LEMMA HookTxBooked ==
  ASSUME TypeOK, NEW signer \in Wallets, NEW h \in HookIds, HookTx(h, signer)
  PROVE  [Books!Next]_Books!accounts
<1>1. UNCHANGED receiver /\ hook' = [hook EXCEPT ![h] = hook'[h]]
  BY DEF HookTx, BootstrapHook, HookAdminUpdate, HookWithdraw, BurnHook, TypeOK
<1>2. Kept[h] = HeldBy(hook[h]) /\ Kept = [Kept EXCEPT ![h] = @]
  BY DEF Kept
<1>3. CASE BootstrapHook(h, signer)
  <2>1. /\ ~Live(hook[h]) /\ hook'[h] \in PaymentHookUtxo
        /\ hook'[h].accrued_fees_lovelace = 0
    BY <1>3 DEF BootstrapHook, Live, TypeOK
  <2>2. Live(hook'[h])
    BY <2>1, HookNumbers
  <2>3. HeldBy(hook[h]) = 0 /\ HeldBy(hook'[h]) = 0
    BY <2>1, <2>2 DEF HeldBy
  <2>4. /\ h \notin Opened /\ Opened' = Opened \cup {h}
        /\ Prepaid' = Prepaid /\ Owed' = Owed /\ Kept' = Kept
    BY <1>1, <1>2, <2>1, <2>2, <2>3, HookEntry
  <2>5. Books!Open(h)
    BY <2>4 DEF Books!Open, Opened, Prepaid, Owed, Kept
  <2> QED
    BY <2>5 DEF Books!Next
<1>4. CASE BurnHook(h, signer)
  <2>1. Live(hook[h]) /\ ~Live(hook'[h]) /\ HeldBy(hook[h]) = 0
    BY <1>4 DEF BurnHook, Live, TypeOK, HeldBy
  <2>2. HeldBy(hook'[h]) = 0
    BY <2>1 DEF HeldBy
  <2>3. /\ h \in Opened /\ Opened' = Opened \ {h} /\ Kept[h] = 0
        /\ Prepaid' = Prepaid /\ Owed' = Owed /\ Kept' = Kept
    BY <1>1, <1>2, <2>1, <2>2, HookEntry
  <2>4. Books!CloseVault(h)
    BY <2>3 DEF Books!CloseVault, Opened, Prepaid, Owed, Kept
  <2> QED
    BY <2>4 DEF Books!Next
<1>5. CASE HookAdminUpdate(h, signer)
  <2>1. /\ hook[h] \in PaymentHookUtxo /\ hook'[h] \in PaymentHookUtxo
        /\ hook'[h].accrued_fees_lovelace = hook[h].accrued_fees_lovelace
    BY <1>5 DEF HookAdminUpdate, hook_admin_update_transition, Live, TypeOK
  <2>2. Live(hook[h]) /\ Live(hook'[h])
    BY <2>1, HookNumbers
  <2>3. HeldBy(hook'[h]) = HeldBy(hook[h])
    BY <2>1, <2>2 DEF HeldBy
  <2>4. Opened' = Opened /\ Prepaid' = Prepaid /\ Owed' = Owed /\ Kept' = Kept
    BY <1>1, <1>2, <2>2, <2>3, HookEntry
  <2> QED
    BY <2>4 DEF Books!accounts, Opened, Prepaid, Owed, Kept
<1>6. CASE HookWithdraw(h, signer)
  <2>1. PICK amount \in Amount : hook_withdraw_transition(hook[h], hook'[h], amount)
    BY <1>6 DEF HookWithdraw, TypeOK
  <2>2. hook[h] \in PaymentHookUtxo /\ hook'[h] \in PaymentHookUtxo
    BY <1>6 DEF HookWithdraw, TypeOK, Live
  <2>3. Live(hook[h]) /\ Live(hook'[h])
    BY <2>2, HookNumbers
  <2>4. Kept[h] = hook[h].accrued_fees_lovelace
    BY <1>2, <2>3 DEF HeldBy
  <2>5. amount > 0 /\ amount <= Kept[h] /\ HeldBy(hook'[h]) = Kept[h] - amount
    BY <2>1, <2>3, <2>4 DEF hook_withdraw_transition, HeldBy
  <2>6. amount \in Movements
    <3>1. amount = hook[h].accrued_fees_lovelace - hook'[h].accrued_fees_lovelace
      BY <2>1, <2>2, HookNumbers, AmountsAreIntegers DEF hook_withdraw_transition
    <3>2. hook[h].accrued_fees_lovelace \in Amount /\ hook'[h].accrued_fees_lovelace \in Amount
      BY <2>2 DEF PaymentHookUtxo
    <3> QED
      BY <3>1, <3>2, DifferencesMove
  <2>7. /\ Kept' = [Kept EXCEPT ![h] = @ - amount] /\ h \in Opened
        /\ Opened' = Opened /\ Prepaid' = Prepaid /\ Owed' = Owed
    BY <1>1, <2>3, <2>5, HookEntry
  <2>8. Books!Payout(h, amount)
    BY <2>5, <2>7 DEF Books!Payout, Opened, Prepaid, Owed, Kept
  <2> QED
    BY <2>6, <2>8 DEF Books!Next
<1> QED
  BY <1>3, <1>4, <1>5, <1>6 DEF HookTx

LEMMA BooksAddAlike ==
  ASSUME NEW f, NEW S
  PROVE  Books!SumFunctionOnSet(f, S) = SumFunctionOnSet(f, S)
BY DEF Books!SumFunctionOnSet, Books!FoldFunctionOnSet, Books!MapThenFoldSet,
       SumFunctionOnSet, FoldFunctionOnSet, MapThenFoldSet

(* A settlement moves all that is pending at the Receivers of its manifest *)
(* to one hook: the sum it drains is the sum of these entries.             *)
LEMMA SettleBooked ==
  ASSUME TypeOK, NEW signer \in Wallets, NEW S \in SUBSET Clients, NEW h \in HookIds,
         ApplySettle(S, h, signer)
  PROVE  Books!Next
<1> DEFINE delta == hook'[h].accrued_fees_lovelace - hook[h].accrued_fees_lovelace
<1>1. /\ S # {} /\ \A c \in S : Live(receiver[c])
      /\ hook[h] \in PaymentHookUtxo /\ hook'[h] \in PaymentHookUtxo
      /\ hook' = [hook EXCEPT ![h] = hook'[h]] /\ Drained(S) = delta
  BY DEF ApplySettle, TypeOK, Live
<1>2. \A c \in S : /\ receiver[c] \in ReceiverUtxo /\ receiver'[c] \in ReceiverUtxo
                    /\ settle_transition(receiver[c], receiver'[c])
  <2>1. PICK next : /\ \A b \in S : next[b] \in SettleOutputs(b)
                    /\ receiver' = [b \in Clients |->
                         IF b \in S THEN next[b] ELSE receiver[b]]
    BY DEF ApplySettle
  <2> QED
    BY <1>1, <2>1 DEF SettleOutputs, TypeOK, Live
<1>3. \A c \in Clients : c \notin S => receiver'[c] = receiver[c]
  BY DEF ApplySettle
<1>4. \A c \in S : Live(receiver[c]) /\ Live(receiver'[c])
  BY <1>2, ReceiverNumbers
<1>5. \A c \in S : /\ Prepaid'[c] = Prepaid[c]
                    /\ Owed[c] > 0 /\ Owed'[c] = 0
  BY <1>2, <1>4 DEF settle_transition, Prepaid, Owed, BalanceOf, AccruedOf
<1>6. \A c \in Clients : c \notin S =>
        /\ Prepaid'[c] = Prepaid[c] /\ Owed'[c] = Owed[c]
        /\ Live(receiver'[c]) <=> Live(receiver[c])
  BY <1>3 DEF Prepaid, Owed
<1>7. /\ Prepaid' = Prepaid
      /\ Owed' = [c \in Clients |-> IF c \in S THEN 0 ELSE Owed[c]]
  <2>1. /\ DOMAIN Prepaid = Clients /\ Prepaid = [c \in Clients |-> Prepaid[c]]
        /\ Prepaid' = [c \in Clients |-> Prepaid'[c]]
    BY DEF Prepaid
  <2>2. Owed' = [c \in Clients |-> Owed'[c]]
    BY DEF Owed
  <2> QED
    BY <1>5, <1>6, <2>1, <2>2
<1>8. Live(hook[h]) /\ Live(hook'[h])
  BY <1>1, HookNumbers
<1>9. \A g \in HookIds : g # h => hook'[g] = hook[g]
  BY <1>1 DEF TypeOK
<1>10. Opened' = Opened /\ S \subseteq Opened /\ h \in Opened
  <2>1. \A c \in Clients : Live(receiver'[c]) <=> Live(receiver[c])
    BY <1>4, <1>6
  <2>2. \A g \in HookIds : Live(hook'[g]) <=> Live(hook[g])
    BY <1>8, <1>9
  <2> QED
    BY <1>4, <1>8, <2>1, <2>2 DEF Opened
<1>11. delta = SumFunctionOnSet(Owed, S)
  <2>1. Drained(S) = SumFunctionOnSet(Owed, S)
    BY Zenon DEF Drained, Owed, AccruedOf
  <2> QED
    BY <1>1, <2>1
<1>12. Kept' = [Kept EXCEPT ![h] = @ + SumFunctionOnSet(Owed, S)]
  <2>1. /\ Kept[h] = hook[h].accrued_fees_lovelace
        /\ Kept'[h] = hook'[h].accrued_fees_lovelace
    BY <1>8 DEF Kept, HeldBy
  <2>2. Kept'[h] = Kept[h] + SumFunctionOnSet(Owed, S)
    BY <1>1, <1>11, <2>1, HookNumbers
  <2>3. \A g \in HookIds : g # h => Kept'[g] = Kept[g]
    BY <1>9 DEF Kept
  <2>4. Kept = [g \in HookIds |-> Kept[g]] /\ Kept' = [g \in HookIds |-> Kept'[g]]
    BY DEF Kept
  <2> QED
    BY <2>2, <2>3, <2>4
<1>13. Books!Settle(S, h)
  <2>1. S # {} /\ \A c \in S : Owed[c] > 0
    BY <1>1, <1>5
  <2>2. Books!SumFunctionOnSet(Owed, S) = SumFunctionOnSet(Owed, S)
    BY BooksAddAlike
  <2>3. \/ Books!Settle(S, h)
        \/ ~ /\ S # {} /\ S \subseteq Opened /\ h \in Opened
             /\ \A c \in S : Owed[c] > 0
             /\ Owed' = [c \in Clients |-> IF c \in S THEN 0 ELSE Owed[c]]
             /\ Kept' = [Kept EXCEPT ![h] = @ + SumFunctionOnSet(Owed, S)]
             /\ Opened' = Opened /\ Prepaid' = Prepaid
    BY <2>2, Zenon DEF Books!Settle, Opened, Prepaid, Owed, Kept
  <2> QED
    BY <1>7, <1>10, <1>12, <2>1, <2>3
<1> QED
  BY <1>13 DEF Books!Next

LEMMA StepsAreBooked ==
  ASSUME TypeOK, [Next]_vars
  PROVE  [Books!Next]_Books!accounts
<1>1. CASE UNCHANGED <<receiver, hook>>
  BY <1>1 DEF Books!accounts
<1>2. CASE \E signer \in Wallets, c \in Clients : ReceiverTx(c, signer)
  BY <1>2, ReceiverTxBooked
<1>3. CASE \E c \in Clients : TopUp(c) \/ MergeDeposits(c)
  BY <1>3, FundingBooked
<1>4. CASE \E signer \in Wallets, c \in Clients :
             ApplySingle(c, signer) \/ ApplyBatch(c, signer)
  BY <1>4, UpdateShape, UpdateBooked
<1>5. CASE \E signer \in Wallets, h \in HookIds : HookTx(h, signer)
  BY <1>5, HookTxBooked
<1>6. CASE \E signer \in Wallets, S \in SUBSET Clients, h \in HookIds :
             ApplySettle(S, h, signer)
  BY <1>6, SettleBooked
<1>7. \/ UNCHANGED <<receiver, hook>>
      \/ \E signer \in Wallets, c \in Clients : ReceiverTx(c, signer)
      \/ \E c \in Clients : TopUp(c) \/ MergeDeposits(c)
      \/ \E signer \in Wallets, c \in Clients :
           ApplySingle(c, signer) \/ ApplyBatch(c, signer)
      \/ \E signer \in Wallets, h \in HookIds : HookTx(h, signer)
      \/ \E signer \in Wallets, S \in SUBSET Clients, h \in HookIds :
           ApplySettle(S, h, signer)
  BY DEF Next, vars, SignedTx, ConfigTx, PairTx, BootstrapConfig, ConfigAdminUpdate,
     BurnConfig, SendDeposit, Tick, PairUpdateMinUtxo, BurnPair
<1> QED
  BY <1>1, <1>2, <1>3, <1>4, <1>5, <1>6, <1>7

(* The ledger implements the accounts: whatever transactions are           *)
(* submitted, money enters prepaid balances only, becomes pending by a fee *)
(* only, reaches a hook by a settlement only, in full, and leaves from     *)
(* what is prepaid or held only.                                           *)
THEOREM LedgerKeepsBooks == Spec => KeepsBooks
<1>1. Init => Books!Init
  <2>1. ASSUME Init
        PROVE  /\ Opened = {}
               /\ \A c \in Clients : BalanceOf(receiver[c]) = 0 /\ AccruedOf(receiver[c]) = 0
               /\ \A h \in HookIds : HeldBy(hook[h]) = 0
    BY <2>1 DEF Init, Opened, Live, BalanceOf, AccruedOf, HeldBy
  <2> QED
    BY <2>1 DEF Books!Init, Opened
<1>2. TypeOK /\ [Next]_vars => [Books!Next]_Books!accounts
  BY StepsAreBooked
<1> QED
  BY <1>1, <1>2, LedgerTypeCorrect, PTL DEF Spec, KeepsBooks, Books!Spec
=============================================================================
