---------------------------- MODULE OracleSafety ----------------------------
(***************************************************************************)
(* What the transactions of OracleLedger guarantee, whoever submits them   *)
(* and in whatever order.                                                  *)
(***************************************************************************)
EXTENDS OracleLedger

(* Every lovelace a state UTxO holds is accounted for by its datum, no     *)
(* account is negative and the Config stays usable (it keeps an admin and  *)
(* a key, and references a hook and a coordinator together), after any     *)
(* sequence of fees, sweeps, settlements, withdrawals, admin updates and   *)
(* changes of the minimum UTxO value.                                      *)
StateUtxosSound ==
  /\ Live(config) =>
       valid_config_state(config.datum) /\ config_exact_lovelace(config)
  /\ \A h \in HookIds : Live(hook[h]) =>
       valid_payment_hook_state(hook[h]) /\ hook_exact_locked(hook[h])
  /\ \A c \in Clients : Live(receiver[c]) =>
       valid_receiver_state(receiver[c]) /\ receiver_exact_locked(receiver[c])
  /\ \A p \in PairSlots : pair[p] # Absent =>
       valid_pair_state(pair[p]) /\ pair_exact_locked(pair[p])

(* The lifetime counters of a hook tell its balance: what it ever collected *)
(* less what it ever paid out is what it holds.                            *)
HookBooksBalance ==
  \A h \in HookIds : Live(hook[h]) =>
    hook[h].accrued_fees_lovelace =
      hook[h].lifetime_collected_lovelace - hook[h].lifetime_withdrawn_lovelace

(* A pair name belongs to its symbol: the UTxO of a slot never carries an  *)
(* intent for another symbol, whatever else the same batch updated.        *)
PairsCarryTheirSymbol ==
  \A p \in PairSlots : pair[p] # Absent => pair[p].intent.symbol = p[2]

-----------------------------------------------------------------------------
(* Pairs of client c that this step creates or gives a new intent. *)
Published(c) ==
  { p \in PairSlots :
      /\ p[1] = c
      /\ pair'[p] # Absent
      /\ pair[p] # Absent => pair'[p].intent # pair[p].intent }

AccruedOf(utxo) == IF Live(utxo) THEN utxo.accrued_to_hook_lovelace ELSE 0
BalanceOf(utxo) == IF Live(utxo) THEN utxo.balance_lovelace ELSE 0
HeldBy(utxo)    == IF Live(utxo) THEN utxo.accrued_fees_lovelace ELSE 0

FeeExact(c) ==
  LET count == Cardinality(Published(c))
      rise  == AccruedOf(receiver'[c]) - AccruedOf(receiver[c])
  IN  IF count > 0
      THEN rise = calculate_protocol_fee(config.datum, count)
      ELSE rise <= 0

(* Updates are paid for, once each: a transaction that publishes N > 0     *)
(* pairs of a client adds exactly base + N * per_pair at the fees then     *)
(* in force to that client's pending fees, and no other transaction adds   *)
(* to them, whatever deposits or creations the transaction also carries.   *)
FeeIsExact == [][ \A c \in Clients : FeeExact(c) ]_vars

(* A Pair UTxO never goes back: while its NFT lives, the intent it carries *)
(* is replaced only by one with a later timestamp and a larger nonce.      *)
PairAdvances ==
  [][ \A p \in PairSlots :
        (pair[p] # Absent /\ pair'[p] # Absent) =>
          \/ pair'[p].intent = pair[p].intent
          \/ /\ pair'[p].intent.timestamp > pair[p].intent.timestamp
             /\ pair'[p].intent.nonce > pair[p].intent.nonce
    ]_vars

InTime(p) ==
  LET intent == pair'[p].intent
  IN  /\ now < intent.expiry * Millis
      /\ pair[p] = Absent =>
           now < (intent.timestamp
                    + config.datum.max_bootstrap_drift_seconds) * Millis
                  + ValidityBackoff + ValidityTtl

(* Nothing stale is published: when the ledger accepts an intent it has    *)
(* not expired, and the first intent of a new pair is no older than the    *)
(* configured drift plus the longest time a built transaction may wait.    *)
(* The ledger sees only the validity range that the builder chose.         *)
PublishedInTime == [][ \A c \in Clients : \A p \in Published(c) : InTime(p) ]_vars

OwnerGains(c) ==
  LET swept == { d \in PendingDeposits(c) : deposit'[d] # deposit[d] }
      worth(utxo) == BalanceOf(utxo) + AccruedOf(utxo)
  IN  swept # {} => worth(receiver'[c]) - worth(receiver[c]) >= Swept(swept)

(* A side deposit only ever moves to its owner: when a transaction spends  *)
(* deposits, the money their owner has on chain, prepaid and pending, grows*)
(* by at least all of them together.                                       *)
DepositsReachTheirOwner == [][ \A c \in Clients : OwnerGains(c) ]_vars

-----------------------------------------------------------------------------
(* The ledger keeps the books of OracleAccounts: no transaction creates,   *)
(* loses or misdirects money.  A client and a hook are never one account.  *)
ASSUME AccountsAreDistinct == Clients \cap HookIds = {}

Movements == {x - y : x, y \in Amount \cup Coin}

Books == INSTANCE OracleAccounts WITH
  Vaults  <- HookIds,
  Money   <- Movements,
  open    <- {c \in Clients : Live(receiver[c])} \cup {h \in HookIds : Live(hook[h])},
  balance <- [c \in Clients |-> BalanceOf(receiver[c])],
  pending <- [c \in Clients |-> AccruedOf(receiver[c])],
  held    <- [h \in HookIds |-> HeldBy(hook[h])]

KeepsBooks == Books!Spec

=============================================================================
