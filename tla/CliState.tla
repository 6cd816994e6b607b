------------------------------ MODULE CliState ------------------------------
(***************************************************************************)
(* What the admin commands of the CLI act on: the UTxOs of one deployment, *)
(* the JSON artifacts the commands read and write, and what the validators *)
(* allow a transaction built from both to do.                              *)
(*                                                                         *)
(* A UTxO is known by the NFT or the script it holds; utxo maps that name  *)
(* to its datum.  The wallet's own UTxOs are named where they matter, when *)
(* a deployment picks the ones its one-shot policies consume; elsewhere    *)
(* fees are not modelled.                                                  *)
(***************************************************************************)
EXTENDS Integers, SequencesExt

CONSTANTS
  Clients, Symbols, Operators,
  None,          \* a missing file or field
  DraftConfig,   \* the Config protocol:init drafts: [fee, min, linked]
  DraftHook,     \* the PaymentHook state it drafts: [to, min, accrued]
  ReceiverMin,   \* min_utxo_lovelace of a new receiver
  DepositMin,    \* configState.depositMinLovelace
  MaxPerMerge,   \* configState.depositMaxPerMerge
  MaxPerFold     \* configState.depositMaxPerUpdateFold

ASSUME CliParameters ==
  /\ {DepositMin, ReceiverMin, MaxPerMerge} \subseteq Nat \ {0}
  /\ MaxPerFold \in Nat
  /\ DraftConfig.min > 0 /\ DraftConfig.fee \in Nat /\ ~DraftConfig.linked
  /\ DraftHook.min > 0 /\ DraftHook.accrued = 0
  /\ IsFiniteSet(Clients) /\ IsFiniteSet(Symbols) /\ IsFiniteSet(Operators)

VARIABLES
  utxo,      \* what is unspent: name -> datum
  files,     \* the artifacts on disk: file -> content or None
  sessions,  \* the command each operator runs
  agenda,    \* the commands each operator still means to run
  adrift,    \* transactions in the mempool whose command no longer waits
  was,       \* history: every <<name, datum>> that was live
  scenario   \* what this behaviour plays, and how many faults are left

vars == <<utxo, files, sessions, agenda, adrift, was, scenario>>

-----------------------------------------------------------------------------
(* Names and files *)

Config == <<"config">>
Hook == <<"hook">>
Receiver(c) == <<"receiver", c>>
Pair(c, s) == <<"pair", c, s>>            \* the NFT
Copy(c, s, k) == <<"pair", c, s, k>>      \* one UTxO that holds it
Deposit(c, k) == <<"deposit", c, k>>
Script(kind, k) == <<"script", kind, k>>  \* kind: "config", "hook" or a client
Coin(k) == <<"coin", k>>

Protocol == <<"protocol">>
Client(c) == <<"client", c>>              \* ref is None without a receiver
Recovered == <<"recovered">>              \* REC_ACCRUED of the teardown script
Files == {Protocol, Recovered} \cup {Client(c) : c \in Clients}
           \cup {Pair(c, s) : c \in Clients, s \in Symbols}

live(n) == n \in DOMAIN utxo
coins == {n \in DOMAIN utxo : n[1] = "coin"}
copies(c, s) == {n \in DOMAIN utxo : n[1] = "pair" /\ n[2] = c /\ n[3] = s}
deposits(c) == {n \in DOMAIN utxo : n[1] = "deposit" /\ n[2] = c}
theCopy(c, s) == CHOOSE n \in copies(c, s) : TRUE

pending == adrift \cup UNION {ToSet(sessions[o].txs) \ {None} : o \in Operators}

(* The output references a file, or a whole state directory, names. *)
refsIn(f, x) ==
  CASE x = None -> {}
    [] f = Protocol -> {x.configRef, x.hookRef, Script("config", x.scripts.config),
                        Script("hook", x.scripts.hook)}
    [] f[1] = "client" -> {x.ref, Script(f[2], x.script)}
    [] OTHER -> {}
refsOf(directory) == UNION {refsIn(f, directory[f]) : f \in Files}

(* Of the files on disk, those read, and those about to be written.        *)
reading == {o \in Operators : sessions[o].at = "ready"}
writing == UNION {ToSet(sessions[o].writes) : o \in Operators}
recorded ==
  refsOf(files) \cup (UNION {refsOf(sessions[o].seen) : o \in reading})
                \cup (UNION {refsIn(w.file, w.content) : w \in writing})

(* The next UTxO of a kind: no hash comes back while anybody remembers it. *)
taken == DOMAIN utxo \cup recorded \cup UNION {DOMAIN t.puts : t \in pending}
numbers == 1 .. Cardinality(taken) + 1
fresh(names) == CHOOSE n \in names : n \notin taken
newCoin == fresh({Coin(k) : k \in numbers})
newCopy(c, s) == fresh({Copy(c, s, k) : k \in numbers})
newDeposit(c) == fresh({Deposit(c, k) : k \in numbers})
newScript(kind) == fresh({Script(kind, k) : k \in numbers})

-----------------------------------------------------------------------------
(* Transactions and plans.  A transaction spends UTxOs under redeemers,    *)
(* reads others and leaves new ones; a plan is what a command signs, one   *)
(* after the other, and the files it writes once all are confirmed.        *)

(* one(n, x) maps n to x; f beside g is f where both are defined.          *)
one(n, x) == [m \in {n} |-> x]
beside(f, g) == [n \in DOMAIN f \cup DOMAIN g |-> IF n \in DOMAIN f THEN f[n] ELSE g[n]]
nothing == [n \in {} |-> None]

transaction(spends, refs, puts) == [spends |-> spends, refs |-> refs, puts |-> puts]
touches(t) == DOMAIN t.spends \cup t.refs

(* A transaction the wallet pays for leaves it the change. *)
changeOf(t) == IF coins \cap DOMAIN t.spends = {} THEN nothing ELSE one(newCoin, None)
kept(t) == [n \in DOMAIN utxo \ DOMAIN t.spends |-> utxo[n]]
applied(t) == beside(t.puts, beside(changeOf(t), kept(t)))

write(file, content) == [file |-> file, content |-> content]

(* The plan of a command whose checks pass; no plan when one throws. *)
plan(checks, txs, writes) ==
  IF checks THEN {[txs |-> txs, writes |-> writes]} ELSE {}

-----------------------------------------------------------------------------
(* What the validators allow *)

lovelaceOf(names) == MapThenSumSet(LAMBDA n : utxo[n], names)
spent(t, head) == {n \in DOMAIN t.spends : n[1] = head}
left(t, head) == {n \in DOMAIN t.puts : n[1] = head}

adminReads(t) == Config \in t.refs
coordinated(t) == Config \in t.refs /\ utxo[Config].linked

configAllows(t, n) ==
  t.spends[n] = "AdminUpdate" => t.puts[n].min > 0

settledFees(t) ==
  MapThenSumSet(LAMBDA n : utxo[n].accrued,
                {n \in spent(t, "receiver") : t.spends[n] = "Settle"})

hookAllows(t, n) ==
  LET old == utxo[n]  new == t.puts[n]
  IN  CASE t.spends[n] = "Settle" ->
             /\ coordinated(t)
             /\ new = [old EXCEPT !.accrued = @ + settledFees(t)]
        [] t.spends[n] = "Withdraw" ->
             /\ adminReads(t)
             /\ new = [old EXCEPT !.accrued = new.accrued]
             /\ new.accrued \in 0 .. old.accrued - 1
        [] t.spends[n] = "AdminUpdate" ->
             adminReads(t) /\ new.accrued = old.accrued /\ new.min > 0
        [] t.spends[n] = "Burn" -> adminReads(t) /\ old.accrued = 0

receiverAllows(t, n) ==
  LET old == utxo[n]  new == t.puts[n]
      swept == lovelaceOf(spent(t, "deposit"))
      fee == utxo[Config].fee * Cardinality(left(t, "pair"))
  IN  CASE t.spends[n] = "TopUp" ->
             /\ new = [old EXCEPT !.balance = new.balance]
             /\ new.balance > old.balance
        [] t.spends[n] = "AccrueFee" ->
             /\ coordinated(t)
             /\ new = [old EXCEPT !.balance = @ + swept - fee, !.accrued = @ + fee]
             /\ new.balance >= 0
        [] t.spends[n] = "Settle" ->
             /\ coordinated(t) /\ old.accrued > 0
             /\ new = [old EXCEPT !.accrued = 0]
        [] t.spends[n] = "Withdraw" ->
             /\ adminReads(t)
             /\ new = [old EXCEPT !.balance = new.balance]
             /\ new.balance \in 0 .. old.balance - 1
        [] t.spends[n] = "UpdateMinUtxo" ->
             /\ adminReads(t) /\ new.min > 0
             /\ new = [old EXCEPT !.min = new.min]
        [] t.spends[n] = "Burn" ->
             adminReads(t) /\ old.balance = 0 /\ old.accrued = 0

pairAllows(t, n) ==
  LET old == utxo[n]  new == t.puts[n]
  IN  CASE t.spends[n] = "ApplyUpdate" ->
             coordinated(t) /\ new.nonce > old.nonce /\ new.min = old.min
        [] t.spends[n] = "UpdateMinUtxo" ->
             adminReads(t) /\ new.nonce = old.nonce /\ new.min > 0
        [] t.spends[n] = "Burn" -> adminReads(t)

spendAllowed(t, n) ==
  CASE n[1] = "config" -> configAllows(t, n)
    [] n[1] = "hook" -> hookAllows(t, n)
    [] n[1] = "receiver" -> receiverAllows(t, n)
    [] n[1] = "pair" -> pairAllows(t, n)
    [] n[1] = "deposit" -> live(Receiver(n[2])) /\ Receiver(n[2]) \in DOMAIN t.spends
    [] n[1] = "script" -> adminReads(t)
    [] n[1] = "coin" -> TRUE

mintAllowed(t, n) ==
  /\ n[1] \in {"config", "hook", "receiver", "pair"} => t.puts[n].min \in Nat \ {0}
  /\ n[1] = "pair" => coordinated(t)

Accepts(t) ==
  /\ touches(t) \subseteq DOMAIN utxo
  /\ \A n \in DOMAIN t.spends : spendAllowed(t, n)
  /\ \A n \in DOMAIN t.puts \ DOMAIN t.spends : mintAllowed(t, n)
=============================================================================
