------------------------------ MODULE CliClient -----------------------------
(***************************************************************************)
(* The commands that change a client's UTxOs: its receiver, its deposits   *)
(* and its pairs (src/offchain/cli/src/transactions).                      *)
(***************************************************************************)
EXTENDS CliAdmin

hasReceiver(seen, c) == /\ seen[Client(c)] # None /\ seen[Client(c)].ref # None
                        /\ live(Receiver(c))

clientReads(seen, c) == loadReferenceScriptUtxos(seen, {c})

(* A command that moves the receiver of a client to `next`.                *)
movesReceiver(seen, c, redeemer, reads, also, checks, next) ==
  plan(hasReceiver(seen, c) /\ checks,
       <<transaction(beside(one(Receiver(c), redeemer), also), reads \cup clientReads(seen, c),
                     one(Receiver(c), next))>>,
       <<write(Client(c), [seen[Client(c)] EXCEPT !.state = next])>>)

\* Mutant: the new balance is computed from the artifact.  Breaks
\* AcceptedWhenCurrent.
mut_top_up_from_file(seen, cmd) ==
  LET c == cmd.client  state == seen[Client(c)].state
  IN  movesReceiver(seen, c, "TopUp", {}, nothing, cmd.amount > 0,
                    [state EXCEPT !.balance = @ + cmd.amount])

receiverTopUp(seen, cmd) ==
  LET c == cmd.client
  IN  movesReceiver(seen, c, "TopUp", {}, nothing, cmd.amount > 0,
                    [utxo[Receiver(c)] EXCEPT !.balance = @ + cmd.amount])

receiverWithdraw(seen, cmd) ==
  LET c == cmd.client
  IN  movesReceiver(seen, c, "Withdraw", {Config}, nothing,
                    live(Config) /\ cmd.amount \in 1 .. utxo[Receiver(c)].balance,
                    [utxo[Receiver(c)] EXCEPT !.balance = @ - cmd.amount])

receiverUpdateMinUtxo(seen, cmd) ==
  LET c == cmd.client
  IN  movesReceiver(seen, c, "UpdateMinUtxo", {Config}, nothing,
                    live(Config) /\ cmd.min > 0,
                    [utxo[Receiver(c)] EXCEPT !.min = cmd.min])

receiverBurn(seen, cmd) ==
  LET c == cmd.client
  IN  plan(/\ hasReceiver(seen, c) /\ live(Config)
           /\ utxo[Receiver(c)].balance = 0 /\ utxo[Receiver(c)].accrued = 0,
           <<transaction(one(Receiver(c), "Burn"), {Config} \cup clientReads(seen, c), nothing)>>,
           <<write(Client(c), [seen[Client(c)] EXCEPT !.ref = None, !.state = None])>>)

(* ------------------------------ deposits ------------------------------- *)

depositFund(seen, cmd) ==
  plan(/\ seen[Client(cmd.client)] # None /\ seen[Client(cmd.client)].ref # None
       /\ cmd.amount >= DepositMin,
       <<transaction(nothing, {}, one(newDeposit(cmd.client), cmd.amount))>>, <<>>)

(* The first `most` eligible deposits, in the provider's order.            *)
eligible(c, most) ==
  LET clean == {d \in deposits(c) : utxo[d] >= DepositMin}
      n == Min({most, Cardinality(clean)})
  IN  {D \in SUBSET clean : Cardinality(D) = n}
collected(D) == [d \in D |-> "CollectDeposit"]

depositMerge(seen, cmd) ==
  LET c == cmd.client
  IN  UNION {movesReceiver(seen, c, "TopUp", {}, collected(D), D # {},
                           [utxo[Receiver(c)] EXCEPT !.balance = @ + lovelaceOf(D)])
             : D \in eligible(c, MaxPerMerge)}

(* ------------------------------- update -------------------------------- *)

(* A pair without an artifact is minted, even when a live one exists.      *)
isCreate(seen, c, s) == seen[Pair(c, s)] = None
minUtxoLovelace(seen, c, s) ==
  IF isCreate(seen, c, s) THEN seen[Protocol].config.min ELSE seen[Pair(c, s)].min

monotonic(seen, c, s, nonce) ==
  isCreate(seen, c, s)
    \/ /\ nonce > seen[Pair(c, s)].nonce
       /\ Cardinality(copies(c, s)) = 1
       /\ nonce > utxo[theCopy(c, s)].nonce

pairAfter(seen, c, s, nonce) ==
  [nonce |-> nonce, min |-> minUtxoLovelace(seen, c, s)]
receiverAfter(seen, c, symbols, folded) ==
  LET fee == seen[Protocol].config.fee * Cardinality(symbols)
  IN  [utxo[Receiver(c)] EXCEPT !.balance = @ + lovelaceOf(folded) - fee,
                                !.accrued = @ + fee]

(* Signed intents for some symbols, as a function from symbol to nonce.    *)
oracleUpdate(seen, c, intents, folded, writes) ==
  LET symbols == DOMAIN intents
      p == seen[Protocol]
      place(s) == IF isCreate(seen, c, s) THEN newCopy(c, s) ELSE theCopy(c, s)
      updated == {theCopy(c, s) : s \in {x \in symbols : ~isCreate(seen, c, x)}}
      next == receiverAfter(seen, c, symbols, folded)
  IN  plan(/\ hasReceiver(seen, c) /\ p # None /\ p.configRef # None /\ live(Config)
           /\ \A s \in symbols : monotonic(seen, c, s, intents[s])
           /\ next.balance >= 0,
           <<transaction(beside(one(Receiver(c), "AccrueFee"),
                              beside([n \in updated |-> "ApplyUpdate"], collected(folded))),
                         {Config} \cup loadReferenceScriptUtxos(seen, {"config", c}),
                         [n \in {Receiver(c)} \cup {place(s) : s \in symbols} |->
                            IF n = Receiver(c) THEN next
                            ELSE pairAfter(seen, c, n[3], intents[n[3]])])>>,
           writes)

foldable(c, fold) == IF fold THEN eligible(c, MaxPerFold) ELSE {{}}

(* One symbol: only the pair's artifact is written.                        *)
update(seen, cmd) ==
  LET c == cmd.client  s == cmd.symbol
      saved == <<write(Pair(c, s), pairAfter(seen, c, s, cmd.nonce))>>
  IN  UNION {oracleUpdate(seen, c, one(s, cmd.nonce), D, saved) : D \in foldable(c, cmd.fold)}

(* Several: the pairs' artifacts one by one, then the client's.            *)
savedByBatch(seen, c, intents) ==
  LET order == SetToSeq(DOMAIN intents)
      next == receiverAfter(seen, c, DOMAIN intents, {})
  IN  [i \in DOMAIN order |->
         write(Pair(c, order[i]), pairAfter(seen, c, order[i], intents[order[i]]))]
      \o <<write(Client(c), [seen[Client(c)] EXCEPT !.state = next])>>

(* A batch also asks for a recorded PaymentHook.                           *)
resolvePairArtifact(p) == p.hook # None /\ "hook" \in p.done

updateBatch(seen, cmd) ==
  LET saved == savedByBatch(seen, cmd.client, cmd.intents)
  IN  {b \in oracleUpdate(seen, cmd.client, cmd.intents, {}, saved) :
         resolvePairArtifact(seen[Protocol])}

(* -------------------------------- pairs -------------------------------- *)

pairReads(seen, c) == {Config} \cup clientReads(seen, c)

pairUpdateMinUtxo(seen, cmd) ==
  LET c == cmd.client  s == cmd.symbol
      next == [utxo[theCopy(c, s)] EXCEPT !.min = cmd.min]
  IN  plan(/\ seen[Pair(c, s)] # None /\ live(Config)
           /\ Cardinality(copies(c, s)) = 1 /\ cmd.min > 0,
           <<transaction(one(theCopy(c, s), "UpdateMinUtxo"), pairReads(seen, c),
                         one(theCopy(c, s), next))>>,
           <<write(Pair(c, s), next)>>)

burnSpecificPairUtxo(seen, n) ==
  transaction(one(n, "Burn"), pairReads(seen, n[2]), nothing)

(* The artifact keeps the pair's state.                                    *)
pairBurn(seen, cmd) ==
  LET c == cmd.client  s == cmd.symbol
  IN  plan(seen[Pair(c, s)] # None /\ live(Config) /\ Cardinality(copies(c, s)) = 1,
           <<burnSpecificPairUtxo(seen, theCopy(c, s))>>,
           <<write(Pair(c, s), seen[Pair(c, s)])>>)

\* Mutant: the copies are sorted oldest first.  Breaks NewestSurvives.
mut_keeps_oldest(S) ==
  {n \in S : \A m \in S : utxo[n].nonce <= utxo[m].nonce}

keepers(S) == {n \in S : \A m \in S : utxo[n].nonce >= utxo[m].nonce}

(* All but the newest copy of each symbol, as one scan finds them, are     *)
(* burned, one transaction each.                                           *)
pairDedup(seen, cmd) ==
  LET c == cmd.client
      all == UNION {copies(c, s) : s \in Symbols}
      keepsOne(B) == \A s \in Symbols :
        copies(c, s) # {} => \E k \in keepers(copies(c, s)) : copies(c, s) \ B = {k}
      burning(B) == LET order == SetToSeq(B)
                    IN  [i \in DOMAIN order |-> burnSpecificPairUtxo(seen, order[i])]
  IN  UNION {plan(seen[Client(c)] # None /\ live(Config), burning(B), <<>>)
             : B \in {X \in SUBSET all : X # {} /\ keepsOne(X)}}
=============================================================================
