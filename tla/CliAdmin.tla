------------------------------ MODULE CliAdmin ------------------------------
(***************************************************************************)
(* The commands that change the protocol's own UTxOs: Config and           *)
(* PaymentHook (src/offchain/cli/src/transactions).  What they leave on    *)
(* chain is computed partly from the artifact, partly from the live datum: *)
(* which field comes from where is what these definitions keep.            *)
(***************************************************************************)
EXTENDS CliDeploy

(* Every field the command does not change comes from the artifact.        *)
nextConfigState(p, change) == beside(change, p.config)
configUpdate(seen, cmd) ==
  LET p == seen[Protocol]
      next == nextConfigState(p, cmd.change)
  IN  plan(p # None /\ live(Config) /\ next.min > 0,
           <<transaction(one(Config, "AdminUpdate"),
                         loadReferenceScriptUtxos(seen, {"config"}), one(Config, next))>>,
           <<write(Protocol, [p EXCEPT !.config = next])>>)

findsHook(p) ==
  p # None /\ p.hook # None /\ p.hookRef # None /\ live(Config) /\ live(Hook)
hasHook(p) == findsHook(p) /\ "hook" \in p.done

hookReads(seen) == {Config} \cup loadReferenceScriptUtxos(seen, {"hook"})

(* Amounts come from the live datum, the withdraw address from the file.   *)
nextHookState(p, change) == beside(change, [utxo[Hook] EXCEPT !.to = p.hook.to])

\* Mutant: the artifact is not rewritten.  Breaks SoloFilesMirrorChain.
mut_hook_update_unsaved(seen, cmd) ==
  LET p == seen[Protocol]
      next == nextHookState(p, cmd.change)
  IN  plan(hasHook(p) /\ next.min > 0,
           <<transaction(one(Hook, "AdminUpdate"), hookReads(seen), one(Hook, next))>>, <<>>)

hookUpdate(seen, cmd) ==
  LET p == seen[Protocol]
      next == nextHookState(p, cmd.change)
  IN  plan(hasHook(p) /\ next.min > 0,
           <<transaction(one(Hook, "AdminUpdate"), hookReads(seen), one(Hook, next))>>,
           <<write(Protocol, [p EXCEPT !.hook = next])>>)

paymentHookWithdraw(seen, cmd) ==
  LET p == seen[Protocol]
      next == [utxo[Hook] EXCEPT !.accrued = @ - cmd.amount, !.to = p.hook.to]
  IN  plan(hasHook(p) /\ cmd.amount \in 1 .. utxo[Hook].accrued,
           <<transaction(one(Hook, "Withdraw"), hookReads(seen), one(Hook, next))>>,
           <<write(Protocol, [p EXCEPT !.hook = next])>>)

(* One transaction moves the accrued fees of the clients to the hook.      *)
owedBy(clients) ==
  MapThenSumSet(LAMBDA n : utxo[n].accrued, {Receiver(c) : c \in clients})
hookAfter(p, clients) ==
  [utxo[Hook] EXCEPT !.accrued = @ + owedBy(clients), !.to = p.hook.to]
emptied(c) == [utxo[Receiver(c)] EXCEPT !.accrued = 0]

buildSettleTx(seen, clients) ==
  LET moved == {Receiver(c) : c \in clients} \cup {Hook}
      scripts == loadReferenceScriptUtxos(seen, {"config", "hook"} \cup clients)
  IN  transaction([n \in moved |-> "Settle"], {Config} \cup scripts,
                  [n \in moved |-> IF n = Hook THEN hookAfter(seen[Protocol], clients)
                                   ELSE emptied(n[2])])

(* The protocol's artifact is written first, then the clients' one by one. *)
savedBySettle(seen, clients) ==
  LET order == SetToSeq(clients)
      settled(c) == [seen[Client(c)] EXCEPT !.state = emptied(c)]
  IN  <<write(Protocol, [seen[Protocol] EXCEPT !.hook = hookAfter(seen[Protocol], clients)])>>
        \o [i \in DOMAIN order |-> write(Client(order[i]), settled(order[i]))]

settle(seen, cmd) ==
  LET p == seen[Protocol]
  IN  plan(/\ hasHook(p)
           /\ \A c \in cmd.clients :
                /\ seen[Client(c)] # None /\ seen[Client(c)].ref # None
                /\ live(Receiver(c)) /\ utxo[Receiver(c)].accrued > 0,
           <<buildSettleTx(seen, cmd.clients)>>, savedBySettle(seen, cmd.clients))

(* Asks for no recorded bootstrap.  The hook's state leaves the artifact.  *)
paymentHookBurn(seen, cmd) ==
  LET p == seen[Protocol]
  IN  plan(findsHook(p) /\ utxo[Hook].accrued = 0,
           <<transaction(one(Hook, "Burn"), hookReads(seen), nothing)>>,
           <<write(Protocol, [p EXCEPT !.hook = None])>>)

(* Nothing is asked about what the Config still governs.                   *)
configBurn(seen, cmd) ==
  LET p == seen[Protocol]
  IN  plan(p # None /\ live(Config),
           <<transaction(one(Config, "Burn"),
                         loadReferenceScriptUtxos(seen, {"config"}), nothing)>>,
           <<write(Protocol, p)>>)
=============================================================================
