--------------------------- MODULE OracleAccounts ---------------------------
(***************************************************************************)
(* What the contracts promise about money, whatever the UTxOs that carry   *)
(* it: a double-entry book of the prepaid balance of every client, of the  *)
(* protocol fees charged to a client and not settled yet, and of the fees  *)
(* every PaymentHook holds.  A step moves money between two of these       *)
(* accounts, or between one of them and the outside world, and no other    *)
(* movement is possible.  The module OracleLedger implements it.           *)
(***************************************************************************)
EXTENDS Integers, FiniteSets, Functions

CONSTANTS
  Clients,   \* one prepaid account, and one account of pending fees, each
  Vaults,    \* the PaymentHooks that collect fees
  Money      \* the amounts, integers, that may move in one step

VARIABLES
  open,      \* the clients and vaults whose accounts are open
  balance,   \* prepaid lovelace of a client
  pending,   \* fees charged to a client, awaiting settlement
  held       \* fees in a vault

accounts == <<open, balance, pending, held>>

AccountsTypeOK ==
  /\ open \subseteq Clients \cup Vaults
  /\ balance \in [Clients -> Int]
  /\ pending \in [Clients -> Int]
  /\ held \in [Vaults -> Int]

Init ==
  /\ open = {}
  /\ balance = [c \in Clients |-> 0]
  /\ pending = [c \in Clients |-> 0]
  /\ held = [v \in Vaults |-> 0]

\* An account opens, and closes, empty.
Open(a) ==
  /\ a \notin open
  /\ open' = open \cup {a}
  /\ UNCHANGED <<balance, pending, held>>

CloseClient(c) ==
  /\ c \in open /\ balance[c] = 0 /\ pending[c] = 0
  /\ open' = open \ {c}
  /\ UNCHANGED <<balance, pending, held>>

CloseVault(v) ==
  /\ v \in open /\ held[v] = 0
  /\ open' = open \ {v}
  /\ UNCHANGED <<balance, pending, held>>

\* Money from outside reaches a client's prepaid balance and nothing else.
Credit(c, amount) ==
  /\ c \in open /\ amount > 0
  /\ balance' = [balance EXCEPT ![c] = @ + amount]
  /\ UNCHANGED <<open, pending, held>>

\* A fee moves from prepaid to pending, after an optional credit; the two
\* together may not overdraw the client.
Charge(c, fee, credit) ==
  /\ c \in open /\ fee >= 0 /\ credit >= 0
  /\ fee <= balance[c] + credit
  /\ balance' = [balance EXCEPT ![c] = @ - fee + credit]
  /\ pending' = [pending EXCEPT ![c] = @ + fee]
  /\ UNCHANGED <<open, held>>

\* Prepaid money may go back out; pending fees never take this way.
Refund(c, amount) ==
  /\ c \in open /\ amount > 0 /\ amount <= balance[c]
  /\ balance' = [balance EXCEPT ![c] = @ - amount]
  /\ UNCHANGED <<open, pending, held>>

\* The whole of the pending fees of some clients moves to one vault.
Settle(S, v) ==
  /\ S # {} /\ S \subseteq open /\ v \in open
  /\ \A c \in S : pending[c] > 0
  /\ pending' = [c \in Clients |-> IF c \in S THEN 0 ELSE pending[c]]
  /\ held' = [held EXCEPT ![v] = @ + SumFunctionOnSet(pending, S)]
  /\ UNCHANGED <<open, balance>>

Payout(v, amount) ==
  /\ v \in open /\ amount > 0 /\ amount <= held[v]
  /\ held' = [held EXCEPT ![v] = @ - amount]
  /\ UNCHANGED <<open, balance, pending>>

Next ==
  \/ \E a \in Clients \cup Vaults : Open(a)
  \/ \E c \in Clients : CloseClient(c)
  \/ \E v \in Vaults : CloseVault(v)
  \/ \E c \in Clients, amount \in Money : Credit(c, amount) \/ Refund(c, amount)
  \/ \E c \in Clients, fee, credit \in Money : Charge(c, fee, credit)
  \/ \E S \in SUBSET Clients, v \in Vaults : Settle(S, v)
  \/ \E v \in Vaults, amount \in Money : Payout(v, amount)

Spec == Init /\ [][Next]_accounts

=============================================================================
