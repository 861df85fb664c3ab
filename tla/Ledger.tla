------------------------------- MODULE Ledger -------------------------------
(***************************************************************************)
(* What the service promises about money, with nothing of how it is done:  *)
(* wallets are opened, frozen and unfrozen, topped up, and a transfer moves *)
(* exactly the amount it records, from one enabled wallet to another, in   *)
(* one step together with its row in transactions (README.md:13-18).       *)
(*                                                                         *)
(* Amounts are in cents.  A wallet that does not exist yet keeps the       *)
(* column defaults: balance 0, enabled.                                    *)
(***************************************************************************)
EXTENDS Integers

CONSTANTS Users,       \* users, each with at most one wallet
          TxnIds,      \* transaction ids, never used twice
          MaxBalance   \* the largest balance the column can hold, in cents

VARIABLES wallets,     \* the users who have a wallet
          balance,     \* cents in each wallet
          enabled,     \* FALSE while an administrator has frozen the wallet
          txns         \* the rows of table transactions

vars == <<wallets, balance, enabled, txns>>

Row == [id : TxnIds, sender : Users, receiver : Users, amount : Nat \ {0}]

Init ==
    /\ wallets \in SUBSET Users
    /\ balance \in [Users -> 0 .. MaxBalance]
    /\ enabled \in [Users -> BOOLEAN]
    /\ txns = {}

\* Balances after cents moved; a transfer to oneself changes nothing.
Moved(from, to, cents) ==
    [[balance EXCEPT ![from] = @ - cents] EXCEPT ![to] = @ + cents]

Usable(u) == u \in wallets /\ enabled[u]

Open(u) ==
    /\ u \notin wallets
    /\ balance[u] = 0
    /\ enabled[u]
    /\ wallets' = wallets \union {u}
    /\ UNCHANGED <<balance, enabled, txns>>

SetEnabled(u, on) ==
    /\ u \in wallets
    /\ enabled' = [enabled EXCEPT ![u] = on]
    /\ UNCHANGED <<wallets, balance, txns>>

TopUp(u, cents) ==
    /\ Usable(u)
    /\ balance[u] + cents <= MaxBalance
    /\ balance' = [balance EXCEPT ![u] = @ + cents]
    /\ UNCHANGED <<wallets, enabled, txns>>

Transfer(id, from, to, cents) ==
    /\ \A row \in txns : row.id # id
    /\ Usable(from) /\ Usable(to)
    /\ balance[from] >= cents
    /\ balance' = Moved(from, to, cents)
    /\ balance'[to] <= MaxBalance
    /\ txns' = txns \union
          {[id |-> id, sender |-> from, receiver |-> to, amount |-> cents]}
    /\ UNCHANGED <<wallets, enabled>>

Next ==
    \/ \E u \in Users :
          \/ Open(u)
          \/ \E on \in BOOLEAN : SetEnabled(u, on)
          \/ \E cents \in 1 .. MaxBalance : TopUp(u, cents)
    \/ \E id \in TxnIds, from, to \in Users, cents \in 1 .. MaxBalance :
          Transfer(id, from, to, cents)

Spec == Init /\ [][Next]_vars
=============================================================================
