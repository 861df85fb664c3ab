------------------------ MODULE MCWalletTransactions ------------------------
(***************************************************************************)
(* Small instances of WalletTransactions for TLC.                          *)
(***************************************************************************)
EXTENDS WalletTransactions, TLC

CONSTANTS u1, u2, r1, r2, r3

MCUsers == {u1, u2}

Transfer(from, to, m) == [op |-> "transfer", user |-> from, to |-> to, amount |-> m]
Plain(operation, u, m) == [op |-> operation, user |-> u, to |-> u, amount |-> m]

RequestSymmetry == Permutations(Requests)

(* Two opposite transfers, and everything an administrator and the owner   *)
(* can do to one of the two wallets meanwhile.                             *)
MixedTraffic ==
    {Transfer(u1, u2, 10), Transfer(u2, u1, 17), Transfer(u1, u1, 10),
     Transfer(u1, u2, 0), Transfer(u1, u2, 4),
     Plain("topup", u2, 10), Plain("create", u2, 0),
     Plain("enable", u2, 0), Plain("disable", u2, 0)}

(* A transfer of a whole number of cents and a half.                       *)
HalfCentTraffic == {Transfer(u1, u2, 5), Transfer(u1, u2, 15), Plain("topup", u1, 10)}

(* A payment into a frozen wallet, or its top-up, while it is unfrozen.    *)
UnfreezeTraffic == {Transfer(u1, u2, 10), Plain("topup", u2, 10), Plain("enable", u2, 0)}
=============================================================================
