------------------------------ MODULE MCSystem ------------------------------
(***************************************************************************)
(* Small instances of System for TLC: two callers, the second of whom may  *)
(* have the wallet frozen instead.                                         *)
(***************************************************************************)
EXTENDS System, TLC

CONSTANTS u1, u2, r1, r2, r3

MCUsers == {u1, u2}
MCSenderOf == [r \in Requests |-> IF r = r2 THEN u2 ELSE u1]

Transfer(from, to, m) == [op |-> "transfer", user |-> from, to |-> to, amount |-> m]

MCTraffic ==
    {Transfer(u1, u2, 10), Transfer(u2, u1, 7),
     [op |-> "disable", user |-> u2, to |-> u2, amount |-> 0]}
=============================================================================
