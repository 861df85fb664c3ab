------------------------------ MODULE MCOutbox ------------------------------
(***************************************************************************)
(* Small instances of Outbox for TLC: three transfers of one sender and    *)
(* one of another.                                                         *)
(***************************************************************************)
EXTENDS Outbox, TLC

CONSTANTS a, b, e1, e2, e3, e4

MCSenderOf == [e \in Events |-> IF e = e4 THEN b ELSE a]
=============================================================================
