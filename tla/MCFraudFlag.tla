---------------------------- MODULE MCFraudFlag ----------------------------
(***************************************************************************)
(* Small instances of FraudFlag for TLC.                                   *)
(***************************************************************************)
EXTENDS FraudFlag, TLC

CONSTANTS t1, r1, r2, r3, r4

MCTraffic == [op : Operations, txn : Txns]
FlagTraffic == [op : {"flag"}, txn : Txns]
RequestSymmetry == Permutations(Requests)
=============================================================================
