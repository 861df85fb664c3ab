---------------------------- MODULE MCLifecycle ----------------------------
(***************************************************************************)
(* Small instances of Lifecycle for TLC: two transfers of one sender.      *)
(***************************************************************************)
EXTENDS Lifecycle, TLC

CONSTANTS a, e1, e2, f1

MCSenderOf == [e \in Transfers |-> a]
=============================================================================
