----------------------------- MODULE MCTxnList -----------------------------
(***************************************************************************)
(* Small instances of TxnList for TLC: t1 from a to b, t2 back, t3 from a  *)
(* to c.                                                                   *)
(***************************************************************************)
EXTENDS TxnList, TLC

CONSTANTS t1, t2, t3, a, b, c

MCSender == [t \in Txns |-> IF t = t2 THEN b ELSE a]
MCReceiver == [t \in Txns |-> IF t = t1 THEN b ELSE IF t = t2 THEN a ELSE c]

Query(s, texts, users, limit) ==
    [status |-> s, text |-> texts, users |-> users, limit |-> limit, offset |-> limit - 1]

\* Every combination of the three filters; a page of one row from the top, or a
\* limit of 0 and an offset of -1, which both have to be replaced.
MCFilters ==
    {Query(s, texts, users, limit) :
       s \in {"", "completed"}, texts \in {{}, {{t1}}},
       users \in {{}, {c}}, limit \in {0, 1}}
=============================================================================
