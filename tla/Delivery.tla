------------------------------ MODULE Delivery ------------------------------
(***************************************************************************)
(* What the outbox promises: every event of a committed transaction reaches *)
(* the topic at least once, nothing else does, and an event is given up    *)
(* only once it is there (README.md:19-22).                                *)
(***************************************************************************)
EXTENDS Naturals, Sequences

CONSTANTS Events,     \* outbox events, one per transfer
          Senders,    \* the keys events are published under
          SenderOf    \* the sender of each event

VARIABLES committed,  \* events of committed transactions
          topic,      \* what was written under each key, in order
          settled     \* events that will not be published again

vars == <<committed, topic, settled>>

InTopic(e) == \E i \in 1 .. Len(topic[SenderOf[e]]) : topic[SenderOf[e]][i] = e

Init ==
    /\ committed = {}
    /\ topic = [s \in Senders |-> <<>>]
    /\ settled = {}

Commit(e) ==
    /\ committed' = committed \union {e}
    /\ UNCHANGED <<topic, settled>>

Deliver(e) ==
    /\ e \in committed
    /\ topic' = [topic EXCEPT ![SenderOf[e]] = Append(@, e)]
    /\ UNCHANGED <<committed, settled>>

Settle(e) ==
    /\ InTopic(e)
    /\ settled' = settled \union {e}
    /\ UNCHANGED <<committed, topic>>

Next == \E e \in Events : Commit(e) \/ Deliver(e) \/ Settle(e)

Spec == Init /\ [][Next]_vars
=============================================================================
