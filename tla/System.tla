------------------------------- MODULE System -------------------------------
(***************************************************************************)
(* The service as its clients and Kafka's consumers see it: the requests   *)
(* of WalletTransactions and the worker of Outbox, which meet in the rows  *)
(* of outbox_events that transfers write.                                  *)
(*                                                                         *)
(* A transfer's event is the request itself.  Its row begins, commits and  *)
(* is rolled back with the transfer's database transaction; every other    *)
(* step belongs to one of the two components.                              *)
(***************************************************************************)
EXTENDS Naturals, Sequences, FiniteSets

CONSTANTS Users, Requests, None, Traffic, StartBalances, MaxBalance,
          MaxOpenConns,                   \* see WalletTransactions
          SenderOf,                       \* the caller of each request
          BatchSize, Faults, MaxFaults    \* see Outbox

ASSUME CallerAssumption == SenderOf \in [Requests -> Users]
ASSUME RequestsAssumption == IsFiniteSet(Requests)

VARIABLES wallets, balance, enabled, txns, lock, current, req, pc, answer,
          stage, created, topic, batch, wpc, faults

requests == <<wallets, balance, enabled, txns, lock, current, req, pc, answer>>
outbox == <<stage, created, topic, batch, wpc, faults>>
vars == <<requests, outbox>>

Worker == "worker"

W == INSTANCE WalletTransactions

O == INSTANCE Outbox WITH Events <- Requests, Senders <- Users, Undecodable <- {},
                          Workers <- {Worker}, ClientsWait <- FALSE

\* The key of an event is the sender_id of its payload, the transfer's caller.
Init ==
    /\ W!Init /\ O!Init
    /\ \A r \in Requests : req[r].user = SenderOf[r]

-----------------------------------------------------------------------------
BeginTx(r) == W!BeginTx(r) /\ O!Begin(r)

\* Mutation: the event is inserted outside the transaction, after COMMIT.
CommitWithoutEvent(r) == W!Commit(r) /\ O!EndTx(r, "aborted")

Commit(r) == W!Commit(r) /\ O!EndTx(r, "unpublished")

\* Mutation: insertEvent runs on the pool instead of the transaction.
HandleEventOutsideTx(r) ==
    /\ W!Serve(r) /\ pc[r] \notin {"begin", "commit"}
    /\ IF pc[r] = "insert" /\ pc'[r] = "commit" THEN O!EndTx(r, "unpublished")
                                                ELSE UNCHANGED outbox

\* Any other step of a handler.  One that ends it within its transaction rolls
\* the event back together with the balances.
Handle(r) ==
    /\ \/ W!Serve(r) /\ pc[r] \notin {"begin", "commit"}
       \/ W!StatementError(r)
       \/ W!AbortDeadlock(r)
    /\ IF W!InTx(r) /\ pc'[r] = "done" THEN O!EndTx(r, "aborted")
                                       ELSE UNCHANGED outbox

Publisher == O!Work(Worker) /\ UNCHANGED requests

CallFails ==
    /\ \E e \in Requests :
          O!PublishRetried(Worker, e) \/ O!PublishFails(Worker, e) \/ O!MarkFails(Worker, e)
    /\ UNCHANGED requests

\* The process dies with its handlers and its worker.  A write the worker was
\* waiting for may have reached the log.
Crash ==
    /\ W!Crash
    /\ stage' = [r \in Requests |-> IF stage[r] = "open" THEN "aborted" ELSE stage[r]]
    /\ \/ UNCHANGED topic
       \/ /\ wpc[Worker] = "publish"
          /\ \E e \in Requests : O!IsCurrent(Worker, e) /\ O!Write(e)
    /\ batch' = [batch EXCEPT ![Worker] = {}]
    /\ wpc' = [wpc EXCEPT ![Worker] = "poll"]
    /\ UNCHANGED <<created, faults>>

\* The same while nobody is being served.
IdleCrash ==
    /\ \A r \in Requests : pc[r] \in {"sent", "done"}
    /\ O!Crash(Worker)
    /\ UNCHANGED requests

Next ==
    \/ \E r \in Requests : BeginTx(r) \/ Commit(r) \/ Handle(r)
    \/ Publisher \/ CallFails
    \/ Crash \/ IdleCrash

Spec == Init /\ [][Next]_vars

(* The worker goes on, and of the handlers that can go on some one does:   *)
(* the Go scheduler runs them, and the database executes statements and    *)
(* looks for deadlocks.  Each handler has finitely many steps, so none     *)
(* needs a fairness of its own.  No call need fail and no process crash.   *)
LiveSpec ==
    /\ Spec
    /\ WF_vars(Publisher)
    /\ WF_requests(\E r \in Requests : W!Serve(r) \/ W!AbortDeadlock(r))

-----------------------------------------------------------------------------
(* Properties. *)

InTopic(r) == \E i \in DOMAIN topic[SenderOf[r]] : topic[SenderOf[r]][i] = r

Recorded(r) == \E row \in txns : row.id = r

\* "the event can never be committed without the transaction row, or vice
\* versa" (transaction_repository.go:54-56).
EventIffRow ==
    \A r \in Requests : Recorded(r) <=> stage[r] \in {"unpublished", "published"}

\* What consumers of the topic learn of is paid: its row is there, with the
\* sender they are told and the amount up to the rounding of its column (the
\* payload keeps the client's decimals), and its client was not refused.
PublishedIsPaid ==
    \A u \in Users : \A i \in DOMAIN topic[u] :
       LET r == topic[u][i] IN
       /\ \E row \in txns :
             row.id = r /\ row.sender = u /\ row.amount = W!Cents(req[r].amount)
       /\ answer[r] \in {"ok", "internal"}

\* A client told that its transfer succeeded can rely on fraud detection to hear
\* of it, whatever fails afterwards.
AcceptedIsPublished ==
    []<>(\A r \in Requests : answer[r] = "ok" /\ req[r].op = "transfer" => InTopic(r))

\* No deadlock, lock queue or exhausted pool keeps a client waiting for ever.
EveryoneIsAnswered == W!AllAnswered

D == INSTANCE Delivery WITH Events <- Requests, Senders <- Users,
                            committed <- {r \in Requests : Recorded(r)},
                            settled <- {r \in Requests : stage[r] = "published"}

\* From end to end: Kafka gets the transfers that are rows of transactions and
\* nothing else, and no event is marked that is not there, also when one crash
\* takes open transactions and a half done publish with it.
ImplementsDelivery == D!Spec
=============================================================================
