------------------------------- MODULE Outbox -------------------------------
(***************************************************************************)
(* The outbox: rows of outbox_events written by transfers, and the worker  *)
(* that publishes them to Kafka and marks them published.                  *)
(*                                                                         *)
(* A row's created_at is now(), which in PostgreSQL is the time its        *)
(* transaction began; the row becomes visible when that commits.  The      *)
(* worker reads the oldest unpublished rows every two seconds and treats   *)
(* them one at a time: publish, then mark.  A step is one call to Kafka or *)
(* to the database.                                                        *)
(*                                                                         *)
(* Abstracted: the payload is its event; the ticker is the freedom to poll *)
(* at any time between two batches; a fetch that fails changes nothing.    *)
(***************************************************************************)
EXTENDS Naturals, Sequences, FiniteSets

CONSTANTS Events,        \* outbox events, one per transfer
          Senders,       \* users that send money
          SenderOf,      \* payload.sender_id, the message key
          Undecodable,   \* events whose payload does not parse
          Workers,       \* worker goroutines, one per running process
          BatchSize,     \* OutboxWorker.batchSize
          ClientsWait,   \* a sender awaits each answer before the next transfer
          Faults,        \* the calls that may fail: publish, mark, crash
          MaxFaults      \* bound on how many do

ASSUME SenderAssumption == SenderOf \in [Events -> Senders]
ASSUME BatchAssumption == BatchSize \in Nat \ {0}
ASSUME FaultAssumption == MaxFaults \in Nat /\ Faults \subseteq {"publish", "mark", "crash"}
ASSUME ClientAssumption == ClientsWait \in BOOLEAN
ASSUME FiniteAssumption == IsFiniteSet(Events)
ASSUME WorkersAssumption == IsFiniteSet(Workers)

VARIABLES
    stage,     \* the row of each event
    created,   \* outbox_events.created_at; 0 before the transfer begins
    topic,     \* what Kafka has stored under each key, in order
    batch,     \* the rows each worker still has to treat
    wpc,       \* what each worker does next
    faults     \* kinds of the calls that have failed so far

table == <<stage, created>>
worker == <<batch, wpc>>
vars == <<stage, created, topic, batch, wpc, faults>>

Stages == {"none", "open", "aborted", "unpublished", "published"}

TypeOK ==
    /\ stage \in [Events -> Stages]
    /\ created \in [Events -> Nat]
    /\ topic \in [Senders -> Seq(Events)]
    /\ batch \in [Workers -> SUBSET Events]
    /\ wpc \in [Workers -> {"poll", "publish", "mark"}]
    /\ \A w \in Workers : wpc[w] = "poll" <=> batch[w] = {}
    /\ faults \in Seq(Faults) /\ Len(faults) <= MaxFaults

Init ==
    /\ stage = [e \in Events |-> "none"]
    /\ created = [e \in Events |-> 0]
    /\ topic = [s \in Senders |-> <<>>]
    /\ batch = [w \in Workers |-> {}]
    /\ wpc = [w \in Workers |-> "poll"]
    /\ faults = <<>>

-----------------------------------------------------------------------------
(* The transfers that write the rows. *)

Begin(e) ==
    /\ stage[e] = "none"
    /\ ClientsWait => \A x \in Events : SenderOf[x] = SenderOf[e] => stage[x] # "open"
    /\ stage' = [stage EXCEPT ![e] = "open"]
    /\ created' = [created EXCEPT ![e] = Cardinality({x \in Events : created[x] > 0}) + 1]
    /\ UNCHANGED <<topic, worker, faults>>

EndTx(e, outcome) ==
    /\ stage[e] = "open"
    /\ stage' = [stage EXCEPT ![e] = outcome]
    /\ UNCHANGED <<created, topic, worker, faults>>

-----------------------------------------------------------------------------
(* The worker. *)

\* Mutation: rows are picked up before their transaction commits.
PendingOpen == {e \in Events : stage[e] \in {"open", "unpublished"}}

Pending == {e \in Events : stage[e] = "unpublished"}

\* Mutation: the newest rows come first.
NewestFirst(n) ==
    {e \in Pending : Cardinality({x \in Pending : created[x] > created[e]}) < n}

GetUnpublished(n) ==
    {e \in Pending : Cardinality({x \in Pending : created[x] < created[e]}) < n}

\* The row of its batch a worker is at.
IsCurrent(w, e) == e \in batch[w] /\ \A x \in batch[w] : created[e] <= created[x]

\* Mutation: the loop does not notice that its batch is empty.
NextRowForever(w, e) ==
    /\ batch' = [batch EXCEPT ![w] = @ \ {e}]
    /\ wpc' = [wpc EXCEPT ![w] = "publish"]

\* continue: on to the next row of the batch, if there is one.
NextRow(w, e) ==
    /\ batch' = [batch EXCEPT ![w] = @ \ {e}]
    /\ wpc' = [wpc EXCEPT ![w] = IF batch[w] = {e} THEN "poll" ELSE "publish"]

Write(e) == topic' = [topic EXCEPT ![SenderOf[e]] = Append(@, e)]

Fault(kind) ==
    /\ kind \in Faults
    /\ Len(faults) < MaxFaults
    /\ faults' = Append(faults, kind)

Poll(w) ==
    /\ wpc[w] = "poll"
    /\ batch' = [batch EXCEPT ![w] = GetUnpublished(BatchSize)]
    /\ wpc' = [wpc EXCEPT ![w] = IF GetUnpublished(BatchSize) = {} THEN "poll" ELSE "publish"]
    /\ UNCHANGED <<table, topic, faults>>

\* Mutation: a row that does not parse ends the batch.
ReturnOnBadRow(w, e) ==
    /\ wpc[w] = "publish" /\ IsCurrent(w, e)
    /\ e \in Undecodable
    /\ batch' = [batch EXCEPT ![w] = {}]
    /\ wpc' = [wpc EXCEPT ![w] = "poll"]
    /\ UNCHANGED <<table, topic, faults>>

SkipBadRow(w, e) ==
    /\ wpc[w] = "publish" /\ IsCurrent(w, e)
    /\ e \in Undecodable
    /\ NextRow(w, e)
    /\ UNCHANGED <<table, topic, faults>>

Publish(w, e) ==
    /\ wpc[w] = "publish" /\ IsCurrent(w, e)
    /\ e \notin Undecodable
    /\ Write(e)
    /\ wpc' = [wpc EXCEPT ![w] = "mark"]
    /\ UNCHANGED <<table, batch, faults>>

\* The write is stored but its acknowledgement lost, and the Kafka writer tries
\* again before WriteMessages returns.
PublishRetried(w, e) ==
    /\ wpc[w] = "publish" /\ IsCurrent(w, e)
    /\ e \notin Undecodable
    /\ Fault("publish")
    /\ Write(e)
    /\ UNCHANGED <<table, worker>>

\* Mutation: the error is logged and the row marked all the same.
MarkAfterFailedPublish(w, e) ==
    /\ wpc[w] = "publish" /\ IsCurrent(w, e)
    /\ e \notin Undecodable
    /\ Fault("publish")
    /\ wpc' = [wpc EXCEPT ![w] = "mark"]
    /\ UNCHANGED <<table, batch, topic>>

\* The write is reported failed; it may have reached the log all the same.
PublishFails(w, e) ==
    /\ wpc[w] = "publish" /\ IsCurrent(w, e)
    /\ e \notin Undecodable
    /\ Fault("publish")
    /\ Write(e) \/ UNCHANGED topic
    /\ NextRow(w, e)
    /\ UNCHANGED table

\* Mutation: published_at is left unset.
MarkNothing(w, e) ==
    /\ wpc[w] = "mark" /\ IsCurrent(w, e)
    /\ NextRow(w, e)
    /\ UNCHANGED <<table, topic, faults>>

MarkPublished(w, e) ==
    /\ wpc[w] = "mark" /\ IsCurrent(w, e)
    /\ stage' = [stage EXCEPT ![e] = "published"]
    /\ NextRow(w, e)
    /\ UNCHANGED <<created, topic, faults>>

\* The UPDATE fails, or takes effect and its acknowledgement is lost.
MarkFails(w, e) ==
    /\ wpc[w] = "mark" /\ IsCurrent(w, e)
    /\ Fault("mark")
    /\ stage' = [stage EXCEPT ![e] = "published"] \/ UNCHANGED stage
    /\ NextRow(w, e)
    /\ UNCHANGED <<created, topic>>

\* The process dies and is started again.  A write it was waiting for may
\* have reached the log.
Crash(w) ==
    /\ wpc[w] # "poll"
    /\ Fault("crash")
    /\ \/ UNCHANGED topic
       \/ /\ wpc[w] = "publish"
          /\ \E e \in Events \ Undecodable : IsCurrent(w, e) /\ Write(e)
    /\ batch' = [batch EXCEPT ![w] = {}]
    /\ wpc' = [wpc EXCEPT ![w] = "poll"]
    /\ UNCHANGED table

-----------------------------------------------------------------------------
Work(w) ==
    \/ Poll(w)
    \/ \E e \in Events : SkipBadRow(w, e) \/ Publish(w, e) \/ MarkPublished(w, e)

Next ==
    \/ \E e \in Events : Begin(e) \/ EndTx(e, "unpublished") \/ EndTx(e, "aborted")
    \/ \E w \in Workers :
          \/ Work(w)
          \/ \E e \in Events : PublishRetried(w, e) \/ PublishFails(w, e) \/ MarkFails(w, e)
          \/ Crash(w)

Spec == Init /\ [][Next]_vars

(* The worker's loop never exits while the process runs, and a crashed     *)
(* process is started again; calls stop failing at some point.             *)
LiveSpec == Spec /\ \A w \in Workers : WF_vars(Work(w))

-----------------------------------------------------------------------------
(* Properties. *)

Committed == {e \in Events : stage[e] \in {"unpublished", "published"}}

D == INSTANCE Delivery WITH committed <- Committed,
                            settled <- {e \in Events : stage[e] = "published"}

\* The worker, its failures and restarts included, never publishes an event of
\* a transaction that did not commit, and never marks one that is not in Kafka.
ImplementsDelivery == D!Spec

\* Every committed event gets to Kafka and is then left alone, whatever failed
\* on the way and whichever bad rows share its batches.
CommittedIsDelivered ==
    \A e \in Events \ Undecodable :
       stage[e] = "unpublished" ~> stage[e] = "published" /\ D!InTopic(e)

Copies(e) == Cardinality({i \in DOMAIN topic[SenderOf[e]] : topic[SenderOf[e]][i] = e})

\* Each process publishes an event once; more copies take a failure or a crash
\* each.
DuplicatesNeedFaults ==
    \A e \in Events : Copies(e) <= Cardinality(Workers) + Len(faults)

\* Consumers see a sender's events for the first time in the order in which
\* the transfers were made.
SenderOrder ==
    \A s \in Senders : \A j \in DOMAIN topic[s] : \A e \in Events :
       SenderOf[e] = s /\ e \in Committed \ Undecodable /\ created[e] < created[topic[s][j]]
          => \E i \in 1 .. j : topic[s][i] = e

\* The order holds for senders who wait for each answer until a publish fails:
\* neither failing marks nor crashes nor a second process disturb it.
OrderUntilPublishFails ==
    ClientsWait /\ (\A i \in DOMAIN faults : faults[i] # "publish") => SenderOrder
=============================================================================
