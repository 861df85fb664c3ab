------------------------------ MODULE FraudFlag ------------------------------
(***************************************************************************)
(* Administrators flagging and unflagging transactions:                    *)
(*                                                                         *)
(*   POST /transactions/:id/flag     TransactionService.Flag               *)
(*   POST /transactions/:id/unflag   TransactionService.Unflag             *)
(*                                                                         *)
(* Each is one conditional UPDATE, committed on its own, and then one      *)
(* message published straight to the alerts topic, not through the outbox. *)
(* The UPDATE takes one row lock and waits for nothing while it holds it,  *)
(* so it is one step.                                                      *)
(*                                                                         *)
(* Publish is several steps: the Kafka writer behind it tries a message    *)
(* again when an attempt is not acknowledged, so one call may store it     *)
(* more than once, or store it and still fail.                             *)
(*                                                                         *)
(* Abstracted: the reason and the payload, of which only the kind matters: *)
(* an alert (Cleared absent) or an all-clear (Cleared: true).  Copies of   *)
(* one message are equal, and messages of two requests differ, because     *)
(* each payload says when its request was treated (DetectedAt).            *)
(***************************************************************************)
EXTENDS Naturals, Sequences, FiniteSets

CONSTANTS Txns,       \* ids of transactions, existing or not
          Requests,   \* administrators' requests
          Traffic,    \* what they may ask for
          Attempts    \* how often the Kafka writer tries one message

Operations == {"flag", "unflag"}

\* internal and publish_failed are both a 500 to the administrator.
Answers == {"none", "ok", "not_found", "conflict", "internal", "publish_failed", "lost"}

ASSUME TrafficAssumption == Traffic \subseteq [op : Operations, txn : Txns]

ASSUME RequestsAssumption == IsFiniteSet(Requests)

ASSUME AttemptsAssumption == Attempts \in Nat \ {0}

Messages == [of : Requests, kind : {"alert", "cleared"}]

VARIABLES
    status,   \* transactions.status, "absent" while there is no row
    alerts,   \* the alerts topic: the messages about each transaction, in order
    req,      \* what each request asks for
    pc,       \* where its handler is
    answer    \* what the administrator was told

vars == <<status, alerts, req, pc, answer>>

TypeOK ==
    /\ status \in [Txns -> {"absent", "completed", "flagged"}]
    /\ alerts \in [Txns -> Seq(Messages)]
    /\ req \in [Requests -> Traffic]
    /\ pc \in [Requests -> {"sent", "lookup", "publish", "done"}]
    /\ answer \in [Requests -> Answers]

\* Transactions are inserted as completed; only Flag and Unflag change that.
Init ==
    /\ status \in [Txns -> {"absent", "completed"}]
    /\ alerts = [t \in Txns |-> <<>>]
    /\ req \in [Requests -> Traffic]
    /\ pc = [r \in Requests |-> "sent"]
    /\ answer = [r \in Requests |-> "none"]

-----------------------------------------------------------------------------
From(op) == IF op = "flag" THEN "completed" ELSE "flagged"
\* Mutation: unflagged transactions get a status of their own.
ToCleared(op) == IF op = "flag" THEN "flagged" ELSE "cleared"

To(op) == IF op = "flag" THEN "flagged" ELSE "completed"
\* Mutation: Unflag forgets Cleared: true.
AlwaysAlert(op) == "alert"

Message(op) == IF op = "flag" THEN "alert" ELSE "cleared"

Goto(r, step) == pc' = [pc EXCEPT ![r] = step] /\ UNCHANGED answer

Reply(r, a) ==
    /\ pc' = [pc EXCEPT ![r] = "done"]
    /\ answer' = [answer EXCEPT ![r] = a]

\* A transfer commits its row.
Record(t) ==
    /\ status[t] = "absent"
    /\ status' = [status EXCEPT ![t] = "completed"]
    /\ UNCHANGED <<alerts, req, pc, answer>>

\* Mutation: UPDATE ... WHERE id = $1, whatever the status.
MatchesAny(r) == status[req[r].txn] # "absent"

\* WHERE id = $1 AND status = $3
Matches(r) == status[req[r].txn] = From(req[r].op)

\* The UPDATE may take effect and its acknowledgement be lost.
TransitionStatus(r) ==
    LET t == req[r].txn IN
    /\ pc[r] = "sent"
    /\ \/ /\ Matches(r)
          /\ status' = [status EXCEPT ![t] = To(req[r].op)]
          /\ Goto(r, "publish") \/ Reply(r, "internal")
       \/ /\ ~Matches(r)
          /\ Goto(r, "lookup")
          /\ UNCHANGED status
    /\ UNCHANGED <<alerts, req>>

\* Mutation: a transaction that is already there is no error.
LookupForgives(r) ==
    /\ pc[r] = "lookup"
    /\ Reply(r, IF status[req[r].txn] = "absent" THEN "not_found" ELSE "ok")
    /\ UNCHANGED <<status, alerts, req>>

\* SELECT EXISTS
Lookup(r) ==
    /\ pc[r] = "lookup"
    /\ Reply(r, IF status[req[r].txn] = "absent" THEN "not_found" ELSE "conflict")
    /\ UNCHANGED <<status, alerts, req>>

Copies(r) == {i \in DOMAIN alerts[req[r].txn] : alerts[req[r].txn][i].of = r}

Stored(r) == Copies(r) # {}

\* An attempt of the writer reaches the topic: while Publish waits, perhaps
\* after others that did but were not acknowledged, or after it gave up.
Write(r) ==
    /\ pc[r] = "publish" \/ answer[r] = "publish_failed"
    /\ Cardinality(Copies(r)) < Attempts
    /\ alerts' = [alerts EXCEPT ![req[r].txn] =
                     Append(@, [of |-> r, kind |-> Message(req[r].op)])]
    /\ UNCHANGED <<status, req, pc, answer>>

\* WriteMessages returns nil once an attempt is acknowledged.
Publish(r) ==
    /\ pc[r] = "publish"
    /\ Stored(r)
    /\ Reply(r, "ok")
    /\ UNCHANGED <<status, alerts, req>>

\* It returns an error when no attempt was acknowledged, stored or not.
PublishFails(r) ==
    /\ pc[r] = "publish"
    /\ Reply(r, "publish_failed")
    /\ UNCHANGED <<status, alerts, req>>

\* The UPDATE or the lookup fails.
StatementError(r) ==
    /\ pc[r] \in {"sent", "lookup"}
    /\ Reply(r, "internal")
    /\ UNCHANGED <<status, alerts, req>>

\* The process dies; nobody is answered.  What is committed or stored stays.
Crash ==
    LET inFlight == {r \in Requests : pc[r] \in {"lookup", "publish"}} IN
    /\ inFlight # {}
    /\ pc' = [r \in Requests |-> IF r \in inFlight THEN "done" ELSE pc[r]]
    /\ answer' = [r \in Requests |-> IF r \in inFlight THEN "lost" ELSE answer[r]]
    /\ UNCHANGED <<status, alerts, req>>

Quiesced == (\A r \in Requests : pc[r] = "done") /\ UNCHANGED vars

Next ==
    \/ \E t \in Txns : Record(t)
    \/ \E r \in Requests :
          \/ TransitionStatus(r) \/ Lookup(r) \/ Write(r)
          \/ Publish(r) \/ PublishFails(r) \/ StatementError(r)
    \/ Crash
    \/ Quiesced

Spec == Init /\ [][Next]_vars

-----------------------------------------------------------------------------
(* Properties. *)

Of(t, op) == {r \in Requests : req[r].op = op /\ req[r].txn = t}

\* Requests that certainly changed the status, and those that may have.
Winners(t, op) ==
    {r \in Of(t, op) : pc[r] = "publish" \/ answer[r] \in {"ok", "publish_failed"}}
Unsure(t, op) == {r \in Of(t, op) : answer[r] \in {"internal", "lost"}}

\* Flags and unflags alternate, one winner at a time: of the administrators who
\* race to flag a transaction one is told ok and the others are refused.
FlagsAlternate ==
    \A t \in Txns :
       LET flags == Cardinality(Winners(t, "flag"))
           unflags == Cardinality(Winners(t, "unflag"))
           flagged == IF status[t] = "flagged" THEN 1 ELSE 0
       IN  /\ flags <= unflags + flagged + Cardinality(Unsure(t, "unflag"))
           /\ unflags + flagged <= flags + Cardinality(Unsure(t, "flag"))

\* Requests with a message of a kind about t in the topic.  The copies of one
\* message count once here.
Heard(t, kind) ==
    {r \in Requests : \E i \in DOMAIN alerts[t] : alerts[t][i] = [of |-> r, kind |-> kind]}

\* "no double-notifying" (transaction_repository.go:20-24), the copies of a
\* retried write apart: a second alert about a transaction takes an unflag in
\* between, whatever fails and whoever races.
NoDoubleNotifying ==
    \A t \in Txns :
       Cardinality(Heard(t, "alert"))
          <= 1 + Cardinality(Winners(t, "unflag") \union Unsure(t, "unflag"))

\* Those whose handler is about to send its message, or sending it.
Pending(t, op) == {r \in Of(t, op) : pc[r] = "publish"}

\* As long as nobody was told of a failure, the alerts and the all-clears about
\* a transaction, in the topic or on their way, add up to its status, however
\* the requests overlap: each change of it is told, and as what it was.  Copies
\* of a retried write apart, and in whatever order the messages come.
AlertsAddUp ==
    \A t \in Txns :
       (\A r \in Requests :
           req[r].txn = t => answer[r] \in {"none", "ok", "not_found", "conflict"})
       => Cardinality(Heard(t, "alert") \union Pending(t, "flag"))
             = Cardinality(Heard(t, "cleared") \union Pending(t, "unflag"))
                 + (IF status[t] = "flagged" THEN 1 ELSE 0)

\* What the comment of Flag promises (transaction_service.go:208-212): a failed
\* publish is reported so that the administrator retries, and no flag stays
\* without its notification.  So nobody is refused after a failed publish while
\* no alert is out or on its way.
RetryIsNotRefused ==
    [][\A r, x \in Requests :
         /\ req[r].op = "flag" /\ req[x] = req[r]
         /\ answer[r] = "publish_failed"
         /\ answer[x] # "conflict" /\ answer'[x] = "conflict"
         => \/ Heard(req[r].txn, "alert") # {}
            \/ \E y \in Of(req[r].txn, "flag") : pc[y] = "publish"]_vars
=============================================================================
