----------------------------- MODULE Lifecycle -----------------------------
(***************************************************************************)
(* One process after another: cmd/main.go starts it, serves, waits for a   *)
(* signal, drains the HTTP server for ten seconds at most, runs its        *)
(* deferred calls and exits, while the worker's goroutine, which nobody    *)
(* waits for, goes on with a cancelled context.                            *)
(*                                                                         *)
(* Kafka's writer keeps writing what it was handed after the caller's      *)
(* context is cancelled; its Close refuses new calls and waits for those   *)
(* under way.                                                              *)
(*                                                                         *)
(* Abstracted: a handler is one database step and, for a flag, one write;  *)
(* a batch is all pending rows, taken in any order (Outbox has the limit   *)
(* and the order); the database and Kafka fail only by being closed or     *)
(* cancelled (Outbox has their other failures).                            *)
(***************************************************************************)
EXTENDS Naturals, Sequences

CONSTANTS Transfers,   \* requests that commit an event of the same name
          Flags,       \* requests that publish an alert themselves
          Senders,     \* users that send money
          SenderOf,    \* the message key of each transfer's event
          MaxLives     \* bound on the processes started, the last of which runs on

ASSUME SenderAssumption == SenderOf \in [Transfers -> Senders]
ASSUME LivesAssumption == MaxLives \in Nat \ {0}
ASSUME KindAssumption == Transfers \cap Flags = {}

VARIABLES
    main,        \* where main() is
    lives,       \* processes started so far
    signalled,   \* ctx is cancelled
    late,        \* Shutdown gave up on its deadline
    listener,    \* the HTTP server's socket
    open,        \* what main has opened and not closed
    pc,          \* where the handler of each request is
    worker,      \* where the worker's goroutine is
    batch,       \* rows it still has to treat, row among them
    row,         \* the row it is at, as a set
    writing,     \* events Kafka's writer was handed and has not stored
    committed,   \* events of committed transactions
    settled,     \* rows with published_at set
    topic        \* what Kafka has stored under each key, in order

process == <<main, lives, signalled, late, listener, open>>
loop == <<worker, batch, row, writing>>
stored == <<committed, settled, topic>>
vars == <<process, pc, loop, stored>>

Requests == Transfers \union Flags
Connections == {"db", "alerts", "producer"}
Handling == {"db", "alert", "alerting", "answer"}

Serving(r) == pc[r] \in Handling
Up == main \notin {"down", "exited"}

TypeOK ==
    /\ main \in {"down", "config", "connect", "serve", "drain", "close", "exited"}
    /\ lives \in 0 .. MaxLives
    /\ signalled \in BOOLEAN /\ late \in BOOLEAN
    /\ listener \in {"opening", "open", "closed"}
    /\ open \subseteq Connections
    /\ pc \in [Requests -> Handling \union {"new", "done", "cut"}]
    /\ worker \in {"down", "idle", "row", "publish", "mark", "stopped"}
    /\ row \subseteq batch /\ batch \subseteq committed /\ writing \subseteq committed
    /\ worker \in {"publish", "mark"} <=> row # {}
    /\ worker \in {"row", "publish", "mark"} <=> batch # {}
    /\ committed \subseteq Transfers /\ settled \subseteq committed
    /\ topic \in [Senders -> Seq(Transfers)]

Init ==
    /\ main = "down" /\ lives = 0
    /\ signalled = FALSE /\ late = FALSE
    /\ listener = "closed" /\ open = {}
    /\ pc = [r \in Requests |-> "new"]
    /\ worker = "down" /\ batch = {} /\ row = {} /\ writing = {}
    /\ committed = {} /\ settled = {}
    /\ topic = [s \in Senders |-> <<>>]

-----------------------------------------------------------------------------
(* Startup. *)

Start ==
    /\ ~Up /\ lives < MaxLives
    /\ main' = "config"
    /\ lives' = lives + 1
    /\ signalled' = FALSE /\ late' = FALSE
    /\ UNCHANGED <<listener, open, pc, loop, stored>>

LoadConfig ==
    /\ main = "config"
    /\ main' = "connect"
    /\ UNCHANGED <<lives, signalled, late, listener, open, pc, loop, stored>>

\* Mutation: the go statement of the worker is missing.
ConnectWithoutWorker ==
    /\ main = "connect"
    /\ main' = "serve"
    /\ listener' = "opening"
    /\ open' = Connections
    /\ UNCHANGED <<lives, signalled, late, pc, loop, stored>>

\* db.Connect, the wiring and the two goroutines.
Connect ==
    /\ main = "connect"
    /\ main' = "serve"
    /\ listener' = "opening"
    /\ open' = Connections
    /\ worker' = "idle"
    /\ UNCHANGED <<lives, signalled, late, pc, batch, row, writing, stored>>

Listen ==
    /\ listener = "opening"
    /\ listener' = "open"
    /\ UNCHANGED <<main, lives, signalled, late, open, pc, loop, stored>>

-----------------------------------------------------------------------------
(* The end of a process: requests being served are cut off, and what its   *)
(* memory held is gone.                                                    *)

End(how) ==
    /\ main' = how
    /\ listener' = "closed" /\ open' = {}
    /\ pc' = [r \in Requests |-> IF Serving(r) THEN "cut" ELSE pc[r]]
    /\ worker' = "down" /\ batch' = {} /\ row' = {} /\ writing' = {}
    /\ UNCHANGED <<lives, signalled, late, stored>>

\* log.Fatal exits without running the deferred calls: no configuration, no
\* database, or ListenAndServe fails before Shutdown is called.
Fatal ==
    /\ lives < MaxLives
    /\ main \in {"config", "connect"} \/ (main = "serve" /\ listener # "closed")
    /\ End("down")

\* The process is killed, or gets a signal before NotifyContext asks for it.
Kill ==
    /\ lives < MaxLives
    /\ Up
    /\ End("down")

Signal ==
    /\ lives < MaxLives
    /\ main = "serve" /\ ~signalled
    /\ signalled' = TRUE
    /\ UNCHANGED <<main, lives, late, listener, open, pc, loop, stored>>

\* Mutation: the database is closed on the signal instead of by a defer.
ShutdownClosesDatabase ==
    /\ main = "serve" /\ signalled
    /\ main' = "drain"
    /\ listener' = "closed"
    /\ open' = open \ {"db"}
    /\ UNCHANGED <<lives, signalled, late, pc, loop, stored>>

Shutdown ==
    /\ main = "serve" /\ signalled
    /\ main' = "drain"
    /\ listener' = "closed"
    /\ UNCHANGED <<lives, signalled, late, open, pc, loop, stored>>

\* Mutation: srv.Close, which waits for nobody.
DrainedAtOnce ==
    /\ main = "drain"
    /\ main' = "close"
    /\ UNCHANGED <<lives, signalled, late, listener, open, pc, loop, stored>>

Drained ==
    /\ main = "drain"
    /\ ~\E r \in Requests : Serving(r)
    /\ main' = "close"
    /\ UNCHANGED <<lives, signalled, late, listener, open, pc, loop, stored>>

\* Mutation: Shutdown is given a context without a deadline.
NoDeadline == FALSE /\ UNCHANGED vars

Deadline ==
    /\ main = "drain"
    /\ main' = "close"
    /\ late' = TRUE
    /\ UNCHANGED <<lives, signalled, listener, open, pc, loop, stored>>

\* The deferred calls, last one first.  Closing a Kafka writer returns when
\* what it was handed is written; closing the database does not wait.
NextToClose(c) ==
    \/ c = "producer" /\ open = Connections
    \/ c = "alerts" /\ open = {"alerts", "db"} /\ writing = {}
    \/ c = "db" /\ open = {"db"} /\ \A r \in Requests : pc[r] # "alerting"

Close(c) ==
    /\ main = "close"
    /\ NextToClose(c)
    /\ open' = open \ {c}
    /\ UNCHANGED <<main, lives, signalled, late, listener, pc, loop, stored>>

Exit ==
    /\ main = "close" /\ open = {}
    /\ End("exited")

-----------------------------------------------------------------------------
(* Requests. *)

Goto(r, step) == pc' = [pc EXCEPT ![r] = step] /\ UNCHANGED <<process, loop>>

Accept(r) ==
    /\ listener = "open"
    /\ pc[r] = "new"
    /\ Goto(r, "db")
    /\ UNCHANGED stored

\* The transaction of a transfer, which commits its event, or the UPDATE of a
\* flag; a statement that had begun survives the closing of the pool.
Database(r) ==
    /\ pc[r] = "db"
    /\ \/ /\ r \in Transfers
          /\ committed' = committed \union {r}
          /\ Goto(r, "answer")
       \/ r \in Flags /\ Goto(r, "alert") /\ UNCHANGED committed
       \/ Goto(r, "answer") /\ UNCHANGED committed
    /\ UNCHANGED <<settled, topic>>

Alert(r) ==
    /\ pc[r] = "alert"
    /\ Goto(r, IF "alerts" \in open THEN "alerting" ELSE "answer")
    /\ UNCHANGED stored

Alerted(r) == pc[r] = "alerting" /\ Goto(r, "answer") /\ UNCHANGED stored

Answer(r) == pc[r] = "answer" /\ Goto(r, "done") /\ UNCHANGED stored

-----------------------------------------------------------------------------
(* The worker. *)

Pending == committed \ settled

Poll ==
    /\ worker = "idle" /\ ~signalled
    /\ batch' = Pending
    /\ worker' = IF Pending = {} THEN "idle" ELSE "row"
    /\ UNCHANGED <<process, pc, row, writing, stored>>

\* ctx.Done().  A tick that select takes instead only fails to fetch.
Stop ==
    /\ worker = "idle" /\ signalled
    /\ worker' = "stopped"
    /\ UNCHANGED <<process, pc, batch, row, writing, stored>>

Leave(done) ==
    /\ batch' = batch \ done
    /\ row' = {}
    /\ worker' = IF batch = done THEN "idle" ELSE "row"

Publish(e) ==
    /\ worker = "row" /\ e \in batch
    /\ "producer" \in open
    /\ row' = {e}
    /\ writing' = writing \union {e}
    /\ worker' = "publish"
    /\ UNCHANGED <<process, pc, batch, stored>>

\* The context is cancelled already, or the producer closed.
PublishRefused(e) ==
    /\ worker = "row" /\ e \in batch
    /\ signalled
    /\ Leave({e})
    /\ UNCHANGED <<process, pc, writing, stored>>

\* Kafka acknowledges a write, which ends on its own whether or not somebody
\* still waits for it.
Store(e) ==
    /\ e \in writing
    /\ writing' = writing \ {e}
    /\ topic' = [topic EXCEPT ![SenderOf[e]] = Append(@, e)]
    /\ UNCHANGED <<process, pc, worker, batch, row, committed, settled>>

Published ==
    /\ worker = "publish"
    /\ row \cap writing = {}
    /\ worker' = "mark"
    /\ UNCHANGED <<process, pc, batch, row, writing, stored>>

\* Mutation: a cancelled publish counts as done.
PublishCancelledMarks ==
    /\ worker = "publish" /\ signalled
    /\ worker' = "mark"
    /\ UNCHANGED <<process, pc, batch, row, writing, stored>>

\* WriteMessages returns ctx.Err(), stored or not.
PublishCancelled ==
    /\ worker = "publish" /\ signalled
    /\ Leave(row)
    /\ UNCHANGED <<process, pc, writing, stored>>

\* Mutation: the loop forgets which row it was at.
MarkKeepsRow ==
    /\ worker = "mark"
    /\ settled' = settled \union row
    /\ worker' = "idle"
    /\ UNCHANGED <<process, pc, batch, row, writing, committed, topic>>

MarkPublished ==
    /\ worker = "mark"
    /\ settled' = settled \union row
    /\ Leave(row)
    /\ UNCHANGED <<process, pc, writing, committed, topic>>

\* The UPDATE is cancelled before it took effect.
MarkCancelled ==
    /\ worker = "mark" /\ signalled
    /\ Leave(row)
    /\ UNCHANGED <<process, pc, writing, stored>>

-----------------------------------------------------------------------------
Main ==
    \/ Start \/ LoadConfig \/ Connect
    \/ Shutdown \/ Drained \/ Deadline \/ Exit
    \/ \E c \in Connections : Close(c)

Work ==
    \/ Poll \/ Stop \/ Published \/ PublishCancelled \/ MarkPublished \/ MarkCancelled
    \/ \E e \in Transfers : Publish(e) \/ PublishRefused(e)

Next ==
    \/ Main \/ Listen \/ Signal \/ Fatal \/ Kill
    \/ Work \/ \E e \in Transfers : Store(e)
    \/ \E r \in Requests : Accept(r) \/ Database(r) \/ Alert(r) \/ Alerted(r) \/ Answer(r)

Spec == Init /\ [][Next]_vars

(* The Go scheduler runs main and the worker, timers fire, and a Kafka     *)
(* write ends, as its writer limits both the attempts and their time.      *)
(* Nothing limits what a handler waits for in the database.                *)
LiveSpec ==
    /\ Spec
    /\ WF_vars(Main) /\ WF_vars(Work)
    /\ \A e \in Transfers : WF_vars(Store(e))
    /\ \A r \in Requests : WF_vars(Alerted(r))

-----------------------------------------------------------------------------
(* Properties. *)

D == INSTANCE Delivery WITH Events <- Transfers

\* However its processes end, in the middle of whichever call, the service
\* publishes committed events only and marks only what is in Kafka.
ImplementsDelivery == D!Spec

\* A handler finds its connections open as long as Shutdown has not given up on
\* it: nothing is closed under a request that may still finish in time.
RequestsKeepConnections ==
    (\E r \in Requests : Serving(r)) /\ ~late => {"db", "alerts"} \subseteq open

\* main returns with no Kafka write half done, and cuts requests off only
\* after the ten seconds Shutdown gives them.
CleanExit ==
    [][main' = "exited" /\ main # "exited" =>
          writing = {} /\ (late \/ \A r \in Requests : ~Serving(r))]_vars

\* A signal ends the process, even when a request hangs and whatever the worker
\* was doing.
SignalEndsProcess == main = "serve" /\ signalled ~> ~Up

\* Once a process runs on, every event committed by it or by one of those
\* before it gets to Kafka and is marked.
CommittedIsDelivered == \A e \in Transfers : e \in committed ~> e \in settled

\* "the outbox worker and HTTP server both stop cleanly, never killed
\* mid-publish" (README.md:23-24): when main returns in time, the worker is not
\* between handing an event to Kafka and marking its row.
WorkerStopsCleanly ==
    [][main' = "exited" /\ main # "exited" /\ ~late =>
          worker \notin {"publish", "mark"}]_vars
=============================================================================
