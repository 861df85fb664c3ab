# Specifications of fraud-transaction-service

TLA+ models of this service, the TLC configurations that check them on small
instances, and proofs that TLAPS checks for every value of the constants. Paths
are relative to the repository; `wallet_repository.go` and its like stand for
the file of that name under `internal/`.

## 1. The system

| component | code | state it keeps | operations that change it |
|---|---|---|---|
| money transfers | `service/transaction_service.go`, `repository/transaction_repository.go` | `transactions`, `outbox_events` | `Create` |
| wallets | `service/wallet_service.go`, `repository/wallet_repository.go` | `wallets` (balance, is_enabled) | `Create`, `AddBalance`, `SetEnabled`; `Debit` and `Credit` inside a transfer |
| outbox worker | `worker/outbox_worker.go`, `repository/outbox_repository.go` | `outbox_events.published_at`, the batch in memory | tick: fetch, publish, mark |
| fraud flags | `Flag`, `Unflag` of the transaction service | `transactions.status` | `transitionStatus`, then a direct publish |
| Kafka producer | `pkg/kafka/producer.go` | topics (external) | `Publish` |
| auth client | `authclient/client.go` | none | reads the receiver's account |
| lists | `List`, `ListByUserIDs`, `dto/wallet_dto.go` | none | reads: count and page; query and join |
| admission | `middleware`, `pkg/token`, `router` | the claims in a request's context | `Auth`, `RequireAdmin`, the handler |
| process | `cmd/main.go`, `db`, `config`, `env`, `logger` | goroutines, connection pool, producers, listener | startup, signal, shutdown, deferred closes |

How they interact. Each HTTP request is a goroutine. A transfer checks the
amount, asks the auth service about the receiver, and then runs one database
transaction on one connection of the pool: debit, credit, insert the
transaction, insert its outbox event, COMMIT. Wallet operations are single
statements. The worker is a goroutine of its own that meets the requests only
in the table `outbox_events`. Flags update the status and then publish to the
alerts topic directly. On a signal `main` stops the HTTP server, which waits ten
seconds for its requests, and then closes producers and pool; it does not wait
for the worker, whose context the signal cancels. Several processes may run during a rolling restart; they
share the database and Kafka and nothing else.

What is hard. Two requests meet at the granularity of SQL statements under READ
COMMITTED, with row locks, re-evaluated WHERE clauses and deadlocks; a wallet
may be frozen in the middle of a transfer; any statement may fail and only a
deferred `Rollback` undoes what came before; a COMMIT, an UPDATE or a Kafka
write may take effect although it is reported failed; the process may die
between publishing and marking, or stop on a signal with both under way; a list
is read in two statements, page after page, while rows appear; amounts have more decimals than the columns.
`PROJECT.json` lists each hazard at its line with the properties that watch it.

What makes each part correct:

- transfers and wallets: money is neither lost nor made; a balance changes only
  by a top-up or together with a row that says who paid whom; a frozen wallet
  stands still; an answer tells what happened; every request is answered;
- outbox: every event of a committed transaction reaches Kafka, nothing else
  does, nothing is given up before it is there, one sender's events are in order;
- flags: of racing administrators one wins, nobody is alerted twice, no flag is
  left without its alert;
- lists: a page is the part of the list that was asked for, no row is missed, an
  entry speaks of the id it stands for;
- admission: nobody is served who may not be, everybody is answered once, and an
  answer tells what happened;
- process: a signal ends it, no connection is closed under a request that may
  still finish, and what it leaves undone the next process finishes.

## 2. The modules

| module | models | checked and proved in |
|---|---|---|
| `Numeric` | NUMERIC(18, 2): what is stored when an amount has more decimals | `Numeric_proofs` |
| `Ledger` | abstract: what the service promises about money | |
| `WalletTransactions` | transfers, top-ups, wallet creation, freezing, statement by statement | `MCWalletTransactions`, `WalletTransactions_proofs` |
| `Delivery` | abstract: what an outbox promises | |
| `Outbox` | rows, worker, Kafka, faults, restarts, several workers | `MCOutbox`, `Outbox_proofs` |
| `FraudFlag` | flag and unflag, and the alerts they publish | `MCFraudFlag`, `FraudFlag_proofs` |
| `System` | transfers and worker composed | `MCSystem`, `System_proofs` |
| `Lifecycle` | one process after another: startup, requests, worker, shutdown | `MCLifecycle`, `Lifecycle_proofs` |
| `TxnList` | GET /transactions, and a client that pages through it | `MCTxnList`, `TxnList_proofs` |
| `WalletStatusList` | the answer of GET /wallets?user_ids=..., as operators | `HttpApi`, `HttpApi_proofs` |
| `HttpApi` | routes, middlewares, the status codes of every outcome, the list of wallet statuses | itself, `HttpApi_proofs` |

`WalletTransactions` takes its arithmetic from `Numeric` and is shown to
implement `Ledger` (its `L`); `Outbox` is shown to implement `Delivery` (its
`D`). The tables are disjoint except for `outbox_events`: `WalletTransactions`
commits an event with its transaction row, `Outbox` starts from that commit, and
`System` joins the two there. `System` and `Lifecycle` implement `Delivery` as
well, each with more around the outbox.

### WalletTransactions

`wallets`, `balance`, `enabled`, `txns` are the committed tables. `lock[u]` is
the request whose transaction holds the row lock of wallet `u`, and `current[u]`
the balance that transaction sees there. `req`, `pc`, `answer` are what each
request asks, where its handler is, and what its client was told.

| action | code |
|---|---|
| `RejectAmount`, `VerifyReceiver` | amount check and `authclient.GetUser` |
| `BeginTx` | `BeginTxx`, which waits for a connection |
| `DebitScan`, `DebitUpdate`, `DebitLookup` | `Debit`: the UPDATE and the lookup when it changed nothing |
| `CreditScan`, `CreditUpdate`, `CreditLookup` | `Credit`, likewise |
| `InsertRows`, `Commit` | the two inserts, COMMIT |
| `TopUpScan`, `TopUpUpdate`, `TopUpLookup` | `AddBalance` and `classifyMissingOrDisabled` |
| `CreateWallet` | the wallet INSERT |
| `SetEnabledScan`, `SetEnabled` | the admin's UPDATE |
| `StatementError` | any error return after `BeginTxx`, or of a single statement |
| `AbortDeadlock`, `Crash` | PostgreSQL's deadlock detector; the process dies |

An UPDATE that can wait is two steps, because under READ COMMITTED it is two
moments: its WHERE clause is evaluated on the rows committed when the statement
starts, then it waits for the row lock and evaluates the clause again on the row
it finds. When the second evaluation fails the lock is kept until the
transaction ends. A statement outside a transaction (`AddBalance`, `SetEnabled`)
waits for its row lock as well, and keeps the connection it took meanwhile; it
commits as soon as it has the lock.

`CreateWallet` is one step: every INSERT into `wallets` commits on its own,
so a second one finds either the row or its absence, and the primary key makes
it fail when the row is there.

Answers keep what the client can tell apart. `"internal"` is every 500, and also
an answer that the client never gets because COMMIT's acknowledgement was lost
(the transfer then did happen); `"lost"` is a connection that died with the
process.

### Outbox

`stage[e]` is the life of a row: not there, in an open transaction, rolled back,
committed and unpublished, published. `created[e]` is `created_at`: PostgreSQL's
`now()` is the time the transaction *began*, so it is stamped by `Begin` and not
by the commit. `topic[s]` is what Kafka stored under key `s`; `batch` and `wpc`
are the worker's loop. A worker step is one call. A publish is stored
(`Publish`), stored and repeated by the Kafka writer because its acknowledgement
was lost (`PublishRetried`), or reported failed, whether it was stored or not
(`PublishFails`). `MarkFails` and `Crash` likewise leave open whether the call
took effect. Two rows never have the same `created_at`. `faults` lists the calls that have
failed so far, by kind; `Faults` are the kinds that may, `MaxFaults` how many.

`Undecodable` events stand for a payload that `json.Unmarshal` rejects
(`outbox_worker.go:71-75`). This service writes no such payload and the column
is JSONB; the branch is there, so it is modelled.

### FraudFlag

`status` is the column, `alerts[t]` the messages about transaction `t` in the
alerts topic: whose they are, and `"alert"` from Flag or `"cleared"` from Unflag.
`TransitionStatus` is the conditional UPDATE, which is one step because it
commits on its own; `Lookup` is the SELECT EXISTS after it changed nothing.

The publish that follows a change goes through the same retrying Kafka writer as
the outbox's. `Write` is an attempt that reaches the topic, at most `Attempts` of
them for one message; `Publish` is the writer's success, after at least one;
`PublishFails` its error, after any number, and a `Write` may still come after
it, because the writer carries on when its caller gives up. So one message may
be in the topic several times, or be there although it is reported failed, or
although the process died in the middle (`Crash`). `Copies` are those of one
request.

### System

`W` and `O` are instances of `WalletTransactions` and `Outbox` over the same
requests: the event of a transfer is the request itself. `BeginTx` stamps its
row, `Commit` publishes it to the worker, and every other end of a handler
within its transaction (`Handle`) takes it back. Handlers' other steps and the
worker's (`Publisher`, `CallFails`) leave each other's state alone. `Crash` takes
both at once: all open transactions are rolled back, all requests in flight are
lost, and the worker starts over, with the write it was waiting for stored or
not. `IdleCrash` is a crash between requests.

### Lifecycle

`main` is where `main()` is: `LoadConfig`, `Connect` (database, wiring, the two
`go` statements), then `serve` until `Signal`; `Shutdown` closes the listener,
`Drained` or `Deadline` ends it; `Close` runs the deferred calls, last first
(outbox producer, alert producer, database), and `Exit` returns. `Fatal` is
`log.Fatal`, which skips the deferred calls, and `Kill` a process that dies
otherwise. `Start` begins the next one.

Here a request is few steps (`Accept`, `Database`, `Alert`, `Alerted`, `Answer`):
what counts is which connection it needs when. The worker is `Poll`, `Publish`,
`Published`, `MarkPublished`, and the same calls with a cancelled context:
`PublishRefused`, `PublishCancelled`, `MarkCancelled`, `Stop`. `writing` is what
kafka-go's writer was handed and has not stored. Cancelling the caller does not
stop it, which is why `Store` is a step of its own; `Close` returns when it is
empty. `signalled` is the cancelled context, `late` that the ten seconds ran out.

### TxnList

`Begin` and `Commit` of a transaction are apart, since `created_at` is stamped by
the first and the row seen after the second; two rows may get the same time. A
walk reads page after page, each by `Count` and `Page`, the offset advancing by
what was received. `buildTransactionFilter` is kept as it is built: `Args` in the
order of their numbers, `Conditions` that name them by number. The property
`PageIsRight` compares its pages with `Wanted` and `IsPage`, which are written
from the comments of `TransactionListFilter` and know no numbers. A search text
is the set of ids that contain it, and contains no wildcard itself.

### WalletStatusList

A module of operators: `Found` is what the query by ids returns,
`NewWalletStatusList` the join of that with the requested ids. An id is a user
and a spelling: the database compares users, the join compares spellings, and
wallets come back in canonical spelling (`Key`). One id that is no UUID fails the
query (`Readable`).

### HttpApi

`next` is the rest of the gin chain, `claims` what `Auth` stored, `codes` the
answers written so far. A function that answers without `Abort` would leave the
rest of the chain to run. `Outcomes` is what the service may return for a route,
with whether it did what was asked; `Code` is the handler's switch. Of the
answers' bodies one is built: `entries`, the wallet statuses of the requested
`ids`, from the table `wallets`.

## 3. What the runs check

All runs check for deadlock; a finished model may stutter (`Quiesced`), and the
worker always can poll.

| run | instance | shows |
|---|---|---|
| `WalletMixed` | 2 users, 3 requests of any of 9 kinds, balances 0 or 2 cents of at most 3, 2 connections | the properties listed below |
| `WalletHalfCent` | 2 requests, amounts of 0.5 and 1.5 cents | **violated**: `TransferMatchesRow` |
| `WalletNotFound` | 2 requests: a payment or top-up while the wallet is unfrozen | **violated**: `NotFoundMeansNoWallet` |
| `OutboxFaults` | 2 workers, 3 events of one sender of which one does not parse, batch 2, 2 faults of any kind | `ImplementsDelivery`, `CommittedIsDelivered`, `DuplicatesNeedFaults`, `OrderUntilPublishFails` |
| `OutboxReorder` | 1 worker, 2 events, one publish may fail | **violated**: `SenderOrder` |
| `FlagRace` | 4 administrators, 1 transaction, all failures, 2 attempts of the Kafka writer | `FlagsAlternate`, `NoDoubleNotifying`, `AlertsAddUp` |
| `FlagRetry` | 2 administrators, flags only | **violated**: `RetryIsNotRefused` |
| `SystemFaults` | 2 users, 3 requests: opposite transfers or a freeze, 2 connections, 1 fault of any kind, crashes under requests | `EventIffRow`, `PublishedIsPaid`, `ImplementsDelivery`, `AcceptedIsPublished`, `EveryoneIsAnswered` |
| `LifecycleStops` | 3 processes, 2 transfers, 1 flag | `RequestsKeepConnections`, `CleanExit`, `SignalEndsProcess`, `ImplementsDelivery`, `CommittedIsDelivered` |
| `LifecycleWorker` | 2 processes, 1 transfer | **violated**: `WorkerStopsCleanly` |
| `TxnPages` | 3 transactions, 16 queries | `PageIsRight`, `NothingMissed` |
| `HttpApi` | 11 routes, 5 kinds of header, all outcomes, up to 2 ids in 3 spellings | `OnlyAdmitted`, `AnsweredOnce`, `CodeTellsOutcome`, `EntriesMatchIds` |

The properties of `WalletMixed`:

- `LocksBelongToOpenTransactions`: rollbacks, commits, aborts and crashes leave
  no lock and no uncommitted balance behind;
- `TransfersInFlight`: from debit to COMMIT a transfer's rows stay locked,
  enabled and at the balances it computed from;
- `AnswerTellsOutcome`: a success is recorded; a refusal moved nothing; only a
  500 or a lost connection leaves the outcome open;
- `FrozenKeepsBalance`: while a wallet stays frozen nothing lands on it, not
  even a transfer that had passed its checks before;
- `TransferMatchesRow`: each change of balances is one top-up or one new row;
- `ImplementsLedger`: the committed tables behave like `Ledger`.

Of the outbox and the flags:

- `ImplementsDelivery`: only committed events are published, and an event is
  settled only when it is in the topic;
- `CommittedIsDelivered`: every committed event that parses gets there;
- `DuplicatesNeedFaults`: each copy too many has a failed call or a second
  process behind it;
- `OrderUntilPublishFails`: a sender who waits for each answer has its events in
  order until a publish fails. Failed marks, crashes and a second process do not
  disturb that;
- `FlagsAlternate`, `NoDoubleNotifying`: one of the racing administrators wins,
  and the alert of a second flag takes an unflag in between. Copies of one
  message, which the Kafka writer may leave, count once here (`Heard`); that
  they exist is an observation below;
- `AlertsAddUp`: as long as nobody was told of a failure, each change of a status
  is told, and as what it was, however the requests overlap. It counts the same
  way, and says nothing of the order in which the messages come.

Of the composition and the process around it:

- `EventIffRow`: at every moment an event is committed exactly when its
  transaction's row is;
- `PublishedIsPaid`: what consumers read is a row, with that sender and, up to
  the rounding of the column, that amount, and no client was refused it;
- `AcceptedIsPublished`: a success told to a client leads to the message;
- `EveryoneIsAnswered`: neither deadlocks nor lock queues nor an exhausted pool
  keep a client waiting, also with the worker, freezes and crashes around;
- `RequestsKeepConnections`: until the deadline of `Shutdown` a handler finds
  the database and the alert producer open;
- `CleanExit`: when `main` returns nothing is half written, and requests were
  cut off only after the deadline;
- `ImplementsDelivery`, once more: whatever ends a process, at whichever step,
  nothing uncommitted is published and nothing unpublished is marked.

Of the lists: `PageIsRight` holds for each page at the moment of its statement;
`NothingMissed` for a whole walk during which rows commit above and below what
was read. It needs rows of different times, because two pages may order rows of
one time differently, and no status filter, because a row that changes status
leaves the list and moves the others up. Rows may be *repeated*, and are.

Of the way a request takes: `OnlyAdmitted`, `AnsweredOnce` and `CodeTellsOutcome`
relate the caller, the chain that ran, and the code to what was done;
`EntriesMatchIds` relates entry by entry what is told about wallets to the table,
with ids that repeat or have no wallet.

### Findings

1. **Half cents** (`WalletHalfCent`, `wallet_repository.go:230`). The amount
   string goes to the database as it is, and `balance - $1` and `balance + $1`
   are rounded separately when stored. For an amount such as 0.005 the debit
   takes nothing and the credit gives a cent: a cent is made. The theorem
   `HalfCentsDrift` says this happens at every balance, and only for such ties.
   `transaction_service.go:121` promises that no precision is lost.
2. **Not found** (`WalletNotFound`, `wallet_repository.go:252`, `:190`). A
   payment to a frozen wallet that is unfrozen before the lookup is answered
   with "wallet not found", where the comment at line 210 promises an accurate
   error.
3. **Order** (`OutboxReorder`, `outbox_worker.go:80`). After a failed publish the
   worker goes on with the next row, which may be a later event of the same
   sender. The repository's README.md:21-22 says one user's events stay ordered.
4. **Retrying a flag** (`FlagRetry`, `transaction_service.go:241`). The status is
   committed before the alert is published, so the retry that the comment at
   line 209 asks for is refused with a conflict, and no alert is ever sent.
5. **Shutdown** (`LifecycleWorker`, `cmd/main.go:89`). `main` does not wait for
   the worker's goroutine: it returns with the worker anywhere between a publish
   and its mark, where README.md:23-24 says it is never killed mid-publish.
   `ImplementsDelivery` and `CommittedIsDelivered` show that no event is lost by
   it; one may be sent twice.

Five more observations are not violations of what a run checks; the properties
are stated so as to hold beside them:

- Count and page of a list see two snapshots (`transaction_repository.go:184`).
  A page may hold rows that its total does not count; `PageIsRight` says that
  the total is never too large, unless rows leave the list with their status.
- `_` and `%` in a search text are not escaped (`transaction_repository.go:225`),
  so that a search for `_` returns everything.
- The Kafka writer repeats an attempt whose acknowledgement is lost
  (`pkg/kafka/producer.go:33`), so that one flag may leave two alerts, each to be
  mailed, where `transaction_repository.go:20-21` speaks of no double-notifying.
  What `NoDoubleNotifying` says is that the copies are those of one message: no
  second flag gets one of its own.
- An id in capitals finds its wallet in the database, which compares UUIDs, and
  not in the join, which compares text (`wallet_dto.go:56`): it is answered with
  `Exists: false`, which lines 33-34 and 46-47 give to ids without a row.
  `EntriesMatchIds` requires `Exists: true` of canonical ids only.
- A flag and an unflag that overlap may publish in the other order
  (`transaction_service.go:290`). `AlertsAddUp` counts and does not order.

Hazards of `PROJECT.json` without a property say there why. The two that matter
most: a client that repeats a transfer whose answer it never got pays twice
(`transaction_repository.go:146`), because the two requests are strangers to the
service, which keeps nothing that could relate them; and consumers get the
client's text of an amount and not the stored value (`transaction_service.go:130`),
because the payload is built from the request; the models keep no text.

### Why the bounds are enough

`WalletMixed`: deadlock and a lost update take two transfers, and a third
request freezes, unfreezes, tops up or creates at any point between them. Two
connections for three requests make the pool run out. Balances of at most 3
cents make both ends of the column reachable: a transfer that is not covered and
a credit or top-up that overflows. The amounts are one cent (10 mills), 1.7
cents (rounded up), 0.4 cents (rounds to zero) and zero (rejected). A request is
sent once, and a client that retries is another request. Requests are
interchangeable here and in `FlagRace`, whose traffic is the same for all, so
symmetry under permutation is sound; no liveness run uses it.

`OutboxFaults`: a batch of two with a third row waiting makes a batch split and a
second batch begin; two workers publish the same row; two faults make a fault hit
the repetition of a call that a fault had hit. Events of one sender are what
`OrderUntilPublishFails` is about. Transfers of one sender that overlap
(`ClientsWait` FALSE) are met in `SystemFaults`, and by the proof of
`DeliveryIsImplemented`, which is for both. Copies are counted for each sender,
and no step relates the rows of two senders except through the batch, which
`SystemFaults` has.

`SystemFaults`: two transfers in conflict and one that fails or is frozen out,
with a worker between them. Every wallet starts with one cent of at most two, so
that a transfer may be uncovered or overflow; 0.7 cents makes the payload's
amount differ from the row's.

`LifecycleStops`: three processes make one that starts with what two others
left; the last one runs on (it is neither killed nor signalled), so that liveness
is about it. Two transfers of one sender make a batch with one row done and one
not. `TxnPages`: three rows and pages of one row make walks of three pages and
more, with rows arriving before, inside and behind a page; the 16 queries set
each filter or not, and a limit and an offset that have to be replaced.
`PageIsRight` says by itself which they are (`AskedLimit`, `AskedOffset`).
`HttpApi`: two ids make an id repeated, two wallets swapped, and one id that
spoils the query for the other; the rest is finite. `FlagRace`: flag, unflag,
flag and a loser need four requests, and two attempts are what a copy takes.

### Fairness

`System!LiveSpec`: weak fairness of the worker's loop, whose body never exits
while the process runs, and of "some handler goes on": as long as any request can
take a step of its own, or PostgreSQL can break a deadlock it is in, one of them
does. The Go scheduler runs every handler, the database executes every statement
and looks for deadlocks after a timeout, and the auth client has a timeout of
five seconds. No request needs a fairness of its own, because each of them has
finitely many steps and cannot use up the others' turns. That a request waits for
a row lock is no step, so a lock or a connection that is never released would
show as a request that is never answered. Nothing is fair that the code only may
do: a statement need not fail, the process need not crash. Crashes with requests
in flight are bounded by the requests, others by `MaxFaults`.

`Outbox!LiveSpec`: weak fairness of each worker's loop; a crashed process is
started again. Faults are bounded by
`MaxFaults`: if Kafka failed for ever nothing could be delivered. The run has
fewer bad rows than a batch holds. With `batchSize` of them, all older than the
rest, `GetUnpublished` would return the same rows for ever.

`Lifecycle!LiveSpec`: weak fairness of `main` and of the worker (the Go scheduler
runs both, timers fire), of `Store` and of `Alerted` (kafka-go bounds the
attempts of a write and the time of each). Requests are not fair: nothing bounds
what a handler waits for in the database, and `SignalEndsProcess` holds all the
same because of `Deadline`. `Start` is part of `Main`: the process is started
again.

## 4. What is proved

### Transfers and wallets

`WalletTransactions_proofs` holds for any users, requests, traffic, starting
balances, column width and pool size.

| theorem | property |
|---|---|
| `TypeCorrect` | `TypeOK`: no balance leaves `0 .. MaxBalance` |
| `LocksAreReleased` | `LocksBelongToOpenTransactions` |
| `TransfersAreIsolated` | `TransfersInFlight` |
| `FrozenWalletsKeepTheirBalance` | `FrozenKeepsBalance` |
| `AnswersTellTheOutcome` | `AnswerTellsOutcome` |
| `TransfersMatchTheirRows` | `TransferMatchesRow`, assuming `WholeCents` |
| `LedgerIsImplemented` | `ImplementsLedger`, assuming `WholeCents` |

The assumptions in the module are those of the constants: traffic is made of
requests, `MaxBalance` is a natural number, starting balances fit the column, the
pool has at least one connection. `WholeCents` says that no transfer is for a
whole number of cents and a half. It cannot be dropped: `HalfCentsDrift` in
`Numeric_proofs` shows that the property fails for every such amount.

The argument. `TypeOK` is inductive by itself, because the WHERE clause of the
debit keeps balances from going negative and an overflowing credit is an error.
`LocksBelongToOpenTransactions` is not: that a lock belongs to a transfer still
open needs to know which locks a transfer at each step holds, and that a balance
in flight is the committed one minus the amount needs that nobody else writes a
locked row. `LockInv` is the conjunction with `TransfersInFlight`, and is
inductive. The lemma `StepOfOne` says that a step of one request that only
touches rows which are free or its own preserves it, so that each action has to
be shown to be such a step. `Effects` then lists all that a step can do to the
committed tables, and the action properties follow from it case by case.
`SettledInv` adds, for the answers, that nobody is answered before the end and
that every row belongs to a request that has ended. The refinement maps every
commit to one `Transfer`, every top-up to one `TopUp`, and everything else to a
smaller step or to none.

### The outbox

`Outbox_proofs` holds for any events, workers, batch size and faults.

| theorem | property |
|---|---|
| `TypeCorrect` | `TypeOK` |
| `DeliveryIsImplemented` | `ImplementsDelivery` |
| `DuplicatesArePaid` | `DuplicatesNeedFaults` |
| `OrderHoldsUntilPublishFails` | `OrderUntilPublishFails` |

The assumptions are those of the constants: every event has one sender, batches
and the number of faults are numbers, and events and workers are finite sets
(counting needs that; the code has finitely many of both at any time).

`TypeCorrect` is inductive as it stands. `DeliveryIsImplemented` rests on
`WorkerInv`: the worker marks the row it is *at*, not the one it wrote, and that
these are the same needs `created_at` to tell rows apart (`Stamped`) and a batch
to hold committed rows only (`BatchIsCommitted`); then what is about to be marked
is in the topic (`MarkedIsWritten`).

The bound on copies says nothing about copies still to come, so it is not
inductive. What is (`CopiesArePaid`): the copies of an event plus the workers that
could still write one without a fault are at most the workers plus the faults so
far. A worker could, unless it is marking that event; once the event is marked
published only those workers that fetched it before still could. A publish moves
one worker from the second number to the first, and everything that gives a
worker a second turn is a fault: a failed publish or mark, a repetition by the
Kafka writer, a crash.

Order (`OrderInv`): a sender who waits has at most one transfer open, so that rows
commit in the order they began (`OneAtATime`). As long as no publish has failed, a
row in some batch has every earlier row of its sender in that batch or in the
topic (`BatchInOrder`). A failed *mark* keeps that, because the row is in the
topic; a failed publish does not, and that is the finding `OutboxReorder`.

### Flags

`FraudFlag_proofs` holds for any transactions, any finite set of requests and
any number of attempts of the Kafka writer.

| theorem | property |
|---|---|
| `TypeCorrect` | `TypeOK` |
| `FlagsTakeTurns` | `FlagsAlternate` |
| `NobodyIsNotifiedTwice` | `NoDoubleNotifying` |
| `MessagesAddUp` | `AlertsAddUp` |

The first is about answers, which lag behind the table; the other two join
answers and messages, of which a crash can take away the answer and a retry add
a message. `FlagInv` therefore counts two sets of requests for each transaction:
`Did`, those that changed its status for certain, by their answer *or* by a
message in the topic, and `May`, which adds those that were told of an internal
error or lost their connection. `Alternate` relates both to the current status.
Every step is one of two: it changes the status, and adds a request to both; or
it is quiet, and adds nobody to `Did` and takes nobody from `May`. A crash is
quiet because a message stays; an attempt of the writer is quiet because only
those write who changed the status (`MessagesAreDeserved`), however often they
do. `NobodyIsNotifiedTwice` follows, for any number of attempts. For
`MessagesAddUp`, `OkIsStored` says that a success has a message, so that as long
as nobody failed the requests that changed the status are just those with a
message or about to send one (`CalmIsTold`).

The assumptions are those of the constants: traffic is made of requests, they
are finitely many, and the writer makes at least one attempt.

### The composed service

`System_proofs` holds for any users, finitely many requests, pool and faults.

| theorem | property |
|---|---|
| `EventsMatchRows` | `EventIffRow` |
| `PublishedTransfersArePaid` | `PublishedIsPaid` |
| `DeliveryIsImplemented` | `ImplementsDelivery` |
| `HandlersRunAsAlone` | every behaviour is one of `WalletTransactions` |

By `HandlersRunAsAlone` the theorems about transfers above hold of the service as
well. There is no such theorem for the worker, because one crash rolls all open
transactions back at once, which is many steps of `Outbox`; and the prover cannot
use a theorem about a module that is instantiated. `OutboxInv` therefore repeats
the invariant of `Outbox_proofs` with that crash as one more step. `RowInv` says
what rows know of requests: an id has a row only if its transfer ended, with that
sender and amount, and was answered `"ok"` or `"internal"`. `EventIffRow` joins the
two and needs both: that only a handler at its commit makes a row, and that this
very step commits the event.

### The process

`Lifecycle_proofs` holds for any transfers, flags and number of processes.

| theorem | property |
|---|---|
| `TypeCorrect` | `TypeOK` |
| `HandlersKeepConnections` | `RequestsKeepConnections` |
| `ExitIsClean` | `CleanExit` |
| `DeliveryIsImplemented` | `ImplementsDelivery` |

`ProcessInv` ties what is open to where `main` is: everything until `Shutdown`
has returned, then what the deferred calls have left; and requests outlive
`Shutdown` only if it was late. `WrittenInv` is `MarkedIsWritten` with the Kafka
writer in between: the worker marks only what it was told is stored, although the
writer stores on its own and goes on when the worker is cancelled.

### Admission and lists

| theorem | property |
|---|---|
| `HttpApi_proofs`: `TypeCorrect` | `TypeOK` |
| `OnlyAdmittedCallersAreServed` | `OnlyAdmitted` |
| `RequestsAreAnsweredOnce` | `AnsweredOnce` |
| `CodesTellTheOutcome` | `CodeTellsOutcome` |
| `EntriesAnswerTheirIds` | `EntriesMatchIds` |
| `TxnList_proofs`: `PagesAreRight` | `PageIsRight` |
| `NoRowIsMissed` | `NothingMissed`, for walks that start at the top (`FromTheTop`) |

`FlowInv` says what the rest of the chain reveals about the caller: whoever
reaches a handler behind `RequireAdmin` has claims that say admin, and claims are
those of a genuine token; a code is written exactly when nothing is left to run.
Lemmas about the switches of the handlers and about `NewWalletStatusList`, for
lists of any length, do the rest.

`TxnList_proofs` holds for any finite set of transactions, any users and any
filters. `SelectedIsWanted` shows that the numbers of the placeholders fit: what
the built conditions select is what was asked for, whichever parts of the filter
are set. `CutIsPage` shows that a cut of *any* order of those rows by time is a
page, so that ties may be broken differently each time. `WalkInv` is the argument
of a walk: a row of the start that was not received has at least `Offset` newer
rows, so it is not above the next page. A commit only adds newer rows; a page
moves the offset by what it returned. `FromTheTop` says that no filter starts
behind the first row, which is what a walk through the whole list is; the
filters of `TxnPages` are such (an offset of 0 or -1).

### Only model-checked

Every invariant, action property and refinement that a passing run checks is
stated by one of these theorems. Left to TLC are the liveness properties
(`CommittedIsDelivered`, `AcceptedIsPublished`, `EveryoneIsAnswered`,
`SignalEndsProcess`): they need fairness, hence `ENABLED`, which is out of the
prover's reach. So is that no run deadlocks. The runs that expect a violation
are counterexamples, and of these only the half cents are also a theorem
(`HalfCentsDrift`).

## 5. What is left out

- Amounts are decimals with one more digit than the columns keep; that
  distinguishes exact, rounded and tied values. The `numeric` binding admits
  finite decimals only. Currency, timestamps and the payload's JSON affect no
  step.
- `GetMine`, one SELECT, is an outcome in `HttpApi`; no route calls `GetByID`.
- Which bodies bind is a yes or no; signatures and expiry are kinds of tokens.
- `Lifecycle` has the control of a process and not the data: a batch is all
  pending rows, in any order, and the database and Kafka fail only by being
  closed or cancelled. `Outbox` and `WalletTransactions` have the rest.
- A panic in a handler: gin's recovery answers 500, and the deferred `Rollback`
  is `StatementError`.
- A second signal, after `NotifyContext` is stopped, is a `Kill`.
- The auth service is only its answer; that a receiver is deactivated after it
  was verified cannot be seen by this code.
- The worker's statements take no connection from the pool in `System`: each is
  one step that waits for no lock, so it only delays the others.
- A flag's message that is still being tried when the process dies is not
  written after that.
- A pool of unlimited size (`SetMaxOpenConns(0)`) is one as large as the number
  of requests.
- Configuration is one step that may end the process; its values, logging and
  the plain records have no behaviour over time. `GetInt` falls back to its
  default for a value that is no number, which no document speaks of.

## 6. Plan

Done: the modules above, in the order `Numeric`, `Ledger`,
`WalletTransactions`, its proofs, `Delivery`, `Outbox`, its proofs, `FraudFlag`,
`Lifecycle`, `System`, `TxnList`, `WalletStatusList`, `HttpApi`.

Questions that share an instance share a run: a property is checked where the
most can go wrong with it.

The proofs cover every safety property of the runs. What they could say beyond
that, in this order:

1. `Numeric`: that rounding is the only loss, for any amount: a transfer of any
   amount changes the sum of two balances by at most one cent.
2. `WalletTransactions`: without the assumption `WholeCents`, money moves as
   `TransferMatchesRow` says up to that cent.
3. `Outbox`: for senders who do not wait, that events which are in a batch
   together are published in the order they began, which `OrderUntilPublishFails`
   does not cover.
