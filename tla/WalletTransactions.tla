------------------------- MODULE WalletTransactions -------------------------
(***************************************************************************)
(* The requests that move money or gate it, running concurrently against   *)
(* one PostgreSQL database at its default isolation level, READ COMMITTED: *)
(*                                                                         *)
(*   POST /transactions      TransactionService.Create                     *)
(*   POST /wallets           WalletService.Create                          *)
(*   POST /wallets/topup     WalletService.TopUp                           *)
(*   PATCH /wallets/:userId  WalletService.SetEnabled                      *)
(*                                                                         *)
(* One step is one SQL statement or one remote call, because that is where *)
(* two requests can interleave.  An UPDATE is two steps: it evaluates its  *)
(* WHERE on the rows committed when the statement starts, then waits for   *)
(* the row lock, keeping its connection, and evaluates WHERE again on the  *)
(* row as it finds it.                                                     *)
(*                                                                         *)
(* Abstracted: amounts and balances are Numeric's mills and cents; the     *)
(* currency, the timestamps and the JSON payload do not affect any step;   *)
(* the outbox event is inserted and committed with its transaction row and *)
(* is modelled in Outbox.                                                  *)
(***************************************************************************)
EXTENDS Numeric, FiniteSets

CONSTANTS Users,           \* user ids
          Requests,        \* HTTP requests; a transfer's transaction id is its request
          None,            \* no request holds the row lock
          Traffic,         \* the requests clients may send
          StartBalances,   \* the balances wallets may have at the start, in cents
          MaxBalance,      \* largest NUMERIC(18, 2), in cents
          MaxOpenConns     \* size of the connection pool

Operations == {"transfer", "topup", "create", "enable", "disable"}

\* user is the caller, or the owner of the wallet an administrator toggles;
\* to is the receiver of a transfer.  An amount that does not parse, or is not
\* positive, is 0.
Request == [op : Operations, user : Users, to : Users, amount : Nat]

ASSUME TrafficAssumption == Traffic \subseteq Request
ASSUME BalanceAssumption == MaxBalance \in Nat /\ StartBalances \subseteq 0 .. MaxBalance
ASSUME NoneAssumption == None \notin Requests
ASSUME PoolAssumption == MaxOpenConns \in Nat \ {0}

VARIABLES
    wallets,   \* users with a row in table wallets
    balance,   \* wallets.balance as committed, in cents
    enabled,   \* wallets.is_enabled as committed
    txns,      \* rows of table transactions, as committed
    lock,      \* the request whose transaction holds the wallet's row lock
    current,   \* wallets.balance as the holder of the row lock sees it
    req,       \* what each request asks for
    pc,        \* where its handler is
    answer     \* what the client was told

table == <<wallets, enabled, txns>>
rows == <<balance, lock, current>>
vars == <<wallets, balance, enabled, txns, lock, current, req, pc, answer>>

(* Steps of a transfer inside its database transaction, and every place a  *)
(* handler can be.                                                         *)
DebitSteps == {"debit", "debit_lock", "debit_lookup"}
CreditSteps == {"credit", "credit_lock", "credit_lookup"}
TxSteps == DebitSteps \union CreditSteps \union {"insert", "commit"}
Steps == {"sent", "begin", "topup_lock", "topup_lookup", "set_lock", "done"} \union TxSteps

Answers == {"none", "ok", "invalid", "receiver_not_found", "receiver_inactive",
            "insufficient", "not_found", "disabled", "exists", "internal", "lost"}

Row == [id : Requests, sender : Users, receiver : Users, amount : Nat]

TypeOK ==
    /\ wallets \subseteq Users
    /\ balance \in [Users -> 0 .. MaxBalance]
    /\ enabled \in [Users -> BOOLEAN]
    /\ txns \subseteq Row
    /\ lock \in [Users -> Requests \union {None}]
    /\ current \in [Users -> 0 .. MaxBalance]
    /\ req \in [Requests -> Traffic]
    /\ pc \in [Requests -> Steps]
    /\ answer \in [Requests -> Answers]

\* A wallet that does not exist yet carries the defaults of its columns.
Init ==
    /\ wallets \in SUBSET Users
    /\ balance \in [Users -> StartBalances \union {0}]
    /\ \A u \in wallets : balance[u] \in StartBalances
    /\ enabled \in [Users -> BOOLEAN]
    /\ \A u \in Users \ wallets : balance[u] = 0 /\ enabled[u]
    /\ txns = {}
    /\ lock = [u \in Users |-> None]
    /\ current = balance
    /\ req \in [Requests -> Traffic]
    /\ pc = [r \in Requests |-> "sent"]
    /\ answer = [r \in Requests |-> "none"]

-----------------------------------------------------------------------------
(* The pool: a transaction keeps its connection until it ends, a statement *)
(* outside one until it returns.                                           *)

HoldsConnection(r) == pc[r] \in TxSteps \union {"topup_lock", "set_lock"}

ConnectionFree ==
    Cardinality({r \in Requests : HoldsConnection(r)}) < MaxOpenConns

(* Handlers. *)

At(r, op, step) == req[r].op = op /\ pc[r] = step

Goto(r, step) == pc' = [pc EXCEPT ![r] = step] /\ UNCHANGED answer

Reply(r, a) ==
    /\ pc' = [pc EXCEPT ![r] = "done"]
    /\ answer' = [answer EXCEPT ![r] = a]

\* Mutation: no deferred Rollback; an early return leaves the transaction open.
RollbackForgotten(r) == UNCHANGED rows

\* Row locks of r are released and what it wrote under them is discarded.
Rollback(r) ==
    /\ lock' = [u \in Users |-> IF lock[u] = r THEN None ELSE lock[u]]
    /\ current' = [u \in Users |-> IF lock[u] = r THEN balance[u] ELSE current[u]]
    /\ UNCHANGED balance

\* Row locks of r are released and what it wrote under them is committed.
CommitRows(r) ==
    /\ lock' = [u \in Users |-> IF lock[u] = r THEN None ELSE lock[u]]
    /\ balance' = [u \in Users |-> IF lock[u] = r THEN current[u] ELSE balance[u]]
    /\ UNCHANGED current

\* Mutation: the WHERE clause of Debit, or of Credit, forgets is_enabled.
DebitMatchesFrozen(u, b, m) == u \in wallets /\ Covers(b, m)
CreditMatchesFrozen(u) == u \in wallets

\* The WHERE clauses of Debit, and of Credit and AddBalance, on a balance b.
DebitMatches(u, b, m) == u \in wallets /\ Covers(b, m) /\ enabled[u]
CreditMatches(u) == u \in wallets /\ enabled[u]

Free(r, u) == lock[u] \in {None, r}

\* Take the row lock of u and, if the row still matches, write b into it.
Write(r, u, b) ==
    /\ lock' = [lock EXCEPT ![u] = r]
    /\ current' = [current EXCEPT ![u] = b]
    /\ UNCHANGED balance

TakeLock(r, u) ==
    /\ lock' = [lock EXCEPT ![u] = r]
    /\ UNCHANGED <<balance, current>>

\* The lookup after an UPDATE that changed no row: is the wallet missing or
\* disabled?  otherwise is the error when it turns out to be neither.
Classify(u, otherwise) ==
    IF u \notin wallets THEN "not_found"
    ELSE IF ~enabled[u] THEN "disabled"
    ELSE otherwise

-----------------------------------------------------------------------------
(* POST /transactions. *)

\* ParseFloat fails or the amount is not positive.
RejectAmount(r) ==
    /\ At(r, "transfer", "sent") \/ At(r, "topup", "sent")
    /\ req[r].amount = 0
    /\ Reply(r, "invalid")
    /\ UNCHANGED <<table, rows, req>>

\* What authclient.GetUser may say against a receiver: no such user, an
\* inactive one, or no usable response within the client's five seconds.
Refusals == {"receiver_not_found", "receiver_inactive", "internal"}

VerifyReceiver(r) ==
    /\ At(r, "transfer", "sent")
    /\ req[r].amount > 0
    /\ \/ Goto(r, "begin")
       \/ \E a \in Refusals : Reply(r, a)
    /\ UNCHANGED <<table, rows, req>>

BeginTx(r) ==
    /\ pc[r] = "begin"
    /\ ConnectionFree
    /\ Goto(r, "debit")
    /\ UNCHANGED <<table, rows, req>>

DebitScan(r) ==
    LET from == req[r].user IN
    /\ pc[r] = "debit"
    /\ IF DebitMatches(from, balance[from], req[r].amount)
          THEN Goto(r, "debit_lock")
          ELSE Goto(r, "debit_lookup")
    /\ UNCHANGED <<table, rows, req>>

\* Mutation: check, then write; the row is not checked again under the lock.
DebitUnchecked(r) ==
    LET from == req[r].user IN
    /\ pc[r] = "debit_lock"
    /\ Free(r, from)
    /\ Write(r, from, Debited(current[from], req[r].amount))
    /\ Goto(r, "credit")
    /\ UNCHANGED <<table, req>>

\* The lock is kept even when the row no longer matches.
DebitUpdate(r) ==
    LET from == req[r].user
        m == req[r].amount
    IN
    /\ pc[r] = "debit_lock"
    /\ Free(r, from)
    /\ IF DebitMatches(from, current[from], m)
          THEN Write(r, from, Debited(current[from], m)) /\ Goto(r, "credit")
          ELSE TakeLock(r, from) /\ Goto(r, "debit_lookup")
    /\ UNCHANGED <<table, req>>

\* Mutation: the lookup runs on a second connection instead of the
\* transaction's own.
DebitLookupFromPool(r) ==
    /\ pc[r] = "debit_lookup"
    /\ ConnectionFree
    /\ Reply(r, Classify(req[r].user, "insufficient"))
    /\ Rollback(r)
    /\ UNCHANGED <<table, req>>

DebitLookup(r) ==
    /\ pc[r] = "debit_lookup"
    /\ Reply(r, Classify(req[r].user, "insufficient"))
    /\ Rollback(r)
    /\ UNCHANGED <<table, req>>

CreditScan(r) ==
    /\ pc[r] = "credit"
    /\ IF CreditMatches(req[r].to)
          THEN Goto(r, "credit_lock")
          ELSE Goto(r, "credit_lookup")
    /\ UNCHANGED <<table, rows, req>>

\* A balance that does not fit the column is a statement error.
CreditUpdate(r) ==
    LET to == req[r].to
        b == Credited(current[to], req[r].amount)
    IN
    /\ pc[r] = "credit_lock"
    /\ Free(r, to)
    /\ \/ /\ CreditMatches(to)
          /\ b <= MaxBalance
          /\ Write(r, to, b)
          /\ Goto(r, "insert")
       \/ /\ CreditMatches(to)
          /\ b > MaxBalance
          /\ Rollback(r)
          /\ Reply(r, "internal")
       \/ /\ ~CreditMatches(to)
          /\ TakeLock(r, to)
          /\ Goto(r, "credit_lookup")
    /\ UNCHANGED <<table, req>>

\* Mutation: the error of Credit is not returned.
CreditErrorIgnored(r) ==
    /\ pc[r] = "credit_lookup"
    /\ Goto(r, "insert")
    /\ UNCHANGED <<table, rows, req>>

CreditLookup(r) ==
    /\ pc[r] = "credit_lookup"
    /\ Reply(r, Classify(req[r].to, "not_found"))
    /\ Rollback(r)
    /\ UNCHANGED <<table, req>>

RowOf(r) == [id |-> r, sender |-> req[r].user, receiver |-> req[r].to,
             amount |-> Cents(req[r].amount)]

\* Mutation: the row is inserted outside the transaction.
InsertOutsideTx(r) ==
    /\ pc[r] = "insert"
    /\ Cents(req[r].amount) > 0
    /\ txns' = txns \union {RowOf(r)}
    /\ Goto(r, "commit")
    /\ UNCHANGED <<wallets, enabled, rows, req>>

\* The row and its outbox event.  CHECK (amount > 0) is on the stored amount.
InsertRows(r) ==
    /\ pc[r] = "insert"
    /\ IF Cents(req[r].amount) > 0
          THEN Goto(r, "commit") /\ UNCHANGED rows
          ELSE Reply(r, "internal") /\ Rollback(r)
    /\ UNCHANGED <<table, req>>

\* COMMIT may take effect and its acknowledgement still be lost; the client
\* then gets a 500, or nothing if the process died: "internal" is both.
Commit(r) ==
    /\ pc[r] = "commit"
    /\ CommitRows(r)
    /\ txns' = txns \union {RowOf(r)}
    /\ \E a \in {"ok", "internal"} : Reply(r, a)
    /\ UNCHANGED <<wallets, enabled, req>>

-----------------------------------------------------------------------------
(* POST /wallets/topup, POST /wallets, PATCH /wallets/:userId: statements  *)
(* outside a transaction.  Here too an effect may go unacknowledged.       *)

TopUpScan(r) ==
    /\ At(r, "topup", "sent")
    /\ req[r].amount > 0
    /\ ConnectionFree
    /\ IF CreditMatches(req[r].user)
          THEN Goto(r, "topup_lock")
          ELSE Goto(r, "topup_lookup")
    /\ UNCHANGED <<table, rows, req>>

TopUpUpdate(r) ==
    LET u == req[r].user
        b == Credited(current[u], req[r].amount)
    IN
    /\ pc[r] = "topup_lock"
    /\ lock[u] = None
    /\ \/ /\ CreditMatches(u)
          /\ b <= MaxBalance
          /\ balance' = [balance EXCEPT ![u] = b]
          /\ current' = [current EXCEPT ![u] = b]
          /\ \E a \in {"ok", "internal"} : Reply(r, a)
       \/ /\ CreditMatches(u)
          /\ b > MaxBalance
          /\ Reply(r, "internal")
          /\ UNCHANGED <<balance, current>>
       \/ /\ ~CreditMatches(u)
          /\ Goto(r, "topup_lookup")
          /\ UNCHANGED <<balance, current>>
    /\ UNCHANGED <<table, lock, req>>

\* classifyMissingOrDisabled, on a connection of its own.
TopUpLookup(r) ==
    /\ pc[r] = "topup_lookup"
    /\ ConnectionFree
    /\ Reply(r, Classify(req[r].user, "not_found"))
    /\ UNCHANGED <<table, rows, req>>

\* Mutation: INSERT ... ON CONFLICT DO UPDATE SET balance = 0.
CreateWalletResets(r) ==
    LET u == req[r].user IN
    /\ At(r, "create", "sent")
    /\ lock[u] = None
    /\ Reply(r, "ok")
    /\ wallets' = wallets \union {u}
    /\ balance' = [balance EXCEPT ![u] = 0]
    /\ current' = [current EXCEPT ![u] = 0]
    /\ UNCHANGED <<enabled, txns, lock, req>>

CreateWallet(r) ==
    LET u == req[r].user IN
    /\ At(r, "create", "sent")
    /\ ConnectionFree
    /\ IF u \in wallets
          THEN Reply(r, "exists")
          ELSE \E a \in {"ok", "internal"} : Reply(r, a)
    /\ wallets' = wallets \union {u}
    /\ UNCHANGED <<enabled, txns, rows, req>>

\* A wallet that is there stays there: its row matches whoever locked it.
SetEnabledScan(r, op) ==
    /\ At(r, op, "sent")
    /\ ConnectionFree
    /\ IF req[r].user \in wallets
          THEN Goto(r, "set_lock")
          ELSE Reply(r, "not_found")
    /\ UNCHANGED <<table, rows, req>>

SetEnabled(r, op, on) ==
    /\ At(r, op, "set_lock")
    /\ lock[req[r].user] = None
    /\ enabled' = [enabled EXCEPT ![req[r].user] = on]
    /\ \E a \in {"ok", "internal"} : Reply(r, a)
    /\ UNCHANGED <<wallets, txns, rows, req>>

-----------------------------------------------------------------------------
(* What can go wrong around the statements. *)

\* A statement, BEGIN or COMMIT fails (connection lost, context cancelled by
\* a client that went away): the deferred Rollback runs, the answer is 500.
StatementError(r) ==
    /\ \/ pc[r] \in TxSteps \union {"begin", "topup_lock", "topup_lookup", "set_lock"}
       \/ pc[r] = "sent" /\ req[r].op \in {"topup", "create", "enable", "disable"}
                         /\ (req[r].op = "topup" => req[r].amount > 0)
    /\ Rollback(r)
    /\ Reply(r, "internal")
    /\ UNCHANGED <<table, req>>

\* The row a blocked request waits for.
WaitsOn(r) ==
    CASE pc[r] \in {"debit_lock", "topup_lock", "set_lock"} -> req[r].user
      [] pc[r] = "credit_lock" -> req[r].to

Blocked(r) ==
    /\ pc[r] \in {"debit_lock", "credit_lock", "topup_lock", "set_lock"}
    /\ ~Free(r, WaitsOn(r))

Blocker(r) == lock[WaitsOn(r)]

\* r waits for itself: each of a set of requests waits for one of the set and
\* is waited for by one of it.
InDeadlock(r) ==
    \E C \in SUBSET Requests :
       /\ r \in C
       /\ \A x \in C : Blocked(x) /\ Blocker(x) \in C
       /\ \A x \in C : \E y \in C : Blocker(y) = x

\* PostgreSQL breaks the cycle by failing one of its transactions.
AbortDeadlock(r) ==
    /\ InDeadlock(r)
    /\ Rollback(r)
    /\ Reply(r, "internal")
    /\ UNCHANGED <<table, req>>

\* The process dies: its transactions are rolled back and nobody is answered.
Crash ==
    LET inFlight == {r \in Requests : pc[r] \notin {"sent", "done"}} IN
    /\ inFlight # {}
    /\ pc' = [r \in Requests |-> IF r \in inFlight THEN "done" ELSE pc[r]]
    /\ answer' = [r \in Requests |-> IF r \in inFlight THEN "lost" ELSE answer[r]]
    /\ lock' = [u \in Users |-> None]
    /\ current' = balance
    /\ UNCHANGED <<table, balance, req>>

\* Nothing is left to do once every request is answered.
Quiesced == (\A r \in Requests : pc[r] = "done") /\ UNCHANGED vars

-----------------------------------------------------------------------------
\* A step a request takes on its own.
Serve(r) ==
    \/ RejectAmount(r) \/ VerifyReceiver(r) \/ BeginTx(r)
    \/ DebitScan(r) \/ DebitUpdate(r) \/ DebitLookup(r)
    \/ CreditScan(r) \/ CreditUpdate(r) \/ CreditLookup(r)
    \/ InsertRows(r) \/ Commit(r)
    \/ TopUpScan(r) \/ TopUpUpdate(r) \/ TopUpLookup(r)
    \/ CreateWallet(r)
    \/ SetEnabledScan(r, "enable") \/ SetEnabledScan(r, "disable")
    \/ SetEnabled(r, "enable", TRUE) \/ SetEnabled(r, "disable", FALSE)

Next ==
    \/ \E r \in Requests : Serve(r) \/ StatementError(r) \/ AbortDeadlock(r)
    \/ Crash
    \/ Quiesced

Spec == Init /\ [][Next]_vars

-----------------------------------------------------------------------------
(* Properties. *)

\* The abstract ledger, read off the committed tables.
L == INSTANCE Ledger WITH TxnIds <- Requests

InTx(r) == pc[r] \in TxSteps

\* A row lock belongs to a transaction that is still open, on a wallet it
\* moves money to or from, and a row nobody has locked has no uncommitted
\* balance: rollbacks, commits and crashes leave nothing behind.
LocksBelongToOpenTransactions ==
    \A u \in Users :
       /\ lock[u] # None =>
             InTx(lock[u]) /\ u \in {req[lock[u]].user, req[lock[u]].to}
       /\ lock[u] = None => current[u] = balance[u]

\* What an open transfer has done so far: before the debit it holds no lock;
\* after it, the sender's row is locked, still enabled, and lacks the amount;
\* before COMMIT both rows are locked, both are enabled, and nothing another
\* request does can change the balances the transaction computed from.
InFlight(r) ==
    LET from == req[r].user
        to == req[r].to
        m == req[r].amount
        usable(u) == u \in wallets /\ enabled[u] /\ lock[u] = r
    IN
    /\ pc[r] \in TxSteps \union {"begin"} => req[r].op = "transfer" /\ m > 0
    /\ pc[r] \in {"topup_lock", "topup_lookup"} => req[r].op = "topup" /\ m > 0
    /\ pc[r] = "set_lock" => req[r].op \in {"enable", "disable"} /\ from \in wallets
    /\ pc[r] \in {"debit", "debit_lock"} => \A u \in Users : lock[u] # r
    /\ pc[r] \in CreditSteps =>
          /\ usable(from)
          /\ current[from] = Debited(balance[from], m)
          /\ to # from /\ lock[to] = r => current[to] = balance[to]
    /\ pc[r] \in {"insert", "commit"} =>
          /\ usable(from) /\ usable(to)
          /\ to # from => /\ current[from] = Debited(balance[from], m)
                         /\ current[to] = Credited(balance[to], m)
          /\ to = from => current[to] = Credited(Debited(balance[to], m), m)
    /\ pc[r] \in CreditSteps \union {"insert", "commit"} => Covers(balance[from], m)
    /\ pc[r] = "commit" => Cents(m) > 0

TransfersInFlight == \A r \in Requests : InFlight(r)

\* What the client is told is what happened: a transfer answered with success
\* has its row, and one refused for any reason the client can act on moved
\* nothing.  Only a 500 or a lost connection leaves the outcome open.
AnswerTellsOutcome ==
    \A r \in Requests :
       LET recorded == \E row \in txns : row.id = r IN
       /\ (answer[r] = "ok" /\ req[r].op = "transfer") => recorded
       /\ recorded => answer[r] \in {"ok", "internal"}

\* While a wallet stays frozen its balance stays what it was: an administrator
\* who got an answer to disable sees no transfer or top-up land afterwards,
\* not even one that had passed its checks before.
FrozenKeepsBalance ==
    [][\A u \in Users : ~enabled[u] /\ ~enabled'[u] => balance'[u] = balance[u]]_vars

\* Whenever balances change, either one wallet was topped up by what its owner
\* asked for, or one new row of transactions says who paid whom how much.
TransferMatchesRow ==
    [][balance' # balance =>
         \/ /\ txns' = txns
            /\ \E r \in Requests :
                  /\ pc[r] = "topup_lock" /\ pc'[r] = "done"
                  /\ balance' = [balance EXCEPT ![req[r].user] =
                                    @ + Cents(req[r].amount)]
         \/ \E row \in txns' \ txns :
               /\ txns' = txns \union {row}
               /\ balance' = L!Moved(row.sender, row.receiver, row.amount)]_vars

\* The lookup after an UPDATE that changed no row exists "so the caller gets an
\* accurate error" (wallet_repository.go:210-212): whoever is told that a
\* wallet does not exist has, at that moment, a wallet missing.
NotFoundMeansNoWallet ==
    [][\A r \in Requests :
         answer[r] # "not_found" /\ answer'[r] = "not_found" =>
            {req[r].user, req[r].to} \ wallets # {}]_vars

\* The requests, with all their interleavings, errors and crashes, do nothing
\* to the committed tables that the abstract ledger does not.
ImplementsLedger == L!Spec

\* Every request is answered: no deadlock, lock queue or exhausted connection
\* pool keeps a client waiting for ever.
AllAnswered == <>(\A r \in Requests : pc[r] = "done")
=============================================================================
