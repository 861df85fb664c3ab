---------------------------- MODULE System_proofs ----------------------------
(***************************************************************************)
(* Proofs about the composed service, for any requests, traffic, pool and  *)
(* failures.  The worker's part of the argument is that of Outbox_proofs,  *)
(* with the crash that takes handlers and worker together as a further     *)
(* step; the requests' part only needs what a handler does to its own row  *)
(* and answer.                                                             *)
(***************************************************************************)
EXTENDS System, FiniteSetTheorems, TLAPS

Typed ==
    /\ stage \in [Requests -> O!Stages]
    /\ created \in [Requests -> Nat]
    /\ topic \in [Users -> Seq(Requests)]
    /\ batch \in [{Worker} -> SUBSET Requests]
    /\ wpc \in [{Worker} -> {"poll", "publish", "mark"}]

Begun == {x \in Requests : created[x] > 0}

\* created_at tells the rows apart.
Stamped ==
    /\ \A e \in Requests : stage[e] = "none" <=> created[e] = 0
    /\ \A e \in Requests : created[e] <= Cardinality(Begun)
    /\ \A e, x \in Requests : created[e] > 0 /\ created[e] = created[x] => e = x

\* The worker only holds rows of committed transfers, and marks what is in Kafka.
BatchIsCommitted == batch[Worker] \subseteq O!Committed

MarkedIsWritten ==
    \A e \in Requests : wpc[Worker] = "mark" /\ O!IsCurrent(Worker, e) => D!InTopic(e)

\* Kafka holds committed events, each under the key of its sender.
TopicIsCommitted ==
    \A u \in Users : \A i \in 1 .. Len(topic[u]) :
       topic[u][i] \in O!Committed /\ SenderOf[topic[u][i]] = u

OutboxInv == Typed /\ Stamped /\ BatchIsCommitted /\ MarkedIsWritten /\ TopicIsCommitted

-----------------------------------------------------------------------------
(* What the steps of the outbox preserve.                                  *)

\* The Cardinality that Outbox counts with is that of the library's theorems.
LEMMA SameCardinality == \A S : O!Cardinality(S) = Cardinality(S)
  BY DEF O!Cardinality, Cardinality

\* Finitely many transfers have begun, so a creation stamp is a number.
LEMMA BegunIsFinite ==
    IsFiniteSet(Begun) /\ Cardinality(Begun) \in Nat
<1>1. IsFiniteSet(Begun)
  BY RequestsAssumption, FS_Subset DEF Begun
<1> QED
  BY <1>1, FS_CardinalityType

\* A write of a committed event keeps what was written before it, and adds it.
LEMMA WriteAppends ==
    ASSUME OutboxInv, NEW e \in O!Committed, O!Write(e)
    PROVE  /\ topic' \in [Users -> Seq(Requests)]
           /\ D!InTopic(e)'
           /\ \A x \in Requests : D!InTopic(x) => D!InTopic(x)'
           /\ \A u \in Users : \A i \in 1 .. Len(topic'[u]) :
                 topic'[u][i] \in O!Committed /\ SenderOf[topic'[u][i]] = u
<1> DEFINE s == SenderOf[e]
<1>1. e \in Requests /\ s \in Users /\ topic[s] \in Seq(Requests)
  BY CallerAssumption DEF OutboxInv, Typed, O!Committed
<1>2. topic'[s] = Append(topic[s], e) /\ \A t \in Users \ {s} : topic'[t] = topic[t]
  BY <1>1 DEF O!Write, OutboxInv, Typed
<1>3. /\ Len(topic'[s]) = Len(topic[s]) + 1
      /\ topic'[s][Len(topic[s]) + 1] = e
      /\ \A i \in 1 .. Len(topic[s]) : topic'[s][i] = topic[s][i]
      /\ Len(topic[s]) \in Nat
  BY <1>1, <1>2
<1>4. D!InTopic(e)'
  BY <1>3 DEF D!InTopic
<1>5. ASSUME NEW x \in Requests, D!InTopic(x) PROVE D!InTopic(x)'
  <2>1. CASE SenderOf[x] = s
    BY <1>3, <1>5, <2>1 DEF D!InTopic
  <2>2. CASE SenderOf[x] # s
    <3>1. SenderOf[x] \in Users \ {s}
      BY <2>2, CallerAssumption
    <3>2. topic'[SenderOf[x]] = topic[SenderOf[x]]
      BY <1>2, <3>1
    <3> QED
      BY <1>5, <3>2 DEF D!InTopic
  <2> QED
    BY <2>1, <2>2
<1>6. ASSUME NEW u \in Users, NEW i \in 1 .. Len(topic'[u])
      PROVE  topic'[u][i] \in O!Committed /\ SenderOf[topic'[u][i]] = u
  <2>1. CASE u # s
    BY <1>2, <1>6, <2>1 DEF OutboxInv, TopicIsCommitted
  <2>2. CASE u = s /\ i = Len(topic[s]) + 1
    BY <1>3, <2>2
  <2>3. CASE u = s /\ i # Len(topic[s]) + 1
    <3>1. i \in 1 .. Len(topic[s])
      BY <1>3, <1>6, <2>3
    <3> QED
      BY <1>3, <2>3, <3>1 DEF OutboxInv, TopicIsCommitted
  <2> QED
    BY <2>1, <2>2, <2>3
<1>7. topic' \in [Users -> Seq(Requests)]
  BY <1>1, <1>2 DEF O!Write, OutboxInv, Typed
<1> QED
  BY <1>4, <1>5, <1>6, <1>7

\* The transfer's BEGIN stamps a new row.
LEMMA BeginKeeps ==
    ASSUME OutboxInv, NEW e \in Requests, O!Begin(e)
    PROVE  OutboxInv'
<1> DEFINE n == Cardinality(Begun)
<1>1. /\ stage[e] = "none" /\ created[e] = 0
      /\ stage' = [stage EXCEPT ![e] = "open"]
      /\ created' = [created EXCEPT ![e] = n + 1]
      /\ topic' = topic /\ batch' = batch /\ wpc' = wpc
  BY SameCardinality DEF O!Begin, O!worker, Begun, OutboxInv, Stamped
<1>2. n \in Nat
  BY BegunIsFinite
<1>3. Cardinality(Begun') = n + 1
  <2>1. Begun' = Begun \union {e} /\ e \notin Begun
    <3>1. /\ \A x \in Requests \ {e} : created'[x] = created[x]
          /\ created'[e] > 0 /\ created[e] = 0
      BY <1>1, <1>2 DEF OutboxInv, Typed
    <3> QED
      BY <3>1 DEF Begun
  <2> QED
    BY <2>1, BegunIsFinite, FS_AddElement
<1>4. \A x \in Requests : created[x] \in Nat /\ created[x] <= n
  BY DEF OutboxInv, Stamped, Typed
<1> HIDE DEF n
<1>5. /\ \A x \in Requests \ {e} : created'[x] = created[x] /\ stage'[x] = stage[x]
      /\ created'[e] = n + 1 /\ stage'[e] = "open"
  BY <1>1 DEF OutboxInv, Typed
<1>6. Typed'
  BY <1>1, <1>2 DEF OutboxInv, Typed, O!Stages
<1>7. Stamped'
  <2>1. \A x \in Requests : stage'[x] = "none" <=> created'[x] = 0
    BY <1>2, <1>5 DEF OutboxInv, Stamped
  <2>2. \A x \in Requests : created'[x] <= n + 1
    BY <1>2, <1>4, <1>5
  <2>3. \A x, y \in Requests : created'[x] > 0 /\ created'[x] = created'[y] => x = y
    BY <1>2, <1>4, <1>5 DEF OutboxInv, Stamped
  <2> QED
    BY <1>3, <2>1, <2>2, <2>3 DEF Stamped
<1>8. e \notin O!Committed /\ O!Committed' = O!Committed
  BY <1>1, <1>5 DEF O!Committed
<1>9. BatchIsCommitted' /\ TopicIsCommitted'
  BY <1>1, <1>8 DEF OutboxInv, BatchIsCommitted, TopicIsCommitted
<1>10. MarkedIsWritten'
  <2>1. \A x \in batch[Worker] : x \in Requests \ {e}
    BY <1>8 DEF OutboxInv, BatchIsCommitted, Typed
  <2>2. \A x \in Requests : O!IsCurrent(Worker, x)' => O!IsCurrent(Worker, x)
    BY <1>1, <1>5, <2>1 DEF O!IsCurrent
  <2> QED
    BY <1>1, <2>2 DEF OutboxInv, MarkedIsWritten, D!InTopic
<1> QED
  BY <1>6, <1>7, <1>9, <1>10 DEF OutboxInv

\* COMMIT or ROLLBACK decides over the row the worker has not seen yet.
LEMMA EndTxKeeps ==
    ASSUME OutboxInv, NEW e \in Requests, NEW outcome \in {"unpublished", "aborted"},
           O!EndTx(e, outcome)
    PROVE  OutboxInv'
<1>1. /\ \A x \in Requests : x \in O!Committed => x \in O!Committed'
      /\ \A x \in Requests : stage'[x] = "none" <=> stage[x] = "none"
      /\ O!Committed \subseteq Requests
  BY DEF O!EndTx, O!Committed, OutboxInv, Typed
<1>2. UNCHANGED <<created, topic, batch, wpc>>
  BY DEF O!EndTx, O!worker
<1>3. Typed'
  BY <1>2 DEF O!EndTx, OutboxInv, Typed, O!Stages
<1> QED
  BY <1>1, <1>2, <1>3 DEF OutboxInv, Stamped, Begun, BatchIsCommitted, MarkedIsWritten,
                          TopicIsCommitted, O!IsCurrent, D!InTopic

\* The worker leaves a row, or all of them: whatever it marked or wrote stays.
LEMMA LeavingKeeps ==
    ASSUME OutboxInv,
           batch' \in [{Worker} -> SUBSET batch[Worker]],
           wpc' \in [{Worker} -> {"poll", "publish"}],
           created' = created,
           stage' \in [Requests -> O!Stages],
           \A x \in Requests : x \in O!Committed => x \in O!Committed',
           \A x \in Requests : stage'[x] = "none" <=> stage[x] = "none",
           \/ topic' = topic
           \/ \E e \in O!Committed : O!Write(e)
    PROVE  OutboxInv'
<1>1. O!Committed \subseteq Requests
  BY DEF O!Committed
<1>2. Typed'
  BY WriteAppends DEF OutboxInv, Typed
<1>3. TopicIsCommitted'
  <2>1. CASE topic' = topic
    BY <1>1, <2>1 DEF OutboxInv, TopicIsCommitted
  <2>2. CASE \E e \in O!Committed : O!Write(e)
    BY <1>1, <2>2, WriteAppends DEF TopicIsCommitted
  <2> QED
    BY <2>1, <2>2
<1>4. batch'[Worker] \subseteq batch[Worker] /\ wpc'[Worker] # "mark"
  OBVIOUS
<1>5. BatchIsCommitted' /\ MarkedIsWritten'
  BY <1>1, <1>4 DEF OutboxInv, BatchIsCommitted, MarkedIsWritten
<1>6. Stamped'
  BY DEF OutboxInv, Stamped, Begun
<1> QED
  BY <1>2, <1>3, <1>5, <1>6 DEF OutboxInv

\* A write with the worker still at the row it wrote: no other row is current.
LEMMA WritingKeeps ==
    ASSUME OutboxInv, NEW e \in Requests, O!IsCurrent(Worker, e), O!Write(e),
           UNCHANGED <<stage, created, batch>>,
           wpc' \in [{Worker} -> {"publish", "mark"}]
    PROVE  OutboxInv'
<1>1. e \in O!Committed /\ O!Committed' = O!Committed
  BY DEF O!IsCurrent, OutboxInv, BatchIsCommitted, O!Committed
<1>2. ASSUME NEW x \in Requests, O!IsCurrent(Worker, x) PROVE x = e
  <2>1. x \in batch[Worker] /\ e \in batch[Worker]
    BY <1>2 DEF O!IsCurrent
  <2>2. created[e] > 0
    BY <1>1 DEF OutboxInv, Typed, Stamped, O!Committed
  <2>3. created[e] = created[x]
    BY <1>2, <2>1 DEF O!IsCurrent, OutboxInv, Typed
  <2> QED
    BY <2>2, <2>3 DEF OutboxInv, Stamped
<1>3. /\ topic' \in [Users -> Seq(Requests)]
      /\ D!InTopic(e)'
      /\ TopicIsCommitted'
  BY <1>1, WriteAppends DEF TopicIsCommitted
<1>4. MarkedIsWritten'
  BY <1>2, <1>3 DEF MarkedIsWritten, O!IsCurrent
<1> QED
  BY <1>1, <1>3, <1>4 DEF OutboxInv, Typed, Stamped, Begun, BatchIsCommitted

-----------------------------------------------------------------------------
(* What a handler does: it moves on or answers its own request, and only   *)
(* COMMIT writes a row.                                                    *)

RowInv ==
    /\ DOMAIN pc = Requests /\ DOMAIN answer = Requests
    /\ \A r \in Requests : req[r].user = SenderOf[r]
    /\ \A row \in txns : row.id \in Requests /\ row = W!RowOf(row.id)
    /\ \A r \in Requests : Recorded(r) => pc[r] = "done" /\ answer[r] \in {"ok", "internal"}

OwnStep(r) ==
    /\ pc[r] # "done" /\ req' = req
    /\ \E s : pc' = [pc EXCEPT ![r] = s]
    /\ answer' = answer \/ \E a : answer' = [answer EXCEPT ![r] = a]

\* Outside COMMIT a handler leaves the rows of transactions alone.
LEMMA HandlerSteps ==
    ASSUME NEW r \in Requests,
           \/ W!Serve(r) /\ pc[r] # "commit"
           \/ W!StatementError(r)
           \/ W!AbortDeadlock(r)
    PROVE  OwnStep(r) /\ txns' = txns
<1> USE DEF OwnStep, W!table, W!rows, W!Goto, W!Reply, W!At
<1>1. CASE W!RejectAmount(r) \/ W!VerifyReceiver(r)
  BY <1>1 DEF W!RejectAmount, W!VerifyReceiver
<1>2. CASE W!BeginTx(r) \/ W!DebitScan(r) \/ W!DebitUpdate(r) \/ W!DebitLookup(r)
  BY <1>2 DEF W!BeginTx, W!DebitScan, W!DebitUpdate, W!DebitLookup
<1>3. CASE W!CreditScan(r) \/ W!CreditUpdate(r) \/ W!CreditLookup(r)
  BY <1>3 DEF W!CreditScan, W!CreditUpdate, W!CreditLookup
<1>4. CASE W!InsertRows(r) \/ W!TopUpScan(r) \/ W!TopUpLookup(r)
  BY <1>4 DEF W!InsertRows, W!TopUpScan, W!TopUpLookup
<1>5. CASE W!TopUpUpdate(r)
  BY <1>5 DEF W!TopUpUpdate
<1>6. CASE W!CreateWallet(r)
  BY <1>6 DEF W!CreateWallet
<1>7. CASE W!SetEnabled(r, "enable", TRUE) \/ W!SetEnabled(r, "disable", FALSE)
  BY <1>7 DEF W!SetEnabled
<1>11. CASE W!SetEnabledScan(r, "enable") \/ W!SetEnabledScan(r, "disable")
  BY <1>11 DEF W!SetEnabledScan
<1>8. CASE W!StatementError(r)
  BY <1>8 DEF W!StatementError, W!TxSteps, W!DebitSteps, W!CreditSteps
<1>9. CASE W!AbortDeadlock(r)
  <2>1. W!Blocked(r)
    BY <1>9 DEF W!AbortDeadlock, W!InDeadlock
  <2> QED
    BY <1>9, <2>1 DEF W!AbortDeadlock, W!Blocked
<1>10. ~(W!Commit(r) /\ pc[r] # "commit")
  BY DEF W!Commit
<1> QED
  BY <1>1, <1>2, <1>3, <1>4, <1>5, <1>6, <1>7, <1>8, <1>9, <1>10, <1>11 DEF W!Serve

\* So it preserves what is known of rows and answers.
LEMMA OwnStepKeepsRows ==
    ASSUME RowInv, NEW r \in Requests, OwnStep(r), txns' = txns
    PROVE  RowInv'
<1>1. \A x \in Requests \ {r} : pc'[x] = pc[x] /\ answer'[x] = answer[x]
  BY DEF OwnStep, RowInv
<1>2. DOMAIN pc' = Requests /\ DOMAIN answer' = Requests
  BY DEF OwnStep, RowInv
<1>3. \A x \in Requests : Recorded(x)' => x # r /\ Recorded(x)
  BY DEF OwnStep, RowInv, Recorded
<1> QED
  BY <1>1, <1>2, <1>3 DEF OwnStep, RowInv, W!RowOf

\* COMMIT adds the row of its own request and answers it with a success or a 500.
LEMMA CommitAddsRow ==
    ASSUME RowInv, NEW r \in Requests, W!Commit(r)
    PROVE  /\ RowInv'
           /\ \A x \in Requests : Recorded(x)' <=> Recorded(x) \/ x = r
<1>1. PICK a \in {"ok", "internal"} : W!Reply(r, a)
  BY DEF W!Commit
<1>2. /\ pc'[r] = "done" /\ answer'[r] = a
      /\ DOMAIN pc' = Requests /\ DOMAIN answer' = Requests
      /\ \A x \in Requests \ {r} : pc'[x] = pc[x] /\ answer'[x] = answer[x]
  BY <1>1 DEF W!Reply, RowInv
<1>3. txns' = txns \union {W!RowOf(r)} /\ W!RowOf(r).id = r /\ req' = req
  BY DEF W!Commit, W!RowOf
<1>4. \A x \in Requests : Recorded(x)' <=> Recorded(x) \/ x = r
  BY <1>3 DEF Recorded
<1>5. \A row \in txns' : row.id \in Requests /\ row = W!RowOf(row.id)'
  <2>1. \A x : W!RowOf(x)' = W!RowOf(x)
    BY <1>3 DEF W!RowOf
  <2> QED
    BY <1>3, <2>1 DEF RowInv
<1> QED
  BY <1>2, <1>3, <1>4, <1>5 DEF RowInv

-----------------------------------------------------------------------------
(* The invariant of the composed service and its steps.                    *)

SysInv == OutboxInv /\ RowInv /\ EventIffRow

\* Initially nothing is recorded, written or pending.
LEMMA SysInit == Init => SysInv
<1> SUFFICES ASSUME Init PROVE SysInv
  OBVIOUS
<1>1. Stamped
  BY BegunIsFinite DEF Init, O!Init, Stamped
<1>2. OutboxInv
  BY <1>1 DEF Init, O!Init, OutboxInv, Typed, O!Stages, BatchIsCommitted, MarkedIsWritten,
              TopicIsCommitted
<1>3. RowInv /\ EventIffRow
  BY DEF Init, W!Init, O!Init, RowInv, EventIffRow, Recorded
<1> QED
  BY <1>2, <1>3 DEF SysInv

\* A step that commits nothing keeps rows and events in agreement, and what
\* Delivery sees as committed.
LEMMA NothingCommits ==
    ASSUME SysInv, txns' = txns,
           \A x \in Requests : x \in O!Committed' <=> x \in O!Committed
    PROVE  /\ EventIffRow'
           /\ {x \in Requests : Recorded(x)}' = {x \in Requests : Recorded(x)}
  BY DEF SysInv, EventIffRow, Recorded, O!Committed

\* The requests' variables alone carry RowInv.
LEMMA IdleRequests ==
    ASSUME RowInv, UNCHANGED requests
    PROVE  RowInv' /\ txns' = txns
<1>1. txns' = txns /\ req' = req /\ pc' = pc /\ answer' = answer
  BY DEF requests
<1> QED
  BY <1>1 DEF RowInv, Recorded, W!RowOf

\* The outbox' variables alone carry OutboxInv.
LEMMA IdleOutbox ==
    ASSUME OutboxInv, UNCHANGED outbox
    PROVE  /\ OutboxInv' /\ O!Committed' = O!Committed
           /\ topic' = topic /\ stage' = stage
<1>1. UNCHANGED <<stage, created, topic, batch, wpc>>
  BY DEF outbox
<1> QED
  BY <1>1 DEF OutboxInv, Typed, Stamped, Begun, BatchIsCommitted, MarkedIsWritten,
              TopicIsCommitted, O!IsCurrent, O!Committed, D!InTopic

\* A transfer's BEGIN.
LEMMA BeginTxStep ==
    ASSUME SysInv, NEW r \in Requests, BeginTx(r)
    PROVE  SysInv' /\ UNCHANGED D!vars
<1>1. W!Serve(r) /\ pc[r] # "commit"
  BY DEF BeginTx, W!BeginTx, W!Serve
<1>2. RowInv' /\ txns' = txns
  BY <1>1, HandlerSteps, OwnStepKeepsRows DEF SysInv
<1>3. OutboxInv'
  BY BeginKeeps DEF BeginTx, SysInv
<1>4. /\ topic' = topic
      /\ \A x \in Requests : x \in O!Committed' <=> x \in O!Committed
      /\ \A x \in Requests : stage'[x] = "published" <=> stage[x] = "published"
  BY DEF BeginTx, O!Begin, O!Committed, SysInv, OutboxInv, Typed
<1> QED
  BY <1>2, <1>3, <1>4, NothingCommits DEF SysInv, D!vars

\* COMMIT: the row and the event together.
LEMMA CommitStep ==
    ASSUME SysInv, NEW r \in Requests, Commit(r)
    PROVE  SysInv' /\ D!Commit(r)
<1>1. RowInv' /\ \A x \in Requests : Recorded(x)' <=> Recorded(x) \/ x = r
  BY CommitAddsRow DEF Commit, SysInv
<1>2. OutboxInv'
  BY EndTxKeeps DEF Commit, SysInv
<1>3. /\ topic' = topic /\ stage[r] = "open" /\ stage'[r] = "unpublished"
      /\ \A x \in Requests \ {r} : stage'[x] = stage[x]
  BY DEF Commit, O!EndTx, SysInv, OutboxInv, Typed
<1>4. EventIffRow'
  BY <1>1, <1>3 DEF SysInv, EventIffRow
<1>5. /\ {x \in Requests : Recorded(x)}' = {x \in Requests : Recorded(x)} \union {r}
      /\ {x \in Requests : stage[x] = "published"}' = {x \in Requests : stage[x] = "published"}
  BY <1>1, <1>3
<1> QED
  BY <1>1, <1>2, <1>3, <1>4, <1>5 DEF SysInv, D!Commit

\* Any other step of a handler: an event that ends with it is rolled back.
LEMMA HandleStep ==
    ASSUME SysInv, NEW r \in Requests, Handle(r)
    PROVE  SysInv' /\ UNCHANGED D!vars
<1>1. RowInv' /\ txns' = txns
  BY HandlerSteps, OwnStepKeepsRows DEF Handle, SysInv
<1>2. CASE O!EndTx(r, "aborted")
  <2>1. OutboxInv'
    BY <1>2, EndTxKeeps DEF SysInv
  <2>2. /\ topic' = topic
        /\ \A x \in Requests : x \in O!Committed' <=> x \in O!Committed
        /\ \A x \in Requests : stage'[x] = "published" <=> stage[x] = "published"
    BY <1>2 DEF O!EndTx, O!Committed, SysInv, OutboxInv, Typed
  <2> QED
    BY <1>1, <2>1, <2>2, NothingCommits DEF SysInv, D!vars
<1>3. CASE UNCHANGED outbox
  BY <1>1, <1>3, IdleOutbox, NothingCommits DEF SysInv, D!vars
<1> QED
  BY <1>2, <1>3 DEF Handle

\* A write of the row the worker is at delivers it.
LEMMA WriteDelivers ==
    ASSUME SysInv, NEW e \in Requests, O!IsCurrent(Worker, e), O!Write(e), txns' = txns,
           \A x \in Requests : x \in O!Committed' <=> x \in O!Committed,
           \A x \in Requests : stage'[x] = "published" <=> stage[x] = "published"
    PROVE  D!Deliver(e)
<1>1. Recorded(e)
  BY DEF O!IsCurrent, SysInv, EventIffRow, OutboxInv, BatchIsCommitted, O!Committed
<1>2. {x \in Requests : Recorded(x)}' = {x \in Requests : Recorded(x)}
  BY NothingCommits
<1> QED
  BY <1>1, <1>2 DEF D!Deliver, O!Write

\* The worker reads its next batch.
LEMMA PollStep ==
    ASSUME SysInv, O!Poll(Worker), txns' = txns
    PROVE  OutboxInv' /\ EventIffRow' /\ UNCHANGED D!vars
<1>1. /\ batch'[Worker] \subseteq O!Committed
      /\ batch' \in [{Worker} -> SUBSET Requests]
      /\ wpc' \in [{Worker} -> {"poll", "publish"}]
      /\ UNCHANGED <<stage, created, topic>>
  BY DEF O!Poll, O!GetUnpublished, O!Pending, O!Committed, O!table, SysInv, OutboxInv, Typed
<1>2. O!Committed' = O!Committed
  BY <1>1 DEF O!Committed
<1>3. wpc'[Worker] # "mark"
  BY <1>1
<1>4. OutboxInv'
  BY <1>1, <1>2, <1>3 DEF SysInv, OutboxInv, Typed, Stamped, Begun, BatchIsCommitted,
                          MarkedIsWritten, TopicIsCommitted
<1> QED
  BY <1>1, <1>2, <1>4, NothingCommits DEF D!vars

\* It publishes a row, and Kafka may have it twice.
LEMMA PublishStep ==
    ASSUME SysInv, NEW e \in Requests, txns' = txns,
           O!Publish(Worker, e) \/ O!PublishRetried(Worker, e)
    PROVE  OutboxInv' /\ EventIffRow' /\ D!Deliver(e)
<1>1. /\ O!IsCurrent(Worker, e) /\ O!Write(e)
      /\ UNCHANGED <<stage, created, batch>>
      /\ wpc' \in [{Worker} -> {"publish", "mark"}]
  BY DEF O!Publish, O!PublishRetried, O!table, O!worker, SysInv, OutboxInv, Typed
<1>2. O!Committed' = O!Committed
  BY <1>1 DEF O!Committed
<1>3. OutboxInv'
  BY <1>1, WritingKeeps DEF SysInv
<1> QED
  BY <1>1, <1>2, <1>3, NothingCommits, WriteDelivers

\* It leaves the row after a failed publish, or after marking it.
LEMMA LeaveStep ==
    ASSUME SysInv, NEW e \in Requests, txns' = txns,
           O!PublishFails(Worker, e) \/ O!MarkPublished(Worker, e) \/ O!MarkFails(Worker, e)
    PROVE  OutboxInv' /\ EventIffRow' /\ (D!Deliver(e) \/ D!Settle(e) \/ UNCHANGED D!vars)
<1>1. /\ O!IsCurrent(Worker, e) /\ created' = created
      /\ batch' \in [{Worker} -> SUBSET batch[Worker]]
      /\ wpc' \in [{Worker} -> {"poll", "publish"}]
  BY DEF O!PublishFails, O!MarkPublished, O!MarkFails, O!NextRow, O!table, SysInv, OutboxInv,
         Typed
<1>2. e \in O!Committed
  BY <1>1 DEF O!IsCurrent, SysInv, OutboxInv, BatchIsCommitted
<1>3. \/ stage' = stage
      \/ stage' = [stage EXCEPT ![e] = "published"]
  BY DEF O!PublishFails, O!MarkPublished, O!MarkFails, O!table
<1>4. /\ stage' \in [Requests -> O!Stages]
      /\ \A x \in Requests : x \in O!Committed' <=> x \in O!Committed
      /\ \A x \in Requests : stage'[x] = "none" <=> stage[x] = "none"
  BY <1>2, <1>3 DEF SysInv, OutboxInv, Typed, O!Stages, O!Committed
<1>5. topic' = topic \/ O!Write(e)
  BY DEF O!PublishFails, O!MarkPublished, O!MarkFails
<1>6. OutboxInv'
  BY <1>1, <1>2, <1>4, <1>5, LeavingKeeps DEF SysInv
<1>7. EventIffRow' /\ {x \in Requests : Recorded(x)}' = {x \in Requests : Recorded(x)}
  BY <1>4, NothingCommits
<1>8. CASE O!PublishFails(Worker, e)
  <2>1. stage' = stage
    BY <1>8 DEF O!PublishFails, O!table
  <2> QED
    BY <1>1, <1>4, <1>5, <1>6, <1>7, <2>1, WriteDelivers DEF D!vars
<1>9. CASE O!MarkPublished(Worker, e) \/ O!MarkFails(Worker, e)
  <2>1. D!InTopic(e) /\ topic' = topic
    BY <1>1, <1>9 DEF O!MarkPublished, O!MarkFails, SysInv, OutboxInv, MarkedIsWritten
  <2>2. CASE stage' = stage
    BY <1>6, <1>7, <2>1, <2>2 DEF D!vars
  <2>3. CASE stage' = [stage EXCEPT ![e] = "published"]
    <3>1. {x \in Requests : stage[x] = "published"}'
             = {x \in Requests : stage[x] = "published"} \union {e}
      BY <2>3 DEF SysInv, OutboxInv, Typed
    <3> QED
      BY <1>6, <1>7, <2>1, <3>1 DEF D!Settle
  <2> QED
    BY <1>3, <2>2, <2>3
<1> QED
  BY <1>8, <1>9
\* The process dies: open transfers are rolled back, the row the worker was
\* publishing may be in Kafka, and nobody who is recorded loses an answer.
LEMMA CrashStep ==
    ASSUME SysInv, Crash \/ IdleCrash
    PROVE  SysInv' /\ ((\E e \in Requests : D!Deliver(e)) \/ UNCHANGED D!vars)
<1>1. /\ created' = created
      /\ batch' \in [{Worker} -> SUBSET batch[Worker]]
      /\ wpc' \in [{Worker} -> {"poll", "publish"}]
      /\ \/ topic' = topic
         \/ \E e \in Requests : O!IsCurrent(Worker, e) /\ O!Write(e)
  BY DEF Crash, IdleCrash, O!Crash, O!table, SysInv, OutboxInv, Typed
<1>2. /\ stage' \in [Requests -> O!Stages]
      /\ \A x \in Requests : x \in O!Committed' <=> x \in O!Committed
      /\ \A x \in Requests : stage'[x] = "none" <=> stage[x] = "none"
      /\ \A x \in Requests : stage'[x] = "published" <=> stage[x] = "published"
  BY DEF Crash, IdleCrash, O!Crash, O!table, SysInv, OutboxInv, Typed, O!Stages, O!Committed
<1>3. \A e \in Requests : O!IsCurrent(Worker, e) => e \in O!Committed
  BY DEF O!IsCurrent, SysInv, OutboxInv, BatchIsCommitted
<1>4. OutboxInv'
  BY <1>1, <1>2, <1>3, LeavingKeeps DEF SysInv
<1>5. RowInv' /\ txns' = txns
  <2>1. CASE IdleCrash
    BY <2>1, IdleRequests DEF IdleCrash, SysInv
  <2>2. CASE Crash
    <3>1. /\ txns' = txns /\ req' = req
          /\ DOMAIN pc' = Requests /\ DOMAIN answer' = Requests
          /\ \A r \in Requests : pc[r] = "done" => pc'[r] = pc[r] /\ answer'[r] = answer[r]
      BY <2>2 DEF Crash, W!Crash, W!table
    <3> QED
      BY <3>1 DEF SysInv, RowInv, Recorded, W!RowOf
  <2> QED
    BY <2>1, <2>2
<1>6. EventIffRow' /\ {x \in Requests : Recorded(x)}' = {x \in Requests : Recorded(x)}
  BY <1>2, <1>5, NothingCommits
<1>7. CASE topic' = topic
  BY <1>2, <1>4, <1>5, <1>6, <1>7 DEF SysInv, D!vars
<1>8. CASE \E e \in Requests : O!IsCurrent(Worker, e) /\ O!Write(e)
  BY <1>2, <1>4, <1>5, <1>6, <1>8, WriteDelivers DEF SysInv
<1> QED
  BY <1>1, <1>7, <1>8

\* Every step preserves the invariant and is a step of Delivery or none.
LEMMA SysStep == SysInv /\ [Next]_vars => SysInv' /\ [D!Next]_D!vars
<1> SUFFICES ASSUME SysInv, [Next]_vars PROVE SysInv' /\ [D!Next]_D!vars
  OBVIOUS
<1>1. ASSUME NEW r \in Requests, BeginTx(r) PROVE SysInv' /\ [D!Next]_D!vars
  BY <1>1, BeginTxStep
<1>2. ASSUME NEW r \in Requests, Commit(r) PROVE SysInv' /\ [D!Next]_D!vars
  BY <1>2, CommitStep DEF D!Next
<1>3. ASSUME NEW r \in Requests, Handle(r) PROVE SysInv' /\ [D!Next]_D!vars
  BY <1>3, HandleStep
<1>4. CASE Publisher \/ CallFails
  <2>1. RowInv' /\ txns' = txns
    BY <1>4, IdleRequests DEF Publisher, CallFails, SysInv
  <2>2. CASE O!Poll(Worker)
    BY <2>1, <2>2, PollStep DEF SysInv
  <2>3. ASSUME NEW e \in Requests, O!Publish(Worker, e) \/ O!PublishRetried(Worker, e)
        PROVE  SysInv' /\ [D!Next]_D!vars
    BY <2>1, <2>3, PublishStep DEF SysInv, D!Next
  <2>4. ASSUME NEW e \in Requests,
               O!PublishFails(Worker, e) \/ O!MarkPublished(Worker, e) \/ O!MarkFails(Worker, e)
        PROVE  SysInv' /\ [D!Next]_D!vars
    BY <2>1, <2>4, LeaveStep DEF SysInv, D!Next
  <2>5. ~ \E e \in Requests : O!SkipBadRow(Worker, e)
    BY DEF O!SkipBadRow
  <2> QED
    BY <1>4, <2>2, <2>3, <2>4, <2>5 DEF Publisher, CallFails, O!Work
<1>5. CASE Crash \/ IdleCrash
  BY <1>5, CrashStep DEF D!Next
<1>6. CASE UNCHANGED vars
  <2>1. UNCHANGED requests /\ UNCHANGED outbox
    BY <1>6 DEF vars
  <2> QED
    BY <2>1, IdleRequests, IdleOutbox, NothingCommits DEF SysInv, D!vars
<1> QED
  BY <1>1, <1>2, <1>3, <1>4, <1>5, <1>6 DEF Next

-----------------------------------------------------------------------------
\* "the event can never be committed without the transaction row, or vice
\* versa" (transaction_repository.go:54-56): whichever handler, worker, failed
\* call or crash comes in between.
THEOREM EventsMatchRows == Spec => []EventIffRow
<1>1. SysInv => EventIffRow
  BY DEF SysInv
<1> QED
  BY <1>1, SysInit, SysStep, PTL DEF Spec

\* Kafka's consumers only hear of transfers that are rows of transactions, with
\* the right sender and amount, whose clients were not refused.
THEOREM PublishedTransfersArePaid == Spec => []PublishedIsPaid
<1>1. SysInv => PublishedIsPaid
  <2> SUFFICES ASSUME SysInv, NEW u \in Users, NEW i \in DOMAIN topic[u]
               PROVE  LET r == topic[u][i] IN
                      /\ \E row \in txns :
                            row.id = r /\ row.sender = u /\ row.amount = W!Cents(req[r].amount)
                      /\ answer[r] \in {"ok", "internal"}
    BY DEF PublishedIsPaid
  <2> DEFINE r == topic[u][i]
  <2>1. DOMAIN topic[u] = 1 .. Len(topic[u])
    BY DEF SysInv, OutboxInv, Typed
  <2>2. r \in O!Committed /\ SenderOf[r] = u
    BY <2>1 DEF SysInv, OutboxInv, TopicIsCommitted
  <2>3. r \in Requests /\ Recorded(r)
    BY <2>2 DEF SysInv, EventIffRow, O!Committed
  <2>4. PICK row \in txns : row.id = r
    BY <2>3 DEF Recorded
  <2>5. row.sender = req[r].user /\ row.amount = W!Cents(req[r].amount)
    BY <2>4 DEF SysInv, RowInv, W!RowOf
  <2>6. req[r].user = u /\ answer[r] \in {"ok", "internal"}
    BY <2>2, <2>3 DEF SysInv, RowInv
  <2> QED
    BY <2>4, <2>5, <2>6
<1> QED
  BY <1>1, SysInit, SysStep, PTL DEF Spec

\* From end to end the service implements Delivery: Kafka gets committed
\* transfers only, and no event is marked that is not there.
THEOREM DeliveryIsImplemented == Spec => ImplementsDelivery
<1>1. Init => D!Init
  BY DEF Init, W!Init, O!Init, D!Init, Recorded
<1> QED
  BY <1>1, SysInit, SysStep, PTL DEF Spec, ImplementsDelivery, D!Spec

\* Composed with the worker, the handlers do nothing they could not do alone:
\* what WalletTransactions_proofs shows of W!Spec holds of the service.
THEOREM HandlersRunAsAlone == Spec => W!Spec
<1>1. Init => W!Init
  BY DEF Init
<1>2. [Next]_vars => [W!Next]_W!vars
  <2> SUFFICES ASSUME [Next]_vars PROVE [W!Next]_W!vars
    OBVIOUS
  <2>1. UNCHANGED requests => UNCHANGED W!vars
    BY DEF requests, W!vars
  <2>2. ASSUME NEW r \in Requests, BeginTx(r) \/ Commit(r) \/ Handle(r)
        PROVE  W!Serve(r) \/ W!StatementError(r) \/ W!AbortDeadlock(r)
    BY <2>2 DEF BeginTx, Commit, Handle, W!Serve
  <2>3. CASE Publisher \/ CallFails \/ IdleCrash \/ UNCHANGED vars
    BY <2>1, <2>3 DEF Publisher, CallFails, IdleCrash, vars
  <2>4. CASE Crash
    BY <2>4 DEF Crash, W!Next
  <2> QED
    BY <2>2, <2>3, <2>4 DEF Next, W!Next
<1> QED
  BY <1>1, <1>2, PTL DEF Spec, W!Spec
=============================================================================
