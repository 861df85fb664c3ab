---------------------------- MODULE Outbox_proofs ----------------------------
(***************************************************************************)
(* Proofs about Outbox, for any events, senders, workers and failures.     *)
(***************************************************************************)
EXTENDS Outbox, FiniteSetTheorems, TLAPS

\* Leaving a row of the batch keeps the worker's state in its type.
LEMMA NextRowIsTyped ==
    ASSUME TypeOK, NEW w \in Workers, NEW e \in Events, wpc[w] # "poll",
           IsCurrent(w, e), NextRow(w, e)
    PROVE  /\ batch' \in [Workers -> SUBSET Events]
           /\ wpc' \in [Workers -> {"poll", "publish", "mark"}]
           /\ \A v \in Workers : wpc'[v] = "poll" <=> batch'[v] = {}
<1>1. /\ batch' \in [Workers -> SUBSET Events]
      /\ wpc' \in [Workers -> {"poll", "publish", "mark"}]
      /\ \A v \in Workers \ {w} : wpc'[v] = wpc[v] /\ batch'[v] = batch[v]
  BY DEF TypeOK, NextRow
<1>2. batch'[w] = batch[w] \ {e} /\ e \in batch[w]
  BY DEF TypeOK, NextRow, IsCurrent
<1>3. wpc'[w] = IF batch[w] = {e} THEN "poll" ELSE "publish"
  BY DEF TypeOK, NextRow
<1>4. wpc'[w] = "poll" <=> batch'[w] = {}
  BY <1>2, <1>3
<1> QED
  BY <1>1, <1>4 DEF TypeOK

\* Writing to Kafka keeps the topic in its type.
LEMMA WriteIsTyped ==
    ASSUME TypeOK, NEW e \in Events, Write(e)
    PROVE  topic' \in [Senders -> Seq(Events)]
<1>1. SenderOf[e] \in Senders
  BY SenderAssumption
<1>2. Append(topic[SenderOf[e]], e) \in Seq(Events)
  BY <1>1 DEF TypeOK
<1> QED
  BY <1>1, <1>2 DEF TypeOK, Write

\* Counting a fault keeps the counter in its type.
LEMMA FaultIsTyped ==
    ASSUME TypeOK, NEW k, Fault(k)
    PROVE  faults' \in Seq(Faults) /\ Len(faults') <= MaxFaults
  BY FaultAssumption DEF TypeOK, Fault

\* The initial state is typed.
LEMMA TypeInit == Init => TypeOK
  BY FaultAssumption DEF Init, TypeOK, Stages

\* Every step keeps every variable in its type.
LEMMA TypeStep == TypeOK /\ [Next]_vars => TypeOK'
<1> SUFFICES ASSUME TypeOK, [Next]_vars PROVE TypeOK'
  OBVIOUS
<1> USE DEF table, worker
<1>1. ASSUME NEW e \in Events, Begin(e) PROVE TypeOK'
  <2>1. IsFiniteSet({x \in Events : created[x] > 0})
    BY FiniteAssumption, FS_Subset
  <2>2. Cardinality({x \in Events : created[x] > 0}) \in Nat
    BY <2>1, FS_CardinalityType
  <2> QED
    BY <1>1, <2>2 DEF Begin, TypeOK, Stages
<1>2. ASSUME NEW e \in Events, NEW outcome \in {"unpublished", "aborted"}, EndTx(e, outcome)
      PROVE  TypeOK'
  BY <1>2 DEF EndTx, TypeOK, Stages
<1>3. ASSUME NEW w \in Workers, Poll(w) PROVE TypeOK'
  <2>1. GetUnpublished(BatchSize) \subseteq Events
    BY DEF GetUnpublished, Pending
  <2> QED
    BY <1>3, <2>1 DEF Poll, TypeOK
<1>4. ASSUME NEW w \in Workers, NEW e \in Events, SkipBadRow(w, e) PROVE TypeOK'
  BY <1>4, NextRowIsTyped DEF SkipBadRow, TypeOK
<1>5. ASSUME NEW w \in Workers, NEW e \in Events, Publish(w, e) PROVE TypeOK'
  BY <1>5, WriteIsTyped DEF Publish, TypeOK
<1>6. ASSUME NEW w \in Workers, NEW e \in Events, PublishFails(w, e) PROVE TypeOK'
  BY <1>6, NextRowIsTyped, WriteIsTyped, FaultIsTyped DEF PublishFails, TypeOK
<1>7. ASSUME NEW w \in Workers, NEW e \in Events, MarkPublished(w, e) PROVE TypeOK'
  BY <1>7, NextRowIsTyped DEF MarkPublished, TypeOK, Stages
<1>8. ASSUME NEW w \in Workers, NEW e \in Events, MarkFails(w, e) PROVE TypeOK'
  BY <1>8, NextRowIsTyped, FaultIsTyped DEF MarkFails, TypeOK, Stages
<1>9. ASSUME NEW w \in Workers, Crash(w) PROVE TypeOK'
  <2>1. topic' \in [Senders -> Seq(Events)]
    BY <1>9, WriteIsTyped DEF Crash, TypeOK
  <2> QED
    BY <1>9, <2>1, FaultIsTyped DEF Crash, TypeOK
<1>10. ASSUME NEW w \in Workers, NEW e \in Events, PublishRetried(w, e) PROVE TypeOK'
  BY <1>10, WriteIsTyped, FaultIsTyped DEF PublishRetried, TypeOK
<1>11. CASE UNCHANGED vars
  BY <1>11 DEF vars, TypeOK
<1> QED
  BY <1>1, <1>2, <1>3, <1>4, <1>5, <1>6, <1>7, <1>8, <1>9, <1>10, <1>11 DEF Next, Work

\* Rows, topic and batches keep their shape whatever fails.
THEOREM TypeCorrect == Spec => []TypeOK
  BY TypeInit, TypeStep, PTL DEF Spec

-----------------------------------------------------------------------------
(* The inductive invariant.  A worker marks the row it is at, not the one   *)
(* it wrote: that these are the same needs created_at to tell rows apart    *)
(* (Stamped), and a batch of rows that stay visible (BatchIsCommitted).     *)

Begun == {x \in Events : created[x] > 0}

Stamped ==
    /\ \A e \in Events : stage[e] = "none" <=> created[e] = 0
    /\ \A e \in Events : created[e] <= Cardinality(Begun)
    /\ \A e, x \in Events : created[e] > 0 /\ created[e] = created[x] => e = x

BatchIsCommitted == \A w \in Workers : batch[w] \subseteq Committed

MarkedIsWritten ==
    \A w \in Workers : \A e \in Events :
       wpc[w] = "mark" /\ IsCurrent(w, e) => D!InTopic(e)

WorkerInv == Stamped /\ BatchIsCommitted /\ MarkedIsWritten

\* Finitely many events have begun, so a creation stamp is a number.
LEMMA BegunIsFinite ==
    IsFiniteSet(Begun) /\ Cardinality(Begun) \in Nat
<1>1. IsFiniteSet(Begun)
  BY FiniteAssumption, FS_Subset DEF Begun
<1> QED
  BY <1>1, FS_CardinalityType

\* A write keeps everything that was written before it, and adds its event.
LEMMA WriteAppends ==
    ASSUME TypeOK, NEW e \in Events, Write(e)
    PROVE  /\ D!InTopic(e)'
           /\ \A x \in Events : D!InTopic(x) => D!InTopic(x)'
<1> DEFINE s == SenderOf[e]
<1>1. s \in Senders /\ topic[s] \in Seq(Events)
  BY SenderAssumption DEF TypeOK
<1>2. topic'[s] = Append(topic[s], e) /\ \A t \in Senders \ {s} : topic'[t] = topic[t]
  BY <1>1 DEF Write, TypeOK
<1>3. /\ Len(topic'[s]) = Len(topic[s]) + 1
      /\ topic'[s][Len(topic[s]) + 1] = e
      /\ \A i \in 1 .. Len(topic[s]) : topic'[s][i] = topic[s][i]
      /\ Len(topic[s]) \in Nat
  BY <1>1, <1>2
<1>4. D!InTopic(e)'
  BY <1>3 DEF D!InTopic
<1>5. ASSUME NEW x \in Events, D!InTopic(x) PROVE D!InTopic(x)'
  <2>1. CASE SenderOf[x] = s
    BY <1>3, <1>5, <2>1 DEF D!InTopic
  <2>2. CASE SenderOf[x] # s
    <3>1. SenderOf[x] \in Senders \ {s}
      BY <2>2, SenderAssumption
    <3>2. topic'[SenderOf[x]] = topic[SenderOf[x]]
      BY <1>2, <3>1
    <3> QED
      BY <1>5, <3>2 DEF D!InTopic
  <2> QED
    BY <2>1, <2>2
<1> QED
  BY <1>4, <1>5

\* Leaving a row, in whatever way, leaves the other rows of the batch.
LEMMA NextRowKeeps ==
    ASSUME TypeOK, WorkerInv, NEW w \in Workers, NEW e \in Events, NextRow(w, e),
           created' = created,
           \A x \in Events : x \in Committed => x \in Committed',
           \A x \in Events : stage'[x] = "none" <=> stage[x] = "none",
           \A x \in Events : D!InTopic(x) => D!InTopic(x)'
    PROVE  WorkerInv'
<1>1. /\ \A v \in Workers : batch'[v] \subseteq batch[v]
      /\ \A v \in Workers : wpc'[v] = "mark" => wpc[v] = "mark" /\ batch'[v] = batch[v]
  BY DEF NextRow, TypeOK
<1>2. BatchIsCommitted'
  BY <1>1 DEF WorkerInv, BatchIsCommitted, Committed
<1>3. MarkedIsWritten'
  BY <1>1 DEF WorkerInv, MarkedIsWritten, IsCurrent
<1>4. Stamped'
  BY DEF WorkerInv, Stamped, Begun
<1> QED
  BY <1>2, <1>3, <1>4 DEF WorkerInv

\* The worker's invariant holds initially.
LEMMA WorkerInit == Init => WorkerInv
<1> SUFFICES ASSUME Init PROVE WorkerInv
  OBVIOUS
<1>1. Stamped
  BY BegunIsFinite DEF Init, Stamped
<1> QED
  BY <1>1 DEF Init, WorkerInv, BatchIsCommitted, MarkedIsWritten

\* Every step preserves the worker's invariant.
LEMMA WorkerStep == TypeOK /\ WorkerInv /\ [Next]_vars => WorkerInv'
<1> SUFFICES ASSUME TypeOK, WorkerInv, [Next]_vars PROVE WorkerInv'
  OBVIOUS
<1> USE DEF table, worker
<1>1. ASSUME NEW e \in Events, Begin(e) PROVE WorkerInv'
  <2>1. /\ stage[e] = "none" /\ created[e] = 0
        /\ stage' = [stage EXCEPT ![e] = "open"]
        /\ created' = [created EXCEPT ![e] = Cardinality(Begun) + 1]
        /\ topic' = topic /\ batch' = batch /\ wpc' = wpc
    BY <1>1 DEF Begin, Begun, WorkerInv, Stamped
  <2>2. /\ \A x \in Events \ {e} : created'[x] = created[x] /\ stage'[x] = stage[x]
        /\ created'[e] = Cardinality(Begun) + 1 /\ stage'[e] = "open"
    BY <2>1 DEF TypeOK
  <2>3. /\ \A x \in Events \ {e} : created'[x] = created[x]
        /\ created'[e] > 0 /\ created[e] = 0
    BY <2>1, <2>2, BegunIsFinite
  <2>4. Cardinality(Begun') = Cardinality(Begun) + 1
    <3>1. Begun' = Begun \union {e} /\ e \notin Begun
      BY <2>3 DEF Begun
    <3> QED
      BY <3>1, BegunIsFinite, FS_AddElement
  <2>5. Stamped'
    <3> DEFINE n == Cardinality(Begun)
    <3>1. n \in Nat /\ Cardinality(Begun') = n + 1
      BY <2>4, BegunIsFinite
    <3>2. \A x \in Events : created[x] \in Nat /\ created[x] <= n
      BY DEF WorkerInv, Stamped, TypeOK
    <3> HIDE DEF n
    <3>3. \A x \in Events : stage'[x] = "none" <=> created'[x] = 0
      BY <2>2, <2>3 DEF WorkerInv, Stamped
    <3>4. created'[e] = n + 1
      BY <2>2 DEF n
    <3>5. \A x \in Events : created'[x] <= n + 1
      BY <2>3, <3>1, <3>2, <3>4
    <3>6. \A x, y \in Events : created'[x] > 0 /\ created'[x] = created'[y] => x = y
      BY <2>3, <3>1, <3>2, <3>4 DEF WorkerInv, Stamped
    <3> QED
      BY <3>1, <3>3, <3>5, <3>6 DEF Stamped
  <2>6. \A w \in Workers : e \notin batch[w]
    BY <2>1 DEF WorkerInv, BatchIsCommitted, Committed
  <2>7. BatchIsCommitted'
    BY <2>1, <2>2, <2>6 DEF WorkerInv, BatchIsCommitted, Committed
  <2>8. MarkedIsWritten'
    <3>1. \A w \in Workers : \A x \in batch[w] : created'[x] = created[x]
      BY <2>3, <2>6 DEF TypeOK
    <3>2. \A w \in Workers, x \in Events : IsCurrent(w, x)' => IsCurrent(w, x)
      BY <2>1, <3>1 DEF IsCurrent
    <3> QED
      BY <2>1, <3>2 DEF WorkerInv, MarkedIsWritten, D!InTopic
  <2> QED
    BY <2>5, <2>7, <2>8 DEF WorkerInv
<1>2. ASSUME NEW e \in Events, NEW outcome \in {"unpublished", "aborted"}, EndTx(e, outcome)
      PROVE  WorkerInv'
  <2>1. /\ \A x \in Events : x \in Committed => x \in Committed'
        /\ \A x \in Events : stage'[x] = "none" <=> stage[x] = "none"
    BY <1>2 DEF EndTx, Committed, TypeOK
  <2>2. UNCHANGED <<created, topic, batch, wpc>>
    BY <1>2 DEF EndTx
  <2> QED
    BY <2>1, <2>2 DEF WorkerInv, Stamped, Begun, BatchIsCommitted, MarkedIsWritten, IsCurrent,
                      D!InTopic, Committed
<1>3. ASSUME NEW w \in Workers, Poll(w) PROVE WorkerInv'
  <2>1. /\ batch'[w] \subseteq Committed /\ wpc'[w] # "mark"
        /\ \A v \in Workers \ {w} : batch'[v] = batch[v] /\ wpc'[v] = wpc[v]
    BY <1>3 DEF Poll, GetUnpublished, Pending, Committed, TypeOK
  <2>2. stage' = stage /\ created' = created /\ topic' = topic
    BY <1>3 DEF Poll
  <2> QED
    BY <2>1, <2>2 DEF WorkerInv, Stamped, Begun, BatchIsCommitted, MarkedIsWritten, IsCurrent,
                      D!InTopic, Committed
<1>4. ASSUME NEW w \in Workers, NEW e \in Events, SkipBadRow(w, e) PROVE WorkerInv'
  BY <1>4, NextRowKeeps DEF SkipBadRow, Committed, D!InTopic
<1>5. ASSUME NEW w \in Workers, NEW e \in Events, Publish(w, e) PROVE WorkerInv'
  <2>1. /\ stage' = stage /\ created' = created /\ batch' = batch
        /\ IsCurrent(w, e) /\ Write(e)
        /\ \A v \in Workers \ {w} : wpc'[v] = wpc[v]
    BY <1>5 DEF Publish, TypeOK
  <2>2. D!InTopic(e)' /\ \A x \in Events : D!InTopic(x) => D!InTopic(x)'
    BY <2>1, WriteAppends
  <2>3. ASSUME NEW x \in Events, IsCurrent(w, x) PROVE x = e
    <3>1. e \in Committed /\ x \in batch[w] /\ e \in batch[w]
      BY <2>1, <2>3 DEF IsCurrent, WorkerInv, BatchIsCommitted
    <3>2. created[e] > 0
      BY <3>1 DEF WorkerInv, Stamped, Committed, TypeOK
    <3>3. created[e] = created[x]
      BY <2>1, <2>3 DEF IsCurrent, TypeOK
    <3> QED
      BY <3>2, <3>3 DEF WorkerInv, Stamped
  <2>4. MarkedIsWritten'
    BY <2>1, <2>2, <2>3 DEF WorkerInv, MarkedIsWritten, IsCurrent
  <2> QED
    BY <2>1, <2>4 DEF WorkerInv, Stamped, Begun, BatchIsCommitted, Committed
<1>6. ASSUME NEW w \in Workers, NEW e \in Events, PublishFails(w, e) PROVE WorkerInv'
  <2>1. \A x \in Events : D!InTopic(x) => D!InTopic(x)'
    BY <1>6, WriteAppends DEF PublishFails, D!InTopic
  <2> QED
    BY <1>6, <2>1, NextRowKeeps DEF PublishFails, Committed
<1>7. ASSUME NEW w \in Workers, NEW e \in Events, MarkPublished(w, e) \/ MarkFails(w, e)
      PROVE  WorkerInv'
  <2>1. e \in Committed
    BY <1>7 DEF MarkPublished, MarkFails, IsCurrent, WorkerInv, BatchIsCommitted
  <2>2. /\ \A x \in Events : x \in Committed => x \in Committed'
        /\ \A x \in Events : stage'[x] = "none" <=> stage[x] = "none"
    BY <1>7, <2>1 DEF MarkPublished, MarkFails, Committed, TypeOK
  <2>3. NextRow(w, e) /\ created' = created /\ topic' = topic
    BY <1>7 DEF MarkPublished, MarkFails
  <2> QED
    BY <2>2, <2>3, NextRowKeeps DEF D!InTopic
<1>8. ASSUME NEW w \in Workers, Crash(w) PROVE WorkerInv'
  <2>1. /\ batch'[w] = {} /\ wpc'[w] = "poll"
        /\ \A v \in Workers \ {w} : batch'[v] = batch[v] /\ wpc'[v] = wpc[v]
        /\ stage' = stage /\ created' = created
    BY <1>8 DEF Crash, TypeOK
  <2>2. \A x \in Events : D!InTopic(x) => D!InTopic(x)'
    BY <1>8, WriteAppends DEF Crash, D!InTopic
  <2> QED
    BY <2>1, <2>2 DEF WorkerInv, Stamped, Begun, BatchIsCommitted, MarkedIsWritten, IsCurrent,
                      Committed
<1>9. ASSUME NEW w \in Workers, NEW e \in Events, PublishRetried(w, e) PROVE WorkerInv'
  <2>1. \A x \in Events : D!InTopic(x) => D!InTopic(x)'
    BY <1>9, WriteAppends DEF PublishRetried
  <2>2. stage' = stage /\ created' = created /\ batch' = batch /\ wpc' = wpc
    BY <1>9 DEF PublishRetried
  <2> QED
    BY <2>1, <2>2 DEF WorkerInv, Stamped, Begun, BatchIsCommitted, MarkedIsWritten, IsCurrent,
                      Committed
<1>10. CASE UNCHANGED vars
  BY <1>10 DEF vars, WorkerInv, Stamped, Begun, BatchIsCommitted, MarkedIsWritten, IsCurrent,
               D!InTopic, Committed
<1> QED
  BY <1>1, <1>2, <1>3, <1>4, <1>5, <1>6, <1>7, <1>8, <1>9, <1>10 DEF Next, Work

-----------------------------------------------------------------------------
\* The initial state maps to an initial state of Delivery.
LEMMA InitRefines == Init => D!Init
  BY DEF Init, D!Init, Committed

\* Every step maps to a step of Delivery or to none.
LEMMA StepRefines ==
    ASSUME TypeOK, WorkerInv, [Next]_vars
    PROVE  [D!Next]_D!vars
<1> USE DEF table, worker
<1>1. ASSUME NEW e \in Events, Begin(e) PROVE UNCHANGED D!vars
  BY <1>1 DEF Begin, D!vars, Committed, TypeOK
<1>2. ASSUME NEW e \in Events, EndTx(e, "unpublished") PROVE D!Commit(e)
  BY <1>2 DEF EndTx, D!Commit, Committed, TypeOK
<1>3. ASSUME NEW e \in Events, EndTx(e, "aborted") PROVE UNCHANGED D!vars
  BY <1>3 DEF EndTx, D!vars, Committed, TypeOK
<1>4. ASSUME NEW w \in Workers, NEW e \in Events, IsCurrent(w, e), UNCHANGED stage,
             Write(e) \/ UNCHANGED topic
      PROVE  D!Deliver(e) \/ UNCHANGED D!vars
  <2>1. e \in Committed
    BY <1>4 DEF IsCurrent, WorkerInv, BatchIsCommitted
  <2> QED
    BY <1>4, <2>1 DEF D!Deliver, Write, D!vars, Committed
<1>5. ASSUME NEW w \in Workers, NEW e \in Events,
             Publish(w, e) \/ PublishRetried(w, e) \/ PublishFails(w, e) \/ SkipBadRow(w, e)
      PROVE  D!Deliver(e) \/ UNCHANGED D!vars
  BY <1>4, <1>5 DEF Publish, PublishRetried, PublishFails, SkipBadRow
<1>6. ASSUME NEW w \in Workers, NEW e \in Events, MarkPublished(w, e) \/ MarkFails(w, e)
      PROVE  D!Settle(e) \/ UNCHANGED D!vars
  <2>1. D!InTopic(e) /\ e \in Committed
    BY <1>6 DEF MarkPublished, MarkFails, WorkerInv, MarkedIsWritten, BatchIsCommitted, IsCurrent
  <2>2. CASE UNCHANGED stage
    BY <1>6, <2>2 DEF MarkPublished, MarkFails, D!vars, Committed
  <2>3. CASE stage' = [stage EXCEPT ![e] = "published"]
    BY <1>6, <2>1, <2>3 DEF MarkPublished, MarkFails, D!Settle, Committed, TypeOK
  <2> QED
    BY <1>6, <2>2, <2>3 DEF MarkPublished, MarkFails
<1>7. ASSUME NEW w \in Workers, Poll(w) PROVE UNCHANGED D!vars
  BY <1>7 DEF Poll, D!vars, Committed
<1>8. ASSUME NEW w \in Workers, Crash(w) PROVE [D!Next]_D!vars
  <2>1. CASE UNCHANGED topic
    BY <1>8, <2>1 DEF Crash, D!vars, Committed
  <2>2. ASSUME NEW e \in Events, IsCurrent(w, e), Write(e) PROVE [D!Next]_D!vars
    <3>1. D!Deliver(e) \/ UNCHANGED D!vars
      BY <1>4, <1>8, <2>2 DEF Crash
    <3> QED
      BY <3>1 DEF D!Next
  <2> QED
    BY <1>8, <2>1, <2>2 DEF Crash
<1>9. CASE UNCHANGED vars
  BY <1>9 DEF vars, D!vars, Committed
<1> QED
  BY <1>1, <1>2, <1>3, <1>5, <1>6, <1>7, <1>8, <1>9 DEF Next, Work, D!Next

\* However many workers run and whatever fails, only events of committed
\* transactions reach Kafka and none is marked published before it is there.
THEOREM DeliveryIsImplemented == Spec => ImplementsDelivery
<1>1. TypeOK /\ WorkerInv /\ [Next]_vars => [D!Next]_D!vars
  BY StepRefines
<1> QED
  BY <1>1, InitRefines, WorkerInit, WorkerStep, TypeInit, TypeStep, PTL
  DEF Spec, ImplementsDelivery, D!Spec

-----------------------------------------------------------------------------
(* Duplicates.  A worker that may still publish an event for nothing is    *)
(* counted like a copy of it: publishing turns the one into the other, and *)
(* only a fault makes a worker able to publish again what it has written.  *)

Marking(w, e) == wpc[w] = "mark" /\ IsCurrent(w, e)

Could(e) ==
    {w \in Workers : ~Marking(w, e) /\ (stage[e] = "published" => e \in batch[w])}

\* The copies of e and the workers that may add one for nothing.
Paid(e) == Copies(e) + Cardinality(Could(e)) <= Cardinality(Workers) + Len(faults)

\* A worker is at one row of its batch at most.
LEMMA OneCurrent ==
    ASSUME TypeOK, WorkerInv, NEW w \in Workers, NEW e \in Events, NEW x \in Events,
           IsCurrent(w, e), IsCurrent(w, x)
    PROVE  e = x
<1>1. e \in Committed /\ x \in batch[w] /\ e \in batch[w]
  BY DEF IsCurrent, WorkerInv, BatchIsCommitted
<1>2. created[e] > 0
  BY <1>1 DEF WorkerInv, Stamped, Committed, TypeOK
<1>3. created[e] = created[x]
  BY DEF IsCurrent, TypeOK
<1> QED
  BY <1>2, <1>3 DEF WorkerInv, Stamped

\* A set of workers has a size, and a part of it no greater one.
LEMMA WorkersAreCounted ==
    ASSUME NEW S \in SUBSET Workers, NEW T \in SUBSET S
    PROVE  /\ IsFiniteSet(S)
           /\ Cardinality(S) \in Nat
           /\ Cardinality(T) \in Nat
           /\ Cardinality(T) <= Cardinality(S)
<1>1. IsFiniteSet(S) /\ IsFiniteSet(T)
  BY WorkersAssumption, FS_Subset
<1> QED
  BY <1>1, FS_Subset, FS_CardinalityType

Places(s, e) == {i \in DOMAIN s : s[i] = e}

LEMMA PlacesAreCounted ==
    ASSUME NEW s \in Seq(Events), NEW e
    PROVE  IsFiniteSet(Places(s, e)) /\ Cardinality(Places(s, e)) \in Nat
<1>1. Len(s) \in Nat /\ Places(s, e) \subseteq 1 .. Len(s)
  BY DEF Places
<1>2. IsFiniteSet(1 .. Len(s))
  BY <1>1, FS_Interval
<1> QED
  BY <1>1, <1>2, FS_Subset, FS_CardinalityType

LEMMA PlacesOfAppend ==
    ASSUME NEW s \in Seq(Events), NEW k \in Events, NEW e
    PROVE  Cardinality(Places(Append(s, k), e)) =
              Cardinality(Places(s, e)) + (IF k = e THEN 1 ELSE 0)
<1>1. IsFiniteSet(Places(s, e)) /\ Cardinality(Places(s, e)) \in Nat
  BY PlacesAreCounted
<1>2. Len(s) + 1 \notin Places(s, e)
  BY DEF Places
<1>3. CASE k = e
  <2>1. Places(Append(s, k), e) = Places(s, e) \union {Len(s) + 1}
    BY <1>3 DEF Places
  <2> QED
    BY ONLY <1>1, <1>2, <1>3, <2>1, FS_AddElement
<1>4. CASE k # e
  <2>1. Places(Append(s, k), e) = Places(s, e)
    BY <1>4 DEF Places
  <2> QED
    BY ONLY <1>1, <1>4, <2>1
<1> QED
  BY <1>3, <1>4

LEMMA CopiesIsNat ==
    ASSUME TypeOK, NEW e \in Events
    PROVE  Copies(e) \in Nat
<1>1. topic[SenderOf[e]] \in Seq(Events)
  BY SenderAssumption DEF TypeOK
<1> QED
  BY <1>1, PlacesAreCounted DEF Copies, Places

\* Writing makes one copy of what is written and leaves the rest.
LEMMA WriteCopies ==
    ASSUME TypeOK, NEW e \in Events, NEW x \in Events, Write(e)
    PROVE  Copies(x)' = Copies(x) + (IF e = x THEN 1 ELSE 0)
<1> DEFINE s == SenderOf[x]
<1>1. s \in Senders /\ topic[s] \in Seq(Events)
  BY SenderAssumption DEF TypeOK
<1>2. Copies(x) = Cardinality(Places(topic[s], x)) /\ Copies(x)' = Cardinality(Places(topic'[s], x))
  BY DEF Copies, Places
<1>3. CASE SenderOf[e] = s
  <2>1. topic'[s] = Append(topic[s], e)
    BY <1>1, <1>3 DEF TypeOK, Write
  <2> HIDE DEF s
  <2> QED
    BY <1>1, <1>2, <2>1, PlacesOfAppend
<1>4. CASE SenderOf[e] # s
  <2>1. topic'[s] = topic[s] /\ e # x
    BY <1>1, <1>4 DEF TypeOK, Write
  <2>2. Copies(x) \in Nat
    BY CopiesIsNat
  <2> QED
    BY ONLY <1>2, <2>1, <2>2
<1> QED
  BY <1>3, <1>4

\* Whatever happens to one event in a step is paid for.
LEMMA PaidStep ==
    ASSUME TypeOK, TypeOK', NEW e \in Events, NEW w \in Workers, Paid(e),
           \/ /\ Copies(e)' = Copies(e)
              /\ Could(e)' \subseteq Could(e)
              /\ Len(faults') >= Len(faults)
           \/ /\ Copies(e)' = Copies(e) + 1
              /\ w \in Could(e) /\ Could(e)' \subseteq Could(e) \ {w}
              /\ Len(faults') >= Len(faults)
           \/ /\ Copies(e)' \in {Copies(e), Copies(e) + 1}
              /\ Could(e)' \subseteq Could(e)
              /\ Len(faults') = Len(faults) + 1
           \/ /\ Copies(e)' = Copies(e)
              /\ Could(e)' \subseteq Could(e) \union {w}
              /\ Len(faults') = Len(faults) + 1
    PROVE  Paid(e)'
<1> DEFINE C == Could(e)
           C1 == Could(e)'
<1>1. C \in SUBSET Workers /\ C1 \in SUBSET Workers
  BY DEF Could
<1>2. /\ Len(faults) \in Nat /\ Len(faults') \in Nat
      /\ Copies(e) \in Nat
  BY CopiesIsNat DEF TypeOK
<1>3. /\ IsFiniteSet(C) /\ Cardinality(C) \in Nat /\ Cardinality(C1) \in Nat
      /\ Cardinality(Workers) \in Nat
  BY <1>1, WorkersAreCounted
<1>4. Cardinality(C) + Copies(e) <= Cardinality(Workers) + Len(faults)
  BY <1>2, <1>3 DEF Paid
<1>5. \/ /\ Copies(e)' = Copies(e) /\ Cardinality(C1) <= Cardinality(C)
         /\ Len(faults') >= Len(faults)
      \/ /\ Copies(e)' = Copies(e) + 1 /\ Cardinality(C1) <= Cardinality(C) - 1
         /\ Len(faults') >= Len(faults)
      \/ /\ Copies(e)' \in {Copies(e), Copies(e) + 1} /\ Cardinality(C1) <= Cardinality(C)
         /\ Len(faults') = Len(faults) + 1
      \/ /\ Copies(e)' = Copies(e) /\ Cardinality(C1) <= Cardinality(C) + 1
         /\ Len(faults') = Len(faults) + 1
  <2>1. C1 \subseteq C => Cardinality(C1) <= Cardinality(C)
    BY <1>1, WorkersAreCounted
  <2>2. w \in C /\ C1 \subseteq C \ {w} => Cardinality(C1) <= Cardinality(C) - 1
    <3>1. C \ {w} \in SUBSET Workers
      BY <1>1
    <3>2. w \in C => Cardinality(C \ {w}) = Cardinality(C) - 1
      BY <1>3, FS_RemoveElement
    <3>3. C1 \subseteq C \ {w} => Cardinality(C1) <= Cardinality(C \ {w})
      BY <3>1, WorkersAreCounted
    <3> QED
      BY <3>2, <3>3
  <2>3. C1 \subseteq C \union {w} => Cardinality(C1) <= Cardinality(C) + 1
    <3>1. C \union {w} \in SUBSET Workers
      BY <1>1
    <3>2. Cardinality(C \union {w}) <= Cardinality(C) + 1 /\ Cardinality(C \union {w}) \in Nat
      BY <1>3, <3>1, FS_AddElement, WorkersAreCounted
    <3>3. C1 \subseteq C \union {w} => Cardinality(C1) <= Cardinality(C \union {w})
      BY <3>1, WorkersAreCounted
    <3> QED
      BY <1>3, <3>2, <3>3
  <2> HIDE DEF C, C1
  <2>4. C = Could(e) /\ C1 = Could(e)'
    BY DEF C, C1
  <2> QED
    BY <2>1, <2>2, <2>3, <2>4
<1>6. C1 = Could(e)'
  OBVIOUS
<1> HIDE DEF C, C1
<1> QED
  BY <1>2, <1>3, <1>4, <1>5, <1>6 DEF Paid

\* The other workers gain nothing by a step of w.
LEMMA OthersCould ==
    ASSUME NEW w \in Workers, NEW e \in Events,
           \A v \in Workers \ {w} : batch'[v] = batch[v] /\ wpc'[v] = wpc[v],
           created' = created, stage[e] = "published" => stage'[e] = "published"
    PROVE  /\ Could(e)' \subseteq Could(e) \union {w}
           /\ (w \in Could(e)' => w \in Could(e)) => Could(e)' \subseteq Could(e)
<1>1. \A v \in Workers \ {w} : v \in Could(e)' => v \in Could(e)
  BY DEF Could, Marking, IsCurrent
<1>2. Could(e)' \subseteq Workers
  BY DEF Could
<1> QED
  BY <1>1, <1>2

\* Leaving the current row makes no worker able to publish an event, unless a
\* mark failed.
LEMMA NextRowCould ==
    ASSUME TypeOK, WorkerInv, NEW w \in Workers, NEW c \in Events, NEW e \in Events,
           IsCurrent(w, c), NextRow(w, c), created' = created,
           stage[e] = "published" => stage'[e] = "published"
    PROVE  /\ Could(e)' \subseteq Could(e) \union {w}
           /\ e # c \/ wpc[w] # "mark" \/ stage'[e] = "published" => Could(e)' \subseteq Could(e)
<1>1. /\ \A v \in Workers \ {w} : batch'[v] = batch[v] /\ wpc'[v] = wpc[v]
      /\ batch'[w] = batch[w] \ {c}
  BY DEF TypeOK, NextRow
<1>2. ASSUME e # c, w \in Could(e)'
      PROVE  w \in Could(e)
  <2>1. ~IsCurrent(w, e)
    BY <1>2, OneCurrent
  <2> QED
    BY <1>1, <1>2, <2>1 DEF Could, Marking
<1>3. ASSUME e = c, wpc[w] # "mark" \/ stage'[e] = "published", w \in Could(e)'
      PROVE  w \in Could(e)
  <2>1. stage'[e] # "published"
    BY <1>1, <1>3 DEF Could
  <2> QED
    BY <1>3, <2>1 DEF Could, Marking
<1>4. Could(e)' \subseteq Could(e) \union {w}
  BY <1>1, OthersCould
<1>5. (w \in Could(e)' => w \in Could(e)) => Could(e)' \subseteq Could(e)
  BY <1>1, OthersCould
<1> QED
  BY <1>2, <1>3, <1>4, <1>5

\* A step of a worker is paid for.
LEMMA WorkPays ==
    ASSUME TypeOK, TypeOK', WorkerInv, NEW e \in Events, Paid(e), NEW w \in Workers,
           NEW c \in Events,
           \/ Poll(w) \/ SkipBadRow(w, c) \/ Publish(w, c) \/ MarkPublished(w, c)
           \/ PublishRetried(w, c) \/ PublishFails(w, c) \/ MarkFails(w, c)
    PROVE  Paid(e)'
<1> USE DEF table, worker
<1>1. topic' = topic => Copies(e)' = Copies(e)
  BY DEF Copies
<1>2. faults' = faults => Len(faults') >= Len(faults)
  BY DEF TypeOK
<1>3. ASSUME NEW k, Fault(k) PROVE Len(faults') = Len(faults) + 1
  BY <1>3 DEF Fault, TypeOK
<1>4. Write(c) => Copies(e)' \in {Copies(e), Copies(e) + 1}
  BY WriteCopies, CopiesIsNat
<1>5. CASE Poll(w)
  <2>1. /\ created' = created /\ stage' = stage /\ topic' = topic /\ faults' = faults
        /\ \A v \in Workers \ {w} : batch'[v] = batch[v] /\ wpc'[v] = wpc[v]
        /\ batch'[w] \subseteq Pending /\ wpc[w] = "poll"
    BY <1>5 DEF Poll, TypeOK, GetUnpublished
  <2>2. w \in Could(e)' => w \in Could(e)
    BY <2>1 DEF Could, Marking, Pending
  <2>3. Could(e)' \subseteq Could(e)
    BY <2>1, <2>2, OthersCould
  <2> QED
    BY <1>1, <1>2, <2>1, <2>3, PaidStep
<1>6. CASE SkipBadRow(w, c)
  <2>1. Could(e)' \subseteq Could(e)
    BY <1>6, NextRowCould DEF SkipBadRow
  <2> QED
    BY <1>1, <1>2, <1>6, <2>1, PaidStep DEF SkipBadRow
<1>7. CASE Publish(w, c)
  <2>1. /\ created' = created /\ stage' = stage /\ batch' = batch /\ faults' = faults
        /\ wpc[w] = "publish" /\ wpc'[w] = "mark"
        /\ \A v \in Workers \ {w} : wpc'[v] = wpc[v]
        /\ IsCurrent(w, c) /\ Write(c)
    BY <1>7 DEF Publish, TypeOK
  <2>2. w \in Could(e)' => w \in Could(e)
    BY <2>1 DEF Could, Marking
  <2>3. Could(e)' \subseteq Could(e)
    BY <2>1, <2>2, OthersCould
  <2>4. CASE e = c
    <3>1. w \in Could(e) /\ w \notin Could(e)'
      BY <2>1, <2>4 DEF Could, Marking, IsCurrent
    <3>2. Copies(e)' = Copies(e) + 1
      BY <2>1, <2>4, WriteCopies
    <3> QED
      BY <1>2, <2>1, <2>3, <3>1, <3>2, PaidStep
  <2>5. CASE e # c
    <3>1. Copies(e)' = Copies(e)
      BY <2>1, <2>5, WriteCopies, CopiesIsNat
    <3> QED
      BY <1>2, <2>1, <2>3, <3>1, PaidStep
  <2> QED
    BY <2>4, <2>5
<1>8. CASE MarkPublished(w, c)
  <2>1. /\ created' = created /\ topic' = topic /\ faults' = faults
        /\ wpc[w] = "mark" /\ IsCurrent(w, c) /\ NextRow(w, c)
        /\ stage[e] = "published" => stage'[e] = "published"
        /\ e = c => stage'[e] = "published"
    BY <1>8 DEF MarkPublished, TypeOK
  <2>2. Could(e)' \subseteq Could(e)
    BY <2>1, NextRowCould
  <2> QED
    BY <1>1, <1>2, <2>1, <2>2, PaidStep
<1>9. CASE PublishRetried(w, c)
  <2>1. Could(e)' \subseteq Could(e) /\ Fault("publish") /\ Write(c)
    BY <1>9 DEF PublishRetried, Could, Marking, IsCurrent
  <2> QED
    BY <1>3, <1>4, <2>1, PaidStep
<1>10. CASE PublishFails(w, c)
  <2>1. Could(e)' \subseteq Could(e)
    BY <1>10, NextRowCould DEF PublishFails
  <2>2. Fault("publish") /\ (Write(c) \/ UNCHANGED topic)
    BY <1>10 DEF PublishFails
  <2> QED
    BY <1>1, <1>3, <1>4, <2>1, <2>2, PaidStep
<1>11. CASE MarkFails(w, c)
  <2>1. stage[e] = "published" => stage'[e] = "published"
    BY <1>11 DEF MarkFails, TypeOK
  <2>2. Could(e)' \subseteq Could(e) \union {w}
    BY <1>11, <2>1, NextRowCould DEF MarkFails
  <2>3. Fault("mark") /\ topic' = topic
    BY <1>11 DEF MarkFails
  <2> QED
    BY <1>1, <1>3, <2>2, <2>3, PaidStep
<1> QED
  BY <1>5, <1>6, <1>7, <1>8, <1>9, <1>10, <1>11

\* A crash loses a mark or an acknowledgement, but not both.
LEMMA CrashPays ==
    ASSUME TypeOK, TypeOK', WorkerInv, NEW e \in Events, Paid(e), NEW w \in Workers, Crash(w)
    PROVE  Paid(e)'
<1> USE DEF table, worker
<1>1. /\ created' = created /\ stage' = stage
      /\ \A v \in Workers \ {w} : batch'[v] = batch[v] /\ wpc'[v] = wpc[v]
      /\ Fault("crash")
  BY DEF Crash, TypeOK
<1>2. Len(faults') = Len(faults) + 1
  BY <1>1 DEF Fault, TypeOK
<1>3. CASE topic' = topic
  <2>1. Copies(e)' = Copies(e)
    BY <1>3 DEF Copies
  <2>2. Could(e)' \subseteq Could(e) \union {w}
    BY <1>1, OthersCould
  <2> QED
    BY <1>2, <2>1, <2>2, PaidStep
<1>4. ASSUME NEW c \in Events, wpc[w] = "publish", Write(c)
      PROVE  Paid(e)'
  <2>1. Copies(e)' \in {Copies(e), Copies(e) + 1}
    BY <1>4, WriteCopies, CopiesIsNat
  <2>2. batch'[w] = {}
    BY DEF Crash, TypeOK
  <2>3. w \in Could(e)' => w \in Could(e)
    BY <1>1, <1>4, <2>2 DEF Could, Marking
  <2>4. Could(e)' \subseteq Could(e)
    BY <1>1, <2>3, OthersCould
  <2> QED
    BY <1>2, <2>1, <2>4, PaidStep
<1> QED
  BY <1>3, <1>4 DEF Crash

\* A transfer that begins or ends publishes nothing.
LEMMA TransferPays ==
    ASSUME TypeOK, TypeOK', WorkerInv, NEW e \in Events, Paid(e), NEW x \in Events,
           Begin(x) \/ EndTx(x, "unpublished") \/ EndTx(x, "aborted")
    PROVE  Paid(e)'
<1> USE DEF table, worker
<1>1. /\ topic' = topic /\ batch' = batch /\ wpc' = wpc /\ faults' = faults
      /\ \A y \in Events \ {x} : created'[y] = created[y]
      /\ stage[x] \in {"none", "open"} /\ stage'[x] # "published"
      /\ \A y \in Events \ {x} : stage'[y] = stage[y]
  BY DEF Begin, EndTx, TypeOK
<1>2. \A w \in Workers : x \notin batch[w]
  BY <1>1 DEF WorkerInv, BatchIsCommitted, Committed
<1>3. \A w \in Workers : IsCurrent(w, e)' <=> IsCurrent(w, e)
  <2>1. \A w \in Workers : \A y \in batch[w] : created'[y] = created[y]
    BY <1>1, <1>2 DEF TypeOK
  <2> QED
    BY <1>1, <2>1 DEF IsCurrent
<1>4. stage'[e] = "published" <=> stage[e] = "published"
  BY <1>1
<1>5. Could(e)' = Could(e)
  BY <1>1, <1>3, <1>4 DEF Could, Marking
<1>6. Copies(e)' = Copies(e)
  BY <1>1 DEF Copies
<1> QED
  BY <1>1, <1>5, <1>6 DEF Paid

LEMMA PaidInit == Init => \A e \in Events : Paid(e)
<1> SUFFICES ASSUME Init, NEW e \in Events PROVE Paid(e)
  OBVIOUS
<1>1. Copies(e) = 0
  <2>1. Places(topic[SenderOf[e]], e) = {}
    BY SenderAssumption DEF Init, Places
  <2> QED
    BY <2>1, FS_EmptySet DEF Copies, Places
<1>2. Could(e) \in SUBSET Workers /\ Len(faults) = 0
  BY DEF Could, Init
<1>3. /\ Cardinality(Could(e)) \in Nat /\ Cardinality(Workers) \in Nat
      /\ Cardinality(Could(e)) <= Cardinality(Workers)
  BY <1>2, WorkersAreCounted
<1> QED
  BY <1>1, <1>2, <1>3 DEF Paid

LEMMA PaidNext ==
    ASSUME TypeOK, TypeOK', WorkerInv, [Next]_vars, \A e \in Events : Paid(e)
    PROVE  \A e \in Events : Paid(e)'
<1> SUFFICES ASSUME NEW e \in Events PROVE Paid(e)'
  OBVIOUS
<1>1. CASE UNCHANGED vars
  BY <1>1 DEF vars, table, worker, Paid, Copies, Could, Marking, IsCurrent
<1>2. ASSUME NEW x \in Events, Begin(x) \/ EndTx(x, "unpublished") \/ EndTx(x, "aborted")
      PROVE  Paid(e)'
  BY <1>2, TransferPays
<1>3. ASSUME NEW w \in Workers, Poll(w) PROVE Paid(e)'
  BY <1>3, WorkPays
<1>4. ASSUME NEW w \in Workers, NEW c \in Events,
             \/ SkipBadRow(w, c) \/ Publish(w, c) \/ MarkPublished(w, c)
             \/ PublishRetried(w, c) \/ PublishFails(w, c) \/ MarkFails(w, c)
      PROVE  Paid(e)'
  BY <1>4, WorkPays
<1>5. ASSUME NEW w \in Workers, Crash(w) PROVE Paid(e)'
  BY <1>5, CrashPays
<1> QED
  BY <1>1, <1>2, <1>3, <1>4, <1>5 DEF Next, Work

\* Every copy of an event beyond one per process took a failure or a crash.
THEOREM DuplicatesArePaid == Spec => []DuplicatesNeedFaults
<1> DEFINE Inv == TypeOK /\ WorkerInv /\ \A e \in Events : Paid(e)
<1>1. Init => Inv
  BY TypeInit, WorkerInit, PaidInit
<1>2. Inv /\ [Next]_vars => Inv'
  BY TypeStep, WorkerStep, PaidNext
<1>3. ASSUME Inv PROVE DuplicatesNeedFaults
  <2> SUFFICES ASSUME NEW e \in Events
               PROVE  Copies(e) <= Cardinality(Workers) + Len(faults)
    BY DEF DuplicatesNeedFaults
  <2>1. /\ Copies(e) \in Nat /\ Len(faults) \in Nat
        /\ Cardinality(Could(e)) \in Nat /\ Cardinality(Workers) \in Nat
    BY <1>3, CopiesIsNat, WorkersAreCounted DEF TypeOK, Could
  <2> QED
    BY <1>3, <2>1 DEF Paid
<1> QED
  BY <1>1, <1>2, <1>3, PTL DEF Spec

-----------------------------------------------------------------------------
(* Order.  A sender who waits for each answer has one transfer open at a   *)
(* time, so the events before a committed one are all decided; a batch     *)
(* holds the oldest rows, so those that are not in Kafka yet are in the    *)
(* batch and come first.                                                   *)

\* x was sent after e, by the same sender.
Precedes(e, x) == SenderOf[e] = SenderOf[x] /\ created[e] > 0 /\ created[e] < created[x]

OneAtATime == ClientsWait => \A e, x \in Events : Precedes(e, x) => stage[e] # "open"

\* What is in Kafka was committed, and is there under its sender.
TopicIsCommitted ==
    \A s \in Senders : \A i \in 1 .. Len(topic[s]) :
       topic[s][i] \in Committed /\ SenderOf[topic[s][i]] = s

PublishedIsWritten == \A e \in Events : stage[e] = "published" => D!InTopic(e)

Due(e) == e \in Committed \ Undecodable

BatchInOrder ==
    \A w \in Workers : \A x \in batch[w] : \A e \in Events :
       Due(e) /\ Precedes(e, x) => e \in batch[w] \/ D!InTopic(e)

NoPublishFailed == \A i \in DOMAIN faults : faults[i] # "publish"

OrderInv ==
    /\ OneAtATime
    /\ TopicIsCommitted
    /\ PublishedIsWritten
    /\ ClientsWait /\ NoPublishFailed => BatchInOrder /\ SenderOrder

\* The rows that exist have begun.
LEMMA CommittedHaveBegun ==
    ASSUME TypeOK, WorkerInv, NEW e \in Committed
    PROVE  e \in Events /\ created[e] \in Nat /\ created[e] > 0
<1>1. e \in Events /\ stage[e] # "none"
  BY DEF Committed
<1> QED
  BY <1>1 DEF WorkerInv, Stamped, TypeOK

LEMMA OrderInit == Init => OrderInv
<1> SUFFICES ASSUME Init PROVE OrderInv
  OBVIOUS
<1>1. \A s \in Senders : Len(topic[s]) = 0 /\ DOMAIN topic[s] = {}
  BY DEF Init
<1>2. OneAtATime /\ PublishedIsWritten /\ BatchInOrder
  BY DEF Init, OneAtATime, PublishedIsWritten, BatchInOrder
<1>3. TopicIsCommitted /\ SenderOrder
  BY <1>1 DEF TopicIsCommitted, SenderOrder
<1> QED
  BY <1>2, <1>3 DEF OrderInv

\* What the worker writes next comes after nothing that is missing.
LEMMA CurrentIsNext ==
    ASSUME TypeOK, WorkerInv, BatchInOrder, NEW w \in Workers, NEW c \in Events, IsCurrent(w, c),
           NEW e \in Events, Due(e), SenderOf[e] = SenderOf[c], created[e] < created[c]
    PROVE  D!InTopic(e)
<1>1. Precedes(e, c)
  BY CommittedHaveBegun DEF Due, Precedes
<1>2. c \in batch[w] /\ e \notin batch[w]
  BY DEF IsCurrent, TypeOK
<1> QED
  BY <1>1, <1>2 DEF BatchInOrder

\* A write that nothing misses keeps the order.
LEMMA WriteKeepsOrder ==
    ASSUME TypeOK, NEW c \in Committed, Write(c), TopicIsCommitted,
           stage' = stage, created' = created
    PROVE  /\ TopicIsCommitted'
           /\ (/\ SenderOrder
               /\ \A e \in Events : Due(e) /\ SenderOf[e] = SenderOf[c] /\ created[e] < created[c]
                                   => D!InTopic(e))
              => SenderOrder'
<1> DEFINE k == SenderOf[c]
<1>1. c \in Events /\ k \in Senders
  BY SenderAssumption DEF Committed
<1>2. /\ topic'[k] = Append(topic[k], c)
      /\ \A s \in Senders \ {k} : topic'[s] = topic[s]
  BY <1>1 DEF TypeOK, Write
<1>3. /\ Len(topic[k]) \in Nat
      /\ Len(topic'[k]) = Len(topic[k]) + 1
      /\ DOMAIN topic[k] = 1 .. Len(topic[k])
      /\ DOMAIN topic'[k] = 1 .. Len(topic[k]) + 1
      /\ topic'[k][Len(topic[k]) + 1] = c
      /\ \A i \in 1 .. Len(topic[k]) : topic'[k][i] = topic[k][i]
  BY <1>1, <1>2 DEF TypeOK
<1>4. Committed' = Committed
  BY DEF Committed
<1>5. TopicIsCommitted'
  <2> SUFFICES ASSUME NEW s \in Senders, NEW i \in 1 .. Len(topic'[s])
               PROVE  topic'[s][i] \in Committed /\ SenderOf[topic'[s][i]] = s
    BY <1>4 DEF TopicIsCommitted
  <2>1. CASE s # k
    BY <1>2, <2>1 DEF TopicIsCommitted
  <2>2. CASE s = k /\ i \in 1 .. Len(topic[k])
    BY <1>3, <2>2 DEF TopicIsCommitted
  <2>3. CASE s = k /\ i = Len(topic[k]) + 1
    BY <1>3, <2>3
  <2> QED
    BY <1>3, <2>1, <2>2, <2>3
<1>6. ASSUME SenderOrder,
             \A e \in Events : Due(e) /\ SenderOf[e] = k /\ created[e] < created[c] => D!InTopic(e)
      PROVE  SenderOrder'
  <2> SUFFICES ASSUME NEW s \in Senders, NEW j \in DOMAIN topic'[s], NEW e \in Events,
                      SenderOf[e] = s, Due(e), created[e] < created[topic'[s][j]]
               PROVE  \E i \in 1 .. j : topic'[s][i] = e
    BY <1>4 DEF SenderOrder, Due
  <2>1. CASE s # k
    BY <1>2, <1>6, <2>1 DEF SenderOrder, Due
  <2>2. CASE s = k /\ j \in 1 .. Len(topic[k])
    <3>1. \E i \in 1 .. j : topic[k][i] = e
      BY <1>1, <1>3, <1>6, <2>2 DEF SenderOrder, Due
    <3> QED
      BY <1>3, <2>2, <3>1
  <2>3. CASE s = k /\ j = Len(topic[k]) + 1
    <3>1. D!InTopic(e)
      BY <1>3, <1>6, <2>3
    <3>2. \E i \in 1 .. Len(topic[k]) : topic[k][i] = e
      BY <2>3, <3>1 DEF D!InTopic
    <3> QED
      BY <1>3, <2>3, <3>2
  <2> QED
    BY <1>3, <2>1, <2>2, <2>3
<1> QED
  BY <1>5, <1>6

\* Recording another fault keeps the earlier ones.
LEMMA FaultsStay ==
    ASSUME TypeOK, NEW k, Fault(k)
    PROVE  /\ NoPublishFailed' => NoPublishFailed
           /\ k = "publish" => ~NoPublishFailed'
<1>1. /\ Len(faults) \in Nat /\ faults' = Append(faults, k)
      /\ DOMAIN faults = 1 .. Len(faults)
  BY DEF TypeOK, Fault
<1>2. /\ DOMAIN faults' = 1 .. Len(faults) + 1
      /\ faults'[Len(faults) + 1] = k
      /\ \A i \in 1 .. Len(faults) : faults'[i] = faults[i]
  BY <1>1 DEF TypeOK
<1>3. Len(faults) + 1 \in DOMAIN faults' /\ \A i \in DOMAIN faults : i \in DOMAIN faults'
  BY <1>1, <1>2
<1> QED
  BY <1>1, <1>2, <1>3 DEF NoPublishFailed

\* Where no transfer begins, the invariant only needs what the step does to the
\* topic, to the batches and to the rows that are published.
LEMMA LaterOrder ==
    ASSUME TypeOK, WorkerInv, OrderInv, created' = created,
           \A e \in Events : stage'[e] = "open" => stage[e] = "open",
           TopicIsCommitted', PublishedIsWritten',
           ClientsWait /\ NoPublishFailed' => BatchInOrder' /\ SenderOrder'
    PROVE  OrderInv'
<1>1. OneAtATime'
  BY DEF OrderInv, OneAtATime, Precedes
<1> QED
  BY <1>1 DEF OrderInv

LEMMA BeginKeepsOrder ==
    ASSUME TypeOK, WorkerInv, OrderInv, NEW x \in Events, Begin(x)
    PROVE  OrderInv'
<1> USE DEF table, worker
<1>1. /\ stage[x] = "none" /\ stage'[x] = "open"
      /\ created'[x] = Cardinality(Begun) + 1
      /\ \A e \in Events \ {x} : created'[e] = created[e] /\ stage'[e] = stage[e]
      /\ topic' = topic /\ batch' = batch /\ wpc' = wpc /\ faults' = faults
      /\ ClientsWait => \A e \in Events : SenderOf[e] = SenderOf[x] => stage[e] # "open"
  BY DEF Begin, Begun, TypeOK
<1>2. \A e \in Events : created[e] \in Nat /\ created[e] < created'[x]
  BY <1>1, BegunIsFinite DEF WorkerInv, Stamped, TypeOK
<1>3. /\ Committed' = Committed /\ x \notin Committed
      /\ \A e \in Committed : e \in Events \ {x}
  BY <1>1 DEF Committed
<1>4. OneAtATime'
  <2> SUFFICES ASSUME ClientsWait, NEW e \in Events, NEW y \in Events, Precedes(e, y)'
               PROVE  stage'[e] # "open"
    BY DEF OneAtATime
  <2>1. e # x
    <3>1. created'[e] < created'[y] /\ created'[x] \in Nat
      BY <1>1, BegunIsFinite DEF Precedes
    <3>2. created'[y] = created'[x] \/ created'[y] = created[y]
      BY <1>1
    <3> QED
      BY <1>2, <3>1, <3>2
  <2>2. CASE y = x
    BY <1>1, <2>1, <2>2 DEF Precedes
  <2>3. CASE y # x
    BY <1>1, <2>1, <2>3 DEF Precedes, OrderInv, OneAtATime
  <2> QED
    BY <2>2, <2>3
<1>5. TopicIsCommitted' /\ PublishedIsWritten'
  <2>1. TopicIsCommitted'
    BY <1>1, <1>3 DEF OrderInv, TopicIsCommitted
  <2>2. \A e \in Events : D!InTopic(e)' <=> D!InTopic(e)
    BY <1>1 DEF D!InTopic
  <2>3. PublishedIsWritten'
    BY <1>1, <2>2 DEF OrderInv, PublishedIsWritten
  <2> QED
    BY <2>1, <2>3
<1>6. ASSUME BatchInOrder PROVE BatchInOrder'
  <2> SUFFICES ASSUME NEW w \in Workers, NEW y \in batch[w], NEW e \in Events, Due(e)', Precedes(e, y)'
               PROVE  e \in batch[w] \/ D!InTopic(e)
    BY <1>1 DEF BatchInOrder, D!InTopic
  <2>1. y \in Committed /\ e \in Committed
    BY <1>3 DEF WorkerInv, BatchIsCommitted, Due
  <2>2. Due(e) /\ Precedes(e, y)
    BY <1>1, <1>3, <2>1 DEF Due, Precedes
  <2> QED
    BY <1>6, <2>2 DEF BatchInOrder
<1>7. ASSUME SenderOrder PROVE SenderOrder'
  <2> SUFFICES ASSUME NEW s \in Senders, NEW j \in DOMAIN topic[s], NEW e \in Events,
                      SenderOf[e] = s, Due(e), created'[e] < created'[topic[s][j]]
               PROVE  \E i \in 1 .. j : topic[s][i] = e
    BY <1>1, <1>3 DEF SenderOrder, Due
  <2>1. topic[s][j] \in Committed /\ e \in Committed
    BY DEF Due, OrderInv, TopicIsCommitted, TypeOK
  <2>2. created[e] < created[topic[s][j]]
    BY <1>1, <1>3, <2>1
  <2> QED
    BY <1>7, <2>2 DEF SenderOrder, Due
<1> QED
  BY <1>1, <1>4, <1>5, <1>6, <1>7 DEF OrderInv, NoPublishFailed

LEMMA EndTxKeepsOrder ==
    ASSUME TypeOK, WorkerInv, OrderInv, NEW x \in Events,
           NEW outcome \in {"unpublished", "aborted"}, EndTx(x, outcome)
    PROVE  OrderInv'
<1> USE DEF table, worker
<1>1. /\ stage[x] = "open" /\ stage'[x] \in {"unpublished", "aborted"}
      /\ \A e \in Events \ {x} : stage'[e] = stage[e]
      /\ created' = created /\ topic' = topic /\ batch' = batch /\ faults' = faults
  BY DEF EndTx, TypeOK
<1>2. /\ Committed \subseteq Committed'
      /\ \A e \in Events : Due(e)' => Due(e) \/ e = x
  BY <1>1 DEF Committed, Due
<1>3. \A e \in Events : stage'[e] = "open" => stage[e] = "open"
  BY <1>1
<1>4. TopicIsCommitted'
  BY <1>1, <1>2 DEF OrderInv, TopicIsCommitted
<1>5. PublishedIsWritten'
  BY <1>1 DEF OrderInv, PublishedIsWritten, D!InTopic
<1>6. ClientsWait => \A y \in Events : ~Precedes(x, y)
  BY <1>1 DEF OrderInv, OneAtATime
<1>7. ASSUME ClientsWait, BatchInOrder PROVE BatchInOrder'
  <2> SUFFICES ASSUME NEW w \in Workers, NEW y \in batch[w], NEW e \in Events, Due(e)', Precedes(e, y)
               PROVE  e \in batch[w] \/ D!InTopic(e)
    BY <1>1 DEF BatchInOrder, D!InTopic, Precedes
  <2>1. y \in Events
    BY DEF TypeOK
  <2>2. Due(e)
    BY <1>2, <1>6, <1>7, <2>1
  <2> QED
    BY <1>7, <2>2 DEF BatchInOrder
<1>8. ASSUME ClientsWait, SenderOrder PROVE SenderOrder'
  <2> SUFFICES ASSUME NEW s \in Senders, NEW j \in DOMAIN topic[s], NEW e \in Events,
                      SenderOf[e] = s, Due(e)', created[e] < created[topic[s][j]]
               PROVE  \E i \in 1 .. j : topic[s][i] = e
    BY <1>1 DEF SenderOrder, Due
  <2>1. /\ topic[s][j] \in Events /\ SenderOf[topic[s][j]] = s
    <3>1. topic[s] \in Seq(Events) /\ j \in 1 .. Len(topic[s])
      BY DEF TypeOK
    <3>2. topic[s][j] \in Committed /\ SenderOf[topic[s][j]] = s
      BY <3>1 DEF OrderInv, TopicIsCommitted
    <3> QED
      BY <3>1, <3>2
  <2>2. e # x
    <3>1. created[x] > 0
      BY <1>1 DEF WorkerInv, Stamped, TypeOK
    <3> QED
      BY <1>6, <1>8, <2>1, <3>1 DEF Precedes
  <2>3. Due(e)
    BY <1>2, <2>2
  <2> QED
    BY <1>8, <2>3 DEF SenderOrder, Due
<1> QED
  BY <1>1, <1>3, <1>4, <1>5, <1>7, <1>8, LaterOrder DEF OrderInv, NoPublishFailed

\* A poll takes the oldest rows, so with a row those before it.
LEMMA PollKeepsOrder ==
    ASSUME TypeOK, WorkerInv, OrderInv, NEW w \in Workers, Poll(w)
    PROVE  OrderInv'
<1> USE DEF table, worker
<1>1. /\ stage' = stage /\ created' = created /\ topic' = topic /\ faults' = faults
      /\ batch'[w] = GetUnpublished(BatchSize)
      /\ \A v \in Workers \ {w} : batch'[v] = batch[v]
  BY DEF Poll, TypeOK
<1>2. Committed' = Committed
  BY <1>1 DEF Committed
<1>3. TopicIsCommitted' /\ PublishedIsWritten'
  BY <1>1, <1>2 DEF OrderInv, TopicIsCommitted, PublishedIsWritten, D!InTopic
<1>4. SenderOrder' = SenderOrder
  BY <1>1, <1>2 DEF SenderOrder
<1>5. ASSUME NEW x \in GetUnpublished(BatchSize), NEW e \in Pending, created[e] < created[x]
      PROVE  e \in GetUnpublished(BatchSize)
  <2> DEFINE E == {y \in Pending : created[y] < created[e]}
             X == {y \in Pending : created[y] < created[x]}
  <2>1. \A y \in Pending : created[y] \in Nat
    BY DEF Pending, TypeOK
  <2>2. x \in Pending
    BY DEF GetUnpublished
  <2>3. E \subseteq X /\ X \subseteq Events
    BY <1>5, <2>1, <2>2 DEF Pending
  <2>4. IsFiniteSet(X)
    BY <2>3, FiniteAssumption, FS_Subset
  <2>5. Cardinality(E) <= Cardinality(X) /\ Cardinality(E) \in Nat /\ Cardinality(X) \in Nat
    BY <2>3, <2>4, FS_Subset, FS_CardinalityType
  <2>6. Cardinality(X) < BatchSize
    BY DEF GetUnpublished
  <2>7. Cardinality(E) < BatchSize
    <3> HIDE DEF E, X
    <3> QED
      BY <2>5, <2>6, BatchAssumption
  <2> QED
    BY <2>7 DEF GetUnpublished
<1>6. ASSUME BatchInOrder PROVE BatchInOrder'
  <2> SUFFICES ASSUME NEW v \in Workers, NEW x \in batch'[v], NEW e \in Events, Due(e), Precedes(e, x)
               PROVE  e \in batch'[v] \/ D!InTopic(e)
    BY <1>1, <1>2 DEF BatchInOrder, Due, Precedes, D!InTopic
  <2>1. CASE v # w
    BY <1>1, <1>6, <2>1 DEF BatchInOrder
  <2>2. CASE v = w /\ stage[e] = "published"
    BY <2>2 DEF OrderInv, PublishedIsWritten
  <2>3. CASE v = w /\ stage[e] = "unpublished"
    BY <1>1, <1>5, <2>3 DEF Pending, Precedes
  <2> QED
    BY <2>1, <2>2, <2>3 DEF Due, Committed
<1> QED
  BY <1>1, <1>3, <1>4, <1>6, LaterOrder DEF OrderInv, NoPublishFailed

\* Leaving a row that is in Kafka, or never will be, keeps the batch in order.
LEMMA NextRowKeepsOrder ==
    ASSUME TypeOK, WorkerInv, BatchInOrder, NEW w \in Workers, NEW c \in Events, NextRow(w, c),
           c \in Undecodable \/ D!InTopic(c), created' = created, Committed' = Committed,
           \A x \in Events : D!InTopic(x) => D!InTopic(x)'
    PROVE  BatchInOrder'
<1>1. batch'[w] = batch[w] \ {c} /\ \A v \in Workers \ {w} : batch'[v] = batch[v]
  BY DEF NextRow, TypeOK
<1> SUFFICES ASSUME NEW v \in Workers, NEW x \in batch'[v], NEW e \in Events, Due(e), Precedes(e, x)
             PROVE  e \in batch'[v] \/ D!InTopic(e)'
  BY DEF BatchInOrder, Due, Precedes
<1>2. x \in batch[v]
  BY <1>1
<1>3. e \in batch[v] \/ D!InTopic(e)
  BY <1>2 DEF BatchInOrder
<1>4. CASE e = c
  BY <1>4 DEF Due
<1>5. CASE e # c
  BY <1>1, <1>3, <1>5
<1> QED
  BY <1>4, <1>5

\* A step that only writes, or only skips or marks, keeps the order.
LEMMA WorkKeepsOrder ==
    ASSUME TypeOK, WorkerInv, OrderInv, NEW w \in Workers, NEW c \in Events,
           \/ SkipBadRow(w, c) \/ MarkPublished(w, c) \/ MarkFails(w, c)
    PROVE  OrderInv'
<1> USE DEF table, worker
<1>1. /\ created' = created /\ topic' = topic /\ IsCurrent(w, c) /\ NextRow(w, c)
      /\ \A e \in Events \ {c} : stage'[e] = stage[e]
      /\ stage'[c] \in {stage[c], "published"}
      /\ (c \in Undecodable /\ stage'[c] = stage[c]) \/ D!InTopic(c)
  BY DEF SkipBadRow, MarkPublished, MarkFails, TypeOK, WorkerInv, MarkedIsWritten
<1>2. c \in Committed
  BY <1>1 DEF IsCurrent, WorkerInv, BatchIsCommitted
<1>3. Committed' = Committed
  BY <1>1, <1>2 DEF Committed
<1>4. \A x \in Events : D!InTopic(x)' <=> D!InTopic(x)
  BY <1>1 DEF D!InTopic
<1>5. TopicIsCommitted' /\ PublishedIsWritten'
  BY <1>1, <1>3, <1>4 DEF OrderInv, TopicIsCommitted, PublishedIsWritten
<1>6. SenderOrder => SenderOrder'
  BY <1>1, <1>3 DEF SenderOrder
<1>7. BatchInOrder => BatchInOrder'
  BY <1>1, <1>3, <1>4, NextRowKeepsOrder
<1>8. NoPublishFailed' => NoPublishFailed
  BY FaultsStay DEF SkipBadRow, MarkPublished, MarkFails, NoPublishFailed
<1>9. \A e \in Events : stage'[e] = "open" => stage[e] = "open"
  BY <1>1
<1> QED
  BY <1>1, <1>5, <1>6, <1>7, <1>8, <1>9, LaterOrder DEF OrderInv

LEMMA WritesKeepOrder ==
    ASSUME TypeOK, WorkerInv, OrderInv, NEW w \in Workers, NEW c \in Events,
           IsCurrent(w, c), Write(c), stage' = stage, created' = created,
           NoPublishFailed' => NoPublishFailed,
           ClientsWait /\ NoPublishFailed' => \A v \in Workers : batch'[v] \in {batch[v], {}}
    PROVE  OrderInv'
<1>1. c \in Committed
  BY DEF IsCurrent, WorkerInv, BatchIsCommitted
<1>2. TopicIsCommitted
  BY DEF OrderInv
<1>3. TopicIsCommitted'
  BY <1>1, <1>2, WriteKeepsOrder
<1>4. \A x \in Events : D!InTopic(x) => D!InTopic(x)'
  BY WriteAppends
<1>5. PublishedIsWritten'
  BY <1>4 DEF OrderInv, PublishedIsWritten
<1>6. ASSUME ClientsWait, NoPublishFailed' PROVE BatchInOrder' /\ SenderOrder'
  <2>1. BatchInOrder /\ SenderOrder
    BY <1>6 DEF OrderInv
  <2>2. \A e \in Events : Due(e) /\ SenderOf[e] = SenderOf[c] /\ created[e] < created[c]
                          => D!InTopic(e)
    BY <2>1, CurrentIsNext
  <2>3. SenderOrder'
    BY <1>1, <1>2, <2>1, <2>2, WriteKeepsOrder
  <2>4. \A v \in Workers : batch'[v] = batch[v] \/ batch'[v] = {}
    BY <1>6
  <2>5. BatchInOrder'
    BY <1>4, <2>1, <2>4 DEF BatchInOrder, Due, Committed, Precedes
  <2> QED
    BY <2>3, <2>5
<1> QED
  BY <1>3, <1>5, <1>6, LaterOrder

LEMMA OrderNext ==
    ASSUME TypeOK, WorkerInv, OrderInv, [Next]_vars
    PROVE  OrderInv'
<1> USE DEF table, worker
<1>1. CASE UNCHANGED vars
  BY <1>1 DEF vars, OrderInv, OneAtATime, Precedes, TopicIsCommitted, PublishedIsWritten,
              NoPublishFailed, BatchInOrder, Due, Committed, SenderOrder, D!InTopic
<1>2. ASSUME NEW x \in Events, Begin(x) \/ EndTx(x, "unpublished") \/ EndTx(x, "aborted")
      PROVE  OrderInv'
  BY <1>2, BeginKeepsOrder, EndTxKeepsOrder
<1>3. ASSUME NEW w \in Workers, Poll(w) PROVE OrderInv'
  BY <1>3, PollKeepsOrder
<1>4. ASSUME NEW w \in Workers, NEW c \in Events,
             SkipBadRow(w, c) \/ MarkPublished(w, c) \/ MarkFails(w, c)
      PROVE  OrderInv'
  BY <1>4, WorkKeepsOrder
<1>5. ASSUME NEW w \in Workers, NEW c \in Events, Publish(w, c) PROVE OrderInv'
  BY <1>5, WritesKeepOrder DEF Publish, NoPublishFailed
<1>6. ASSUME NEW w \in Workers, NEW c \in Events, PublishRetried(w, c) \/ PublishFails(w, c)
      PROVE  OrderInv'
  <2>1. ~NoPublishFailed'
    BY <1>6, FaultsStay DEF PublishRetried, PublishFails
  <2>2. CASE Write(c)
    BY <1>6, <2>1, <2>2, WritesKeepOrder DEF PublishRetried, PublishFails
  <2>3. CASE topic' = topic
    <3>1. stage' = stage /\ created' = created
      BY <1>6 DEF PublishRetried, PublishFails
    <3>2. TopicIsCommitted' /\ PublishedIsWritten'
      BY <2>3, <3>1 DEF OrderInv, TopicIsCommitted, PublishedIsWritten, Committed, D!InTopic
    <3> QED
      BY <2>1, <3>1, <3>2, LaterOrder
  <2> QED
    BY <1>6, <2>2, <2>3 DEF PublishRetried, PublishFails
<1>7. ASSUME NEW w \in Workers, Crash(w) PROVE OrderInv'
  <2>1. /\ stage' = stage /\ created' = created
        /\ \A v \in Workers : batch'[v] \in {batch[v], {}}
    BY <1>7 DEF Crash, TypeOK
  <2>2. NoPublishFailed' => NoPublishFailed
    BY <1>7, FaultsStay DEF Crash
  <2>3. ASSUME NEW c \in Events, IsCurrent(w, c), Write(c) PROVE OrderInv'
    BY <2>1, <2>2, <2>3, WritesKeepOrder
  <2>4. CASE topic' = topic
    <3>1. TopicIsCommitted' /\ PublishedIsWritten' /\ (SenderOrder => SenderOrder')
      BY <2>1, <2>4 DEF OrderInv, TopicIsCommitted, PublishedIsWritten, SenderOrder, Committed, D!InTopic
    <3>2. \A v \in Workers : batch'[v] = batch[v] \/ batch'[v] = {}
      BY <2>1
    <3>3. BatchInOrder => BatchInOrder'
      BY <2>1, <2>4, <3>2 DEF BatchInOrder, Due, Committed, Precedes, D!InTopic
    <3> QED
      BY <2>1, <2>2, <3>1, <3>3, LaterOrder DEF OrderInv
  <2> QED
    BY <1>7, <2>3, <2>4 DEF Crash
<1> QED
  BY <1>1, <1>2, <1>3, <1>4, <1>5, <1>6, <1>7 DEF Next, Work

\* Consumers see the events of a sender who waits for each answer in the order
\* of the transfers, until a publish fails.
THEOREM OrderHoldsUntilPublishFails == Spec => []OrderUntilPublishFails
<1>1. OrderInv => OrderUntilPublishFails
  BY DEF OrderInv, OrderUntilPublishFails, NoPublishFailed
<1> QED
  BY <1>1, TypeInit, TypeStep, WorkerInit, WorkerStep, OrderInit, OrderNext, PTL DEF Spec
=============================================================================
