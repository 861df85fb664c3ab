--------------------------- MODULE Lifecycle_proofs ---------------------------
(***************************************************************************)
(* Proofs about Lifecycle, for any transfers, flags, senders and number of *)
(* processes.                                                              *)
(***************************************************************************)
EXTENDS Lifecycle, TLAPS

-----------------------------------------------------------------------------
(* What a process holds at each place of main().  TypeOK needs it: a new    *)
(* worker starts with an empty batch because the old one's is gone.         *)

NobodyServed == \A r \in Requests : ~Serving(r)

\* Nothing of a process is there before it has connected or after its end.
NothingHeld ==
    /\ listener = "closed" /\ open = {}
    /\ worker = "down" /\ writing = {}
    /\ NobodyServed

ProcessInv ==
    /\ main \notin {"serve", "drain", "close"} => NothingHeld
    /\ main \in {"serve", "drain"} => open = Connections
    /\ main \in {"drain", "close"} => listener = "closed"
    /\ main = "close" =>
          /\ open \in {Connections, {"alerts", "db"}, {"db"}, {}}
          /\ late \/ NobodyServed
          /\ "alerts" \notin open => writing = {}

\* The actions of the requests, of the worker and of Kafka, by what they leave.
RequestStep(r) == Accept(r) \/ Database(r) \/ Alert(r) \/ Alerted(r) \/ Answer(r)

LoopStep ==
    \/ Work
    \/ \E e \in Transfers : Store(e)

MainStep == Main \/ Listen \/ Signal \/ Fatal \/ Kill

\* The end of a process leaves nothing of it, and the rows as they are typed.
LEMMA EndOfProcess ==
    ASSUME TypeOK, NEW how \in {"down", "exited"}, End(how)
    PROVE  TypeOK' /\ ProcessInv'
<1>1. \A r \in Requests : pc'[r] \notin Handling
  BY DEF End, TypeOK, Serving, Handling
<1>2. pc' \in [Requests -> Handling \union {"new", "done", "cut"}]
  BY DEF End, TypeOK, Serving
<1>3. ProcessInv'
  BY <1>1 DEF End, ProcessInv, NothingHeld, NobodyServed, Serving
<1>4. TypeOK'
  BY <1>2 DEF End, TypeOK, stored
<1> QED
  BY <1>3, <1>4

\* A step of main, of the operating system or of the listener keeps both.
LEMMA MainKeeps ==
    ASSUME TypeOK, ProcessInv, MainStep
    PROVE  TypeOK' /\ ProcessInv'
<1> USE DEF loop, stored
<1>1. CASE Start \/ LoadConfig
  <2>1. /\ main \notin {"serve", "drain", "close"} /\ main' \in {"config", "connect"}
        /\ UNCHANGED <<listener, open, pc, loop, stored>>
        /\ signalled' \in BOOLEAN /\ late' \in BOOLEAN
    BY <1>1 DEF Start, LoadConfig, Up, TypeOK
  <2>2. lives' \in 0 .. MaxLives
    BY <1>1, LivesAssumption DEF Start, LoadConfig, TypeOK
  <2>3. TypeOK'
    BY <2>1, <2>2 DEF TypeOK
  <2> QED
    BY <2>1, <2>3 DEF ProcessInv, NothingHeld, NobodyServed, Serving
<1>2. CASE Connect
  BY <1>2 DEF Connect, TypeOK, ProcessInv, NothingHeld, NobodyServed, Serving, Connections
<1>3. CASE Listen \/ Signal
  BY <1>3 DEF Listen, Signal, TypeOK, ProcessInv, NothingHeld, NobodyServed, Serving, Connections
<1>4. CASE Shutdown \/ Drained \/ Deadline
  BY <1>4 DEF Shutdown, Drained, Deadline, TypeOK, ProcessInv, NothingHeld, NobodyServed, Serving, Connections
<1>5. ASSUME NEW c \in Connections, Close(c) PROVE TypeOK' /\ ProcessInv'
  BY <1>5 DEF Close, NextToClose, TypeOK, ProcessInv, NothingHeld, NobodyServed, Serving, Connections
<1>6. CASE Fatal \/ Kill \/ Exit
  BY <1>6, EndOfProcess DEF Fatal, Kill, Exit
<1> QED
  BY <1>1, <1>2, <1>3, <1>4, <1>5, <1>6 DEF MainStep, Main

\* A step of a handler keeps both: it begins only while the listener is open.
LEMMA RequestKeeps ==
    ASSUME TypeOK, ProcessInv, NEW r \in Requests, RequestStep(r)
    PROVE  TypeOK' /\ ProcessInv'
<1> USE DEF process, loop, stored, Goto
<1>1. /\ \A x \in Requests \ {r} : pc'[x] = pc[x]
      /\ pc' \in [Requests -> Handling \union {"new", "done", "cut"}]
      /\ UNCHANGED <<process, loop, settled, topic>>
  BY DEF RequestStep, Accept, Database, Alert, Alerted, Answer, TypeOK, Handling
<1>2. Serving(r) \/ listener = "open"
  BY DEF RequestStep, Accept, Database, Alert, Alerted, Answer, Serving, Handling
<1>3. committed \subseteq committed' /\ committed' \subseteq Transfers
  BY DEF RequestStep, Accept, Database, Alert, Alerted, Answer, TypeOK
<1>4. TypeOK'
  BY <1>1, <1>3 DEF TypeOK
<1>5. ProcessInv'
  BY <1>1, <1>2 DEF ProcessInv, NothingHeld, NobodyServed, Serving
<1> QED
  BY <1>4, <1>5

\* Leaving rows of the batch keeps the worker's state in its type.
LEMMA LeaveIsTyped ==
    ASSUME TypeOK, NEW done \in SUBSET batch, done # {}, Leave(done)
    PROVE  /\ row' \subseteq batch' /\ batch' \subseteq batch
           /\ worker' \in {"idle", "row"} /\ row' = {}
           /\ worker' = "row" <=> batch' # {}
<1>1. batch' = {} <=> batch = done
  BY DEF Leave
<1> QED
  BY <1>1 DEF Leave

\* A step of the worker or of Kafka keeps both.
LEMMA LoopKeeps ==
    ASSUME TypeOK, ProcessInv, LoopStep
    PROVE  TypeOK' /\ ProcessInv'
<1> USE DEF process, stored
<1>1. CASE Poll \/ Stop \/ Published
  BY <1>1 DEF Poll, Pending, Stop, Published, TypeOK, ProcessInv, NothingHeld, NobodyServed, Serving
<1>2. CASE PublishCancelled \/ MarkPublished \/ MarkCancelled
  <2>1. row \in SUBSET batch /\ row # {} /\ Leave(row)
    BY <1>2 DEF PublishCancelled, MarkPublished, MarkCancelled, TypeOK
  <2>2. /\ settled' \subseteq committed /\ worker # "down"
        /\ UNCHANGED <<process, pc, writing, committed, topic>>
    BY <1>2 DEF PublishCancelled, MarkPublished, MarkCancelled, TypeOK
  <2>3. TypeOK'
    BY <2>1, <2>2, LeaveIsTyped DEF TypeOK
  <2> QED
    BY <2>2, <2>3 DEF ProcessInv, NothingHeld, NobodyServed, Serving
<1>3. ASSUME NEW e \in Transfers, PublishRefused(e) PROVE TypeOK' /\ ProcessInv'
  <2>1. {e} \in SUBSET batch /\ Leave({e}) /\ worker # "down"
    BY <1>3 DEF PublishRefused
  <2>2. TypeOK'
    BY <1>3, <2>1, LeaveIsTyped DEF PublishRefused, TypeOK
  <2> QED
    BY <1>3, <2>1, <2>2 DEF PublishRefused, ProcessInv, NothingHeld, NobodyServed, Serving
<1>4. ASSUME NEW e \in Transfers, Publish(e) PROVE TypeOK' /\ ProcessInv'
  <2>1. TypeOK'
    BY <1>4 DEF Publish, TypeOK
  <2>2. ProcessInv'
    BY <1>4 DEF Publish, ProcessInv, NothingHeld, NobodyServed, Serving, Connections
  <2> QED
    BY <2>1, <2>2
<1>5. ASSUME NEW e \in Transfers, Store(e) PROVE TypeOK' /\ ProcessInv'
  <2>1. topic' \in [Senders -> Seq(Transfers)]
    <3>1. SenderOf[e] \in Senders
      BY SenderAssumption
    <3>2. Append(topic[SenderOf[e]], e) \in Seq(Transfers)
      BY <3>1 DEF TypeOK
    <3> QED
      BY <1>5, <3>1, <3>2 DEF Store, TypeOK
  <2>2. TypeOK'
    BY <1>5, <2>1 DEF Store, TypeOK
  <2>3. ProcessInv'
    BY <1>5 DEF Store, ProcessInv, NothingHeld, NobodyServed, Serving
  <2> QED
    BY <2>2, <2>3
<1> QED
  BY <1>1, <1>2, <1>3, <1>4, <1>5 DEF LoopStep, Work

\* The initial state is typed, and nothing is held.
LEMMA ProcessInit == Init => TypeOK /\ ProcessInv
<1> SUFFICES ASSUME Init PROVE TypeOK /\ ProcessInv
  OBVIOUS
<1>1. \A r \in Requests : ~Serving(r)
  BY DEF Init, Serving, Handling
<1>2. lives \in 0 .. MaxLives
  BY LivesAssumption DEF Init
<1>3. topic \in [Senders -> Seq(Transfers)]
  BY DEF Init
<1>4. TypeOK
  BY <1>2, <1>3 DEF Init, TypeOK
<1>5. ProcessInv
  BY <1>1 DEF Init, ProcessInv, NothingHeld, NobodyServed
<1> QED
  BY <1>4, <1>5

\* Every step keeps the types and what a process holds.
LEMMA ProcessStep == TypeOK /\ ProcessInv /\ [Next]_vars => TypeOK' /\ ProcessInv'
<1> SUFFICES ASSUME TypeOK, ProcessInv, [Next]_vars PROVE TypeOK' /\ ProcessInv'
  OBVIOUS
<1>1. CASE UNCHANGED vars
  BY <1>1 DEF vars, process, loop, stored, TypeOK, ProcessInv, NothingHeld, NobodyServed, Serving
<1> QED
  BY <1>1, MainKeeps, RequestKeeps, LoopKeeps DEF Next, MainStep, RequestStep, LoopStep

\* The worker's goroutine, its batch and Kafka's writer stay consistent over
\* any number of processes, however each of them ends.
THEOREM TypeCorrect == Spec => []TypeOK
  BY ProcessInit, ProcessStep, PTL DEF Spec

-----------------------------------------------------------------------------
(* Shutting down. *)

\* Until Shutdown gives up on it, a handler finds its connections open
\* (cmd/main.go: the deferred closes run after Shutdown has returned).
THEOREM HandlersKeepConnections == Spec => []RequestsKeepConnections
<1>1. ProcessInv => RequestsKeepConnections
  <2> SUFFICES ASSUME ProcessInv, NEW r \in Requests, Serving(r), ~late
               PROVE  {"db", "alerts"} \subseteq open
    BY DEF RequestsKeepConnections
  <2>1. ~NobodyServed
    BY DEF NobodyServed
  <2>2. main \in {"serve", "drain"}
    BY <2>1 DEF ProcessInv, NothingHeld
  <2> QED
    BY <2>2 DEF ProcessInv, Connections
<1> QED
  BY <1>1, ProcessInit, ProcessStep, PTL DEF Spec

\* main returns with nothing half written, and with requests cut off only
\* after the deadline of Shutdown.
THEOREM ExitIsClean == Spec => CleanExit
<1> DEFINE Clean == main' = "exited" /\ main # "exited" =>
                       writing = {} /\ (late \/ \A r \in Requests : ~Serving(r))
<1>1. TypeOK /\ ProcessInv /\ [Next]_vars => [Clean]_vars
  <2> SUFFICES ASSUME TypeOK, ProcessInv, [Next]_vars, main' = "exited", main # "exited"
               PROVE  writing = {} /\ (late \/ NobodyServed)
    BY DEF NobodyServed
  <2> USE DEF process, loop
  <2>1. ASSUME NEW r \in Requests, RequestStep(r) PROVE FALSE
    BY <2>1 DEF RequestStep, Accept, Database, Alert, Alerted, Answer, Goto
  <2>2. CASE LoopStep
    BY <2>2 DEF LoopStep, Work, Poll, Stop, Published, PublishCancelled, MarkPublished,
                MarkCancelled, Publish, PublishRefused, Store
  <2>3. CASE MainStep
    <3>1. Exit
      BY <2>3 DEF MainStep, Main, Start, LoadConfig, Connect, Shutdown, Drained, Deadline,
                  Close, Listen, Signal, Fatal, Kill, End
    <3> QED
      BY <3>1 DEF Exit, ProcessInv
  <2>4. CASE UNCHANGED vars
    BY <2>4 DEF vars
  <2> QED
    BY <2>1, <2>2, <2>3, <2>4 DEF Next, MainStep, RequestStep, LoopStep
<1> QED
  BY <1>1, ProcessInit, ProcessStep, PTL DEF Spec, CleanExit

-----------------------------------------------------------------------------
(* Delivery.  The writer works on its own, so between the call and the mark *)
(* the row is known to be in its hands or in the topic, and after the call  *)
(* has returned without an error, in the topic.                             *)

WrittenInv ==
    /\ \A x, y \in row : x = y
    /\ worker = "publish" => \A e \in row : e \in writing \/ D!InTopic(e)
    /\ worker = "mark" => \A e \in row : D!InTopic(e)

\* What Kafka stores is in the topic from then on.
LEMMA StoreAppends ==
    ASSUME TypeOK, NEW e \in Transfers, Store(e)
    PROVE  /\ D!InTopic(e)'
           /\ \A x \in Transfers : D!InTopic(x) => D!InTopic(x)'
<1> DEFINE s == SenderOf[e]
<1>1. s \in Senders /\ topic[s] \in Seq(Transfers)
  BY SenderAssumption DEF TypeOK
<1>2. topic'[s] = Append(topic[s], e) /\ \A t \in Senders \ {s} : topic'[t] = topic[t]
  BY <1>1 DEF Store, TypeOK
<1>3. /\ Len(topic'[s]) = Len(topic[s]) + 1
      /\ topic'[s][Len(topic[s]) + 1] = e
      /\ \A i \in 1 .. Len(topic[s]) : topic'[s][i] = topic[s][i]
      /\ Len(topic[s]) \in Nat
  BY <1>1, <1>2
<1>4. D!InTopic(e)'
  BY <1>3 DEF D!InTopic
<1>5. ASSUME NEW x \in Transfers, D!InTopic(x) PROVE D!InTopic(x)'
  <2>1. CASE SenderOf[x] = s
    BY <1>3, <1>5, <2>1 DEF D!InTopic
  <2>2. CASE SenderOf[x] # s
    <3>1. topic'[SenderOf[x]] = topic[SenderOf[x]]
      BY <1>2, <2>2, SenderAssumption
    <3> QED
      BY <1>5, <3>1 DEF D!InTopic
  <2> QED
    BY <2>1, <2>2
<1> QED
  BY <1>4, <1>5

\* Initially the worker is at no row.
LEMMA WrittenInit == Init => WrittenInv
  BY DEF Init, WrittenInv

\* Every step keeps the row the worker is at written or being written.
LEMMA WrittenStep == TypeOK /\ ProcessInv /\ WrittenInv /\ [Next]_vars => WrittenInv'
<1> SUFFICES ASSUME TypeOK, ProcessInv, WrittenInv, [Next]_vars PROVE WrittenInv'
  OBVIOUS
<1> USE DEF process, loop, stored
<1>1. CASE UNCHANGED <<worker, row, writing, topic>>
  BY <1>1 DEF WrittenInv, D!InTopic
<1>2. CASE row' = {}
  BY <1>2 DEF WrittenInv
<1>3. ASSUME NEW r \in Requests, RequestStep(r) PROVE WrittenInv'
  BY <1>1, <1>3 DEF RequestStep, Accept, Database, Alert, Alerted, Answer, Goto
<1>4. CASE MainStep
  <2>1. CASE Connect
    <3>1. row' = {}
      BY <2>1 DEF Connect, ProcessInv, NothingHeld, TypeOK
    <3> QED
      BY <1>2, <3>1
  <2>2. CASE ~Connect
    BY <1>1, <1>2, <1>4, <2>2
    DEF MainStep, Main, Start, LoadConfig, Shutdown, Drained, Deadline, Exit, Close, Listen,
        Signal, Fatal, Kill, End
  <2> QED
    BY <2>1, <2>2
<1>5. CASE Poll \/ Stop
  BY <1>2, <1>5 DEF Poll, Stop, TypeOK
<1>6. CASE PublishCancelled \/ MarkPublished \/ MarkCancelled \/ \E e \in Transfers : PublishRefused(e)
  BY <1>2, <1>6 DEF PublishCancelled, MarkPublished, MarkCancelled, PublishRefused, Leave
<1>7. ASSUME NEW e \in Transfers, Publish(e) PROVE WrittenInv'
  BY <1>7 DEF Publish, WrittenInv
<1>8. CASE Published
  BY <1>8 DEF Published, WrittenInv, D!InTopic
<1>9. ASSUME NEW e \in Transfers, Store(e) PROVE WrittenInv'
  <2>1. row \subseteq Transfers
    BY DEF TypeOK
  <2> QED
    BY <1>9, <2>1, StoreAppends DEF Store, WrittenInv
<1>10. CASE UNCHANGED vars
  BY <1>1, <1>10 DEF vars
<1> QED
  BY <1>3, <1>4, <1>5, <1>6, <1>7, <1>8, <1>9, <1>10
  DEF Next, MainStep, RequestStep, Work

\* Every step is a step of Delivery or leaves its variables alone.
LEMMA StepRefines ==
    ASSUME TypeOK, WrittenInv, [Next]_vars
    PROVE  [D!Next]_D!vars
<1> USE DEF process, loop, stored, D!vars
<1>1. ASSUME NEW r \in Requests, RequestStep(r) PROVE [D!Next]_D!vars
  <2>1. CASE r \in Transfers /\ Database(r)
    BY <2>1 DEF Database, D!Next, D!Commit
  <2> QED
    BY <1>1, <2>1 DEF RequestStep, Accept, Database, Alert, Alerted, Answer, Goto
<1>2. CASE MainStep
  BY <1>2 DEF MainStep, Main, Start, LoadConfig, Connect, Shutdown, Drained, Deadline, Exit,
              Close, Listen, Signal, Fatal, Kill, End
<1>3. CASE MarkPublished
  <2>1. PICK e \in row : TRUE
    BY <1>3 DEF MarkPublished, TypeOK
  <2>2. row = {e} /\ e \in Transfers /\ D!InTopic(e)
    BY <1>3, <2>1 DEF MarkPublished, WrittenInv, TypeOK
  <2>3. D!Settle(e)
    BY <1>3, <2>2 DEF MarkPublished, D!Settle
  <2> QED
    BY <2>2, <2>3 DEF D!Next
<1>4. ASSUME NEW e \in Transfers, Store(e) PROVE D!Next
  <2>1. D!Deliver(e)
    BY <1>4 DEF Store, D!Deliver, TypeOK
  <2> QED
    BY <2>1 DEF D!Next
<1>5. CASE Work /\ ~MarkPublished
  BY <1>5 DEF Work, Poll, Stop, Published, PublishCancelled, MarkCancelled, Publish,
              PublishRefused
<1>6. CASE UNCHANGED vars
  BY <1>6 DEF vars
<1> QED
  BY <1>1, <1>2, <1>3, <1>4, <1>5, <1>6 DEF Next, MainStep, RequestStep

\* However processes end, in the middle of whichever call: only committed
\* events reach Kafka, and an event is marked only when it is there.
THEOREM DeliveryIsImplemented == Spec => ImplementsDelivery
<1>1. Init => D!Init
  BY DEF Init, D!Init
<1>2. TypeOK /\ WrittenInv /\ [Next]_vars => [D!Next]_D!vars
  BY StepRefines
<1> QED
  BY <1>1, <1>2, ProcessInit, ProcessStep, WrittenInit, WrittenStep, PTL
  DEF Spec, ImplementsDelivery, D!Spec
=============================================================================
