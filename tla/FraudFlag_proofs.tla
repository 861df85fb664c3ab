-------------------------- MODULE FraudFlag_proofs --------------------------
(***************************************************************************)
(* Proofs about flagging and unflagging, for any transactions, requests,   *)
(* attempts of the Kafka writer and failures.  They count requests: a step *)
(* that changes the status of a transaction adds its request to those that *)
(* did change it, or may have, and no other step adds one.  A message in   *)
(* the topic shows for good that its request did, also after a crash has   *)
(* made its answer tell nothing.                                           *)
(***************************************************************************)
EXTENDS FraudFlag, FiniteSetTheorems, TLAPS

\* A handler answers when it ends, and not before.
AnsweredWhenDone == \A r \in Requests : pc[r] # "done" => answer[r] = "none"

\* What a request's place and answer say: it changed the status; it may have.
Won(r) == pc[r] = "publish" \/ answer[r] \in {"ok", "publish_failed"}
Maybe(r) == Won(r) \/ answer[r] \in {"internal", "lost"}

\* The requests that certainly changed the status, by their answer or by a
\* message in the topic, and those that changed it or may have.
Did(t, op) == {r \in Of(t, op) : Won(r) \/ Stored(r)}
May(t, op) == {r \in Of(t, op) : Maybe(r)}

Flagged(t) == IF status[t] = "flagged" THEN 1 ELSE 0

Alternate(t) ==
    /\ Cardinality(Did(t, "flag")) <= Cardinality(May(t, "unflag")) + Flagged(t)
    /\ Cardinality(Did(t, "unflag")) + Flagged(t) <= Cardinality(May(t, "flag"))

\* The message of a request.
MessageOf(r) == [of |-> r, kind |-> Message(req[r].op)]

\* A message in the topic is that of a request about its transaction, which
\* changed the status or may have.
MessagesAreDeserved ==
    \A t \in Txns : \A i \in DOMAIN alerts[t] :
       \E r \in Requests : req[r].txn = t /\ Maybe(r) /\ alerts[t][i] = MessageOf(r)

\* Whoever is told ok has a message in the topic.
OkIsStored == \A r \in Requests : answer[r] = "ok" => Stored(r)

FlagInv ==
    /\ TypeOK
    /\ AnsweredWhenDone
    /\ MessagesAreDeserved
    /\ OkIsStored
    /\ \A t \in Txns : Alternate(t)

-----------------------------------------------------------------------------
(* Counting.                                                               *)

\* A set of requests has a size, and a part of it no greater one.
LEMMA PartsAreSmaller ==
    ASSUME NEW S \in SUBSET Requests, NEW T \in SUBSET S
    PROVE  /\ IsFiniteSet(S)
           /\ Cardinality(S) \in Nat
           /\ Cardinality(T) \in Nat
           /\ Cardinality(T) <= Cardinality(S)
<1>1. IsFiniteSet(S) /\ IsFiniteSet(T)
  BY RequestsAssumption, FS_Subset
<1> QED
  BY <1>1, FS_Subset, FS_CardinalityType

\* A request that was not counted counts for one.
LEMMA OneMore ==
    ASSUME NEW S \in SUBSET Requests, NEW r \in Requests, r \notin S
    PROVE  Cardinality(S \union {r}) = Cardinality(S) + 1
  BY PartsAreSmaller, FS_AddElement

LEMMA FlaggedIsNat == \A t : Flagged(t) \in {0, 1} /\ Flagged(t)' \in {0, 1}
  BY DEF Flagged

LEMMA SidesAreRequests ==
    \A t, op : /\ Did(t, op) \in SUBSET Requests /\ Did(t, op)' \in SUBSET Requests
               /\ May(t, op) \in SUBSET Requests /\ May(t, op)' \in SUBSET Requests
  BY DEF Did, May, Of

-----------------------------------------------------------------------------
(* What a step does to the requests about one transaction.                 *)

\* Nobody changes the status.
Quiet(t) ==
    /\ \A op \in Operations : /\ Did(t, op)' \subseteq Did(t, op)
                              /\ May(t, op) \subseteq May(t, op)'
    /\ Flagged(t)' = Flagged(t)

\* r changes it.
Flip(t, r, op) ==
    /\ r \in Requests /\ op \in Operations
    /\ r \notin Did(t, op) /\ r \notin May(t, op)
    /\ May(t, op) \union {r} \subseteq May(t, op)'
    /\ Did(t, op)' \subseteq Did(t, op) \union {r}
    /\ \A other \in Operations \ {op} : /\ Did(t, other)' \subseteq Did(t, other)
                                        /\ May(t, other) \subseteq May(t, other)'
    /\ Flagged(t) = (IF op = "flag" THEN 0 ELSE 1)
    /\ Flagged(t)' = (IF op = "flag" THEN 1 ELSE 0)

\* The sides whose request is not counted stay within their bounds.
LEMMA SidesKeep ==
    ASSUME NEW t, NEW op,
           Did(t, op)' \subseteq Did(t, op), May(t, op) \subseteq May(t, op)'
    PROVE  /\ Cardinality(Did(t, op)) \in Nat
           /\ Cardinality(Did(t, op)') \in Nat
           /\ Cardinality(May(t, op)) \in Nat
           /\ Cardinality(May(t, op)') \in Nat
           /\ Cardinality(Did(t, op)') <= Cardinality(Did(t, op))
           /\ Cardinality(May(t, op)) <= Cardinality(May(t, op)')
<1>1. /\ Did(t, op) \in SUBSET Requests /\ May(t, op)' \in SUBSET Requests
      /\ Did(t, op)' \in SUBSET Did(t, op)
      /\ May(t, op) \in SUBSET May(t, op)'
  BY SidesAreRequests
<1> QED
  BY ONLY <1>1, PartsAreSmaller

\* While nobody changes the status the counts stay apart as they were.
LEMMA QuietAlternates ==
    ASSUME NEW t \in Txns, Alternate(t), Quiet(t)
    PROVE  Alternate(t)'
<1>1. "flag" \in Operations /\ "unflag" \in Operations
  BY DEF Operations
<1>2. /\ Did(t, "flag")' \subseteq Did(t, "flag") /\ May(t, "flag") \subseteq May(t, "flag")'
      /\ Did(t, "unflag")' \subseteq Did(t, "unflag") /\ May(t, "unflag") \subseteq May(t, "unflag")'
      /\ Flagged(t)' = Flagged(t)
  BY <1>1 DEF Quiet
<1>3. /\ Cardinality(Did(t, "flag")) \in Nat /\ Cardinality(Did(t, "flag")') \in Nat
      /\ Cardinality(May(t, "flag")) \in Nat /\ Cardinality(May(t, "flag")') \in Nat
      /\ Cardinality(Did(t, "flag")') <= Cardinality(Did(t, "flag"))
      /\ Cardinality(May(t, "flag")) <= Cardinality(May(t, "flag")')
  BY <1>2, SidesKeep
<1>4. /\ Cardinality(Did(t, "unflag")) \in Nat /\ Cardinality(Did(t, "unflag")') \in Nat
      /\ Cardinality(May(t, "unflag")) \in Nat /\ Cardinality(May(t, "unflag")') \in Nat
      /\ Cardinality(Did(t, "unflag")') <= Cardinality(Did(t, "unflag"))
      /\ Cardinality(May(t, "unflag")) <= Cardinality(May(t, "unflag")')
  BY <1>2, SidesKeep
<1> QED
  BY <1>2, <1>3, <1>4, FlaggedIsNat DEF Alternate

\* A change of the status adds its request on the side that the counts expect.
LEMMA FlipAlternates ==
    ASSUME NEW t \in Txns, NEW r, NEW op, Alternate(t), Flip(t, r, op)
    PROVE  Alternate(t)'
<1>1. /\ Cardinality(Did(t, op)) \in Nat
      /\ Cardinality(Did(t, op)') \in Nat
      /\ Cardinality(May(t, op)) \in Nat
      /\ Cardinality(May(t, op)') \in Nat
      /\ Cardinality(May(t, op)) + 1 <= Cardinality(May(t, op)')
      /\ Cardinality(Did(t, op)') <= Cardinality(Did(t, op)) + 1
  <2>1. /\ r \in Requests
        /\ Did(t, op) \in SUBSET Requests /\ May(t, op) \in SUBSET Requests
        /\ r \notin Did(t, op) /\ r \notin May(t, op)
        /\ May(t, op)' \in SUBSET Requests
        /\ May(t, op) \union {r} \in SUBSET (May(t, op)')
        /\ Did(t, op)' \in SUBSET (Did(t, op) \union {r})
    BY SidesAreRequests DEF Flip
  <2>2. /\ Cardinality(May(t, op)) \in Nat
        /\ Cardinality(May(t, op) \union {r}) = Cardinality(May(t, op)) + 1
        /\ Cardinality(Did(t, op)) \in Nat
        /\ Cardinality(Did(t, op) \union {r}) = Cardinality(Did(t, op)) + 1
    BY <2>1, PartsAreSmaller, OneMore
  <2>3. Did(t, op) \union {r} \in SUBSET Requests
    BY <2>1
  <2> QED
    BY ONLY <2>1, <2>2, <2>3, PartsAreSmaller
<1>2. ASSUME NEW other \in Operations \ {op}
      PROVE  /\ Cardinality(Did(t, other)) \in Nat
             /\ Cardinality(Did(t, other)') \in Nat
             /\ Cardinality(May(t, other)) \in Nat
             /\ Cardinality(May(t, other)') \in Nat
             /\ Cardinality(Did(t, other)') <= Cardinality(Did(t, other))
             /\ Cardinality(May(t, other)) <= Cardinality(May(t, other)')
  BY SidesKeep DEF Flip
<1>3. CASE op = "flag"
  <2>1. "unflag" \in Operations \ {op} /\ Flagged(t) = 0 /\ Flagged(t)' = 1
    BY <1>3 DEF Operations, Flip
  <2> QED
    BY <1>1, <1>2, <1>3, <2>1 DEF Alternate
<1>4. CASE op = "unflag"
  <2>1. "flag" \in Operations \ {op} /\ Flagged(t) = 1 /\ Flagged(t)' = 0
    BY <1>4 DEF Operations, Flip
  <2> QED
    BY <1>1, <1>2, <1>4, <2>1 DEF Alternate
<1> QED
  BY <1>3, <1>4 DEF Operations, Flip

-----------------------------------------------------------------------------
(* The types and the answers.                                              *)

LEMMA RequestsAreTyped ==
    ASSUME TypeOK, NEW r \in Requests
    PROVE  req[r].op \in Operations /\ req[r].txn \in Txns
  BY TrafficAssumption DEF TypeOK

LEMMA MessagesAreTyped ==
    ASSUME NEW r \in Requests
    PROVE  MessageOf(r) \in Messages
  BY DEF MessageOf, Messages, Message

LEMMA TypesStep ==
    ASSUME TypeOK, AnsweredWhenDone, [Next]_vars
    PROVE  TypeOK' /\ AnsweredWhenDone'
<1>1. ASSUME NEW t \in Txns, Record(t)
      PROVE  TypeOK' /\ AnsweredWhenDone'
  BY <1>1 DEF TypeOK, AnsweredWhenDone, Record
<1>2. ASSUME NEW r \in Requests, TransitionStatus(r)
      PROVE  TypeOK' /\ AnsweredWhenDone'
  <2>1. To(req[r].op) \in {"completed", "flagged"}
    BY DEF To
  <2>2. status' \in [Txns -> {"absent", "completed", "flagged"}]
    BY <1>2, <2>1, RequestsAreTyped DEF TypeOK, TransitionStatus
  <2>3. /\ pc' \in [Requests -> {"sent", "lookup", "publish", "done"}]
        /\ answer' \in [Requests -> Answers]
        /\ AnsweredWhenDone'
    <3>1. pc[r] = "sent" /\ (Goto(r, "publish") \/ Goto(r, "lookup") \/ Reply(r, "internal"))
      BY <1>2 DEF TransitionStatus
    <3> QED
      BY <3>1 DEF TypeOK, AnsweredWhenDone, Goto, Reply, Answers
  <2> QED
    BY <1>2, <2>2, <2>3 DEF TypeOK, TransitionStatus
<1>3. ASSUME NEW r \in Requests, Lookup(r)
      PROVE  TypeOK' /\ AnsweredWhenDone'
  BY <1>3 DEF TypeOK, AnsweredWhenDone, Lookup, Reply, Answers
<1>4. ASSUME NEW r \in Requests, Write(r)
      PROVE  TypeOK' /\ AnsweredWhenDone'
  <2>1. /\ req[r].txn \in Txns
        /\ MessageOf(r) \in Messages
        /\ alerts' = [alerts EXCEPT ![req[r].txn] = Append(@, MessageOf(r))]
    BY <1>4, RequestsAreTyped, MessagesAreTyped DEF Write, MessageOf
  <2>2. alerts' \in [Txns -> Seq(Messages)]
    BY <2>1 DEF TypeOK
  <2> QED
    BY <1>4, <2>2 DEF TypeOK, AnsweredWhenDone, Write
<1>5. ASSUME NEW r \in Requests, Publish(r) \/ PublishFails(r) \/ StatementError(r)
      PROVE  TypeOK' /\ AnsweredWhenDone'
  BY <1>5 DEF TypeOK, AnsweredWhenDone, Publish, PublishFails, StatementError, Reply, Answers
<1>6. ASSUME Crash
      PROVE  TypeOK' /\ AnsweredWhenDone'
  BY <1>6 DEF TypeOK, AnsweredWhenDone, Crash, Answers
<1>7. ASSUME UNCHANGED vars
      PROVE  TypeOK' /\ AnsweredWhenDone'
  BY <1>7 DEF TypeOK, AnsweredWhenDone, vars
<1> QED
  BY <1>1, <1>2, <1>3, <1>4, <1>5, <1>6, <1>7 DEF Next, Quiesced

\* Requests keep what they ask for, and who may have changed a status stays so.
LEMMA MaybeStays ==
    ASSUME TypeOK, AnsweredWhenDone, [Next]_vars
    PROVE  req' = req /\ \A x \in Requests : Maybe(x) => Maybe(x)'
<1>1. req' = req
  BY DEF Next, Record, TransitionStatus, Lookup, Write, Publish, PublishFails, StatementError,
         Crash, Quiesced, vars
<1>2. ASSUME NEW t \in Txns, Record(t)
      PROVE  \A x \in Requests : Maybe(x) => Maybe(x)'
  BY <1>2 DEF Record, Maybe, Won
<1>3. ASSUME NEW r \in Requests,
             TransitionStatus(r) \/ Lookup(r) \/ Publish(r) \/ PublishFails(r) \/ StatementError(r)
      PROVE  \A x \in Requests : Maybe(x) => Maybe(x)'
  BY <1>3 DEF TypeOK, AnsweredWhenDone, TransitionStatus, Lookup, Publish, PublishFails,
              StatementError, Goto, Reply, Maybe, Won
<1>4. ASSUME NEW r \in Requests, Write(r)
      PROVE  \A x \in Requests : Maybe(x) => Maybe(x)'
  BY <1>4 DEF Write, Maybe, Won
<1>5. ASSUME Crash
      PROVE  \A x \in Requests : Maybe(x) => Maybe(x)'
  BY <1>5 DEF TypeOK, AnsweredWhenDone, Crash, Maybe, Won
<1>6. ASSUME UNCHANGED vars
      PROVE  \A x \in Requests : Maybe(x) => Maybe(x)'
  BY <1>6 DEF vars, Maybe, Won
<1> QED
  BY <1>1, <1>2, <1>3, <1>4, <1>5, <1>6 DEF Next, Quiesced

-----------------------------------------------------------------------------
(* The topic.                                                              *)

\* Every action but Write leaves the topic alone.
LEMMA OnlyWriteStores ==
    ASSUME [Next]_vars, alerts' # alerts
    PROVE  \E r \in Requests : Write(r)
  BY DEF Next, Record, TransitionStatus, Lookup, Publish, PublishFails, StatementError, Crash,
         Quiesced, vars

\* An attempt adds its message at the end of what is told of its transaction.
LEMMA WriteAppends ==
    ASSUME TypeOK, NEW r \in Requests, Write(r), NEW t \in Txns
    PROVE  /\ DOMAIN alerts[t] \subseteq DOMAIN alerts'[t]
           /\ \A i \in DOMAIN alerts[t] : alerts'[t][i] = alerts[t][i]
           /\ \A i \in DOMAIN alerts'[t] \ DOMAIN alerts[t] :
                 t = req[r].txn /\ alerts'[t][i] = MessageOf(r)
           /\ t = req[r].txn => \E i \in DOMAIN alerts'[t] : alerts'[t][i] = MessageOf(r)
<1>1. alerts' = [alerts EXCEPT ![req[r].txn] = Append(@, MessageOf(r))]
  BY DEF Write, MessageOf
<1>2. alerts[t] \in Seq(Messages) /\ MessageOf(r) \in Messages
  BY MessagesAreTyped DEF TypeOK
<1>3. CASE t # req[r].txn
  <2>1. alerts'[t] = alerts[t]
    BY <1>1, <1>3 DEF TypeOK
  <2> QED
    BY <1>3, <2>1
<1>4. CASE t = req[r].txn
  <2>1. alerts'[t] = Append(alerts[t], MessageOf(r))
    BY <1>1, <1>4 DEF TypeOK
  <2>2. /\ DOMAIN alerts[t] = 1 .. Len(alerts[t])
        /\ DOMAIN alerts'[t] = 1 .. Len(alerts[t]) + 1
        /\ Len(alerts[t]) \in Nat
        /\ \A i \in 1 .. Len(alerts[t]) : alerts'[t][i] = alerts[t][i]
        /\ alerts'[t][Len(alerts[t]) + 1] = MessageOf(r)
    BY <1>2, <2>1
  <2> QED
    BY <1>4, <2>2
<1> QED
  BY <1>3, <1>4

\* Who has stored a message after a step: who had, and who wrote.
LEMMA StoredStep ==
    ASSUME TypeOK, req' = req, [Next]_vars, NEW x \in Requests
    PROVE  /\ Stored(x) => Stored(x)'
           /\ Stored(x)' => Stored(x) \/ Write(x)
<1>1. req[x].txn \in Txns
  BY RequestsAreTyped
<1>2. CASE alerts' = alerts
  BY <1>2 DEF Stored, Copies
<1>3. ASSUME NEW r \in Requests, Write(r)
      PROVE  (Stored(x) => Stored(x)') /\ (Stored(x)' => Stored(x) \/ Write(x))
  <2>1. /\ DOMAIN alerts[req[x].txn] \subseteq DOMAIN alerts'[req[x].txn]
        /\ \A i \in DOMAIN alerts[req[x].txn] : alerts'[req[x].txn][i] = alerts[req[x].txn][i]
        /\ \A i \in DOMAIN alerts'[req[x].txn] \ DOMAIN alerts[req[x].txn] :
              alerts'[req[x].txn][i] = MessageOf(r)
    BY <1>1, <1>3, WriteAppends
  <2>2. Stored(x) => Stored(x)'
    BY <2>1 DEF Stored, Copies
  <2>3. ASSUME Stored(x)', ~Stored(x) PROVE x = r
    <3>1. PICK i \in DOMAIN alerts'[req[x].txn] : alerts'[req[x].txn][i].of = x
      BY <2>3 DEF Stored, Copies
    <3>2. i \notin DOMAIN alerts[req[x].txn]
      BY <2>1, <2>3, <3>1 DEF Stored, Copies
    <3> QED
      BY <2>1, <3>1, <3>2 DEF MessageOf
  <2> QED
    BY <1>3, <2>2, <2>3
<1> QED
  BY <1>2, <1>3, OnlyWriteStores

\* What is stored stays deserved, and a further message is.
LEMMA DeservedStep ==
    ASSUME TypeOK, AnsweredWhenDone, MessagesAreDeserved, [Next]_vars
    PROVE  MessagesAreDeserved'
<1>1. req' = req /\ \A x \in Requests : Maybe(x) => Maybe(x)'
  BY MaybeStays
<1>2. \A x : MessageOf(x)' = MessageOf(x)
  BY <1>1 DEF MessageOf
<1> SUFFICES ASSUME NEW t \in Txns, NEW i \in DOMAIN alerts'[t]
             PROVE  \E r \in Requests : req[r].txn = t /\ Maybe(r)' /\ alerts'[t][i] = MessageOf(r)
  BY <1>1, <1>2 DEF MessagesAreDeserved
<1>3. CASE i \in DOMAIN alerts[t] /\ alerts'[t][i] = alerts[t][i]
  BY <1>1, <1>3 DEF MessagesAreDeserved
<1>4. CASE \E r \in Requests : Write(r) /\ t = req[r].txn /\ alerts'[t][i] = MessageOf(r)
  <2>1. PICK r \in Requests : Write(r) /\ t = req[r].txn /\ alerts'[t][i] = MessageOf(r)
    BY <1>4
  <2>2. Maybe(r)
    BY <2>1 DEF Write, Maybe, Won
  <2> QED
    BY <1>1, <2>1, <2>2
<1> QED
  BY <1>3, <1>4, OnlyWriteStores, WriteAppends

LEMMA OkIsStoredStep ==
    ASSUME TypeOK, OkIsStored, [Next]_vars
    PROVE  OkIsStored'
<1>1. req' = req
  BY DEF Next, Record, TransitionStatus, Lookup, Write, Publish, PublishFails, StatementError,
         Crash, Quiesced, vars
<1> SUFFICES ASSUME NEW x \in Requests, answer'[x] = "ok"
             PROVE  Stored(x)'
  BY DEF OkIsStored
<1>2. answer[x] = "ok" \/ Publish(x)
  BY DEF TypeOK, Next, Record, TransitionStatus, Lookup, Write, Publish, PublishFails,
         StatementError, Goto, Reply, Crash, Quiesced, vars
<1>3. Stored(x)
  BY <1>2 DEF OkIsStored, Publish
<1> QED
  BY <1>1, <1>3, StoredStep

LEMMA StoredAreMaybe ==
    ASSUME TypeOK, MessagesAreDeserved, NEW x \in Requests, Stored(x)
    PROVE  Maybe(x)
<1>1. req[x].txn \in Txns
  BY RequestsAreTyped
<1>2. PICK i \in DOMAIN alerts[req[x].txn] : alerts[req[x].txn][i].of = x
  BY DEF Stored, Copies
<1>3. PICK r \in Requests : Maybe(r) /\ alerts[req[x].txn][i] = MessageOf(r)
  BY <1>1, <1>2 DEF MessagesAreDeserved
<1> QED
  BY <1>2, <1>3 DEF MessageOf

-----------------------------------------------------------------------------
(* The status.                                                             *)

\* Who is counted among those that did change a status was already, unless its
\* own UPDATE was just acknowledged.
LEMMA DidStep ==
    ASSUME TypeOK, AnsweredWhenDone, [Next]_vars, NEW x \in Requests
    PROVE  Won(x)' \/ Stored(x)' =>
              \/ Won(x) \/ Stored(x)
              \/ TransitionStatus(x) /\ Matches(x)
<1>1. Stored(x)' => Stored(x) \/ Won(x)
  BY MaybeStays, StoredStep DEF Write, Won
<1>2. ASSUME Won(x)', ~Won(x)
      PROVE  TransitionStatus(x) /\ Matches(x)
  <2>1. CASE \E t \in Txns : Record(t)
    BY <1>2, <2>1 DEF Record, Won
  <2>2. ASSUME NEW r \in Requests, TransitionStatus(r)
        PROVE  TransitionStatus(x) /\ Matches(x)
    <3>1. x = r /\ pc'[r] = "publish"
      BY <1>2, <2>2 DEF TypeOK, AnsweredWhenDone, TransitionStatus, Goto, Reply, Won
    <3>2. Matches(r)
      BY <2>2, <3>1 DEF TypeOK, TransitionStatus, Goto
    <3> QED
      BY <2>2, <3>1, <3>2
  <2>3. ASSUME NEW r \in Requests, Write(r)
        PROVE  FALSE
    BY <1>2, <2>3 DEF Write, Won
  <2>4. ASSUME NEW r \in Requests, Lookup(r) \/ Publish(r) \/ PublishFails(r) \/ StatementError(r)
        PROVE  FALSE
    BY <1>2, <2>4 DEF TypeOK, Lookup, Publish, PublishFails, StatementError, Reply, Won
  <2>5. CASE Crash
    BY <1>2, <2>5 DEF TypeOK, Crash, Won
  <2>6. CASE UNCHANGED vars
    BY <1>2, <2>6 DEF vars, Won
  <2> QED
    BY <1>2, <2>1, <2>2, <2>3, <2>4, <2>5, <2>6 DEF Next, Quiesced
<1> QED
  BY <1>1, <1>2

\* The status of a transaction stays flagged, or not, unless an UPDATE matched.
LEMMA FlaggedStep ==
    ASSUME TypeOK, [Next]_vars, NEW t \in Txns, Flagged(t)' # Flagged(t)
    PROVE  \E r \in Requests : req[r].txn = t /\ TransitionStatus(r) /\ Matches(r)
<1>1. status' # status
  BY DEF Flagged
<1>2. CASE \E u \in Txns : Record(u)
  BY <1>2 DEF TypeOK, Record, Flagged
<1>3. ASSUME NEW r \in Requests, TransitionStatus(r)
      PROVE  req[r].txn = t /\ Matches(r)
  <2>1. Matches(r) /\ status' = [status EXCEPT ![req[r].txn] = To(req[r].op)]
    BY <1>1, <1>3 DEF TransitionStatus
  <2>2. req[r].txn = t
    BY <2>1 DEF TypeOK, Flagged
  <2> QED
    BY <2>1, <2>2
<1> QED
  BY <1>1, <1>2, <1>3 DEF Next, Lookup, Write, Publish, PublishFails, StatementError, Crash,
                          Quiesced, vars

\* A matched UPDATE is a change of the status by a request that had made none.
LEMMA MatchedUpdateFlips ==
    ASSUME TypeOK, AnsweredWhenDone, MessagesAreDeserved, [Next]_vars,
           NEW r \in Requests, TransitionStatus(r), Matches(r), NEW t, t = req[r].txn
    PROVE  Flip(t, r, req[r].op)
<1> DEFINE op == req[r].op
<1>1. /\ op \in Operations /\ t \in Txns
      /\ pc[r] = "sent" /\ answer[r] = "none"
      /\ status' = [status EXCEPT ![t] = To(op)]
      /\ Goto(r, "publish") \/ Reply(r, "internal")
  BY RequestsAreTyped DEF AnsweredWhenDone, TransitionStatus
<1>2. /\ req' = req
      /\ \A x \in Requests : Maybe(x) => Maybe(x)'
      /\ \A x \in Requests \ {r} : Won(x)' \/ Stored(x)' => Won(x) \/ Stored(x)
  <2>1. \A x \in Requests \ {r} : pc'[x] = pc[x] /\ answer'[x] = answer[x]
    BY <1>1 DEF TypeOK, Goto, Reply
  <2>2. alerts' = alerts
    BY DEF TransitionStatus
  <2>3. req' = req /\ \A x \in Requests : Maybe(x) => Maybe(x)'
    BY MaybeStays
  <2> QED
    BY <2>1, <2>2, <2>3 DEF Won, Stored, Copies
<1>3. ~Maybe(r) /\ ~Won(r) /\ ~Stored(r)
  BY <1>1, StoredAreMaybe DEF Maybe, Won
<1>4. Maybe(r)'
  BY <1>1 DEF TypeOK, Goto, Reply, Maybe, Won
<1>5. r \notin Did(t, op) /\ r \notin May(t, op)
  BY <1>3 DEF Did, May
<1>6. May(t, op) \union {r} \subseteq May(t, op)' /\ Did(t, op)' \subseteq Did(t, op) \union {r}
  BY <1>2, <1>4 DEF Did, May, Of
<1>7. ASSUME NEW other \in Operations \ {op}
      PROVE  Did(t, other)' \subseteq Did(t, other) /\ May(t, other) \subseteq May(t, other)'
  BY <1>2 DEF Did, May, Of
<1>8. /\ Flagged(t) = (IF op = "flag" THEN 0 ELSE 1)
      /\ Flagged(t)' = (IF op = "flag" THEN 1 ELSE 0)
  <2>1. status[t] = From(op) /\ status'[t] = To(op)
    BY <1>1 DEF Matches, TypeOK
  <2> QED
    BY <1>1, <2>1 DEF From, To, Flagged, Operations
<1> QED
  BY <1>1, <1>5, <1>6, <1>7, <1>8 DEF Flip

LEMMA AlternateStep ==
    ASSUME TypeOK, AnsweredWhenDone, MessagesAreDeserved, [Next]_vars,
           NEW t \in Txns, Alternate(t)
    PROVE  Alternate(t)'
<1>1. CASE \E r \in Requests : req[r].txn = t /\ TransitionStatus(r) /\ Matches(r)
  BY <1>1, MatchedUpdateFlips, FlipAlternates
<1>2. CASE ~\E r \in Requests : req[r].txn = t /\ TransitionStatus(r) /\ Matches(r)
  <2>1. Flagged(t)' = Flagged(t)
    BY <1>2, FlaggedStep
  <2>2. /\ req' = req
        /\ \A x \in Requests : Maybe(x) => Maybe(x)'
        /\ \A x \in Requests : req[x].txn = t => (Won(x)' \/ Stored(x)' => Won(x) \/ Stored(x))
    BY <1>2, DidStep, MaybeStays
  <2>3. Quiet(t)
    BY <2>1, <2>2 DEF Quiet, Did, May, Of
  <2> QED
    BY <2>3, QuietAlternates
<1> QED
  BY <1>1, <1>2

-----------------------------------------------------------------------------
(* The invariant.                                                          *)

LEMMA FlagInvInitial == Init => FlagInv
<1> SUFFICES ASSUME Init PROVE FlagInv
  OBVIOUS
<1>1. TypeOK /\ AnsweredWhenDone
  BY DEF Init, TypeOK, AnsweredWhenDone, Answers
<1>2. MessagesAreDeserved /\ OkIsStored
  BY DEF Init, MessagesAreDeserved, OkIsStored
<1>3. ASSUME NEW t \in Txns
      PROVE  Alternate(t)
  <2>1. \A r \in Requests : ~Maybe(r) /\ ~Won(r) /\ ~Stored(r)
    <3>1. \A r \in Requests : Copies(r) = {}
      BY RequestsAreTyped, <1>1 DEF Init, Copies
    <3> QED
      BY <3>1 DEF Init, Maybe, Won, Stored
  <2>2. \A op : Did(t, op) = {} /\ May(t, op) = {}
    BY <2>1 DEF Did, May, Of
  <2>3. \A op : Cardinality(Did(t, op)) = 0 /\ Cardinality(May(t, op)) = 0
    BY <2>2, FS_EmptySet
  <2>4. Flagged(t) = 0
    BY DEF Init, Flagged
  <2> QED
    BY ONLY <2>3, <2>4 DEF Alternate
<1> QED
  BY <1>1, <1>2, <1>3 DEF FlagInv

LEMMA FlagInvStep == FlagInv /\ [Next]_vars => FlagInv'
<1> SUFFICES ASSUME FlagInv, [Next]_vars PROVE FlagInv'
  OBVIOUS
<1>1. TypeOK' /\ AnsweredWhenDone'
  BY TypesStep DEF FlagInv
<1>2. MessagesAreDeserved' /\ OkIsStored'
  BY DeservedStep, OkIsStoredStep DEF FlagInv
<1>3. ASSUME NEW t \in Txns
      PROVE  Alternate(t)'
  BY AlternateStep DEF FlagInv
<1> QED
  BY <1>1, <1>2, <1>3 DEF FlagInv

LEMMA FlagInvHolds == Spec => []FlagInv
  BY FlagInvInitial, FlagInvStep, PTL DEF Spec

-----------------------------------------------------------------------------
(* The theorems.                                                           *)

\* Statuses, messages, places and answers stay in their sets.
THEOREM TypeCorrect == Spec => []TypeOK
<1>1. FlagInv => TypeOK
  BY DEF FlagInv
<1> QED
  BY <1>1, FlagInvHolds, PTL

\* The sets the properties speak of, and those the invariant counts.
LEMMA Sides ==
    ASSUME FlagInv, NEW t \in Txns, NEW op \in Operations
    PROVE  /\ May(t, op) = Winners(t, op) \union Unsure(t, op)
           /\ Winners(t, op) \subseteq Did(t, op)
           /\ Did(t, op) \subseteq May(t, op)
           /\ Heard(t, Message(op)) \subseteq Did(t, op)
<1>1. /\ May(t, op) = Winners(t, op) \union Unsure(t, op)
      /\ Winners(t, op) \subseteq Did(t, op)
  BY DEF May, Did, Maybe, Won, Winners, Unsure
<1>2. Did(t, op) \subseteq May(t, op)
  BY StoredAreMaybe DEF FlagInv, Did, May, Maybe, Of
<1>3. ASSUME NEW x \in Heard(t, Message(op))
      PROVE  x \in Did(t, op)
  <2>1. PICK i \in DOMAIN alerts[t] : alerts[t][i] = [of |-> x, kind |-> Message(op)]
    BY <1>3 DEF Heard
  <2>2. PICK r \in Requests : req[r].txn = t /\ alerts[t][i] = MessageOf(r)
    BY <2>1 DEF FlagInv, MessagesAreDeserved
  <2>3. r = x /\ Message(req[r].op) = Message(op)
    BY <2>1, <2>2 DEF MessageOf
  <2>4. req[x].op = op
    BY <2>2, <2>3, RequestsAreTyped DEF FlagInv, Message, Operations
  <2>5. Stored(x)
    BY <2>1, <2>2, <2>3 DEF Stored, Copies
  <2> QED
    BY <2>2, <2>3, <2>4, <2>5 DEF Did, Of
<1> QED
  BY <1>1, <1>2, <1>3

\* Of the administrators who race to flag a transaction one is told ok and the
\* others are refused: flags and unflags alternate.
THEOREM FlagsTakeTurns == Spec => []FlagsAlternate
<1>1. ASSUME FlagInv PROVE FlagsAlternate
  <2>1. "flag" \in Operations /\ "unflag" \in Operations
    BY DEF Operations
  <2>2. ASSUME NEW t \in Txns, NEW op \in Operations
        PROVE  /\ Cardinality(Winners(t, op)) \in Nat
               /\ Cardinality(Unsure(t, op)) \in Nat
               /\ Cardinality(Did(t, op)) \in Nat
               /\ Cardinality(Winners(t, op)) <= Cardinality(Did(t, op))
               /\ Cardinality(May(t, op)) = Cardinality(Winners(t, op)) + Cardinality(Unsure(t, op))
    <3>1. /\ Winners(t, op) \in SUBSET Did(t, op)
          /\ Did(t, op) \in SUBSET Requests
          /\ Unsure(t, op) \in SUBSET Requests
          /\ May(t, op) = Winners(t, op) \union Unsure(t, op)
      BY <1>1, Sides, SidesAreRequests DEF Unsure, Of
    <3>2. Winners(t, op) \intersect Unsure(t, op) = {}
      BY <1>1 DEF FlagInv, AnsweredWhenDone, Winners, Unsure, Of
    <3>3. /\ IsFiniteSet(Winners(t, op)) /\ IsFiniteSet(Unsure(t, op))
          /\ Cardinality(Winners(t, op)) \in Nat /\ Cardinality(Unsure(t, op)) \in Nat
          /\ Cardinality(Did(t, op)) \in Nat
          /\ Cardinality(Winners(t, op)) <= Cardinality(Did(t, op))
      <4>1. Winners(t, op) \in SUBSET Requests
        BY <3>1
      <4> QED
        BY <3>1, <4>1, PartsAreSmaller
    <3>4. Cardinality(Winners(t, op) \intersect Unsure(t, op)) = 0
      BY <3>2, FS_EmptySet
    <3>5. Cardinality(Winners(t, op) \union Unsure(t, op))
            = Cardinality(Winners(t, op)) + Cardinality(Unsure(t, op))
                - Cardinality(Winners(t, op) \intersect Unsure(t, op))
      BY <3>3, FS_Union
    <3> QED
      BY ONLY <3>1, <3>3, <3>4, <3>5
  <2>3. ASSUME NEW t \in Txns
        PROVE  /\ Cardinality(Winners(t, "flag")) <= Cardinality(Winners(t, "unflag")) + Flagged(t)
                                                       + Cardinality(Unsure(t, "unflag"))
               /\ Cardinality(Winners(t, "unflag")) + Flagged(t)
                     <= Cardinality(Winners(t, "flag")) + Cardinality(Unsure(t, "flag"))
    <3>1. Alternate(t)
      BY <1>1 DEF FlagInv
    <3> QED
      BY <2>1, <2>2, <3>1, FlaggedIsNat DEF Alternate
  <2> QED
    BY <2>3 DEF FlagsAlternate, Flagged
<1> QED
  BY <1>1, FlagInvHolds, PTL

\* However often the Kafka writer tries, whatever fails and whoever races, a
\* second alert about a transaction takes an unflag in between; the copies of
\* one message count once.
THEOREM NobodyIsNotifiedTwice == Spec => []NoDoubleNotifying
<1>1. ASSUME FlagInv PROVE NoDoubleNotifying
  <2>1. "flag" \in Operations /\ "unflag" \in Operations /\ Message("flag") = "alert"
    BY DEF Operations, Message
  <2>2. ASSUME NEW t \in Txns
        PROVE  Cardinality(Heard(t, "alert")) <= 1 + Cardinality(May(t, "unflag"))
    <3>1. Cardinality(Did(t, "flag")) <= Cardinality(May(t, "unflag")) + Flagged(t)
      BY <1>1 DEF FlagInv, Alternate
    <3>2. /\ Heard(t, "alert") \in SUBSET Did(t, "flag") /\ Did(t, "flag") \in SUBSET Requests
          /\ May(t, "unflag") \in SUBSET Requests
      BY <1>1, <2>1, Sides, SidesAreRequests
    <3>3. /\ Cardinality(Heard(t, "alert")) \in Nat /\ Cardinality(Did(t, "flag")) \in Nat
          /\ Cardinality(May(t, "unflag")) \in Nat
          /\ Cardinality(Heard(t, "alert")) <= Cardinality(Did(t, "flag"))
      BY <3>2, PartsAreSmaller
    <3> QED
      BY <3>1, <3>3, FlaggedIsNat
  <2>3. \A t \in Txns : May(t, "unflag") = Winners(t, "unflag") \union Unsure(t, "unflag")
    BY <1>1, <2>1, Sides
  <2> QED
    BY <2>2, <2>3 DEF NoDoubleNotifying
<1> QED
  BY <1>1, FlagInvHolds, PTL

\* Nobody who asked about t was told of a failure.
Calm(t) ==
    \A r \in Requests :
       req[r].txn = t => answer[r] \in {"none", "ok", "not_found", "conflict"}

\* While nobody was told of a failure, those who are heard of or about to be are
\* those that did change the status, and nobody else may have.
LEMMA CalmIsTold ==
    ASSUME FlagInv, NEW t \in Txns, Calm(t), NEW op \in Operations
    PROVE  /\ Heard(t, Message(op)) \union Pending(t, op) = Did(t, op)
           /\ May(t, op) = Did(t, op)
<1>1. \A x \in Of(t, op) : Maybe(x) => pc[x] = "publish" \/ answer[x] = "ok"
  BY DEF Calm, Of, Maybe, Won
<1>2. ASSUME NEW x \in Requests, x \in May(t, op)
      PROVE  x \in Heard(t, Message(op)) \union Pending(t, op)
  <2>1. CASE pc[x] = "publish"
    BY <1>2, <2>1 DEF May, Pending
  <2>2. CASE answer[x] = "ok"
    <3>1. Stored(x) /\ req[x].txn = t /\ req[x].op = op
      BY <1>2, <2>2 DEF FlagInv, OkIsStored, May, Of
    <3>2. PICK i \in DOMAIN alerts[t] : alerts[t][i].of = x
      BY <3>1 DEF Stored, Copies
    <3>3. PICK r \in Requests : alerts[t][i] = MessageOf(r)
      BY <3>2 DEF FlagInv, MessagesAreDeserved
    <3>4. alerts[t][i] = [of |-> x, kind |-> Message(op)]
      BY <3>1, <3>2, <3>3 DEF MessageOf
    <3> QED
      BY <3>2, <3>4 DEF Heard
  <2> QED
    BY <1>1, <1>2, <2>1, <2>2 DEF May
<1>3. Pending(t, op) \subseteq Did(t, op)
  BY DEF Pending, Did, Won
<1>4. May(t, op) \subseteq Requests
  BY SidesAreRequests
<1> QED
  BY <1>2, <1>3, <1>4, Sides

\* As long as nobody was told of a failure, the alerts and all-clears about a
\* transaction, stored or on their way, add up to its status; the copies of one
\* message count once.
THEOREM MessagesAddUp == Spec => []AlertsAddUp
<1>1. ASSUME FlagInv PROVE AlertsAddUp
  <2>1. /\ "flag" \in Operations /\ "unflag" \in Operations
        /\ Message("flag") = "alert" /\ Message("unflag") = "cleared"
    BY DEF Operations, Message
  <2>2. ASSUME NEW t \in Txns, Calm(t)
        PROVE  Cardinality(Heard(t, "alert") \union Pending(t, "flag"))
                  = Cardinality(Heard(t, "cleared") \union Pending(t, "unflag")) + Flagged(t)
    <3>1. /\ Heard(t, "alert") \union Pending(t, "flag") = Did(t, "flag")
          /\ May(t, "flag") = Did(t, "flag")
          /\ Heard(t, "cleared") \union Pending(t, "unflag") = Did(t, "unflag")
          /\ May(t, "unflag") = Did(t, "unflag")
      BY <1>1, <2>1, <2>2, CalmIsTold
    <3>2. Cardinality(Did(t, "flag")) \in Nat /\ Cardinality(Did(t, "unflag")) \in Nat
      BY SidesAreRequests, PartsAreSmaller
    <3>3. Alternate(t)
      BY <1>1 DEF FlagInv
    <3> QED
      BY <3>1, <3>2, <3>3, FlaggedIsNat DEF Alternate
  <2> QED
    BY <2>2 DEF AlertsAddUp, Calm, Flagged
<1> QED
  BY <1>1, FlagInvHolds, PTL
=============================================================================
