---------------------------- MODULE HttpApi_proofs ----------------------------
(***************************************************************************)
(* Proofs about HttpApi, for lists of user_ids of any length, any users    *)
(* and any wallets.                                                        *)
(***************************************************************************)
EXTENDS HttpApi, TLAPS

(* What the switches of the handlers make of an error.                     *)

\* The codes of the transaction handler are client errors.
LEMMA TransactionCodesAre4xx ==
    \A e \in DOMAIN TransactionCodes : TransactionCodes[e] \in {400, 403, 404, 409}
  BY DEF TransactionCodes

\* So are those of the wallet handler.
LEMMA WalletCodesAre4xx ==
    \A e \in DOMAIN WalletCodes : WalletCodes[e] \in {400, 403, 404, 409}
  BY DEF WalletCodes

Errors(r) == Refusals(r) \union Failures(r)

\* An error is not taken for the absence of one.
LEMMA ErrorsAreErrors == \A r \in Routes : "" \notin Errors(r)
  BY DEF Errors, Refusals, Failures, Routes, Public, Own, AdminOnly

\* Of the codes a switch gives, none is a success and none a 500.
LEMMA NamedCodes ==
    ASSUME NEW r \in Routes, NEW e \in DOMAIN Codes(r)
    PROVE  Codes(r)[e] \in {400, 403, 404, 409, 503}
<1>1. Codes(r) \in {TransactionCodes, WalletCodes, ReadyCodes}
  BY DEF Codes, Routes, Public, Own, AdminOnly
<1>2. \A x \in DOMAIN ReadyCodes : ReadyCodes[x] = 503
  BY DEF ReadyCodes
<1> QED
  BY ONLY <1>1, <1>2, TransactionCodesAre4xx, WalletCodesAre4xx, e \in DOMAIN Codes(r)

\* An error is never answered with success, and what the switch does not name
\* is answered with 500.
LEMMA CodesOfErrors ==
    ASSUME NEW r \in Routes, NEW e \in Errors(r)
    PROVE  /\ Code(r, e) \in {400, 403, 404, 409, 500, 503}
           /\ e \notin DOMAIN Codes(r) => Code(r, e) = 500
<1>1. e # ""
  BY ErrorsAreErrors
<1>2. CASE e \in DOMAIN Codes(r)
  <2>1. Code(r, e) = Codes(r)[e]
    BY <1>1, <1>2, Zenon DEF Code
  <2> QED
    BY ONLY <1>2, <2>1, NamedCodes, r \in Routes
<1>3. CASE e \notin DOMAIN Codes(r)
  <2>1. Code(r, e) = 500
    BY <1>1, <1>3 DEF Code
  <2> QED
    BY <1>3, <2>1
<1> QED
  BY <1>2, <1>3

\* No error that may come after an effect has a code of its own.
LEMMA FailuresAreUnnamed ==
    ASSUME NEW r \in Routes, NEW e \in Failures(r)
    PROVE  e \notin DOMAIN Codes(r)
  BY DEF Failures, Codes, TransactionCodes, WalletCodes, ReadyCodes, Routes, Public, Own,
         AdminOnly

\* Nor has the absence of an error.
LEMMA SuccessIsUnnamed == \A r \in Routes : "" \notin DOMAIN Codes(r)
  BY DEF Codes, TransactionCodes, WalletCodes, ReadyCodes, Routes, Public, Own, AdminOnly

Accepted == [error |-> "", did |-> TRUE]

ErrorCodes == {400, 403, 404, 409, 500, 503}

\* What a code says of whether it was done.
Tells(code, did) ==
    \/ code \in {200, 201} /\ did = TRUE
    \/ code \in ErrorCodes /\ did = FALSE
    \/ code = 500 /\ did \in BOOLEAN

\* After a success it is done; a named error says that it is not.
LEMMA OutcomesAreTold ==
    ASSUME NEW r \in Routes, NEW o \in Outcomes(r)
    PROVE  /\ Tells(Code(r, o.error), o.did)
           /\ o = Accepted \/ Code(r, o.error) \in ErrorCodes
<1>1. CASE o = Accepted
  <2>1. Code(r, "") = Success(r)
    BY SuccessIsUnnamed DEF Code
  <2>2. Success(r) \in {200, 201}
    BY DEF Success
  <2>3. o.error = "" /\ o.did = TRUE
    BY <1>1 DEF Accepted
  <2>4. Code(r, o.error) \in {200, 201}
    BY <2>1, <2>2, <2>3
  <2> QED
    BY ONLY <1>1, <2>3, <2>4 DEF Tells
<1>2. CASE o \in [error : Refusals(r), did : {FALSE}]
  <2>1. o.error \in Errors(r) /\ o.did = FALSE
    BY <1>2 DEF Errors
  <2>2. Code(r, o.error) \in ErrorCodes
    BY <2>1, CodesOfErrors DEF ErrorCodes
  <2> QED
    BY <2>1, <2>2 DEF Tells
<1>3. CASE o \in [error : Failures(r), did : BOOLEAN]
  <2>1. o.error \in Failures(r) /\ o.did \in BOOLEAN
    BY <1>3
  <2>2. o.error \in Errors(r)
    BY <2>1 DEF Errors
  <2>3. Code(r, o.error) = 500
    BY <2>1, <2>2, FailuresAreUnnamed, CodesOfErrors
  <2> QED
    BY <2>1, <2>3 DEF Tells, ErrorCodes
<1> QED
  BY <1>1, <1>2, <1>3 DEF Outcomes, Accepted

-----------------------------------------------------------------------------
(* The list of wallet statuses.                                            *)

\* An entry speaks of its id, and of the wallet that was found for it.
LEMMA EntriesTellTheTruth ==
    ASSUME NEW list \in Seq(Id), NEW table \in Wallets, NEW i \in DOMAIN list
    PROVE  LET e == Entry(list[i], Found(list, table))
               u == list[i].user
           IN  /\ e.id = list[i]
               /\ e.exists \in BOOLEAN
               /\ e.exists => u \in DOMAIN table /\ e.enabled = table[u]
               /\ list[i].as = "canonical" /\ u \in DOMAIN table => e.exists
<1> DEFINE found == Found(list, table)
           id == list[i]
<1>1. id \in [user : Users, as : Spellings]
  <2>1. list[i] \in Id
    OBVIOUS
  <2> QED
    BY <2>1 DEF Id
<1>2. CASE \E w \in found : Key(w) = id
  <2> DEFINE w == CHOOSE x \in found : Key(x) = id
  <2>1. w \in found /\ Key(w) = id
    BY <1>2
  <2>2. Entry(id, found) = Status(id, w)
    BY <1>2 DEF Entry
  <2>3. PICK u \in DOMAIN table : w = [user |-> u, enabled |-> table[u]]
    BY <2>1 DEF Found
  <2>4. id.user = u
    BY <2>1, <2>3 DEF Key
  <2> HIDE DEF w, found, id
  <2> QED
    BY <2>2, <2>3, <2>4 DEF Status, id, found
<1>3. CASE ~ \E w \in found : Key(w) = id
  <2>1. Entry(id, found) = NoWallet(id)
    BY <1>3 DEF Entry
  <2>2. ASSUME id.as = "canonical", id.user \in DOMAIN table PROVE FALSE
    <3>1. [user |-> id.user, enabled |-> table[id.user]] \in found
      BY <2>2 DEF Found
    <3>2. Key([user |-> id.user, enabled |-> table[id.user]]) = id
      BY <1>1, <2>2 DEF Key
    <3> QED
      BY <1>3, <3>1, <3>2
  <2> QED
    BY <2>1, <2>2 DEF NoWallet
<1> QED
  BY <1>2, <1>3

-----------------------------------------------------------------------------
(* The chain.  FlowInv is inductive: what is left of the chain is a suffix *)
(* of it, it is empty once a code is written, and how far it has come says *)
(* what the middlewares have found out about the caller.                   *)

Left ==
    \/ next = Chain(route)
    \/ next = <<"requireAdmin", "handler">> /\ route \in AdminOnly
    \/ next = <<"handler">>
    \/ next = <<>>

\* What is known of the caller when the functions behind auth run.
Known ==
    /\ claims \subseteq {header} /\ claims \subseteq Roles
    /\ next = <<"handler">> /\ route \in Own => claims = {header}
    /\ next = <<"handler">> /\ route \in AdminOnly => claims = {"admin"}

Unanswered == next # <<>> => codes = <<>> /\ ~done /\ entries = <<>>

\* What the one answer says, of a handler that asked the service or of a
\* function that refused.
Answers == {200, 201, 400, 401, 403, 404, 409, 500, 503}
Refused == {400, 401, 403, 404, 409, 503}

Answered ==
    next = <<>> => \E code \in Answers :
       /\ codes = <<code>>
       /\ code < 300 => done /\ entries = NewWalletStatusList(ids, Found(ids, wallets))
       /\ code \in Refused => ~done

Inputs ==
    /\ route \in Routes /\ header \in Headers /\ binds \in BOOLEAN
    /\ ids \in Seq(Id) /\ Len(ids) <= MaxIds /\ wallets \in Wallets
    /\ done \in BOOLEAN

FlowInv == Inputs /\ Left /\ Known /\ Unanswered /\ Answered /\ OnlyAdmitted

\* Initially the whole chain is left.
LEMMA FlowInit == Init => FlowInv
<1> SUFFICES ASSUME Init PROVE FlowInv
  OBVIOUS
<1>1. ids \in Seq(Id) /\ Len(ids) <= MaxIds
  <2>1. CASE ids \in UNION {[1 .. n -> Id] : n \in 0 .. MaxIds}
    <3>1. PICK n \in 0 .. MaxIds : ids \in [1 .. n -> Id]
      BY <2>1
    <3> QED
      BY <3>1, IdsAssumption
  <2>2. CASE ids = <<>>
    BY <2>2, IdsAssumption
  <2> QED
    BY <2>1, <2>2 DEF Init
<1>2. wallets \in Wallets
  <2>1. <<>> \in Wallets
    <3>1. <<>> \in [{} -> BOOLEAN]
      OBVIOUS
    <3> QED
      BY <3>1 DEF Wallets
  <2> QED
    BY <2>1 DEF Init
<1>3. next = Chain(route) /\ next # <<>>
  BY DEF Init, Chain, Routes
<1>4. Known
  BY <1>3 DEF Init, Known, Chain, Routes, Public, Own, AdminOnly
<1> QED
  BY <1>1, <1>2, <1>3, <1>4 DEF Init, FlowInv, Inputs, Left, Unanswered, Answered, OnlyAdmitted

\* Nothing is left behind the handler.
LEMMA TailOfOne == Tail(<<"handler">>) = <<>>
<1>1. Tail(<<"handler">>) \in Seq({"handler"}) /\ Len(Tail(<<"handler">>)) = 0
  OBVIOUS
<1> QED
  BY <1>1

\* What runs next, by what is left of the chain.
LEMMA WhatRuns ==
    ASSUME FlowInv
    PROVE  /\ Runs("auth") =>
                 /\ route \notin Public
                 /\ Tail(next) = IF route \in Own THEN <<"handler">>
                                                 ELSE <<"requireAdmin", "handler">>
           /\ Runs("requireAdmin") => route \in AdminOnly /\ Tail(next) = <<"handler">>
           /\ Runs("handler") => next = <<"handler">> /\ Tail(next) = <<>>
<1> USE TailOfOne DEF Runs
<1>1. CASE next = Chain(route) /\ route \in Public
  BY <1>1 DEF Chain, Public, Own, AdminOnly
<1>2. CASE next = Chain(route) /\ route \in Own
  BY <1>2 DEF Chain, Public, Own, AdminOnly
<1>3. CASE next = Chain(route) /\ route \in AdminOnly
  BY <1>3 DEF Chain, Public, Own, AdminOnly
<1>4. CASE next = <<"requireAdmin", "handler">> /\ route \in AdminOnly
  BY <1>4
<1>5. CASE next = <<"handler">>
  BY <1>5
<1>6. CASE next = <<>>
  BY <1>6
<1> QED
  BY <1>1, <1>2, <1>3, <1>4, <1>5, <1>6 DEF FlowInv, Left, Inputs, Routes

\* The middlewares: the chain goes on only behind a caller who may, and a
\* refusal ends it.
LEMMA AuthKeeps == FlowInv /\ Auth => FlowInv'
<1> SUFFICES ASSUME FlowInv, Auth PROVE FlowInv'
  OBVIOUS
<1> USE DEF input
<1>1. /\ route \in Own \union AdminOnly
      /\ next # <<>> /\ codes = <<>> /\ ~done /\ entries = <<>>
      /\ Tail(next) = IF route \in Own THEN <<"handler">> ELSE <<"requireAdmin", "handler">>
  BY WhatRuns DEF Auth, Runs, FlowInv, Unanswered, Inputs, Routes
<1>2. CASE header \in Roles /\ claims' = {header} /\ Continue /\ UNCHANGED codes
  <2>1. UNCHANGED <<input, done, entries>>
    BY DEF Auth
  <2>2. next' = Tail(next) /\ next' # <<>>
    BY <1>1, <1>2 DEF Continue
  <2> QED
    BY <1>1, <1>2, <2>1, <2>2 DEF FlowInv, Inputs, Left, Known, Unanswered, Answered, OnlyAdmitted,
                             Own, AdminOnly
<1>3. CASE header \notin Roles /\ Write(401) /\ Abort /\ UNCHANGED claims
  <2>1. UNCHANGED <<input, done, entries>>
    BY DEF Auth
  <2>2. codes' = <<401>> /\ next' = <<>>
    BY <1>1, <1>3 DEF Write, Abort
  <2> QED
    BY <1>1, <1>3, <2>1, <2>2 DEF FlowInv, Inputs, Left, Known, Unanswered, Answered, OnlyAdmitted,
                                    Answers, Refused
<1> QED
  BY <1>2, <1>3 DEF Auth

\* RequireAdmin refuses whoever has no admin claims.
LEMMA RequireAdminKeeps == FlowInv /\ RequireAdmin => FlowInv'
<1> SUFFICES ASSUME FlowInv, RequireAdmin PROVE FlowInv'
  OBVIOUS
<1> USE DEF input
<1>1. /\ route \in AdminOnly /\ Tail(next) = <<"handler">>
      /\ next # <<>> /\ codes = <<>> /\ ~done /\ entries = <<>>
      /\ UNCHANGED <<input, claims, done, entries>>
  BY WhatRuns DEF RequireAdmin, Runs, FlowInv, Unanswered
<1>2. CASE claims = {"admin"} /\ Continue /\ UNCHANGED codes
  BY <1>1, <1>2 DEF Continue, FlowInv, Inputs, Left, Known, Unanswered, Answered, OnlyAdmitted,
                    Own, AdminOnly
<1>3. CASE Write(403) /\ Abort
  <2>1. codes' = <<403>> /\ next' = <<>>
    BY <1>1, <1>3 DEF Write, Abort
  <2> QED
    BY <1>1, <2>1 DEF FlowInv, Inputs, Left, Known, Unanswered, Answered, OnlyAdmitted, Answers,
                      Refused
<1> QED
  BY <1>2, <1>3 DEF RequireAdmin

\* The handler answers, and asks the service only for a caller it may serve.
LEMMA HandlerKeeps == FlowInv /\ Handler => FlowInv'
<1> SUFFICES ASSUME FlowInv, Handler PROVE FlowInv'
  OBVIOUS
<1> USE DEF input
<1>1. /\ next = <<"handler">> /\ next' = <<>> /\ codes = <<>> /\ ~done /\ entries = <<>>
      /\ UNCHANGED <<input, claims>>
  BY WhatRuns DEF Handler, Continue, FlowInv, Unanswered
<1>2. ASSUME NEW code \in {400, 401}, Write(code), UNCHANGED <<done, entries>> PROVE FlowInv'
  <2>1. codes' = <<code>>
    BY <1>1, <1>2 DEF Write
  <2> QED
    BY <1>1, <1>2, <2>1 DEF FlowInv, Inputs, Left, Known, Unanswered, Answered, OnlyAdmitted,
                           Answers, Refused
<1>3. CASE (route \in Own => claims # {}) /\ Serve
  <2>1. PICK outcome \in Outcomes(route) :
           /\ done' = outcome.did
           /\ Write(Code(route, outcome.error))
           /\ entries' = IF outcome.error = "" THEN NewWalletStatusList(ids, Found(ids, wallets))
                                               ELSE <<>>
    BY <1>3 DEF Serve
  <2> DEFINE code == Code(route, outcome.error)
             list == NewWalletStatusList(ids, Found(ids, wallets))
  <2>2. Write(code)
    BY <2>1
  <2>3. Tells(code, done') /\ (code \in ErrorCodes \/ entries' = list)
    <3>1. route \in Routes
      BY DEF FlowInv, Inputs
    <3>2. Tells(code, outcome.did) /\ (outcome = Accepted \/ code \in ErrorCodes)
      BY <3>1, OutcomesAreTold
    <3>3. Accepted.error = ""
      BY DEF Accepted
    <3>4. outcome = Accepted => entries' = list
      BY <2>1, <3>3, Zenon
    <3>5. done' = outcome.did
      BY <2>1
    <3> HIDE DEF code, list
    <3> QED
      BY ONLY <3>2, <3>4, <3>5
  <2> HIDE DEF code, list
  <2>4. codes' = <<code>>
    BY <1>1, <2>2 DEF Write
  <2>5. Answered' /\ done' \in BOOLEAN
    <3>1. list = NewWalletStatusList(ids, Found(ids, wallets))'
      BY <1>1 DEF list
    <3>2. done' \in BOOLEAN
      BY <2>3 DEF Tells
    <3>3. CASE code \in {200, 201} /\ done' = TRUE
      BY <1>1, <2>3, <2>4, <3>1, <3>3 DEF Answered, Answers, Refused, ErrorCodes
    <3>4. CASE code \in ErrorCodes /\ done' = FALSE
      BY <1>1, <2>4, <3>2, <3>4 DEF Answered, Answers, Refused, ErrorCodes
    <3>5. CASE code = 500
      BY <1>1, <2>4, <3>2, <3>5 DEF Answered, Answers, Refused
    <3> QED
      BY <2>3, <3>2, <3>3, <3>4, <3>5 DEF Tells
  <2>6. OnlyAdmitted'
    BY <1>1, <1>3 DEF FlowInv, Inputs, Known, OnlyAdmitted, Routes
  <2> QED
    BY <1>1, <2>5, <2>6 DEF FlowInv, Inputs, Left, Known, Unanswered
<1> QED
  BY <1>2, <1>3 DEF Handler

\* Every step preserves the invariant.
LEMMA FlowStep == FlowInv /\ [Next]_vars => FlowInv'
<1>1. FlowInv /\ UNCHANGED vars => FlowInv'
  BY DEF vars, input, FlowInv, Inputs, Left, Known, Unanswered, Answered, OnlyAdmitted
<1> QED
  BY <1>1, AuthKeeps, RequireAdminKeeps, HandlerKeeps DEF Next, Sent

\* The suffixes of the three chains.
LEMMA OneSuffix ==
    ASSUME NEW a, NEW s, s = <<a>>
    PROVE  s = SubSeq(s, 1, 1) /\ <<>> = SubSeq(s, 2, 1)
<1>1. s \in Seq({a}) /\ Len(s) = 1
  OBVIOUS
<1> QED
  BY ONLY <1>1

\* Those of a chain with one middleware.
LEMMA TwoSuffixes ==
    ASSUME NEW a, NEW b, NEW s, NEW t, s = <<a, b>>, t = <<b>>
    PROVE  s = SubSeq(s, 1, 2) /\ t = SubSeq(s, 2, 2) /\ <<>> = SubSeq(s, 3, 2)
<1>1. /\ s \in Seq({a, b}) /\ Len(s) = 2
      /\ t \in Seq({a, b}) /\ Len(t) = 1 /\ \A k \in 1 .. Len(t) : t[k] = s[k + 1]
  OBVIOUS
<1> QED
  BY ONLY <1>1

\* Those of a chain with both.
LEMMA ThreeSuffixes ==
    ASSUME NEW a, NEW b, NEW c, NEW s, NEW t, NEW u, s = <<a, b, c>>, t = <<b, c>>, u = <<c>>
    PROVE  /\ s = SubSeq(s, 1, 3) /\ t = SubSeq(s, 2, 3)
           /\ u = SubSeq(s, 3, 3) /\ <<>> = SubSeq(s, 4, 3)
<1>1. /\ s \in Seq({a, b, c}) /\ Len(s) = 3
      /\ t \in Seq({a, b, c}) /\ Len(t) = 2 /\ \A k \in 1 .. Len(t) : t[k] = s[k + 1]
      /\ u \in Seq({a, b, c}) /\ Len(u) = 1 /\ \A k \in 1 .. Len(u) : u[k] = s[k + 2]
  OBVIOUS
<1> QED
  BY ONLY <1>1

\* What is left is a suffix of the chain.
LEMMA LeftIsSuffix ==
    ASSUME FlowInv
    PROVE  \E i \in 1 .. Len(Chain(route)) + 1 :
              next = SubSeq(Chain(route), i, Len(Chain(route)))
<1> SUFFICES ASSUME NEW chain, chain = Chain(route)
             PROVE  \E i \in 1 .. Len(chain) + 1 : next = SubSeq(chain, i, Len(chain))
  OBVIOUS
<1>1. CASE route \in Public
  <2>1. chain = <<"handler">> /\ Len(chain) = 1
    BY <1>1 DEF Chain, Public, Own, AdminOnly
  <2>2. next = chain \/ next = <<>>
    BY <1>1, <2>1 DEF FlowInv, Left, Public, AdminOnly
  <2>3. chain = SubSeq(chain, 1, 1) /\ <<>> = SubSeq(chain, 2, 1)
    BY <2>1, OneSuffix
  <2>4. next \in {SubSeq(chain, 1, 1), SubSeq(chain, 2, 1)}
    BY <2>2, <2>3
  <2>5. Len(chain) = 1
    BY <2>1
  <2> QED
    BY ONLY <2>4, <2>5
<1>2. CASE route \in Own
  <2>1. chain = <<"auth", "handler">> /\ Len(chain) = 2
    BY <1>2 DEF Chain, Public, Own, AdminOnly
  <2>2. next = chain \/ next = <<"handler">> \/ next = <<>>
    BY <1>2, <2>1 DEF FlowInv, Left, Own, AdminOnly
  <2>3. /\ chain = SubSeq(chain, 1, 2) /\ <<"handler">> = SubSeq(chain, 2, 2)
        /\ <<>> = SubSeq(chain, 3, 2)
    BY <2>1, TwoSuffixes
  <2>4. next \in {SubSeq(chain, 1, 2), SubSeq(chain, 2, 2), SubSeq(chain, 3, 2)}
    BY <2>2, <2>3
  <2>5. Len(chain) = 2
    BY <2>1
  <2> QED
    BY ONLY <2>4, <2>5
<1>3. CASE route \in AdminOnly
  <2>1. chain = <<"auth", "requireAdmin", "handler">> /\ Len(chain) = 3
    BY <1>3 DEF Chain, Public, Own, AdminOnly
  <2>2. next = chain \/ next = <<"requireAdmin", "handler">> \/ next = <<"handler">> \/ next = <<>>
    BY <2>1 DEF FlowInv, Left
  <2>3. /\ chain = SubSeq(chain, 1, 3) /\ <<"requireAdmin", "handler">> = SubSeq(chain, 2, 3)
        /\ <<"handler">> = SubSeq(chain, 3, 3) /\ <<>> = SubSeq(chain, 4, 3)
    BY <2>1, ThreeSuffixes
  <2>4. next \in {SubSeq(chain, 1, 3), SubSeq(chain, 2, 3), SubSeq(chain, 3, 3),
                  SubSeq(chain, 4, 3)}
    BY <2>2, <2>3
  <2>5. Len(chain) = 3
    BY <2>1
  <2> QED
    BY ONLY <2>4, <2>5
<1> QED
  BY <1>1, <1>2, <1>3 DEF FlowInv, Inputs, Routes

\* There is one code or none.
LEMMA CodesWritten ==
    ASSUME FlowInv
    PROVE  /\ codes \in Seq(Answers) /\ Len(codes) <= 1
           /\ next = <<>> => Len(codes) = 1
<1>1. CASE next # <<>>
  BY <1>1 DEF FlowInv, Unanswered
<1>2. CASE next = <<>>
  <2>1. PICK code \in Answers : codes = <<code>>
    BY <1>2 DEF FlowInv, Answered
  <2> QED
    BY <2>1
<1> QED
  BY <1>1, <1>2

-----------------------------------------------------------------------------
\* The chain, the claims and the codes written keep their shape.
THEOREM TypeCorrect == Spec => []TypeOK
<1>1. FlowInv => TypeOK
  <2> SUFFICES ASSUME FlowInv PROVE TypeOK
    OBVIOUS
  <2> QED
    BY CodesWritten, LeftIsSuffix DEF FlowInv, Inputs, Known, TypeOK, Answers
<1> QED
  BY <1>1, FlowInit, FlowStep, PTL DEF Spec

\* Nothing is done for a caller without a genuine token, and nothing admin-only
\* for one whose token does not say admin, although the handlers behind
\* RequireAdmin look at no claims.
THEOREM OnlyAdmittedCallersAreServed == Spec => []OnlyAdmitted
<1>1. FlowInv => OnlyAdmitted
  BY DEF FlowInv
<1> QED
  BY <1>1, FlowInit, FlowStep, PTL DEF Spec

\* A request is answered once, by whichever function of its chain ends it.
THEOREM RequestsAreAnsweredOnce == Spec => []AnsweredOnce
<1>1. FlowInv => AnsweredOnce
  BY CodesWritten DEF AnsweredOnce
<1> QED
  BY <1>1, FlowInit, FlowStep, PTL DEF Spec

\* A 2xx says that it is done, a 4xx or 503 that it is not.
THEOREM CodesTellTheOutcome == Spec => []CodeTellsOutcome
<1>1. FlowInv => CodeTellsOutcome
  <2> SUFFICES ASSUME FlowInv, NEW i \in DOMAIN codes
               PROVE  /\ codes[i] < 300 => done
                      /\ codes[i] \in 400 .. 499 \union {503} => ~done
    BY DEF CodeTellsOutcome
  <2>1. next = <<>>
    BY DEF FlowInv, Unanswered
  <2>2. PICK code \in Answers :
           /\ codes = <<code>>
           /\ code < 300 => done
           /\ code \in Refused => ~done
    BY <2>1 DEF FlowInv, Answered
  <2>3. codes[i] = code
    BY <2>2
  <2> QED
    BY <2>2, <2>3 DEF Answers, Refused
<1> QED
  BY <1>1, FlowInit, FlowStep, PTL DEF Spec

\* NewWalletStatusList answers entry by entry for the ids asked for, however
\* many there are, however they repeat and in whatever order rows were found.
THEOREM EntriesAnswerTheirIds == Spec => []EntriesMatchIds
<1>1. FlowInv => EntriesMatchIds
  <2> SUFFICES ASSUME FlowInv, codes = << 200 >>
               PROVE  /\ Len(entries) = Len(ids)
                      /\ \A i \in DOMAIN ids :
                            LET u == ids[i].user IN
                            /\ entries[i].id = ids[i]
                            /\ entries[i].exists =>
                                  u \in DOMAIN wallets /\ entries[i].enabled = wallets[u]
                            /\ ids[i].as = "canonical" /\ u \in DOMAIN wallets =>
                                  entries[i].exists
    BY DEF EntriesMatchIds
  <2>1. next = <<>>
    BY DEF FlowInv, Unanswered
  <2>2. entries = [i \in DOMAIN ids |-> Entry(ids[i], Found(ids, wallets))]
    BY <2>1 DEF FlowInv, Answered, NewWalletStatusList
  <2>3. ids \in Seq(Id) /\ wallets \in Wallets
    BY DEF FlowInv, Inputs
  <2>4. Len(entries) = Len(ids)
    BY <2>2, <2>3
  <2>5. \A i \in DOMAIN ids : entries[i] = Entry(ids[i], Found(ids, wallets))
    BY <2>2
  <2> QED
    BY <2>3, <2>4, <2>5, EntriesTellTheTruth
<1> QED
  BY <1>1, FlowInit, FlowStep, PTL DEF Spec
=============================================================================
