---------------------- MODULE WalletTransactions_proofs ----------------------
(***************************************************************************)
(* Proofs about WalletTransactions, for any users, requests, traffic, pool *)
(* size and column width.                                                  *)
(***************************************************************************)
EXTENDS WalletTransactions, Numeric_proofs

\* A debited balance stays in the column (wallet_repository.go:197-199).
LEMMA DebitRange ==
    ASSUME NEW b \in 0 .. MaxBalance, NEW m \in Nat, Covers(b, m)
    PROVE  Debited(b, m) \in 0 .. MaxBalance
  BY BalanceAssumption, SMT DEF Covers, Debited, Cents

\* A credit never lowers a balance; the amount is checked against the column.
LEMMA CreditRange ==
    ASSUME NEW b \in 0 .. MaxBalance, NEW m \in Nat, Credited(b, m) <= MaxBalance
    PROVE  Credited(b, m) \in 0 .. MaxBalance
<1>1. b \in Nat /\ MaxBalance \in Nat
  BY BalanceAssumption
<1>2. Credited(b, m) = b + Cents(m) /\ Cents(m) \in Nat
  BY <1>1, CreditIsExact, CentsRange
<1> QED
  BY <1>1, <1>2

\* The fields of a request have the types of the DTO.
LEMMA RequestFields ==
    ASSUME TypeOK, NEW r \in Requests
    PROVE  /\ req[r].op \in Operations
           /\ req[r].user \in Users
           /\ req[r].to \in Users
           /\ req[r].amount \in Nat
  BY TrafficAssumption DEF TypeOK, Request

-----------------------------------------------------------------------------
(* Types. *)

\* Answering a request keeps pc and answer in their types.
LEMMA RepliesAreTyped ==
    ASSUME TypeOK, NEW r \in Requests, NEW a \in Answers, Reply(r, a)
    PROVE  pc' \in [Requests -> Steps] /\ answer' \in [Requests -> Answers]
  BY DEF TypeOK, Reply, Steps

\* So does going on to another step.
LEMMA GotosAreTyped ==
    ASSUME TypeOK, NEW r \in Requests, NEW s \in Steps, Goto(r, s)
    PROVE  pc' \in [Requests -> Steps] /\ answer' \in [Requests -> Answers]
  BY DEF TypeOK, Goto

\* Rolling back keeps the rows in their types.
LEMMA RollbackIsTyped ==
    ASSUME TypeOK, NEW r \in Requests, Rollback(r)
    PROVE  /\ balance' \in [Users -> 0 .. MaxBalance]
           /\ lock' \in [Users -> Requests \union {None}]
           /\ current' \in [Users -> 0 .. MaxBalance]
  BY DEF TypeOK, Rollback

\* Writing a balance that fits the column keeps the rows in their types.
LEMMA WriteIsTyped ==
    ASSUME TypeOK, NEW r \in Requests, NEW u \in Users, NEW b \in 0 .. MaxBalance,
           Write(r, u, b)
    PROVE  /\ balance' \in [Users -> 0 .. MaxBalance]
           /\ lock' \in [Users -> Requests \union {None}]
           /\ current' \in [Users -> 0 .. MaxBalance]
  BY DEF TypeOK, Write

\* So does taking a row lock.
LEMMA TakeLockIsTyped ==
    ASSUME TypeOK, NEW r \in Requests, NEW u \in Users, TakeLock(r, u)
    PROVE  /\ balance' \in [Users -> 0 .. MaxBalance]
           /\ lock' \in [Users -> Requests \union {None}]
           /\ current' \in [Users -> 0 .. MaxBalance]
  BY DEF TypeOK, TakeLock

\* The lookup after an UPDATE that changed no row yields an answer.
LEMMA ClassifyIsTyped ==
    ASSUME NEW u \in Users, NEW a \in Answers
    PROVE  Classify(u, a) \in Answers
  BY DEF Classify, Answers

\* Every step keeps every variable in its type.
LEMMA TypeStep == TypeOK /\ [Next]_vars => TypeOK'
<1> SUFFICES ASSUME TypeOK, [Next]_vars PROVE TypeOK'
  OBVIOUS
<1> USE DEF table, rows
<1>1. ASSUME NEW r \in Requests, RejectAmount(r) PROVE TypeOK'
  <2>1. "invalid" \in Answers BY DEF Answers
  <2> QED BY <1>1, <2>1, RepliesAreTyped DEF RejectAmount, TypeOK
<1>2. ASSUME NEW r \in Requests, VerifyReceiver(r) PROVE TypeOK'
  <2>1. "begin" \in Steps /\ Refusals \subseteq Answers
    BY DEF Steps, Answers, Refusals
  <2>2. pc' \in [Requests -> Steps] /\ answer' \in [Requests -> Answers]
    BY <1>2, <2>1, RepliesAreTyped, GotosAreTyped DEF VerifyReceiver
  <2> QED BY <1>2, <2>2 DEF VerifyReceiver, TypeOK
<1>3. ASSUME NEW r \in Requests, BeginTx(r) PROVE TypeOK'
  <2>1. "debit" \in Steps BY DEF Steps, TxSteps, DebitSteps
  <2> QED BY <1>3, <2>1, GotosAreTyped DEF BeginTx, TypeOK
<1>4. ASSUME NEW r \in Requests, DebitScan(r) PROVE TypeOK'
  <2>1. {"debit_lock", "debit_lookup"} \subseteq Steps BY DEF Steps, TxSteps, DebitSteps
  <2>2. pc' \in [Requests -> Steps] /\ answer' \in [Requests -> Answers]
    BY <1>4, <2>1, GotosAreTyped DEF DebitScan
  <2> QED BY <1>4, <2>2 DEF DebitScan, TypeOK
<1>5. ASSUME NEW r \in Requests, DebitUpdate(r) PROVE TypeOK'
  <2>1. {"credit", "debit_lookup"} \subseteq Steps
    BY DEF Steps, TxSteps, DebitSteps, CreditSteps
  <2>2. pc' \in [Requests -> Steps] /\ answer' \in [Requests -> Answers]
    BY <1>5, <2>1, GotosAreTyped DEF DebitUpdate
  <2>3. req[r].user \in Users /\ current[req[r].user] \in 0 .. MaxBalance /\ req[r].amount \in Nat
    BY RequestFields DEF TypeOK
  <2>4. /\ balance' \in [Users -> 0 .. MaxBalance]
        /\ lock' \in [Users -> Requests \union {None}]
        /\ current' \in [Users -> 0 .. MaxBalance]
    BY <1>5, <2>3, DebitRange, WriteIsTyped, TakeLockIsTyped DEF DebitUpdate, DebitMatches
  <2> QED BY <1>5, <2>2, <2>4 DEF DebitUpdate, TypeOK
<1>6. ASSUME NEW r \in Requests, DebitLookup(r) PROVE TypeOK'
  <2>1. "insufficient" \in Answers BY DEF Answers
  <2>2. Classify(req[r].user, "insufficient") \in Answers
    BY <2>1, RequestFields, ClassifyIsTyped
  <2> QED BY <1>6, <2>2, RepliesAreTyped, RollbackIsTyped DEF DebitLookup, TypeOK
<1>7. ASSUME NEW r \in Requests, CreditScan(r) PROVE TypeOK'
  <2>1. {"credit_lock", "credit_lookup"} \subseteq Steps BY DEF Steps, TxSteps, CreditSteps
  <2>2. pc' \in [Requests -> Steps] /\ answer' \in [Requests -> Answers]
    BY <1>7, <2>1, GotosAreTyped DEF CreditScan
  <2> QED BY <1>7, <2>2 DEF CreditScan, TypeOK
<1>8. ASSUME NEW r \in Requests, CreditUpdate(r) PROVE TypeOK'
  <2>1. {"insert", "credit_lookup"} \subseteq Steps /\ "internal" \in Answers
    BY DEF Steps, TxSteps, CreditSteps, Answers
  <2>2. pc' \in [Requests -> Steps] /\ answer' \in [Requests -> Answers]
    BY <1>8, <2>1, GotosAreTyped, RepliesAreTyped DEF CreditUpdate
  <2>3. req[r].to \in Users /\ current[req[r].to] \in 0 .. MaxBalance /\ req[r].amount \in Nat
    BY RequestFields DEF TypeOK
  <2>4. /\ balance' \in [Users -> 0 .. MaxBalance]
        /\ lock' \in [Users -> Requests \union {None}]
        /\ current' \in [Users -> 0 .. MaxBalance]
    BY <1>8, <2>3, CreditRange, WriteIsTyped, TakeLockIsTyped, RollbackIsTyped DEF CreditUpdate
  <2> QED BY <1>8, <2>2, <2>4 DEF CreditUpdate, TypeOK
<1>9. ASSUME NEW r \in Requests, CreditLookup(r) PROVE TypeOK'
  <2>1. "not_found" \in Answers BY DEF Answers
  <2>2. Classify(req[r].to, "not_found") \in Answers
    BY <2>1, RequestFields, ClassifyIsTyped
  <2> QED BY <1>9, <2>2, RepliesAreTyped, RollbackIsTyped DEF CreditLookup, TypeOK
<1>10. ASSUME NEW r \in Requests, InsertRows(r) PROVE TypeOK'
  <2>1. "commit" \in Steps /\ "internal" \in Answers BY DEF Steps, TxSteps, Answers
  <2> QED BY <1>10, <2>1, GotosAreTyped, RepliesAreTyped, RollbackIsTyped DEF InsertRows, TypeOK
<1>11. ASSUME NEW r \in Requests, Commit(r) PROVE TypeOK'
  <2>1. {"ok", "internal"} \subseteq Answers BY DEF Answers
  <2>2. pc' \in [Requests -> Steps] /\ answer' \in [Requests -> Answers]
    BY <1>11, <2>1, RepliesAreTyped DEF Commit
  <2>3. RowOf(r) \in Row
    BY RequestFields, CentsRange DEF RowOf, Row
  <2>4. /\ balance' \in [Users -> 0 .. MaxBalance]
        /\ lock' \in [Users -> Requests \union {None}]
        /\ current' \in [Users -> 0 .. MaxBalance]
    BY <1>11 DEF Commit, CommitRows, TypeOK
  <2> QED BY <1>11, <2>2, <2>3, <2>4 DEF Commit, TypeOK
<1>12. ASSUME NEW r \in Requests, TopUpScan(r) PROVE TypeOK'
  <2>1. {"topup_lock", "topup_lookup"} \subseteq Steps BY DEF Steps
  <2>2. pc' \in [Requests -> Steps] /\ answer' \in [Requests -> Answers]
    BY <1>12, <2>1, GotosAreTyped DEF TopUpScan
  <2> QED BY <1>12, <2>2 DEF TopUpScan, TypeOK
<1>13. ASSUME NEW r \in Requests, TopUpUpdate(r) PROVE TypeOK'
  <2>1. "topup_lookup" \in Steps /\ {"ok", "internal"} \subseteq Answers BY DEF Steps, Answers
  <2>2. pc' \in [Requests -> Steps] /\ answer' \in [Requests -> Answers]
    BY <1>13, <2>1, GotosAreTyped, RepliesAreTyped DEF TopUpUpdate
  <2>3. req[r].user \in Users /\ current[req[r].user] \in 0 .. MaxBalance /\ req[r].amount \in Nat
    BY RequestFields DEF TypeOK
  <2>4. balance' \in [Users -> 0 .. MaxBalance] /\ current' \in [Users -> 0 .. MaxBalance]
    BY <1>13, <2>3, CreditRange DEF TopUpUpdate, TypeOK
  <2> QED BY <1>13, <2>2, <2>4 DEF TopUpUpdate, TypeOK
<1>14. ASSUME NEW r \in Requests, TopUpLookup(r) PROVE TypeOK'
  <2>1. "not_found" \in Answers BY DEF Answers
  <2>2. Classify(req[r].user, "not_found") \in Answers
    BY <2>1, RequestFields, ClassifyIsTyped
  <2> QED BY <1>14, <2>2, RepliesAreTyped DEF TopUpLookup, TypeOK
<1>15. ASSUME NEW r \in Requests, CreateWallet(r) PROVE TypeOK'
  <2>1. {"exists", "ok", "internal"} \subseteq Answers BY DEF Answers
  <2>2. pc' \in [Requests -> Steps] /\ answer' \in [Requests -> Answers]
    BY <1>15, <2>1, RepliesAreTyped DEF CreateWallet
  <2> QED BY <1>15, <2>2, RequestFields DEF CreateWallet, TypeOK
<1>16. ASSUME NEW r \in Requests, NEW op \in Operations, NEW on \in BOOLEAN,
              SetEnabled(r, op, on)
       PROVE  TypeOK'
  <2>1. {"ok", "internal"} \subseteq Answers BY DEF Answers
  <2>2. pc' \in [Requests -> Steps] /\ answer' \in [Requests -> Answers]
    BY <1>16, <2>1, RepliesAreTyped DEF SetEnabled
  <2>3. enabled' \in [Users -> BOOLEAN]
    BY <1>16 DEF SetEnabled, TypeOK
  <2> QED BY <1>16, <2>2, <2>3 DEF SetEnabled, TypeOK
<1>21. ASSUME NEW r \in Requests, NEW op \in Operations, SetEnabledScan(r, op)
       PROVE  TypeOK'
  <2>1. "set_lock" \in Steps /\ "not_found" \in Answers BY DEF Steps, Answers
  <2>2. pc' \in [Requests -> Steps] /\ answer' \in [Requests -> Answers]
    BY <1>21, <2>1, GotosAreTyped, RepliesAreTyped DEF SetEnabledScan
  <2> QED BY <1>21, <2>2 DEF SetEnabledScan, TypeOK
<1>17. ASSUME NEW r \in Requests, StatementError(r) \/ AbortDeadlock(r) PROVE TypeOK'
  <2>1. "internal" \in Answers BY DEF Answers
  <2> QED BY <1>17, <2>1, RepliesAreTyped, RollbackIsTyped DEF StatementError, AbortDeadlock, TypeOK
<1>18. CASE Crash
  BY <1>18 DEF Crash, TypeOK, Steps, Answers
<1>19. CASE UNCHANGED vars
  BY <1>19 DEF vars, TypeOK
<1>20. {"enable", "disable"} \subseteq Operations
  BY DEF Operations
<1> QED
  BY <1>1, <1>2, <1>3, <1>4, <1>5, <1>6, <1>7, <1>8, <1>9, <1>10, <1>11, <1>12, <1>13,
     <1>14, <1>15, <1>16, <1>17, <1>18, <1>19, <1>20, <1>21
  DEF Next, Serve, Quiesced

\* The initial tables are typed.
LEMMA TypeInit == Init => TypeOK
<1> SUFFICES ASSUME Init PROVE TypeOK
  OBVIOUS
<1>1. StartBalances \union {0} \subseteq 0 .. MaxBalance
  BY BalanceAssumption
<1>2. balance \in [Users -> 0 .. MaxBalance] /\ current \in [Users -> 0 .. MaxBalance]
  BY <1>1 DEF Init
<1>3. "sent" \in Steps /\ "none" \in Answers
  BY DEF Steps, Answers
<1> QED
  BY <1>2, <1>3 DEF Init, TypeOK

\* Balances never leave the column, whatever requests run and fail together.
THEOREM TypeCorrect == Spec => []TypeOK
  BY TypeInit, TypeStep, PTL DEF Spec

-----------------------------------------------------------------------------
(* Row locks and transfers in flight.  LockInv is inductive: a request     *)
(* changes only rows that nobody else has locked (Confined), so what       *)
(* another transfer has computed under its own locks survives; each action *)
(* then owes only its own request's part (Sound).                          *)

LockInv == LocksBelongToOpenTransactions /\ TransfersInFlight

\* What a step of r may not touch: other requests, and rows they have locked.
Confined(r) ==
    /\ req' = req
    /\ wallets \subseteq wallets'
    /\ \A x \in Requests \ {r} : pc'[x] = pc[x]
    /\ \A u \in Users :
          IF Free(r, u)
          THEN lock'[u] \in {None, r}
          ELSE /\ lock'[u] = lock[u]
               /\ current'[u] = current[u]
               /\ balance'[u] = balance[u]
               /\ enabled'[u] = enabled[u]

\* What a step of r must leave true of r and of the rows it may touch.
Sound(r) ==
    /\ \A u \in Users :
          /\ lock'[u] = r => pc'[r] \in TxSteps /\ u \in {req[r].user, req[r].to}
          /\ lock'[u] = None => current'[u] = balance'[u]
    /\ InFlight(r)'

\* A transfer whose rows and program counter are left alone stays as it was.
LEMMA OthersUndisturbed ==
    ASSUME TypeOK, NEW r \in Requests, NEW x \in Requests \ {r},
           Confined(r), InFlight(x)
    PROVE  InFlight(x)'
<1>1. req'[x] = req[x] /\ pc'[x] = pc[x] /\ wallets \subseteq wallets'
  BY DEF Confined
<1>2. x # None
  BY NoneAssumption
<1>3. \A u \in Users : lock'[u] = x <=> lock[u] = x
  BY <1>2 DEF Confined, Free
<1>4. \A u \in Users : lock[u] = x => /\ current'[u] = current[u]
                                      /\ balance'[u] = balance[u]
                                      /\ enabled'[u] = enabled[u]
  BY <1>2 DEF Confined, Free
<1>5. req[x].user \in Users /\ req[x].to \in Users
  BY RequestFields
<1> QED
  BY <1>1, <1>3, <1>4, <1>5 DEF InFlight, TxSteps, DebitSteps, CreditSteps

\* A step of one request that leaves the others as they were, and leaves its
\* own in order, preserves the lock invariant.
LEMMA StepOfOne ==
    ASSUME TypeOK, LockInv, NEW r \in Requests, Confined(r), Sound(r)
    PROVE  LockInv'
<1>1. TransfersInFlight'
  BY OthersUndisturbed DEF LockInv, TransfersInFlight, Sound
<1>2. ASSUME NEW u \in Users, lock'[u] # None
      PROVE  (InTx(lock[u]) /\ u \in {req[lock[u]].user, req[lock[u]].to})'
  <2>1. CASE lock'[u] = r
    BY <2>1 DEF Sound, InTx, Confined
  <2>2. CASE lock'[u] # r
    <3>1. ~Free(r, u) /\ lock'[u] = lock[u]
      BY <1>2, <2>2 DEF Confined
    <3>2. lock[u] \in Requests \ {r}
      BY <3>1 DEF TypeOK, Free
    <3>3. InTx(lock[u]) /\ u \in {req[lock[u]].user, req[lock[u]].to}
      BY <3>1 DEF Free, LockInv, LocksBelongToOpenTransactions
    <3> QED
      BY <3>1, <3>2, <3>3 DEF Confined, InTx
  <2> QED
    BY <2>1, <2>2
<1>3. LocksBelongToOpenTransactions'
  BY <1>2 DEF LocksBelongToOpenTransactions, Sound
<1> QED
  BY <1>1, <1>3 DEF LockInv

\* A statement that reads, and an answer given outside a transaction.
LEMMA ReadOnlyStep ==
    ASSUME TypeOK, LockInv, NEW r \in Requests, UNCHANGED <<table, rows, req>>,
           NEW s, pc' = [pc EXCEPT ![r] = s],
           pc[r] \in TxSteps => s \in TxSteps,
           InFlight(r)'
    PROVE  LockInv'
<1>1. Confined(r)
  BY DEF Confined, Free, TypeOK, table, rows
<1>2. Sound(r)
  <2>1. pc'[r] = s
    BY DEF TypeOK
  <2>2. r # None
    BY NoneAssumption
  <2> QED
    BY <2>1, <2>2 DEF Sound, LockInv, LocksBelongToOpenTransactions, InTx, table, rows
<1> QED
  BY <1>1, <1>2, StepOfOne

\* A request that has been answered claims nothing.
LEMMA DoneIsIdle ==
    ASSUME NEW r \in Requests, pc'[r] = "done"
    PROVE  InFlight(r)'
  BY DEF InFlight, TxSteps, DebitSteps, CreditSteps

\* A rollback with its answer (the deferred tx.Rollback) preserves the invariant.
LEMMA RollbackStep ==
    ASSUME TypeOK, LockInv, NEW r \in Requests, NEW a, Rollback(r), Reply(r, a),
           UNCHANGED <<table, req>>
    PROVE  LockInv'
<1>1. pc'[r] = "done" /\ \A x \in Requests \ {r} : pc'[x] = pc[x]
  BY DEF Reply, TypeOK
<1>2. r # None
  BY NoneAssumption
<1>3. Confined(r)
  BY <1>1, <1>2 DEF Confined, Free, Rollback, table, TypeOK
<1>4. \A u \in Users : lock'[u] # r
  BY <1>2 DEF Rollback
<1>5. \A u \in Users : lock'[u] = None => current'[u] = balance'[u]
  BY DEF Rollback, LockInv, LocksBelongToOpenTransactions
<1> QED
  BY <1>1, <1>3, <1>4, <1>5, DoneIsIdle, StepOfOne DEF Sound

\* The debit and the credit take a row lock that is free and write under it.
LEMMA DebitUpdateStep ==
    ASSUME TypeOK, LockInv, NEW r \in Requests, DebitUpdate(r)
    PROVE  LockInv'
<1> DEFINE from == req[r].user
           m == req[r].amount
<1>1. /\ pc[r] = "debit_lock" /\ Free(r, from) /\ from \in Users /\ r # None
      /\ req' = req /\ wallets' = wallets /\ enabled' = enabled /\ balance' = balance
  BY RequestFields, NoneAssumption DEF DebitUpdate, table, Write, TakeLock
<1>2. /\ req[r].op = "transfer" /\ m > 0
      /\ \A u \in Users : lock[u] # r
      /\ current[from] = balance[from]
  BY <1>1 DEF LockInv, TransfersInFlight, InFlight, LocksBelongToOpenTransactions,
              Free, TxSteps, DebitSteps
<1>3. /\ pc'[r] \in {"credit", "debit_lookup"}
      /\ \A x \in Requests \ {r} : pc'[x] = pc[x]
  BY DEF DebitUpdate, Goto, TypeOK
<1>4. /\ lock' = [lock EXCEPT ![from] = r]
      /\ \A u \in Users \ {from} : current'[u] = current[u]
  BY <1>1 DEF DebitUpdate, Write, TakeLock, TypeOK
<1>5. Confined(r)
  BY <1>1, <1>3, <1>4 DEF Confined, Free, TypeOK
<1>6. InFlight(r)'
  <2>1. CASE DebitMatches(from, current[from], m)
    <3>1. /\ pc'[r] = "credit"
          /\ current'[from] = Debited(balance[from], m)
          /\ from \in wallets /\ enabled[from] /\ Covers(balance[from], m)
      BY <1>1, <1>2, <2>1 DEF DebitUpdate, DebitMatches, Write, Goto, TypeOK
    <3>2. req[r].to # from => lock'[req[r].to] # r
      BY <1>1, <1>2, <1>4, RequestFields DEF TypeOK
    <3>3. lock'[from] = r
      BY <1>1, <1>4 DEF TypeOK
    <3> QED
      BY <1>1, <1>2, <3>1, <3>2, <3>3 DEF InFlight, TxSteps, DebitSteps, CreditSteps
  <2>2. CASE ~DebitMatches(from, current[from], m)
    <3>1. pc'[r] = "debit_lookup"
      BY <2>2 DEF DebitUpdate, Goto, TypeOK
    <3> QED
      BY <1>1, <1>2, <3>1 DEF InFlight, TxSteps, DebitSteps, CreditSteps
  <2> QED
    BY <2>1, <2>2
<1>7. Sound(r)
  <2>1. pc'[r] \in TxSteps
    BY <1>3 DEF TxSteps, DebitSteps, CreditSteps
  <2>2. \A u \in Users : lock'[u] = r => u = from
    BY <1>2, <1>4 DEF TypeOK
  <2>3. \A u \in Users : lock'[u] = None => current'[u] = balance'[u]
    BY <1>1, <1>4 DEF TypeOK, LockInv, LocksBelongToOpenTransactions
  <2> QED
    BY <1>6, <2>1, <2>2, <2>3 DEF Sound
<1> QED
  BY <1>5, <1>7, StepOfOne

\* The credit's UPDATE preserves the lock invariant.
LEMMA CreditUpdateStep ==
    ASSUME TypeOK, LockInv, NEW r \in Requests, CreditUpdate(r)
    PROVE  LockInv'
<1> DEFINE from == req[r].user
           to == req[r].to
           m == req[r].amount
           b == Credited(current[to], m)
<1>1. CASE CreditMatches(to) /\ b > MaxBalance
  <2>1. b \in Int /\ MaxBalance \in Int
    BY BalanceAssumption, RequestFields, SMT DEF TypeOK, Credited, Cents
  <2>2. Rollback(r) /\ Reply(r, "internal") /\ UNCHANGED <<table, req>>
    BY <1>1, <2>1 DEF CreditUpdate
  <2> QED
    BY <2>2, RollbackStep
<1>2. CASE ~(CreditMatches(to) /\ b > MaxBalance)
  <2>1. /\ pc[r] = "credit_lock" /\ Free(r, to) /\ to \in Users /\ from \in Users /\ r # None
        /\ req' = req /\ wallets' = wallets /\ enabled' = enabled /\ balance' = balance
    BY <1>2, RequestFields, NoneAssumption DEF CreditUpdate, table, Write, TakeLock
  <2>2. /\ req[r].op = "transfer" /\ m > 0
        /\ from \in wallets /\ enabled[from] /\ lock[from] = r
        /\ Covers(balance[from], m)
        /\ current[from] = Debited(balance[from], m)
        /\ to # from => current[to] = balance[to]
    BY <2>1 DEF LockInv, TransfersInFlight, InFlight, LocksBelongToOpenTransactions,
                Free, TxSteps, CreditSteps
  <2>3. /\ pc'[r] \in {"insert", "credit_lookup"}
        /\ \A x \in Requests \ {r} : pc'[x] = pc[x]
    BY <1>2 DEF CreditUpdate, Goto, TypeOK
  <2>4. /\ lock' = [lock EXCEPT ![to] = r]
        /\ \A u \in Users \ {to} : current'[u] = current[u]
    BY <1>2, <2>1 DEF CreditUpdate, Write, TakeLock, TypeOK
  <2>5. Confined(r)
    BY <2>1, <2>3, <2>4 DEF Confined, Free, TypeOK
  <2>6. lock'[from] = r /\ lock'[to] = r
    BY <2>1, <2>2, <2>4 DEF TypeOK
  <2>7. InFlight(r)'
    <3>1. CASE CreditMatches(to)
      <4>1. /\ pc'[r] = "insert" /\ current'[to] = b
            /\ to \in wallets /\ enabled[to]
        BY <1>2, <2>1, <3>1 DEF CreditUpdate, CreditMatches, Write, Goto, TypeOK
      <4>2. to # from => current'[from] = Debited(balance[from], m)
        BY <2>1, <2>2, <2>4
      <4> QED
        BY <2>1, <2>2, <2>6, <4>1, <4>2 DEF InFlight, TxSteps, DebitSteps, CreditSteps
    <3>2. CASE ~CreditMatches(to)
      <4>1. pc'[r] = "credit_lookup" /\ current' = current
        BY <1>2, <3>2 DEF CreditUpdate, TakeLock, Goto, TypeOK
      <4> QED
        BY <2>1, <2>2, <2>6, <4>1 DEF InFlight, TxSteps, DebitSteps, CreditSteps
    <3> QED
      BY <3>1, <3>2
  <2>8. Sound(r)
    <3>1. pc'[r] \in TxSteps
      BY <2>3 DEF TxSteps, DebitSteps, CreditSteps
    <3>2. \A u \in Users : lock'[u] = r => u \in {from, to}
      BY <2>4, NoneAssumption DEF TypeOK, LockInv, LocksBelongToOpenTransactions
    <3>3. \A u \in Users : lock'[u] = None => current'[u] = balance'[u]
      BY <2>1, <2>4 DEF TypeOK, LockInv, LocksBelongToOpenTransactions
    <3> QED
      BY <2>7, <3>1, <3>2, <3>3 DEF Sound
  <2> QED
    BY <2>5, <2>8, StepOfOne
<1> QED
  BY <1>1, <1>2

\* COMMIT preserves the lock invariant.
LEMMA CommitStep ==
    ASSUME TypeOK, LockInv, NEW r \in Requests, Commit(r)
    PROVE  LockInv'
<1>1. pc'[r] = "done" /\ \A x \in Requests \ {r} : pc'[x] = pc[x]
  BY DEF Commit, Reply, TypeOK
<1>2. r # None
  BY NoneAssumption
<1>3. Confined(r)
  BY <1>1, <1>2 DEF Confined, Free, Commit, CommitRows, TypeOK
<1>4. \A u \in Users : lock'[u] # r
  BY <1>2 DEF Commit, CommitRows
<1>5. \A u \in Users : lock'[u] = None => current'[u] = balance'[u]
  BY DEF Commit, CommitRows, LockInv, LocksBelongToOpenTransactions
<1> QED
  BY <1>1, <1>3, <1>4, <1>5, DoneIsIdle, StepOfOne DEF Sound

\* A top-up writes only a row that no transaction has locked.
LEMMA TopUpUpdateStep ==
    ASSUME TypeOK, LockInv, NEW r \in Requests, TopUpUpdate(r)
    PROVE  LockInv'
<1> DEFINE u == req[r].user
<1>1. /\ pc[r] = "topup_lock" /\ lock[u] = None /\ u \in Users /\ r # None
      /\ req' = req /\ wallets' = wallets /\ enabled' = enabled /\ lock' = lock
      /\ req[r].op = "topup" /\ req[r].amount > 0
  BY RequestFields, NoneAssumption
  DEF TopUpUpdate, table, LockInv, TransfersInFlight, InFlight
<1>2. /\ pc'[r] \in {"done", "topup_lookup"}
      /\ \A x \in Requests \ {r} : pc'[x] = pc[x]
  BY DEF TopUpUpdate, Reply, Goto, TypeOK
<1>3. /\ \A v \in Users \ {u} : current'[v] = current[v] /\ balance'[v] = balance[v]
      /\ current'[u] = balance'[u]
  BY <1>1 DEF TopUpUpdate, TypeOK, LockInv, LocksBelongToOpenTransactions
<1>4. Confined(r)
  BY <1>1, <1>2, <1>3 DEF Confined, Free, TypeOK
<1>5. \A v \in Users : lock[v] # r
  BY <1>1 DEF LockInv, LocksBelongToOpenTransactions, InTx, TxSteps, DebitSteps, CreditSteps
<1>6. InFlight(r)'
  BY <1>1, <1>2 DEF InFlight, TxSteps, DebitSteps, CreditSteps
<1>7. Sound(r)
  BY <1>1, <1>3, <1>5, <1>6 DEF Sound, LockInv, LocksBelongToOpenTransactions
<1> QED
  BY <1>4, <1>7, StepOfOne

\* Initially nothing is locked and no transfer is in flight.
LEMMA LockInit == Init => LockInv
<1> SUFFICES ASSUME Init PROVE LockInv
  OBVIOUS
<1>1. \A r \in Requests : InFlight(r)
  BY DEF Init, InFlight, TxSteps, DebitSteps, CreditSteps
<1> QED
  BY <1>1 DEF Init, LockInv, TransfersInFlight, LocksBelongToOpenTransactions

\* Every step preserves the lock invariant.
LEMMA LockStep == TypeOK /\ LockInv /\ [Next]_vars => LockInv'
<1> SUFFICES ASSUME TypeOK, LockInv, [Next]_vars PROVE LockInv'
  OBVIOUS
<1> USE DEF TxSteps, DebitSteps, CreditSteps
\* Steps that answer outside a transaction.
<1>1. ASSUME NEW r \in Requests, NEW a, Reply(r, a), pc[r] \notin TxSteps,
             UNCHANGED <<table, rows, req>>
      PROVE  LockInv'
  <2>1. pc' = [pc EXCEPT ![r] = "done"] /\ pc'[r] = "done"
    BY <1>1 DEF Reply, TypeOK
  <2>2. InFlight(r)'
    BY <2>1, DoneIsIdle
  <2> QED
    BY <1>1, <2>1, <2>2, ReadOnlyStep
<1>2. ASSUME NEW r \in Requests, RejectAmount(r) \/ TopUpLookup(r) PROVE LockInv'
  BY <1>1, <1>2 DEF RejectAmount, TopUpLookup, At
<1>3. ASSUME NEW r \in Requests, VerifyReceiver(r) PROVE LockInv'
  <2>1. CASE Goto(r, "begin")
    <3>1. pc' = [pc EXCEPT ![r] = "begin"] /\ pc'[r] = "begin"
      BY <2>1 DEF Goto, TypeOK
    <3>2. InFlight(r)' /\ pc[r] \notin TxSteps
      BY <1>3, <3>1 DEF VerifyReceiver, At, InFlight
    <3> QED
      BY <1>3, <3>1, <3>2, ReadOnlyStep DEF VerifyReceiver
  <2>2. CASE ~Goto(r, "begin")
    BY <1>1, <1>3, <2>2 DEF VerifyReceiver, At
  <2> QED
    BY <2>1, <2>2
<1>4. ASSUME NEW r \in Requests, BeginTx(r) PROVE LockInv'
  <2>1. pc' = [pc EXCEPT ![r] = "debit"] /\ pc'[r] = "debit"
    BY <1>4 DEF BeginTx, Goto, TypeOK
  <2>2. \A u \in Users : lock[u] # r
    BY <1>4, NoneAssumption DEF BeginTx, LockInv, LocksBelongToOpenTransactions, InTx
  <2>3. InFlight(r)'
    BY <1>4, <2>1, <2>2 DEF BeginTx, LockInv, TransfersInFlight, InFlight, rows, table
  <2> QED
    BY <1>4, <2>1, <2>3, ReadOnlyStep DEF BeginTx
<1>5. ASSUME NEW r \in Requests, DebitScan(r) PROVE LockInv'
  <2>1. PICK s \in {"debit_lock", "debit_lookup"} : Goto(r, s)
    BY <1>5 DEF DebitScan
  <2>2. pc' = [pc EXCEPT ![r] = s] /\ pc'[r] = s
    BY <2>1 DEF Goto, TypeOK
  <2>3. InFlight(r)'
    BY <1>5, <2>2 DEF DebitScan, LockInv, TransfersInFlight, InFlight, rows, table
  <2> QED
    BY <1>5, <2>2, <2>3, ReadOnlyStep DEF DebitScan
<1>6. ASSUME NEW r \in Requests, CreditScan(r) PROVE LockInv'
  <2>1. PICK s \in {"credit_lock", "credit_lookup"} : Goto(r, s)
    BY <1>6 DEF CreditScan
  <2>2. pc' = [pc EXCEPT ![r] = s] /\ pc'[r] = s
    BY <2>1 DEF Goto, TypeOK
  <2>3. InFlight(r)'
    BY <1>6, <2>2 DEF CreditScan, LockInv, TransfersInFlight, InFlight, rows, table
  <2> QED
    BY <1>6, <2>2, <2>3, ReadOnlyStep DEF CreditScan
<1>7. ASSUME NEW r \in Requests, DebitLookup(r) \/ CreditLookup(r) \/ StatementError(r)
                                                 \/ AbortDeadlock(r)
      PROVE  LockInv'
  BY <1>7, RollbackStep DEF DebitLookup, CreditLookup, StatementError, AbortDeadlock
<1>8. ASSUME NEW r \in Requests, InsertRows(r) PROVE LockInv'
  <2>1. CASE Cents(req[r].amount) > 0
    <3>1. pc' = [pc EXCEPT ![r] = "commit"] /\ pc'[r] = "commit"
      BY <1>8, <2>1 DEF InsertRows, Goto, TypeOK
    <3>2. UNCHANGED <<table, rows, req>>
      BY <1>8, <2>1 DEF InsertRows
    <3>3. InFlight(r)'
      BY <1>8, <2>1, <3>1, <3>2
      DEF InsertRows, LockInv, TransfersInFlight, InFlight, rows, table
    <3> QED
      BY <3>1, <3>2, <3>3, ReadOnlyStep
  <2>2. CASE ~(Cents(req[r].amount) > 0)
    BY <1>8, <2>2, RollbackStep DEF InsertRows
  <2> QED
    BY <2>1, <2>2
<1>9. ASSUME NEW r \in Requests, TopUpScan(r) PROVE LockInv'
  <2>1. PICK s \in {"topup_lock", "topup_lookup"} : Goto(r, s)
    BY <1>9 DEF TopUpScan
  <2>2. pc' = [pc EXCEPT ![r] = s] /\ pc'[r] = s
    BY <2>1 DEF Goto, TypeOK
  <2>3. InFlight(r)' /\ pc[r] \notin TxSteps
    BY <1>9, <2>2 DEF TopUpScan, At, InFlight
  <2> QED
    BY <1>9, <2>2, <2>3, ReadOnlyStep DEF TopUpScan
\* Creating and toggling a wallet touch no row anybody has locked.
<1>10. ASSUME NEW r \in Requests, NEW a, Reply(r, a), pc[r] \notin TxSteps,
              UNCHANGED <<rows, req>>, wallets \subseteq wallets',
              \A u \in Users : lock[u] # None => enabled'[u] = enabled[u]
       PROVE  LockInv'
  <2>1. pc'[r] = "done" /\ \A x \in Requests \ {r} : pc'[x] = pc[x]
    BY <1>10 DEF Reply, TypeOK
  <2>2. \A u \in Users : lock[u] # r
    BY <1>10, NoneAssumption DEF LockInv, LocksBelongToOpenTransactions, InTx
  <2>3. Confined(r)
    BY <1>10, <2>1, <2>2 DEF Confined, Free, TypeOK, rows
  <2>4. Sound(r)
    BY <1>10, <2>1, <2>2, DoneIsIdle
    DEF Sound, LockInv, LocksBelongToOpenTransactions, rows
  <2> QED
    BY <2>3, <2>4, StepOfOne
<1>11. ASSUME NEW r \in Requests, CreateWallet(r) PROVE LockInv'
  BY <1>10, <1>11 DEF CreateWallet, At, TxSteps, DebitSteps, CreditSteps
<1>15. ASSUME NEW r \in Requests, SetEnabledScan(r, "enable") \/ SetEnabledScan(r, "disable")
       PROVE  LockInv'
  <2>1. CASE Goto(r, "set_lock") /\ req[r].user \in wallets
    <3>1. pc' = [pc EXCEPT ![r] = "set_lock"] /\ pc'[r] = "set_lock"
      BY <2>1 DEF Goto, TypeOK
    <3>2. InFlight(r)' /\ pc[r] \notin TxSteps
      BY <1>15, <2>1, <3>1
      DEF SetEnabledScan, At, InFlight, table, TxSteps, DebitSteps, CreditSteps
    <3> QED
      BY <1>15, <3>1, <3>2, ReadOnlyStep DEF SetEnabledScan
  <2>2. CASE Reply(r, "not_found")
    BY <1>1, <1>15, <2>2 DEF SetEnabledScan, At
  <2> QED
    BY <1>15, <2>1, <2>2 DEF SetEnabledScan
<1>12. ASSUME NEW r \in Requests, NEW op, NEW on \in BOOLEAN, SetEnabled(r, op, on)
       PROVE  LockInv'
  <2>1. \A u \in Users : lock[u] # None => enabled'[u] = enabled[u]
    BY <1>12 DEF SetEnabled, TypeOK
  <2> QED
    BY <1>10, <1>12, <2>1 DEF SetEnabled, At, TxSteps, DebitSteps, CreditSteps
<1>13. CASE Crash
  <2>1. \A r \in Requests : pc'[r] \in {"sent", "done"}
    BY <1>13 DEF Crash
  <2>2. \A r \in Requests : InFlight(r)'
    BY <2>1 DEF InFlight
  <2> QED
    BY <1>13, <2>2 DEF Crash, LockInv, LocksBelongToOpenTransactions, TransfersInFlight
<1>14. CASE UNCHANGED vars
  BY <1>14 DEF vars, LockInv, LocksBelongToOpenTransactions, TransfersInFlight, InFlight, InTx
<1> QED
  BY <1>2, <1>3, <1>4, <1>5, <1>6, <1>7, <1>8, <1>9, <1>11, <1>12, <1>13, <1>14, <1>15,
     DebitUpdateStep, CreditUpdateStep, CommitStep, TopUpUpdateStep
  DEF Next, Serve, Quiesced

\* No lock outlives its transaction, and no uncommitted balance its lock.
THEOREM LocksAreReleased == Spec => []LocksBelongToOpenTransactions
<1>1. LockInv => LocksBelongToOpenTransactions
  BY DEF LockInv
<1> QED
  BY <1>1, LockInit, LockStep, TypeInit, TypeStep, PTL DEF Spec

\* Between its debit and its COMMIT a transfer's balances cannot change under it.
THEOREM TransfersAreIsolated == Spec => []TransfersInFlight
<1>1. LockInv => TransfersInFlight
  BY DEF LockInv
<1> QED
  BY <1>1, LockInit, LockStep, TypeInit, TypeStep, PTL DEF Spec

-----------------------------------------------------------------------------
(* What changes the committed balances: only a COMMIT and a top-up.        *)

\* The COMMIT of r, as the committed table sees it.
CommitEffect(r) ==
    LET from == req[r].user
        to == req[r].to
        m == req[r].amount
    IN
    /\ pc[r] = "commit" /\ pc'[r] = "done"
    /\ from \in wallets /\ enabled[from]
    /\ to \in wallets /\ enabled[to]
    /\ Covers(balance[from], m)
    /\ Cents(m) > 0
    /\ balance' = IF from = to
                  THEN [balance EXCEPT ![to] = Credited(Debited(@, m), m)]
                  ELSE [balance EXCEPT ![from] = Debited(@, m), ![to] = Credited(@, m)]
    /\ txns' = txns \union {RowOf(r)}
    /\ UNCHANGED <<wallets, enabled>>

\* A top-up that takes effect.
TopUpEffect(r) ==
    LET u == req[r].user IN
    /\ pc[r] = "topup_lock" /\ pc'[r] = "done"
    /\ u \in wallets /\ enabled[u]
    /\ balance' = [balance EXCEPT ![u] = @ + Cents(req[r].amount)]
    /\ UNCHANGED <<wallets, enabled, txns>>

\* What COMMIT does to the committed tables.
LEMMA CommitHasEffect ==
    ASSUME TypeOK, LockInv, NEW r \in Requests, Commit(r)
    PROVE  CommitEffect(r)
<1> DEFINE from == req[r].user
           to == req[r].to
           m == req[r].amount
<1>1. pc[r] = "commit" /\ pc'[r] = "done" /\ from \in Users /\ to \in Users
  BY RequestFields DEF Commit, Reply, TypeOK
<1>2. InFlight(r)
  BY DEF LockInv, TransfersInFlight
<1>3. /\ lock[from] = r /\ lock[to] = r
      /\ from \in wallets /\ enabled[from] /\ to \in wallets /\ enabled[to]
      /\ Covers(balance[from], m) /\ Cents(m) > 0
      /\ to # from => /\ current[from] = Debited(balance[from], m)
                      /\ current[to] = Credited(balance[to], m)
      /\ to = from => current[to] = Credited(Debited(balance[to], m), m)
  BY <1>1, <1>2 DEF InFlight
<1>4. \A u \in Users \ {from, to} : lock[u] # r
  BY NoneAssumption DEF LockInv, LocksBelongToOpenTransactions
<1>5. balance' = [u \in Users |-> IF lock[u] = r THEN current[u] ELSE balance[u]]
  BY DEF Commit, CommitRows
<1>6. balance' = IF from = to
                 THEN [balance EXCEPT ![to] = Credited(Debited(@, m), m)]
                 ELSE [balance EXCEPT ![from] = Debited(@, m), ![to] = Credited(@, m)]
  <2>1. CASE from = to
    BY <1>1, <1>3, <1>4, <1>5, <2>1 DEF TypeOK
  <2>2. CASE from # to
    BY <1>1, <1>3, <1>4, <1>5, <2>2 DEF TypeOK
  <2> QED
    BY <2>1, <2>2
<1> QED
  BY <1>1, <1>3, <1>6 DEF CommitEffect, Commit

\* What a top-up's UPDATE does to the committed tables.
LEMMA TopUpHasEffect ==
    ASSUME TypeOK, LockInv, NEW r \in Requests, TopUpUpdate(r)
    PROVE  TopUpEffect(r) \/ UNCHANGED <<wallets, balance, enabled, txns>>
<1> DEFINE u == req[r].user
           b == Credited(current[u], req[r].amount)
<1>1. u \in Users /\ lock[u] = None /\ pc[r] = "topup_lock"
  BY RequestFields DEF TopUpUpdate
<1>2. current[u] = balance[u]
  BY <1>1 DEF LockInv, LocksBelongToOpenTransactions
<1>3. balance[u] \in Nat /\ req[r].amount \in Nat
  BY <1>1, BalanceAssumption, RequestFields DEF TypeOK
<1>4. b = balance[u] + Cents(req[r].amount)
  BY <1>2, <1>3, CreditIsExact
<1>5. CASE CreditMatches(u) /\ balance' = [balance EXCEPT ![u] = b] /\ pc'[r] = "done"
  BY <1>1, <1>4, <1>5 DEF TopUpUpdate, TopUpEffect, CreditMatches, table
<1>6. CASE ~(CreditMatches(u) /\ balance' = [balance EXCEPT ![u] = b] /\ pc'[r] = "done")
  BY <1>6 DEF TopUpUpdate, Reply, TypeOK, table
<1> QED
  BY <1>5, <1>6

\* The three ways a step can leave wallets and transactions.
OtherEffect ==
    /\ balance' = balance /\ txns' = txns
    /\ \/ wallets' = wallets /\ enabled' = enabled
       \/ /\ enabled' = enabled
          /\ \E u \in Users : wallets' = wallets \union {u}
       \/ /\ wallets' = wallets
          /\ \E u \in wallets, on \in BOOLEAN : enabled' = [enabled EXCEPT ![u] = on]

\* Every step changes the committed tables in one of these ways or not at all.
LEMMA Effects ==
    ASSUME TypeOK, LockInv, [Next]_vars
    PROVE  \/ \E r \in Requests : CommitEffect(r) \/ TopUpEffect(r)
           \/ OtherEffect
<1> USE DEF table, rows
<1>1. ASSUME NEW r \in Requests, Commit(r) PROVE CommitEffect(r)
  BY <1>1, CommitHasEffect
<1>2. ASSUME NEW r \in Requests, TopUpUpdate(r) PROVE TopUpEffect(r) \/ OtherEffect
  BY <1>2, TopUpHasEffect DEF OtherEffect
<1>3. ASSUME NEW r \in Requests, CreateWallet(r) PROVE OtherEffect
  BY <1>3, RequestFields DEF CreateWallet, OtherEffect
<1>4. ASSUME NEW r \in Requests, NEW op, NEW on \in BOOLEAN, SetEnabled(r, op, on)
      PROVE  OtherEffect
  <2>1. req[r].user \in wallets
    BY <1>4 DEF SetEnabled, At, LockInv, TransfersInFlight, InFlight
  <2> QED
    BY <1>4, <2>1 DEF SetEnabled, OtherEffect
<1>5. ASSUME NEW r \in Requests,
             \/ RejectAmount(r) \/ VerifyReceiver(r) \/ BeginTx(r) \/ DebitScan(r)
             \/ CreditScan(r) \/ TopUpScan(r) \/ TopUpLookup(r)
             \/ SetEnabledScan(r, "enable") \/ SetEnabledScan(r, "disable")
      PROVE  OtherEffect
  BY <1>5 DEF RejectAmount, VerifyReceiver, BeginTx, DebitScan, CreditScan, TopUpScan,
              TopUpLookup, SetEnabledScan, OtherEffect
<1>6. ASSUME NEW r \in Requests,
             \/ DebitUpdate(r) \/ DebitLookup(r) \/ CreditUpdate(r) \/ CreditLookup(r)
             \/ InsertRows(r) \/ StatementError(r) \/ AbortDeadlock(r)
      PROVE  OtherEffect
  BY <1>6 DEF DebitUpdate, DebitLookup, CreditUpdate, CreditLookup, InsertRows,
              StatementError, AbortDeadlock, Rollback, Write, TakeLock, OtherEffect
<1>7. CASE Crash \/ UNCHANGED vars
  BY <1>7 DEF Crash, vars, OtherEffect
<1> QED
  BY <1>1, <1>2, <1>3, <1>4, <1>5, <1>6, <1>7 DEF Next, Serve, Quiesced

-----------------------------------------------------------------------------
\* Once a disable has taken effect no money reaches or leaves the wallet until
\* it is enabled again, whatever was in flight.
THEOREM FrozenWalletsKeepTheirBalance == Spec => FrozenKeepsBalance
<1>1. TypeOK /\ LockInv /\ [Next]_vars
         => [\A u \in Users : ~enabled[u] /\ ~enabled'[u] => balance'[u] = balance[u]]_vars
  <2> SUFFICES ASSUME TypeOK, LockInv, [Next]_vars, NEW u \in Users, ~enabled[u]
               PROVE  balance'[u] = balance[u]
    OBVIOUS
  <2>1. ASSUME NEW r \in Requests, CommitEffect(r) PROVE balance'[u] = balance[u]
    BY <2>1, RequestFields DEF CommitEffect, TypeOK
  <2>2. ASSUME NEW r \in Requests, TopUpEffect(r) PROVE balance'[u] = balance[u]
    BY <2>2, RequestFields DEF TopUpEffect, TypeOK
  <2> QED
    BY <2>1, <2>2, Effects DEF OtherEffect
<1> QED
  BY <1>1, LockInit, LockStep, TypeInit, TypeStep, PTL DEF Spec, FrozenKeepsBalance

-----------------------------------------------------------------------------
(* Answers and rows. *)

\* No request is answered twice, and a row belongs to a finished request.
UnansweredUntilDone == \A r \in Requests : pc[r] # "done" => answer[r] = "none"
RowsAreSettled == \A row \in txns : row.id \in Requests /\ pc[row.id] = "done"
AbsentIsDefault == \A u \in Users \ wallets : balance[u] = 0 /\ enabled[u]

SettledInv ==
    /\ UnansweredUntilDone
    /\ RowsAreSettled
    /\ AbsentIsDefault
    /\ AnswerTellsOutcome

\* Initially nobody is answered and no row exists.
LEMMA SettledInit == Init => SettledInv
  BY DEF Init, SettledInv, UnansweredUntilDone, RowsAreSettled, AbsentIsDefault,
         AnswerTellsOutcome

\* A reply that is neither a success nor a new row settles one request.
LEMMA ReplySettles ==
    ASSUME TypeOK, SettledInv, NEW r \in Requests, NEW a \in Answers, Reply(r, a),
           pc[r] # "done", a = "ok" => req[r].op # "transfer", txns' = txns, req' = req
    PROVE  (UnansweredUntilDone /\ RowsAreSettled /\ AnswerTellsOutcome)'
<1>1. /\ pc'[r] = "done" /\ answer'[r] = a
      /\ \A x \in Requests \ {r} : pc'[x] = pc[x] /\ answer'[x] = answer[x]
  BY DEF Reply, TypeOK
<1>2. \A row \in txns : row.id # r
  BY DEF SettledInv, RowsAreSettled
<1>3. UnansweredUntilDone'
  BY <1>1 DEF SettledInv, UnansweredUntilDone
<1>4. RowsAreSettled'
  BY <1>1 DEF SettledInv, RowsAreSettled
<1>5. AnswerTellsOutcome'
  BY <1>1, <1>2 DEF SettledInv, AnswerTellsOutcome
<1> QED
  BY <1>3, <1>4, <1>5

\* A step that only goes on leaves every answer and every row as it was.
LEMMA GotoSettles ==
    ASSUME TypeOK, SettledInv, NEW r \in Requests, NEW s, s # "done", Goto(r, s),
           pc[r] # "done", txns' = txns, req' = req
    PROVE  (UnansweredUntilDone /\ RowsAreSettled /\ AnswerTellsOutcome)'
<1>1. answer' = answer /\ \A x \in Requests : pc'[x] = "done" <=> pc[x] = "done"
  BY DEF Goto, TypeOK
<1> QED
  BY <1>1 DEF SettledInv, UnansweredUntilDone, RowsAreSettled, AnswerTellsOutcome

\* COMMIT adds the row of the transfer it answers.
LEMMA CommitSettles ==
    ASSUME TypeOK, SettledInv, NEW r \in Requests, Commit(r)
    PROVE  (UnansweredUntilDone /\ RowsAreSettled /\ AnswerTellsOutcome)'
<1>1. PICK a \in {"ok", "internal"} : Reply(r, a)
  BY DEF Commit
<1>2. /\ pc'[r] = "done" /\ answer'[r] = a
      /\ \A x \in Requests \ {r} : pc'[x] = pc[x] /\ answer'[x] = answer[x]
  BY <1>1 DEF Reply, TypeOK
<1>3. txns' = txns \union {RowOf(r)} /\ RowOf(r).id = r /\ req' = req
  BY DEF Commit, RowOf
<1>4. UnansweredUntilDone'
  BY <1>2 DEF SettledInv, UnansweredUntilDone
<1>5. RowsAreSettled'
  BY <1>2, <1>3 DEF SettledInv, RowsAreSettled
<1>6. \A x \in Requests \ {r} : (\E row \in txns' : row.id = x) <=> (\E row \in txns : row.id = x)
  BY <1>3
<1>7. \E row \in txns' : row.id = r
  BY <1>3
<1>8. AnswerTellsOutcome'
  BY <1>2, <1>3, <1>6, <1>7 DEF SettledInv, AnswerTellsOutcome
<1> QED
  BY <1>4, <1>5, <1>8

\* Every step preserves the agreement of answers and rows.
LEMMA SettledStep == TypeOK /\ LockInv /\ SettledInv /\ [Next]_vars => SettledInv'
<1> SUFFICES ASSUME TypeOK, LockInv, SettledInv, [Next]_vars PROVE SettledInv'
  OBVIOUS
<1> DEFINE Rest == (UnansweredUntilDone /\ RowsAreSettled /\ AnswerTellsOutcome)'
<1>1. AbsentIsDefault'
  <2>1. ASSUME NEW r \in Requests, CommitEffect(r) PROVE AbsentIsDefault'
    BY <2>1, RequestFields DEF CommitEffect, SettledInv, AbsentIsDefault, TypeOK
  <2>2. ASSUME NEW r \in Requests, TopUpEffect(r) PROVE AbsentIsDefault'
    BY <2>2, RequestFields DEF TopUpEffect, SettledInv, AbsentIsDefault, TypeOK
  <2>3. CASE OtherEffect
    BY <2>3 DEF OtherEffect, SettledInv, AbsentIsDefault, TypeOK
  <2> QED
    BY <2>1, <2>2, <2>3, Effects
<1>2. Rest
  <2> USE DEF table, rows, At
  <2>1. ASSUME NEW r \in Requests, NEW a \in Answers \ {"ok"}, Reply(r, a), pc[r] # "done",
               txns' = txns, req' = req
        PROVE  Rest
    BY <2>1, ReplySettles
  <2>2. ASSUME NEW r \in Requests, NEW s \in Steps \ {"done"}, Goto(r, s), pc[r] # "done",
               txns' = txns, req' = req
        PROVE  Rest
    BY <2>2, GotoSettles
  <2> DEFINE refusals == {"invalid", "receiver_not_found", "receiver_inactive",
                          "insufficient", "not_found", "disabled", "exists", "internal"}
             onward == {"begin", "topup_lock", "topup_lookup", "set_lock"} \union TxSteps
  <2>3. refusals \subseteq Answers \ {"ok"} /\ onward \subseteq Steps \ {"done"}
    BY DEF Answers, Steps, TxSteps, DebitSteps, CreditSteps
  <2>4. \A u : Classify(u, "insufficient") \in refusals /\ Classify(u, "not_found") \in refusals
    BY DEF Classify
  <2>5. ASSUME NEW r \in Requests,
               \/ RejectAmount(r) \/ DebitLookup(r) \/ CreditLookup(r) \/ TopUpLookup(r)
               \/ StatementError(r) \/ AbortDeadlock(r)
        PROVE  Rest
    <3>1. txns' = txns /\ req' = req /\ \E a \in refusals : Reply(r, a)
      BY <2>4, <2>5 DEF RejectAmount, DebitLookup, CreditLookup, TopUpLookup,
                        StatementError, AbortDeadlock
    <3>2. pc[r] # "done"
      BY <2>5 DEF RejectAmount, DebitLookup, CreditLookup, TopUpLookup, StatementError,
                  AbortDeadlock, InDeadlock, Blocked, TxSteps, DebitSteps, CreditSteps
    <3> QED
      BY <2>1, <2>3, <3>1, <3>2
  <2>6. ASSUME NEW r \in Requests,
               \/ VerifyReceiver(r) \/ BeginTx(r) \/ DebitScan(r) \/ DebitUpdate(r)
               \/ CreditScan(r) \/ CreditUpdate(r) \/ InsertRows(r) \/ TopUpScan(r)
               \/ SetEnabledScan(r, "enable") \/ SetEnabledScan(r, "disable")
        PROVE  Rest
    <3>1. /\ txns' = txns /\ req' = req /\ pc[r] # "done"
          /\ (\E a \in refusals : Reply(r, a)) \/ (\E s \in onward : Goto(r, s))
      BY <2>6 DEF VerifyReceiver, Refusals, BeginTx, DebitScan, DebitUpdate, CreditScan, CreditUpdate,
                  InsertRows, TopUpScan, SetEnabledScan, At, TxSteps, DebitSteps, CreditSteps
    <3> QED
      BY <2>1, <2>2, <2>3, <3>1
  <2>7. ASSUME NEW r \in Requests, CreateWallet(r) \/ TopUpUpdate(r)
                                     \/ \E on \in BOOLEAN : \/ SetEnabled(r, "enable", on)
                                                            \/ SetEnabled(r, "disable", on)
        PROVE  Rest
    <3>1. pc[r] # "done" /\ txns' = txns /\ req' = req /\ req[r].op # "transfer"
      BY <2>7 DEF CreateWallet, TopUpUpdate, SetEnabled, At, LockInv, TransfersInFlight, InFlight
    <3>2. \/ \E a \in refusals \union {"ok"} : Reply(r, a)
          \/ Goto(r, "topup_lookup")
      BY <2>7 DEF CreateWallet, TopUpUpdate, SetEnabled
    <3>3. refusals \union {"ok"} \subseteq Answers
      BY DEF Answers
    <3> QED
      BY <2>2, <2>3, <3>1, <3>2, <3>3, ReplySettles
  <2>8. ASSUME NEW r \in Requests, Commit(r) PROVE Rest
    BY <2>8, CommitSettles
  <2>9. CASE Crash
    <3>1. \A r \in Requests : \/ pc[r] = "done" /\ pc'[r] = "done" /\ answer'[r] = answer[r]
                              \/ pc[r] = "sent" /\ pc'[r] = "sent" /\ answer'[r] = answer[r]
                              \/ pc[r] # "done" /\ pc'[r] = "done" /\ answer'[r] = "lost"
      BY <2>9 DEF Crash
    <3>2. txns' = txns /\ req' = req
      BY <2>9 DEF Crash
    <3> QED
      BY <3>1, <3>2 DEF SettledInv, UnansweredUntilDone, RowsAreSettled, AnswerTellsOutcome
  <2>10. CASE UNCHANGED vars
    BY <2>10 DEF vars, SettledInv, UnansweredUntilDone, RowsAreSettled, AnswerTellsOutcome
  <2> QED
    BY <2>5, <2>6, <2>7, <2>8, <2>9, <2>10 DEF Next, Serve, Quiesced
<1> QED
  BY <1>1, <1>2 DEF SettledInv

\* A transfer answered with success is recorded, and one that was refused is not.
THEOREM AnswersTellTheOutcome == Spec => []AnswerTellsOutcome
<1>1. SettledInv => AnswerTellsOutcome
  BY DEF SettledInv
<1> QED
  BY <1>1, LockInit, LockStep, SettledInit, SettledStep, TypeInit, TypeStep, PTL DEF Spec

-----------------------------------------------------------------------------
(* Amounts that are not a whole number of cents and a half are moved        *)
(* exactly as recorded.                                                     *)

WholeCents == \A t \in Traffic : ~IsHalfCent(t.amount)

\* A committed transfer takes from one wallet what it gives to the other, and
\* what its row says.
LEMMA CommitIsExact ==
    ASSUME WholeCents, TypeOK, NEW r \in Requests, CommitEffect(r), TypeOK'
    PROVE  LET from == req[r].user
               to == req[r].to
               cents == Cents(req[r].amount)
           IN  /\ from \in Users /\ to \in Users
               /\ cents \in 1 .. balance[from]
               /\ balance' = L!Moved(from, to, cents)
<1> DEFINE from == req[r].user
           to == req[r].to
           m == req[r].amount
           cents == Cents(m)
<1>1. from \in Users /\ to \in Users /\ m \in Nat
  BY RequestFields
<1>2. ~IsHalfCent(m)
  BY DEF WholeCents, TypeOK
<1>3. balance[from] \in Nat /\ balance[to] \in Nat
  BY <1>1, BalanceAssumption DEF TypeOK
<1>4. cents \in Nat /\ cents > 0
  BY <1>1, CentsRange DEF CommitEffect
<1>5. Debited(balance[from], m) = balance[from] - cents /\ cents <= balance[from]
  BY <1>1, <1>2, <1>3, DebitIsExact DEF CommitEffect
<1>6. CASE from = to
  <2>1. balance[from] - cents \in Nat
    BY <1>3, <1>4, <1>5
  <2>2. Credited(balance[from] - cents, m) = balance[from] - cents + cents
    BY <1>1, <2>1, CreditIsExact
  <2>3. balance' = [balance EXCEPT ![to] = balance[from] - cents + cents]
    BY <1>5, <1>6, <2>2 DEF CommitEffect
  <2>4. L!Moved(from, to, cents) = [balance EXCEPT ![to] = balance[from] - cents + cents]
    BY <1>1, <1>6 DEF TypeOK, L!Moved
  <2> QED
    BY <1>1, <1>3, <1>4, <1>5, <2>3, <2>4
<1>7. CASE from # to
  <2>1. Credited(balance[to], m) = balance[to] + cents
    BY <1>1, <1>3, CreditIsExact
  <2>2. balance' = [balance EXCEPT ![from] = balance[from] - cents,
                                   ![to] = balance[to] + cents]
    BY <1>5, <1>7, <2>1 DEF CommitEffect, TypeOK
  <2>3. L!Moved(from, to, cents) = [balance EXCEPT ![from] = balance[from] - cents,
                                                  ![to] = balance[to] + cents]
    BY <1>1, <1>7 DEF TypeOK, L!Moved
  <2> QED
    BY <1>1, <1>3, <1>4, <1>5, <2>2, <2>3
<1> QED
  BY <1>6, <1>7

\* Money moves only as a top-up or as a recorded transfer of exactly its amount.
THEOREM TransfersMatchTheirRows ==
    ASSUME WholeCents
    PROVE  Spec => TransferMatchesRow
<1> DEFINE Matches == balance' # balance =>
              \/ /\ txns' = txns
                 /\ \E r \in Requests :
                       /\ pc[r] = "topup_lock" /\ pc'[r] = "done"
                       /\ balance' = [balance EXCEPT ![req[r].user] =
                                         @ + Cents(req[r].amount)]
              \/ \E row \in txns' \ txns :
                    /\ txns' = txns \union {row}
                    /\ balance' = L!Moved(row.sender, row.receiver, row.amount)
<1>1. TypeOK /\ LockInv /\ SettledInv /\ TypeOK' /\ [Next]_vars => [Matches]_vars
  <2> SUFFICES ASSUME TypeOK, LockInv, SettledInv, TypeOK', [Next]_vars PROVE Matches
    OBVIOUS
  <2>1. ASSUME NEW r \in Requests, CommitEffect(r) PROVE Matches
    <3>1. RowOf(r) \in txns' \ txns /\ txns' = txns \union {RowOf(r)}
      BY <2>1 DEF CommitEffect, SettledInv, RowsAreSettled, RowOf
    <3>2. balance' = L!Moved(RowOf(r).sender, RowOf(r).receiver, RowOf(r).amount)
      BY <2>1, CommitIsExact DEF RowOf
    <3> QED
      BY <3>1, <3>2
  <2>2. ASSUME NEW r \in Requests, TopUpEffect(r) PROVE Matches
    BY <2>2 DEF TopUpEffect
  <2> QED
    BY <2>1, <2>2, Effects DEF OtherEffect
<1> QED
  BY <1>1, LockInit, LockStep, SettledInit, SettledStep, TypeInit, TypeStep, PTL
  DEF Spec, TransferMatchesRow

-----------------------------------------------------------------------------
(* The committed tables behave like the abstract ledger. *)

\* The initial tables are initial tables of the ledger.
LEMMA InitRefines == Init => L!Init
  BY TypeInit DEF Init, TypeOK, L!Init

\* Every step is a step of the ledger or leaves its tables alone.
LEMMA StepRefines ==
    ASSUME WholeCents, TypeOK, LockInv, SettledInv, TypeOK', [Next]_vars
    PROVE  [L!Next]_L!vars
<1>1. ASSUME NEW r \in Requests, CommitEffect(r) PROVE L!Next
  <2> DEFINE from == req[r].user
             to == req[r].to
             cents == Cents(req[r].amount)
  <2>1. /\ from \in Users /\ to \in Users /\ cents \in 1 .. balance[from]
        /\ balance' = L!Moved(from, to, cents)
    BY <1>1, CommitIsExact
  <2>2. cents \in 1 .. MaxBalance /\ balance[from] >= cents /\ balance'[to] <= MaxBalance
    BY <2>1, BalanceAssumption DEF TypeOK
  <2>3. \A row \in txns : row.id # r
    BY <1>1 DEF CommitEffect, SettledInv, RowsAreSettled
  <2>4. L!Transfer(r, from, to, cents)
    BY <1>1, <2>1, <2>2, <2>3 DEF CommitEffect, RowOf, L!Transfer, L!Usable
  <2> QED
    BY <2>1, <2>2, <2>4 DEF L!Next
<1>2. ASSUME NEW r \in Requests, TopUpEffect(r) PROVE [L!Next]_L!vars
  <2> DEFINE u == req[r].user
             cents == Cents(req[r].amount)
  <2>1. u \in Users /\ cents \in Nat
    BY RequestFields, CentsRange
  <2>2. balance[u] \in Nat /\ balance'[u] \in 0 .. MaxBalance /\ balance'[u] = balance[u] + cents
    BY <1>2, <2>1, BalanceAssumption DEF TopUpEffect, TypeOK
  <2>3. CASE cents = 0
    <3>1. balance' = balance
      BY <1>2, <2>1, <2>2, <2>3 DEF TopUpEffect, TypeOK
    <3> QED
      BY <1>2, <3>1 DEF TopUpEffect, L!vars
  <2>4. CASE cents # 0
    <3>1. cents \in 1 .. MaxBalance /\ balance[u] + cents <= MaxBalance
      BY <2>1, <2>2, <2>4, BalanceAssumption
    <3>2. L!TopUp(u, cents)
      BY <1>2, <3>1 DEF TopUpEffect, L!TopUp, L!Usable
    <3> QED
      BY <2>1, <3>1, <3>2 DEF L!Next
  <2> QED
    BY <2>3, <2>4
<1>3. CASE OtherEffect
  <2>1. CASE wallets' = wallets /\ enabled' = enabled
    BY <1>3, <2>1 DEF OtherEffect, L!vars
  <2>2. ASSUME NEW u \in Users, wallets' = wallets \union {u}, enabled' = enabled
        PROVE  [L!Next]_L!vars
    <3>1. CASE u \in wallets
      BY <1>3, <2>2, <3>1 DEF OtherEffect, L!vars
    <3>2. CASE u \notin wallets
      <4>1. balance[u] = 0 /\ enabled[u]
        BY <3>2 DEF SettledInv, AbsentIsDefault
      <4> QED
        BY <1>3, <2>2, <3>2, <4>1 DEF OtherEffect, L!Next, L!Open
    <3> QED
      BY <3>1, <3>2
  <2>3. ASSUME NEW u \in wallets, NEW on \in BOOLEAN, wallets' = wallets,
               enabled' = [enabled EXCEPT ![u] = on]
        PROVE  L!Next
    <3>1. u \in Users /\ L!SetEnabled(u, on)
      BY <1>3, <2>3 DEF OtherEffect, L!SetEnabled, TypeOK
    <3> QED
      BY <3>1 DEF L!Next
  <2> QED
    BY <1>3, <2>1, <2>2, <2>3 DEF OtherEffect
<1> QED
  BY <1>1, <1>2, <1>3, Effects

\* The concurrent implementation implements the abstract ledger.
THEOREM LedgerIsImplemented ==
    ASSUME WholeCents
    PROVE  Spec => ImplementsLedger
<1>1. TypeOK /\ LockInv /\ SettledInv /\ TypeOK' /\ [Next]_vars => [L!Next]_L!vars
  BY StepRefines
<1> QED
  BY <1>1, InitRefines, LockInit, LockStep, SettledInit, SettledStep, TypeInit, TypeStep, PTL
  DEF Spec, ImplementsLedger, L!Spec
=============================================================================
