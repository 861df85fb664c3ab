--------------------------- MODULE Numeric_proofs ---------------------------
(***************************************************************************)
(* What one UPDATE of a balance does, for every balance and every amount.  *)
(***************************************************************************)
EXTENDS Numeric, TLAPS

\* Storing an amount moves it by at most half a cent, and a tie goes up.
LEMMA CentsRange ==
    ASSUME NEW m \in Nat
    PROVE  /\ Cents(m) \in Nat
           /\ 10 * Cents(m) <= m + 5
           /\ m + 5 < 10 * Cents(m) + 10
  BY SMT DEF Cents

\* A credit (wallet_repository.go:230) adds exactly the amount the row records.
LEMMA CreditIsExact ==
    ASSUME NEW b \in Nat, NEW m \in Nat
    PROVE  Credited(b, m) = b + Cents(m)
  BY SMT DEF Cents, Credited

\* A debit (wallet_repository.go:198) takes exactly that amount, unless it is a
\* tie, and its WHERE clause keeps the balance from going below zero.
LEMMA DebitIsExact ==
    ASSUME NEW b \in Nat, NEW m \in Nat, Covers(b, m), ~IsHalfCent(m)
    PROVE  Debited(b, m) = b - Cents(m) /\ Cents(m) <= b
  BY SMT DEF Cents, Debited, Covers, IsHalfCent

\* A transfer of a whole number of cents and a half takes one cent less from
\* the sender than the receiver is given and the row records, at every balance.
THEOREM HalfCentsDrift ==
    ASSUME NEW b \in Nat, NEW m \in Nat, Covers(b, m), IsHalfCent(m)
    PROVE  Debited(b, m) = b - Cents(m) + 1
  BY SMT DEF Cents, Debited, Covers, IsHalfCent
=============================================================================
