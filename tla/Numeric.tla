------------------------------ MODULE Numeric ------------------------------
(***************************************************************************)
(* How PostgreSQL stores the amounts this service sends it.                *)
(*                                                                         *)
(* The service hands the client's decimal string to the database untouched *)
(* (internal/service/transaction_service.go:121); the columns that receive *)
(* it are NUMERIC(18, 2).  Arithmetic on NUMERIC is exact, and a value is  *)
(* rounded to two decimals, half away from zero, only when it is stored.   *)
(*                                                                         *)
(* Balances are counted in cents and amounts in mills (tenths of a cent):  *)
(* one more decimal than the columns keep is all it takes to tell a value  *)
(* that is stored exactly, one that is rounded and one that is a tie.      *)
(***************************************************************************)
EXTENDS Integers

\* The stored form, in cents, of a non-negative value of m mills.
Cents(m) == (m + 5) \div 10

\* A tie: the client asked for a whole number of cents and a half.
IsHalfCent(m) == m % 10 = 5

\* The operand of WHERE balance >= $1: a balance of b cents covers m mills.
Covers(b, m) == 10 * b >= m

\* What balance - $1 and balance + $1 leave in the column.
Debited(b, m) == Cents(10 * b - m)
Credited(b, m) == Cents(10 * b + m)
=============================================================================
