---------------------------- MODULE AmountsProofs ----------------------------
(***************************************************************************)
(* When the two roundings of an amount agree, for every amount.            *)
(***************************************************************************)
EXTENDS Amounts, TLAPS

\* Quotient and remainder, and what identifies a quotient.
LEMMA Parts ==
  ASSUME NEW n \in Nat
  PROVE  n \div 10 \in Nat /\ n % 10 \in 0..9 /\ n = 10 * (n \div 10) + (n % 10)
BY SMT

\* A number between two multiples of ten has the lower one's quotient.
LEMMA Quotient ==
  ASSUME NEW n \in Int, NEW q \in Int, 10 * q <= n, n < 10 * q + 10
  PROVE  n \div 10 = q
BY SMT

\* The approval and the payment are of the same amount, and the payment finds its
\* approval, except for amounts on half a cent (broker.py:281 and the column
\* types of 01-schema.sql and 04-approvals.sql).
THEOREM RoundingsAgree ==
  \A a \in Amount : ~IsHalfCent(a) => BrokerRounds(a) = DatabaseRounds(a)
<1> SUFFICES ASSUME NEW a \in Amount, ~IsHalfCent(a)
             PROVE  BrokerRounds(a) = DatabaseRounds(a)
  OBVIOUS
<1> DEFINE q == a.n \div 10
           r == a.n % 10
<1>1. q \in Nat /\ r \in 0..9 /\ a.n = 10 * q + r /\ r # 5
  BY Parts DEF IsHalfCent, Amount
<1>2. CASE r < 5
  <2>1. (a.n + 5) \div 10 = q
    BY <1>1, <1>2, Quotient
  <2> QED
    BY <1>2, <2>1 DEF BrokerRounds, DatabaseRounds, Cents
<1>3. CASE r > 5
  <2>1. (a.n + 5) \div 10 = q + 1
    BY <1>1, <1>3, Quotient
  <2> QED
    BY <1>1, <1>3, <2>1 DEF BrokerRounds, DatabaseRounds, Cents
<1> QED
  BY <1>1, <1>2, <1>3

\* Columns keep the order of what is put into them, and never bring together what
\* is a cent or more apart; whole cents they keep as they are.
LEMMA ColumnOrder ==
  ASSUME NEW m \in Nat, NEW n \in Nat
  PROVE  /\ Cents(n) \in Nat
         /\ m <= n => Cents(m) <= Cents(n)
         /\ Cents(m) <= Cents(n) => m - 9 <= n
         /\ m % 10 = 0 /\ n % 10 = 0 /\ Cents(m) <= Cents(n) => m <= n
<1>1. ASSUME NEW k \in Nat
      PROVE  /\ Cents(k) \in Nat
             /\ 10 * Cents(k) <= k + 5 /\ k + 5 < 10 * Cents(k) + 10
  BY SMT DEF Cents
<1>2. ASSUME NEW k \in Nat, k % 10 = 0 PROVE k = 10 * Cents(k)
  <2>1. k \div 10 \in Nat /\ k = 10 * (k \div 10)
    BY <1>2, Parts
  <2>2. (k + 5) \div 10 = k \div 10
    BY <2>1, Quotient
  <2> QED
    BY <2>1, <2>2 DEF Cents
<1> DEFINE c == Cents(m)
           d == Cents(n)
<1>3. /\ c \in Nat /\ 10 * c <= m + 5 /\ m + 5 < 10 * c + 10
      /\ d \in Nat /\ 10 * d <= n + 5 /\ n + 5 < 10 * d + 10
      /\ m % 10 = 0 => m = 10 * c
      /\ n % 10 = 0 => n = 10 * d
  BY <1>1, <1>2
<1> HIDE DEF c, d
<1>4. /\ m <= n => c <= d
      /\ c <= d => m - 9 <= n
      /\ m % 10 = 0 /\ n % 10 = 0 /\ c <= d => m <= n
  BY <1>3
<1> QED
  BY <1>3, <1>4 DEF c, d

\* What is within a limit in SpiceDB's live check is within it as the two columns
\* hold them: rounding does not make the row policy refuse what the live check
\* allowed, whichever of the two is not in whole cents.
THEOREM RoundingKeepsOrder ==
  \A a, b \in Amount : a.n <= b.n => DatabaseRounds(a) <= DatabaseRounds(b)
<1> SUFFICES ASSUME NEW a \in Amount, NEW b \in Amount, a.n <= b.n
             PROVE  DatabaseRounds(a) <= DatabaseRounds(b)
  OBVIOUS
<1>1. a.n \in Nat /\ b.n \in Nat
  BY DEF Amount
<1>2. Cents(a.n) <= Cents(b.n)
  BY <1>1, ColumnOrder
<1> QED
  BY <1>2 DEF DatabaseRounds
=============================================================================
