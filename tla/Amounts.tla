------------------------------- MODULE Amounts -------------------------------
(***************************************************************************)
(* The two roundings an amount goes through: broker.py rounds the double   *)
(* with Python's round, and what the user is shown and approves is that;   *)
(* the agent inserts the double itself, and the numeric(12,2) column       *)
(* rounds the shortest decimal it stands for.                              *)
(*                                                                         *)
(* An amount is a decimal in thousandths, n, with the side e on which the  *)
(* double nearest to it lies: below, on it, or above.                      *)
(***************************************************************************)
EXTENDS Integers

Amount == [n : Nat, e : {-1, 0, 1}]

\* round(x, 2) of the exact double, in cents: to the nearest, ties to even.
BrokerRounds(a) ==
  LET q == a.n \div 10
      r == a.n % 10
  IN IF r < 5 \/ (r = 5 /\ a.e = -1) THEN q
     ELSE IF r > 5 \/ a.e = 1 THEN q + 1
     ELSE q + (q % 2)

\* What a numeric(12,2) column holds of n thousandths, in cents: ties away from zero.
Cents(n) == (n + 5) \div 10

DatabaseRounds(a) == Cents(a.n)

IsHalfCent(a) == a.n % 10 = 5
=============================================================================
