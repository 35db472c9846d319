--------------------------- MODULE MCPaymentLedger ---------------------------
(***************************************************************************)
(* Small instances of PaymentLedger for TLC.                               *)
(***************************************************************************)
EXTENDS PaymentLedger, TLC

CONSTANTS alice, bob, kpn, eneco, rent, gas, none, checking, savings

Approval(n, subject, account, amount, payee, text) ==
  [n |-> n, subject_id |-> subject, account_id |-> account, amount |-> amount,
   counterparty |-> payee, description |-> text]

\* The agent writes the negated amount.
Payment(process, n, subject, account, amount, payee, text) ==
  [process |-> process, n |-> n, subject_id |-> subject, account_id |-> account,
   amount |-> -amount, counterparty |-> payee, description |-> text]

Grant(subject, account, permission, max) ==
  [subject_id |-> subject, resource_id |-> account, permission |-> permission,
   max_amount |-> max]

\* One action, approved once or twice, the payment it approves, attempted up to
\* three times, and payments that differ from it in one column.
Wanted(n) == Approval(n, alice, checking, 1, kpn, rent)
Paid(process, n) == Payment(process, n, alice, checking, 1, kpn, rent)
NearMisses == {Payment(2, 1, bob, checking, 1, kpn, rent),
               Payment(2, 1, alice, savings, 1, kpn, rent),
               Payment(1, 1, alice, checking, 2, kpn, rent),
               Payment(1, 1, alice, checking, 1, eneco, rent),
               Payment(2, 1, alice, checking, 1, kpn, gas)}

OneApproval == {Wanted(1)}
TwoApprovals == {Wanted(1), Wanted(2)}
\* Approvals that differ in the amount: paying one must not burn the other.
MixedApprovals == {Wanted(1), Approval(1, alice, checking, 2, kpn, rent)}
\* Two agent processes pay the same; or the first tries twice, the second once.
TwoPayments == {Paid(1, 1), Paid(2, 1)}
ThreePayments == {Paid(1, 1), Paid(1, 2), Paid(2, 1)}
MixedPayments == {Paid(1, 1)} \cup NearMisses

\* alice and bob own both accounts, or alice may pay from checking no more than 1.
Owners(permission) ==
  {Grant(s, a, permission, NULL) : s \in {alice, bob}, a \in {checking, savings}}
FullAccess == {Owners("view"), Owners("pay")}
LimitedAccess == FullAccess \cup {{Grant(alice, checking, "pay", 1)}}
=============================================================================
