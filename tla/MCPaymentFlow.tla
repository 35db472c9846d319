---------------------------- MODULE MCPaymentFlow ----------------------------
(***************************************************************************)
(* Small instances of PaymentFlow for TLC.  Amounts and limits are in      *)
(* thousandths of a euro.                                                  *)
(***************************************************************************)
EXTENDS PaymentFlow

CONSTANTS alice, checking, kpn, unasked

Rel(relation, max) ==
  [resource |-> checking, relation |-> relation, subject |-> alice, max_amount |-> max]

Order(n, e, to) == [amount |-> [n |-> n, e |-> e], to |-> to]

\* The owner; a delegate who may pay up to 5.005, which the projection's column
\* holds as 5.01; a payer up to 5 who may not view.
Owner == {Rel("owner", NULL)}
Limited == {Rel("delegate", NULL), Rel("limited_payer", 5005)}
Blind == {Rel("limited_payer", 5000)}

MCScenarios == {Limited, Blind}
OwnerOnly == {Owner}

\* 5 euros; the same with half a cent, stored below it as a double.
MCActions == {Order(5000, 0, kpn), Order(5005, -1, kpn)}
OneAction == {Order(5000, 0, kpn)}
=============================================================================
