---------------------------- MODULE MCSyncWorker ----------------------------
(***************************************************************************)
(* Small instances of SyncWorker for TLC, cut from sync/fixtures.py.       *)
(* Amounts and bounds are in thousandths of a euro.                        *)
(***************************************************************************)
EXTENDS SyncWorker

CONSTANTS alice, bob, dave, three, four, acme

Rel(resource, relation, subject) ==
  [resource |-> resource, relation |-> relation, subject |-> subject,
   max_amount |-> NULL]

\* Bob owns account 3, Alice may view it and pay up to 5 euros from it.
Business == {Rel(three, "owner", bob),
             Rel(three, "delegate", alice),
             [Rel(three, "limited_payer", alice) EXCEPT !.max_amount = 5000]}

\* Dave audits acme, which account 4 belongs to, and may pay up to 5.005 from that
\* account, which the projection holds as 5.01; Alice may come to own either account.
Audited == {Rel(acme, "auditor", dave), Rel(four, "parent", acme),
            [Rel(four, "limited_payer", dave) EXCEPT !.max_amount = 5005]}

TwoAccounts == {three, four}
OneAccount == {three}
AllUsers == {alice, bob, dave}
SomeUsers == {alice, bob}
AllFixtures == Business \cup Audited
AllRelationships == AllFixtures \cup {Rel(four, "owner", alice), Rel(three, "owner", alice)}
=============================================================================
