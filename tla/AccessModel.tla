----------------------------- MODULE AccessModel -----------------------------
(***************************************************************************)
(* The authoritative authorization model, spicedb/schema.zed, as operators *)
(* on a set of relationships.  A relationship is a record with fields      *)
(* resource, relation, subject and max_amount; max_amount is the bound of  *)
(* the within_limit caveat, and NULL on relations without a caveat.        *)
(***************************************************************************)
EXTENDS Integers

NULL == -1

Permissions == <<"view", "manage", "pay">>

Related(rels, resource, relation, subject) ==
  \E r \in rels : /\ r.resource = resource
                  /\ r.relation = relation
                  /\ r.subject = subject

Audit(rels, org, user) == Related(rels, org, "auditor", user)

View(rels, account, user) ==
  \/ Related(rels, account, "owner", user)
  \/ Related(rels, account, "delegate", user)
  \/ \E r \in rels : /\ r.resource = account
                     /\ r.relation = "parent"
                     /\ Audit(rels, r.subject, user)

Manage(rels, account, user) == Related(rels, account, "owner", user)

\* The bounds a user's limited_payer relationships carry for an account.
Bounds(rels, account, user) ==
  {r.max_amount : r \in {q \in rels : /\ q.resource = account
                                      /\ q.relation = "limited_payer"
                                      /\ q.subject = user}}

WithinLimit(amount, max_amount) == amount <= max_amount

\* CheckPermission(pay) with the amount in the caveat's context.
Pay(rels, account, user, amount) ==
  \/ Related(rels, account, "owner", user)
  \/ \E max \in Bounds(rels, account, user) : WithinLimit(amount, max)

\* LookupSubjects with no context: those who hold the permission outright, and
\* those who hold it if a caveat allows.
HasPermission(rels, permission, account, user) ==
  \/ permission = "view" /\ View(rels, account, user)
  \/ permission = "manage" /\ Manage(rels, account, user)
  \/ permission = "pay" /\ Related(rels, account, "owner", user)

ConditionalPermission(rels, permission, account, user) ==
  /\ permission = "pay"
  /\ ~HasPermission(rels, permission, account, user)
  /\ Bounds(rels, account, user) # {}
=============================================================================
