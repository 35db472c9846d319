---------------------------- MODULE PaymentLedger ----------------------------
(***************************************************************************)
(* Postgres: the payments an agent writes into `transactions', the         *)
(* policies that refuse them and the trigger that consumes an approval     *)
(* (postgres/init/01-schema.sql, 02-rls.sql, 04-approvals.sql), as driven  *)
(* by run_sql in agent/db.py.                                              *)
(*                                                                         *)
(* Transactions run at READ COMMITTED, the server's default, which         *)
(* nothing in the repository changes: now() is the time of BEGIN, the      *)
(* INSERT reads the snapshot of its own statement, and so does, later, the *)
(* trigger's UPDATE.  An UPDATE whose row another transaction has locked   *)
(* waits for it, and then goes on with the row its sub-select chose.       *)
(*                                                                         *)
(* A row of payment_approvals is the record of its columns; `consumed'     *)
(* holds the rows whose consumed_at is set by a committed transaction.  A  *)
(* payment is one INSERT, in a database transaction of its own; the agent  *)
(* process that runs it has one agent_writer connection.                   *)
(***************************************************************************)
EXTENDS Integers, FiniteSets

CONSTANTS
  Approvals,       \* rows the broker may record
  Payments,        \* INSERTs the agents may run, with the subject they run as
                   \*   and the agent process that runs them
  Projections,     \* contents the sync worker may commit for one permission
  NoApproval,      \* what the trigger's sub-select returns when nothing matches
  APPROVAL_TTL,    \* broker.py's APPROVAL_TTL, in clock ticks
  MaxClock         \* bound on the clock

\* The columns a payment and its approval share; the first is not a column of
\* `transactions' but the app.user_id the INSERT runs under.
Columns == {"subject_id", "account_id", "amount", "counterparty", "description"}

IsAction(x) == Columns \subseteq DOMAIN x /\ x.amount \in Int

ASSUME ApprovalsAssumption ==
  IsFiniteSet(Approvals) /\ \A ap \in Approvals : IsAction(ap)
ASSUME PaymentsAssumption ==
  IsFiniteSet(Payments) /\ \A p \in Payments : IsAction(p) /\ "process" \in DOMAIN p
ASSUME ProjectionsAssumption ==
  \A rows \in Projections : \A g, h \in rows : g.permission = h.permission
ASSUME NoApprovalAssumption == NoApproval \notin Approvals
ASSUME TTLAssumption == APPROVAL_TTL \in Nat \ {0}
ASSUME ClockAssumption == MaxClock \in Nat

VARIABLES
  clock,        \* the database server's clock
  recorded,     \* committed rows of payment_approvals
  approved_at,  \* when each was recorded
  consumed,     \* those with consumed_at set
  access,       \* committed rows of resource_access
  pc,           \* progress of each payment's database transaction
  began,        \* its now()
  choice        \* the approval its trigger is consuming

vars == <<clock, recorded, approved_at, consumed, access, pc, began, choice>>

PaymentSteps == {"new", "begun", "inserted", "consuming", "fired",
                 "committed", "aborted"}

Abs(n) == IF n < 0 THEN -n ELSE n

Init == /\ clock = 0
        /\ recorded = {}
        /\ approved_at = [ap \in Approvals |-> 0]
        /\ consumed = {}
        /\ access = {}
        /\ pc = [p \in Payments |-> "new"]
        /\ began = [p \in Payments |-> 0]
        /\ choice = [p \in Payments |-> NoApproval]

Active == {p \in Payments : pc[p] \in {"begun", "inserted", "consuming", "fired"}}
Committed == {p \in Payments : pc[p] = "committed"}

-----------------------------------------------------------------------------
(* The other writers                                                       *)

\* Mutant of RecordApproval: expires_at is stored, and read as approved_at.
RecordExpired(ap) ==
  /\ ap \notin recorded
  /\ ap.amount > 0
  /\ recorded' = recorded \cup {ap}
  /\ approved_at' = [approved_at EXCEPT ![ap] = clock - APPROVAL_TTL]
  /\ UNCHANGED <<clock, consumed, access, pc, began, choice>>

\* The broker's INSERT, refused by the CHECK on amount.
RecordApproval(ap) ==
  /\ ap \notin recorded
  /\ ap.amount > 0
  /\ recorded' = recorded \cup {ap}
  /\ approved_at' = [approved_at EXCEPT ![ap] = clock]
  /\ UNCHANGED <<clock, consumed, access, pc, began, choice>>

\* The sync worker's DELETE and INSERTs for one permission, committed together.
Reconcile(permission, rows) ==
  /\ \A g \in rows : g.permission = permission
  /\ access' = {g \in access : g.permission # permission} \cup rows
  /\ UNCHANGED <<clock, recorded, approved_at, consumed, pc, began, choice>>

Tick == /\ clock < MaxClock
        /\ clock' = clock + 1
        /\ UNCHANGED <<recorded, approved_at, consumed, access, pc, began, choice>>

-----------------------------------------------------------------------------
(* The policies                                                            *)

Granted(p, permission) ==
  {g \in access : /\ g.permission = permission
                  /\ g.resource_id = p.account_id
                  /\ g.subject_id = p.subject_id}

NULL == -1  \* as a max_amount: no limit

\* transaction_pay_ins
PayPolicy(p) == \E g \in Granted(p, "pay") :
                  g.max_amount = NULL \/ Abs(p.amount) <= g.max_amount

\* transaction_view: RETURNING reads the new row, so the SELECT policy holds too.
ViewPolicy(p) == Granted(p, "view") # {}

Matches(ap, p) == /\ ap.subject_id = p.subject_id
                  /\ ap.account_id = p.account_id
                  /\ ap.amount = Abs(p.amount)
                  /\ ap.counterparty = p.counterparty
                  /\ ap.description = p.description

Unexpired(ap, p) == approved_at[ap] + APPROVAL_TTL > began[p]

\* Mutant of Usable: expires_at is not compared.
UsableForEver(p) == {ap \in recorded \ consumed : Matches(ap, p)}

\* The approvals a statement of p's transaction sees as usable.
Usable(p) == {ap \in recorded \ consumed : Matches(ap, p) /\ Unexpired(ap, p)}

\* transaction_preapproved_ins
PreapprovedPolicy(p) == Usable(p) # {}

-----------------------------------------------------------------------------
(* One payment: run_sql's transaction                                      *)

Step(p, from, to) == pc[p] = from /\ pc' = [pc EXCEPT ![p] = to]

\* BEGIN, SET LOCAL app.user_id.  connection_for returns the process's one
\* connection, and `with conn.transaction()' holds it until the end.
Begin(p) ==
  /\ \A q \in Active : q.process # p.process
  /\ Step(p, "new", "begun")
  /\ began' = [began EXCEPT ![p] = clock]
  /\ UNCHANGED <<clock, recorded, approved_at, consumed, access, choice>>

\* The INSERT up to its triggers, or the error that rolls it back.
Insert(p) ==
  /\ \/ /\ PayPolicy(p) /\ PreapprovedPolicy(p) /\ ViewPolicy(p)
        /\ Step(p, "begun", "inserted")
     \/ /\ ~(PayPolicy(p) /\ PreapprovedPolicy(p) /\ ViewPolicy(p))
        /\ Step(p, "begun", "aborted")
  /\ UNCHANGED <<clock, recorded, approved_at, consumed, access, began, choice>>

\* consume_payment_approval's sub-select, in a snapshot of its own: the oldest
\* usable approval, or none, and then the UPDATE changes nothing.
ChooseApproval(p) ==
  /\ \/ /\ \E ap \in Usable(p) :
             /\ \A other \in Usable(p) : approved_at[ap] <= approved_at[other]
             /\ choice' = [choice EXCEPT ![p] = ap]
        /\ Step(p, "inserted", "consuming")
     \/ /\ Usable(p) = {}
        /\ Step(p, "inserted", "fired")
        /\ UNCHANGED choice
  /\ UNCHANGED <<clock, recorded, approved_at, consumed, access, began>>

Holder(ap) == {q \in Payments : pc[q] = "fired" /\ choice[q] = ap}

\* Mutant of TakeApproval: the consumption survives a rollback.
TakeAtOnce(p) ==
  /\ Holder(choice[p]) = {}
  /\ Step(p, "consuming", "fired")
  /\ consumed' = consumed \cup {choice[p]}
  /\ UNCHANGED <<clock, recorded, approved_at, access, began, choice>>

\* Mutant of TakeApproval: the UPDATE is tried again until its row is unconsumed.
TakeWhenUnconsumed(p) ==
  /\ Holder(choice[p]) = {}
  /\ choice[p] \notin consumed
  /\ Step(p, "consuming", "fired")
  /\ UNCHANGED <<clock, recorded, approved_at, consumed, access, began, choice>>

\* The UPDATE waits for the row lock.  When it gets it, the row is re-checked
\* against `id = <the id chosen>' only, so it is updated even if consumed since.
TakeApproval(p) ==
  /\ Holder(choice[p]) = {}
  /\ Step(p, "consuming", "fired")
  /\ UNCHANGED <<clock, recorded, approved_at, consumed, access, began, choice>>

\* Mutant of Commit: no trigger consumed the approval.
CommitUnconsumed(p) ==
  /\ Step(p, "fired", "committed")
  /\ UNCHANGED <<clock, recorded, approved_at, consumed, access, began, choice>>

Commit(p) ==
  /\ Step(p, "fired", "committed")
  /\ consumed' = consumed \cup ({choice[p]} \ {NoApproval})
  /\ UNCHANGED <<clock, recorded, approved_at, access, began, choice>>

\* The agent process dies, or the connection breaks.
Abort(p) ==
  /\ p \in Active
  /\ pc' = [pc EXCEPT ![p] = "aborted"]
  /\ UNCHANGED <<clock, recorded, approved_at, consumed, access, began, choice>>

Statement(p) == Insert(p) \/ ChooseApproval(p) \/ TakeApproval(p) \/ Commit(p)

Next == \/ \E ap \in Approvals : RecordApproval(ap)
        \/ \E permission \in {"view", "pay"}, rows \in Projections :
             Reconcile(permission, rows)
        \/ Tick
        \/ \E p \in Payments : Begin(p) \/ Statement(p) \/ Abort(p)

Spec == Init /\ [][Next]_vars

\* A statement the server has begun goes on; nobody is obliged to begin one.
FairSpec == Spec /\ \A p \in Payments : WF_vars(Statement(p))

-----------------------------------------------------------------------------
(* What must be true                                                       *)

\* Every variable holds values its table or session can hold.
TypeOK ==
  /\ clock \in 0..MaxClock
  /\ recorded \subseteq Approvals
  /\ approved_at \in [Approvals -> Nat]
  /\ consumed \subseteq Approvals
  /\ access \subseteq UNION Projections
  /\ pc \in [Payments -> PaymentSteps]
  /\ began \in [Payments -> Nat]
  /\ choice \in [Payments -> Approvals \cup {NoApproval}]

\* Intent binding (04-approvals.sql:4): every payment that commits is one some
\* user approved, same subject and all four fields, by an approval that had not
\* expired when its transaction began - whatever runs concurrently, whatever
\* the sync worker commits, and whichever transactions abort in between.
IntentBound ==
  \A p \in Committed :
    \E ap \in recorded : Matches(ap, p) /\ Unexpired(ap, p)

\* No approval is burned: one that is consumed was consumed by a committed
\* payment that it matches, so an aborted INSERT gives its approval back, and
\* the trigger never spends the approval of another payment.
ConsumedWasPaid ==
  \A ap \in consumed :
    \E p \in Committed : choice[p] = ap /\ Matches(ap, p)

\* The payments made of what ap approves, and the approvals of the same.
PaidOf(ap) == {p \in Committed : Matches(ap, p)}
ApprovalsLike(ap) == {other \in recorded : \A c \in Columns : other[c] = ap[c]}

\* Single use (04-approvals.sql:93-94, README.md:368): of each approved action,
\* no more payments commit than there were approvals of it.
SingleUse ==
  \A ap \in recorded : Cardinality(PaidOf(ap)) <= Cardinality(ApprovalsLike(ap))

\* What of it holds although the trigger re-checks nothing: one agent process
\* never commits an action more often than it was approved, whatever the other
\* processes consume between its WITH CHECK and its UPDATE.
SingleUsePerProcess ==
  \A ap \in recorded, q \in Payments :
    Cardinality({p \in PaidOf(ap) : p.process = q.process})
      <= Cardinality(ApprovalsLike(ap))

\* The trigger's row lock never blocks a payment for ever: each transaction that
\* began commits or aborts.
EveryPaymentEnds == \A p \in Payments : p \in Active ~> p \notin Active
=============================================================================
