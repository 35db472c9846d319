----------------------------- MODULE SyncWorker -----------------------------
(***************************************************************************)
(* The worker that copies SpiceDB's permissions into resource_access,      *)
(* sync/sync.py, with the tools that change SpiceDB under it               *)
(* (sync/relctl.py, sync/bootstrap.py).                                    *)
(*                                                                         *)
(* The worker is one thread.  A reconcile reads the caveat bounds, then    *)
(* for each permission looks up the subjects of one account after the      *)
(* other, each call at the revision it meets, and replaces the rows of the *)
(* permission in one commit.  A Watch stream reports the changes made      *)
(* while it is open, and only those: it is opened with no cursor.          *)
(*                                                                         *)
(* SpiceDB keeps everything in memory: a restart leaves it without schema, *)
(* and calls fail until bootstrap.py has written one again.                *)
(*                                                                         *)
(* SpiceDB holds a bound as it was given, in thousandths; the row holds it *)
(* in the cents of its numeric(12,2) column (see Amounts).                 *)
(***************************************************************************)
EXTENDS AccessModel, Amounts, FiniteSets

CONSTANTS
  Accounts,       \* rows of `accounts'
  Users,
  Relationships,  \* those that may be in SpiceDB
  Fixtures,       \* those bootstrap.py writes
  ATTEMPTS,       \* tries of the initial reconcile
  Sums,           \* payments to compare decisions on, in thousandths
  MaxWrites,      \* bound on changes of SpiceDB
  MaxErrors       \* bound on failed calls

ASSUME RelationshipsAssumption ==
  \A r, q \in Relationships :
    /\ IF r.relation = "limited_payer" THEN r.max_amount \in Nat
                                       ELSE r.max_amount = NULL
    /\ r.resource = q.resource /\ r.relation = q.relation /\ r.subject = q.subject
         => r = q
ASSUME FixturesAssumption == Fixtures \subseteq Relationships
ASSUME SumsAssumption == Sums \subseteq Nat
ASSUME BoundsAssumption ==
  ATTEMPTS \in Nat \ {0} /\ MaxWrites \in Nat /\ MaxErrors \in Nat

VARIABLES
  rels,      \* SpiceDB's relationships
  schema,    \* "loaded" or "absent"
  mode,      \* "initial" reconcile, "opening" a Watch, "watching", its stream
             \* "broken" unnoticed, "dead"
  unread,    \* changes on the open stream the worker has not taken
  step,      \* where in reconcile: "idle", "limits", "lookup"
  limits,    \* the bounds read by payment_limits
  index,     \* the permission being reconciled, an index of Permissions
  todo,      \* the accounts not looked up yet for it
  desired,   \* the rows collected for it
  access,    \* committed rows of resource_access
  attempts,  \* failed tries of the initial reconcile
  missed,    \* history: "change" when no later event or reconcile will bring
             \* it in, "nothing" otherwise
  granted,   \* history: every <<permission, account, user>> ever held outright
             \* or conditionally
  writes, errors

reconcileVars == <<limits, index, todo, desired>>
vars == <<rels, schema, mode, unread, step, limits, index, todo, desired, access,
          attempts, missed, granted, writes, errors>>

Row(user, account, permission, max) ==
  [subject_id |-> user, resource_id |-> account, permission |-> permission,
   max_amount |-> max]

\* Mutant of LimitFor: the caveat's bound is not projected.
NoLimit(bounds, account, user) == NULL

BoundOrNull(found) == IF found = {} THEN NULL ELSE Cents(CHOOSE max \in found : TRUE)

\* limits.get((account, user)) as the column max_amount holds it: NULL when there is
\* no bound, and rounded to cents.
LimitFor(bounds, account, user) == BoundOrNull(Bounds(bounds, account, user))

\* Mutant of AccountRows: whoever has a bound gets a row, of any permission.
RowsFromBounds(r, bounds, permission, account) ==
  {Row(u, account, permission, NULL) :
     u \in {v \in Users : HasPermission(r, permission, account, v)}}
  \cup {Row(u, account, permission, LimitFor(bounds, account, u)) :
          u \in {v \in Users : Bounds(bounds, account, v) # {}}}

\* The rows for one account, from its lookup among the relationships r and from
\* bounds that may have been read at another time.
AccountRows(r, bounds, permission, account) ==
  {Row(u, account, permission, NULL) :
     u \in {v \in Users : HasPermission(r, permission, account, v)}}
  \cup {Row(u, account, permission, LimitFor(bounds, account, u)) :
          u \in {v \in Users : ConditionalPermission(r, permission, account, v)}}

PermissionAt(i) == Permissions[i]

RowsOf(r, permission, accounts) ==
  UNION {AccountRows(r, r, permission, a) : a \in accounts}

\* What resource_access should hold: everything read at one revision.
Projection(r) == UNION {RowsOf(r, PermissionAt(i), Accounts) : i \in 1..3}

\* Who holds what, for the history.
Holders(r) ==
  {x \in {"view", "manage", "pay"} \X Accounts \X Users :
     \/ HasPermission(r, x[1], x[2], x[3])
     \/ ConditionalPermission(r, x[1], x[2], x[3])}

Init == /\ rels = Fixtures
        /\ schema = "loaded"
        /\ mode = "initial"
        /\ unread = 0
        /\ step = "limits"
        /\ limits = {}
        /\ index = 1
        /\ todo = {}
        /\ desired = {}
        /\ access = {}
        /\ attempts = 0
        /\ missed = "nothing"
        /\ granted = Holders(Fixtures)
        /\ writes = 0
        /\ errors = 0

-----------------------------------------------------------------------------
(* Changes of SpiceDB                                                      *)

\* The stream that is open, if one is, reports the change.
Write(new) ==
  /\ schema = "loaded"
  /\ writes < MaxWrites
  /\ new # rels
  /\ writes' = writes + 1
  /\ rels' = new
  /\ granted' = granted \cup Holders(new)
  /\ IF mode = "watching" THEN unread' = unread + 1 /\ UNCHANGED missed
                          ELSE missed' = "change" /\ UNCHANGED unread
  /\ UNCHANGED <<schema, mode, step, reconcileVars, access, attempts, errors>>

\* relctl.py cannot attach a caveat, so it cannot create a limited payer.
RelctlTouch(r) == r.relation # "limited_payer" /\ Write(rels \cup {r})
RelctlDelete(r) == Write(rels \ {r})

\* bootstrap.py, on each `compose up': the schema, which no stream reports, then
\* every fixture touched in one request.
WriteSchema ==
  /\ schema = "absent"
  /\ schema' = "loaded"
  /\ UNCHANGED <<rels, mode, unread, step, reconcileVars, access, attempts, missed,
                 granted, writes, errors>>

Bootstrap == Write(rels \cup Fixtures)

-----------------------------------------------------------------------------
(* reconcile                                                               *)

\* payment_limits
ReadLimits ==
  /\ mode # "dead"
  /\ schema = "loaded"
  /\ step = "limits"
  /\ step' = "lookup"
  /\ limits' = {r \in rels : r.relation = "limited_payer"}
  /\ index' = 1
  /\ todo' = Accounts
  /\ desired' = {}
  /\ UNCHANGED <<rels, schema, mode, unread, access, attempts, missed, granted, writes, errors>>

\* One LookupSubjects, and the rows it yields.
LookupSubjects(account) ==
  /\ mode # "dead"
  /\ schema = "loaded"
  /\ step = "lookup"
  /\ account \in todo
  /\ todo' = todo \ {account}
  /\ desired' = desired \cup AccountRows(rels, limits, PermissionAt(index), account)
  /\ UNCHANGED <<rels, schema, mode, unread, step, limits, index, access, attempts,
                 missed, granted, writes, errors>>

\* Mutant of Replaced: the DELETE is forgotten, revoked rows stay.
OnlyInserted(permission, rows) == access \cup rows

\* DELETE and INSERTs of one permission.
Replaced(permission, rows) ==
  {row \in access : row.permission # permission} \cup rows

\* One permission's rows are replaced in one commit; after the last, the worker
\* opens its Watch or goes back to it.
Replace ==
  /\ mode # "dead"
  /\ step = "lookup"
  /\ todo = {}
  /\ access' = Replaced(PermissionAt(index), desired)
  /\ \/ /\ index < 3
        /\ index' = index + 1
        /\ todo' = Accounts
        /\ desired' = {}
        /\ UNCHANGED <<mode, step, limits>>
     \/ /\ index = 3
        /\ step' = "idle"
        /\ mode' = IF mode = "initial" THEN "opening" ELSE mode
        /\ UNCHANGED reconcileVars
  /\ UNCHANGED <<rels, schema, unread, attempts, missed, granted, writes, errors>>

-----------------------------------------------------------------------------
(* The Watch stream                                                        *)

OpenWatch ==
  /\ mode = "opening"
  /\ mode' = "watching"
  /\ unread' = 0
  /\ UNCHANGED <<rels, schema, step, reconcileVars, access, attempts, missed, granted,
                 writes, errors>>

\* Mutant of TakeEvent: the event is read and no reconcile follows.
DropEvent ==
  /\ mode = "watching"
  /\ step = "idle"
  /\ unread > 0
  /\ unread' = unread - 1
  /\ UNCHANGED <<rels, schema, mode, step, reconcileVars, access, attempts, missed, granted,
                 writes, errors>>

\* Any event starts a full reconcile, which brings in whatever was missed.
TakeEvent ==
  /\ mode = "watching"
  /\ step = "idle"
  /\ unread > 0
  /\ unread' = unread - 1
  /\ step' = "limits"
  /\ missed' = "nothing"
  /\ UNCHANGED <<rels, schema, mode, reconcileVars, access, attempts, granted, writes, errors>>

-----------------------------------------------------------------------------
(* Failures                                                                *)

Failing == errors < MaxErrors /\ errors' = errors + 1

\* Mutant of Retry: the retry loop has no end.
RetryWithoutEnd ==
  /\ mode = "initial"
  /\ attempts' = attempts + 1
  /\ step' = "limits"
  /\ missed' = "nothing"
  /\ UNCHANGED <<rels, schema, mode, unread, reconcileVars, access, granted, writes>>

\* reconcile_with_retry starts over, or gives up after ATTEMPTS.
Retry ==
  /\ mode = "initial"
  /\ attempts' = attempts + 1
  /\ \/ /\ attempts + 1 < ATTEMPTS
        /\ step' = "limits"
        /\ missed' = "nothing"
        /\ UNCHANGED mode
     \/ /\ attempts + 1 >= ATTEMPTS
        /\ mode' = "dead"
        /\ step' = "idle"
        /\ UNCHANGED missed
  /\ UNCHANGED <<rels, schema, unread, reconcileVars, access, granted, writes>>

InitialReconcileFails == Failing /\ Retry

\* The worker's next call is one of SpiceDB's.
Calling == step = "limits" \/ (step = "lookup" /\ todo # {})

\* Without its schema SpiceDB fails the calls of the initial reconcile.
NoSchema ==
  /\ schema = "absent"
  /\ Calling
  /\ Retry
  /\ UNCHANGED errors

\* Everything is lost; a stream that was open is broken, and the reconcile under
\* way finds out at its next call.
SpiceDBRestarts ==
  /\ Failing
  /\ rels' = {}
  /\ schema' = "absent"
  /\ mode' = IF mode = "watching" THEN "broken" ELSE mode
  /\ unread' = 0
  /\ missed' = "change"
  /\ UNCHANGED <<step, reconcileVars, access, attempts, granted, writes>>

StreamEnds ==
  /\ mode = "broken"
  /\ step = "idle" \/ Calling
  /\ mode' = "opening"
  /\ step' = "idle"
  /\ UNCHANGED <<rels, schema, unread, reconcileVars, access, attempts, missed, granted,
                 writes, errors>>

\* A gRPC error ends the for loop over the stream, whether the stream broke or
\* a call of reconcile did: the event being handled and the unread ones are lost.
WatchFails ==
  /\ Failing
  /\ mode = "watching"
  /\ mode' = "opening"
  /\ step' = "idle"
  /\ missed' = IF unread > 0 \/ step # "idle" THEN "change" ELSE missed
  /\ unread' = 0
  /\ UNCHANGED <<rels, schema, reconcileVars, access, attempts, granted, writes>>

\* A Postgres error in reconcile is not caught: the process ends.  Compose does
\* not restart it, somebody does.
PostgresFails ==
  /\ Failing
  /\ mode # "dead"
  /\ step # "idle"
  /\ mode' = "dead"
  /\ step' = "idle"
  /\ unread' = 0
  /\ missed' = "change"
  /\ UNCHANGED <<rels, schema, reconcileVars, access, attempts, granted, writes>>

RestartWorker ==
  /\ mode = "dead"
  /\ mode' = "initial"
  /\ step' = "limits"
  /\ attempts' = 0
  /\ missed' = "nothing"
  /\ UNCHANGED <<rels, schema, unread, reconcileVars, access, granted, writes, errors>>

Worker == \/ ReadLimits
          \/ \E a \in Accounts : LookupSubjects(a)
          \/ Replace
          \/ OpenWatch
          \/ TakeEvent
          \/ NoSchema
          \/ StreamEnds

Next == \/ \E r \in Relationships : RelctlTouch(r) \/ RelctlDelete(r)
        \/ WriteSchema
        \/ Bootstrap
        \/ Worker
        \/ InitialReconcileFails
        \/ WatchFails
        \/ PostgresFails
        \/ SpiceDBRestarts
        \/ RestartWorker

Spec == Init /\ [][Next]_vars

\* The worker's own steps happen: its calls return or fail, and its sleeps end.
FairSpec == Spec /\ WF_vars(Worker)

-----------------------------------------------------------------------------
(* What must be true                                                       *)

\* Every variable holds values its Python or database counterpart can hold.
TypeOK ==
  /\ rels \subseteq Relationships
  /\ schema \in {"loaded", "absent"}
  /\ mode \in {"initial", "opening", "watching", "broken", "dead"}
  /\ unread \in 0..writes   \* the stream invents no change
  /\ step \in {"idle", "limits", "lookup"}
  /\ limits \subseteq Relationships
  /\ index \in 1..3
  /\ todo \subseteq Accounts
  /\ \A row \in access \cup desired :
       /\ row.subject_id \in Users
       /\ row.resource_id \in Accounts
       /\ row.permission \in {"view", "manage", "pay"}
  /\ attempts \in 0..(IF mode = "initial" THEN ATTEMPTS - 1 ELSE ATTEMPTS)
  /\ missed \in {"nothing", "change"}
  /\ writes \in 0..MaxWrites
  /\ errors \in 0..MaxErrors

\* With no change left to report, the projection is SpiceDB's answer exactly, on
\* every account and permission: however changes interleaved with the reads and
\* commits of earlier reconciles, the torn or stale rows they left are gone.
Settled == mode = "watching" /\ step = "idle" /\ unread = 0 /\ missed = "nothing"

SettledIsExact == Settled => access = Projection(rels)

\* What the row level security policies make of the projection: view and manage
\* are a row, pay is a row whose max_amount allows the amount, both of them in the
\* cents their columns hold (02-rls.sql).
HasRow(permission, account, user) ==
  \E row \in access : /\ row.permission = permission
                      /\ row.resource_id = account
                      /\ row.subject_id = user

RlsMayPay(account, user, amount) ==
  \E row \in access : /\ row.permission = "pay"
                      /\ row.resource_id = account
                      /\ row.subject_id = user
                      /\ row.max_amount = NULL \/ Cents(amount) <= row.max_amount

\* "the DB decision matches SpiceDB's authoritative caveat evaluation on every
\* case" (README.md:258-260): when settled, the database's answer is SpiceDB's for
\* every user and account, and for every payment in whole cents under bounds in
\* whole cents.  In between the columns round and SpiceDB does not: the policy then
\* still allows what SpiceDB allows, and overshoots by less than a cent.
InCents(n) == n % 10 = 0

PaysAlike(account, user, n) ==
  /\ Pay(rels, account, user, n) => RlsMayPay(account, user, n)
  /\ RlsMayPay(account, user, n) => Pay(rels, account, user, n - 9)
  /\ InCents(n) /\ (\A max \in Bounds(rels, account, user) : InCents(max))
       => (RlsMayPay(account, user, n) <=> Pay(rels, account, user, n))

SettledDecidesAlike ==
  Settled =>
    \A a \in Accounts, u \in Users :
      /\ HasRow("view", a, u) <=> View(rels, a, u)
      /\ HasRow("manage", a, u) <=> Manage(rels, a, u)
      /\ \A n \in Sums : PaysAlike(a, u, n)

\* No row of resource_access ever gives a user a permission on an account that
\* SpiceDB did not give them at some time.
RowsWereGranted ==
  \A row \in access : <<row.permission, row.resource_id, row.subject_id>> \in granted

\* "NULL == unconditional (owners)" (postgres/init/01-schema.sql:81): a pay row
\* without a limit belongs to somebody who was an owner at some time.
NullMeansOwner ==
  \A row \in access :
    row.permission = "pay" /\ row.max_amount = NULL
      => <<"manage", row.resource_id, row.subject_id>> \in granted

\* The lag is "bounded by the Watch event + one reconcile" (README.md:426-427):
\* once SpiceDB stops changing, the projection catches up and stays exact.
CatchesUp == <>[](access = Projection(rels))

\* It does catch up, failed calls and all, if from some time on no change is
\* missed and the process is up.
CatchesUpUnlessMissed == <>[](missed = "nothing" /\ mode # "dead") => CatchesUp
=============================================================================
