-------------------------- MODULE SyncWorkerProofs --------------------------
(***************************************************************************)
(* What SyncWorker guarantees for any accounts, users, relationships and   *)
(* bounds: the settled projection is exact, and decides as SpiceDB does up *)
(* to the rounding of its columns.                                         *)
(***************************************************************************)
EXTENDS SyncWorker, AmountsProofs

Names == {"view", "manage", "pay"}

\* PERMISSIONS names three permissions, each once.
LEMMA ThreePermissions ==
  /\ PermissionAt(1) = "view" /\ PermissionAt(2) = "manage" /\ PermissionAt(3) = "pay"
  /\ \A i \in 1..3 : PermissionAt(i) \in Names
  /\ \A i, j \in 1..3 : PermissionAt(i) = PermissionAt(j) => i = j
BY SMT DEF PermissionAt, Permissions, Names

\* The rows of an account are that account's and that permission's.
LEMMA AccountRowsType ==
  ASSUME NEW r, NEW bounds, NEW permission, NEW account,
         NEW row \in AccountRows(r, bounds, permission, account)
  PROVE  /\ row.subject_id \in Users
         /\ row.resource_id = account
         /\ row.permission = permission
BY DEF AccountRows, Row

\* The worker starts well-typed.
LEMMA TypeInit == Init => TypeOK
BY FixturesAssumption, BoundsAssumption DEF Init, TypeOK

\* No step breaks TypeOK.
LEMMA TypeStep == TypeOK /\ [Next]_vars => TypeOK'
<1> SUFFICES ASSUME TypeOK, [Next]_vars PROVE TypeOK'
  OBVIOUS
<1> USE FixturesAssumption, BoundsAssumption DEF TypeOK, reconcileVars
<1>1. ASSUME NEW r \in Relationships, RelctlTouch(r) PROVE TypeOK'
  BY <1>1 DEF RelctlTouch, Write
<1>2. ASSUME NEW r \in Relationships, RelctlDelete(r) PROVE TypeOK'
  BY <1>2 DEF RelctlDelete, Write
<1>3. CASE Bootstrap
  BY <1>3 DEF Bootstrap, Write
<1>4. CASE ReadLimits
  BY <1>4 DEF ReadLimits
<1>5. ASSUME NEW a \in Accounts, LookupSubjects(a) PROVE TypeOK'
  BY <1>5, AccountRowsType, ThreePermissions DEF LookupSubjects, Names
<1>6. CASE Replace
  BY <1>6 DEF Replace, Replaced
<1>7. CASE OpenWatch
  BY <1>7 DEF OpenWatch
<1>8. CASE TakeEvent
  BY <1>8 DEF TakeEvent
<1>9. CASE InitialReconcileFails
  BY <1>9 DEF InitialReconcileFails, Retry, Failing
<1>10. CASE WatchFails
  BY <1>10 DEF WatchFails, Failing
<1>11. CASE PostgresFails
  BY <1>11 DEF PostgresFails, Failing
<1>12. CASE RestartWorker
  BY <1>12 DEF RestartWorker
<1>13. CASE WriteSchema
  BY <1>13 DEF WriteSchema
<1>14. CASE NoSchema
  BY <1>14 DEF NoSchema, Retry
<1>15. CASE SpiceDBRestarts
  BY <1>15 DEF SpiceDBRestarts, Failing
<1>16. CASE StreamEnds
  BY <1>16 DEF StreamEnds
<1>17. CASE UNCHANGED vars
  BY <1>17 DEF vars
<1> QED
  BY <1>1, <1>2, <1>3, <1>4, <1>5, <1>6, <1>7, <1>8, <1>9, <1>10, <1>11, <1>12, <1>13,
     <1>14, <1>15, <1>16, <1>17
     DEF Next, Worker

\* Every variable keeps its type.
THEOREM TypeCorrect == Spec => []TypeOK
BY TypeInit, TypeStep, PTL DEF Spec

-----------------------------------------------------------------------------
(* Exactness                                                               *)

\* Bounds read now are the bounds there are.
LEMMA LimitsSuffice ==
  ASSUME NEW r, NEW permission, NEW account
  PROVE  AccountRows(r, {q \in r : q.relation = "limited_payer"}, permission, account)
           = AccountRows(r, r, permission, account)
<1> DEFINE bounds == {q \in r : q.relation = "limited_payer"}
<1>1. \A user : Bounds(bounds, account, user) = Bounds(r, account, user)
  BY DEF Bounds
<1> HIDE DEF bounds
<1>2. \A user : LimitFor(bounds, account, user) = LimitFor(r, account, user)
  BY <1>1 DEF LimitFor
<1>3. AccountRows(r, bounds, permission, account) = AccountRows(r, r, permission, account)
  BY <1>2 DEF AccountRows
<1> QED
  BY <1>3 DEF bounds

\* One lookup more adds the rows of its account.
LEMMA RowsOfMore ==
  ASSUME NEW r, NEW permission, NEW todo_, NEW account \in todo_, todo_ \subseteq Accounts
  PROVE  RowsOf(r, permission, Accounts \ (todo_ \ {account}))
           = RowsOf(r, permission, Accounts \ todo_) \cup AccountRows(r, r, permission, account)
BY DEF RowsOf

\* The rows of a permission name it.
LEMMA RowsOfPermission ==
  ASSUME NEW r, NEW permission, NEW accounts, NEW row \in RowsOf(r, permission, accounts)
  PROVE  row.permission = permission
BY AccountRowsType DEF RowsOf

RowsFor(permission) == {row \in access : row.permission = permission}

\* The rows of permission i are those SpiceDB's answer gives.
Exact(i) == RowsFor(PermissionAt(i)) = RowsOf(rels, PermissionAt(i), Accounts)

AllExact == \A i \in 1..3 : Exact(i)

\* A projection exact in each permission is exact.
LEMMA ExactPermissions == TypeOK /\ AllExact => access = Projection(rels)
<1> SUFFICES ASSUME TypeOK, AllExact PROVE access = Projection(rels)
  OBVIOUS
<1>1. \A row \in access : \E i \in 1..3 : row.permission = PermissionAt(i)
  BY ThreePermissions DEF TypeOK, Names
<1>2. access = UNION {RowsFor(PermissionAt(i)) : i \in 1..3}
  BY <1>1 DEF RowsFor
<1> QED
  BY <1>2 DEF AllExact, Exact, Projection

\* And the other way round.
LEMMA ProjectionExact ==
  ASSUME access = Projection(rels), NEW i \in 1..3
  PROVE  Exact(i)
BY RowsOfPermission, ThreePermissions DEF Exact, Projection, RowsFor

\* Nothing changed since the reconcile under way, or the last one, began.
Current == missed = "nothing" /\ unread = 0

\* What a reconcile that nothing overtook has read and committed so far.
Reconciling ==
  /\ limits = {q \in rels : q.relation = "limited_payer"}
  /\ desired = RowsOf(rels, PermissionAt(index), Accounts \ todo)
  /\ \A i \in 1..3 : i < index => Exact(i)

ExactInv ==
  /\ mode # "watching" => unread = 0
  /\ mode = "opening" => step = "idle"
  /\ mode = "broken" => missed = "change"
  /\ Current /\ mode # "dead" /\ step = "idle" => access = Projection(rels)
  /\ Current /\ mode # "dead" /\ step = "lookup" => Reconciling

\* A change leaves the reconcile under way behind.
LEMMA WriteExact ==
  ASSUME TypeOK, ExactInv, NEW new, Write(new)
  PROVE  ExactInv'
<1>1. ~Current'
  BY DEF Write, Current, TypeOK
<1>2. /\ (mode # "watching" => unread = 0)' /\ (mode = "opening" => step = "idle")'
      /\ (mode = "broken" => missed = "change")'
  BY DEF Write, ExactInv
<1> QED
  BY <1>1, <1>2 DEF ExactInv

\* The commit of a permission that no change has overtaken makes it exact, and keeps
\* those before it exact; after the last the whole projection is.
LEMMA ReplaceExact ==
  ASSUME TypeOK, ExactInv, Replace, TypeOK'
  PROVE  ExactInv'
<1> USE DEF reconcileVars
<1>1. mode # "dead" /\ step = "lookup" /\ todo = {} /\ UNCHANGED <<rels, unread, missed>>
  BY DEF Replace
<1>2. /\ (mode # "watching" => unread = 0)' /\ (mode = "opening" => step = "idle")'
      /\ (mode = "broken" => missed = "change")'
  BY <1>1 DEF Replace, ExactInv
<1>3. ASSUME Current'
      PROVE  \A i \in 1..3 : i <= index => Exact(i)'
  <2>1. Reconciling
    BY <1>1, <1>3 DEF ExactInv, Current
  <2>2. access' = {row \in access : row.permission # PermissionAt(index)}
                    \cup RowsOf(rels, PermissionAt(index), Accounts)
    BY <1>1, <2>1 DEF Replace, Replaced, Reconciling
  <2>3. index \in 1..3
    BY DEF TypeOK
  <2>5. {row \in access' : row.permission = PermissionAt(index)}
          = RowsOf(rels, PermissionAt(index), Accounts)
    BY <2>2, RowsOfPermission
  <2>6. ASSUME NEW i \in 1..3, i < index
        PROVE  {row \in access' : row.permission = PermissionAt(i)} = RowsFor(PermissionAt(i))
    <3>1. PermissionAt(i) # PermissionAt(index)
      BY <2>3, <2>6, ThreePermissions
    <3> QED
      BY <2>2, <3>1, RowsOfPermission DEF RowsFor
  <2>7. ASSUME NEW i \in 1..3, i <= index
        PROVE  {row \in access' : row.permission = PermissionAt(i)}
                 = RowsOf(rels, PermissionAt(i), Accounts)
    BY <2>1, <2>3, <2>5, <2>6, <2>7 DEF Reconciling, Exact
  <2> QED
    BY <1>1, <2>7 DEF Exact, RowsFor
<1>4. CASE index < 3
  <2>1. index' = index + 1 /\ todo' = Accounts /\ desired' = {} /\ step' = "lookup"
    BY <1>1, <1>4 DEF Replace
  <2>2. ASSUME Current' PROVE Reconciling'
    <3>1. limits' = {q \in rels' : q.relation = "limited_payer"}
      BY <1>1, <1>4, <2>2 DEF Replace, Reconciling, ExactInv, Current
    <3>2. desired' = RowsOf(rels', PermissionAt(index'), Accounts \ todo')
      BY <2>1 DEF RowsOf
    <3>3. \A i \in 1..3 : i < index' => Exact(i)'
      BY <1>3, <2>1, <2>2 DEF TypeOK
    <3> QED
      BY <3>1, <3>2, <3>3 DEF Reconciling
  <2> QED
    BY <1>2, <2>1, <2>2 DEF ExactInv
<1>5. CASE index = 3
  <2>1. step' = "idle"
    BY <1>5 DEF Replace
  <2>2. ASSUME Current' PROVE (access = Projection(rels))'
    <3>1. AllExact'
      BY <1>3, <1>5, <2>2 DEF AllExact
    <3> QED
      BY <3>1, ExactPermissions, PTL
  <2> QED
    BY <1>2, <2>1, <2>2 DEF ExactInv
<1> QED
  BY <1>4, <1>5 DEF TypeOK

\* No step breaks ExactInv.
LEMMA ExactStep == TypeOK /\ TypeOK' /\ ExactInv /\ [Next]_vars => ExactInv'
<1> SUFFICES ASSUME TypeOK, TypeOK', ExactInv, [Next]_vars PROVE ExactInv'
  OBVIOUS
<1> USE DEF reconcileVars
<1>1. ASSUME NEW r \in Relationships, RelctlTouch(r) \/ RelctlDelete(r) PROVE ExactInv'
  BY <1>1, WriteExact DEF RelctlTouch, RelctlDelete
<1>2. CASE Bootstrap
  BY <1>2, WriteExact DEF Bootstrap
<1>3. CASE ReadLimits
  <2>1. (desired = RowsOf(rels, PermissionAt(index), Accounts \ todo))'
    BY <1>3 DEF ReadLimits, RowsOf
  <2>2. (limits = {q \in rels : q.relation = "limited_payer"})'
    BY <1>3 DEF ReadLimits
  <2>3. index' = 1
    BY <1>3 DEF ReadLimits
  <2>4. (\A i \in 1..3 : i < index => Exact(i))'
    BY <2>3
  <2>5. Reconciling'
    BY <2>1, <2>2, <2>4 DEF Reconciling
  <2> QED
    BY <1>3, <2>5 DEF ReadLimits, ExactInv
<1>4. ASSUME NEW a \in Accounts, LookupSubjects(a) PROVE ExactInv'
  <2>1. ASSUME Current' PROVE Reconciling'
    <3>1. Reconciling
      BY <1>4, <2>1 DEF LookupSubjects, ExactInv, Current
    <3>2. desired' = desired \cup AccountRows(rels, rels, PermissionAt(index), a)
      BY <1>4, <3>1, LimitsSuffice DEF LookupSubjects, Reconciling
    <3>3. desired' = RowsOf(rels, PermissionAt(index), Accounts \ todo')
      BY <1>4, <3>1, <3>2, RowsOfMore DEF LookupSubjects, Reconciling, TypeOK
    <3> QED
      BY <1>4, <3>1, <3>3 DEF LookupSubjects, Reconciling, Exact, RowsFor
  <2> QED
    BY <1>4, <2>1 DEF LookupSubjects, ExactInv
<1>5. CASE Replace
  BY <1>5, ReplaceExact
<1>6. CASE OpenWatch
  BY <1>6 DEF OpenWatch, ExactInv, Current
<1>7. CASE TakeEvent
  BY <1>7 DEF TakeEvent, ExactInv
<1>8. CASE InitialReconcileFails
  BY <1>8 DEF InitialReconcileFails, Retry, ExactInv
<1>9. CASE WatchFails
  BY <1>9 DEF WatchFails, ExactInv, Current, TypeOK
<1>10. CASE PostgresFails
  BY <1>10 DEF PostgresFails, ExactInv
<1>11. CASE RestartWorker
  BY <1>11 DEF RestartWorker, ExactInv
<1>12. CASE WriteSchema
  BY <1>12 DEF WriteSchema, ExactInv, Current, Reconciling, Exact, RowsFor
<1>13. CASE NoSchema
  BY <1>13 DEF NoSchema, Retry, ExactInv
<1>14. CASE SpiceDBRestarts
  BY <1>14 DEF SpiceDBRestarts, ExactInv, Current
<1>15. CASE StreamEnds
  BY <1>15 DEF StreamEnds, ExactInv, Current
<1>16. CASE UNCHANGED vars
  BY <1>16 DEF vars, ExactInv, Current, Reconciling, Exact, RowsFor
<1> QED
  BY <1>1, <1>2, <1>3, <1>4, <1>5, <1>6, <1>7, <1>8, <1>9, <1>10, <1>11, <1>12, <1>13,
     <1>14, <1>15, <1>16
     DEF Next, Worker

\* Hence it holds always.
LEMMA ExactInvariant == Spec => [](TypeOK /\ ExactInv)
<1>1. Init => ExactInv
  BY DEF Init, ExactInv, Current
<1> QED
  BY <1>1, TypeCorrect, ExactStep, PTL DEF Spec

\* SettledIsExact for every instance: whatever changed while earlier reconciles
\* ran, a settled projection is SpiceDB's answer.
THEOREM Exactness == Spec => []SettledIsExact
<1>1. ExactInv => SettledIsExact
  BY DEF ExactInv, SettledIsExact, Settled, Current
<1> QED
  BY <1>1, ExactInvariant, PTL

-----------------------------------------------------------------------------
(* Decisions                                                               *)

\* A relationship carries at most one bound.
LEMMA OneBound ==
  ASSUME TypeOK, NEW a, NEW u, NEW max \in Bounds(rels, a, u)
  PROVE  Bounds(rels, a, u) = {max} /\ max \in Nat
BY RelationshipsAssumption DEF TypeOK, Bounds

\* Its row holds that bound, in cents, and so never looks unlimited.
LEMMA LimitOfBound ==
  ASSUME TypeOK, NEW a, NEW u, NEW max \in Bounds(rels, a, u)
  PROVE  LimitFor(rels, a, u) = Cents(max) /\ Cents(max) \in Nat /\ Cents(max) # NULL
<1>1. Bounds(rels, a, u) = {max} /\ max \in Nat
  BY OneBound
<1>2. Cents(max) \in Nat
  BY <1>1, ColumnOrder
<1> QED
  BY <1>1, <1>2 DEF LimitFor, BoundOrNull, NULL

\* The settled rows of one permission, user and account.
LEMMA ProjectedRow ==
  ASSUME access = Projection(rels), NEW i \in 1..3, NEW a \in Accounts, NEW u \in Users,
         NEW row
  PROVE  (/\ row \in access /\ row.permission = PermissionAt(i)
          /\ row.resource_id = a /\ row.subject_id = u)
         <=> \/ /\ HasPermission(rels, PermissionAt(i), a, u)
                /\ row = Row(u, a, PermissionAt(i), NULL)
             \/ /\ ConditionalPermission(rels, PermissionAt(i), a, u)
                /\ row = Row(u, a, PermissionAt(i), LimitFor(rels, a, u))
<1>1. RowsFor(PermissionAt(i)) = RowsOf(rels, PermissionAt(i), Accounts)
  BY ProjectionExact DEF Exact
<1>2. row \in RowsOf(rels, PermissionAt(i), Accounts)
        <=> \E b \in Accounts : row \in AccountRows(rels, rels, PermissionAt(i), b)
  BY DEF RowsOf
<1>3. (/\ row \in access /\ row.permission = PermissionAt(i)
       /\ row.resource_id = a /\ row.subject_id = u)
        <=> row \in AccountRows(rels, rels, PermissionAt(i), a) /\ row.subject_id = u
  BY <1>1, <1>2, AccountRowsType DEF RowsFor
<1> QED
  BY <1>3 DEF AccountRows, Row

\* Policies that read SpiceDB's answer answer as SpiceDB does, up to the rounding.
LEMMA ExactDecides ==
  TypeOK /\ access = Projection(rels) =>
    \A a \in Accounts, u \in Users :
      /\ HasRow("view", a, u) <=> View(rels, a, u)
      /\ HasRow("manage", a, u) <=> Manage(rels, a, u)
      /\ \A n \in Sums : PaysAlike(a, u, n)
<1> SUFFICES ASSUME TypeOK, access = Projection(rels), NEW a \in Accounts, NEW u \in Users
             PROVE  /\ HasRow("view", a, u) <=> View(rels, a, u)
                    /\ HasRow("manage", a, u) <=> Manage(rels, a, u)
                    /\ \A n \in Sums : PaysAlike(a, u, n)
  OBVIOUS
<1>1. HasRow("view", a, u) <=> View(rels, a, u)
  BY ProjectedRow, ThreePermissions DEF HasRow, HasPermission, ConditionalPermission
<1>2. HasRow("manage", a, u) <=> Manage(rels, a, u)
  BY ProjectedRow, ThreePermissions DEF HasRow, HasPermission, ConditionalPermission
<1>3. ASSUME NEW n \in Sums PROVE PaysAlike(a, u, n)
  <2> DEFINE owner == Related(rels, a, "owner", u)
             bounds == Bounds(rels, a, u)
  <2>1. RlsMayPay(a, u, n)
          <=> \/ owner
              \/ /\ ~owner /\ bounds # {}
                 /\ LimitFor(rels, a, u) = NULL \/ Cents(n) <= LimitFor(rels, a, u)
    <3> DEFINE unlimited == Row(u, a, "pay", NULL)
               limited == Row(u, a, "pay", LimitFor(rels, a, u))
    <3>1. ASSUME NEW row
          PROVE  (/\ row \in access /\ row.permission = "pay"
                  /\ row.resource_id = a /\ row.subject_id = u)
                 <=> \/ owner /\ row = unlimited
                     \/ ~owner /\ bounds # {} /\ row = limited
      BY ProjectedRow, ThreePermissions DEF HasPermission, ConditionalPermission
    <3>2. unlimited.max_amount = NULL /\ limited.max_amount = LimitFor(rels, a, u)
      BY DEF Row
    <3> HIDE DEF unlimited, limited, owner, bounds
    <3> QED
      BY <3>1, <3>2 DEF RlsMayPay
  <2>2. \A m : Pay(rels, a, u, m) <=> owner \/ \E max \in bounds : m <= max
    BY DEF Pay, WithinLimit
  <2>3. CASE owner \/ bounds = {}
    BY <2>1, <2>2, <2>3 DEF PaysAlike
  <2>4. ASSUME ~owner, NEW max \in bounds PROVE PaysAlike(a, u, n)
    <3>1. bounds = {max} /\ max \in Nat /\ n \in Nat
      BY OneBound, SumsAssumption
    <3>2. RlsMayPay(a, u, n) <=> Cents(n) <= Cents(max)
      BY <2>1, <2>4, <3>1, LimitOfBound
    <3>3. \A m : Pay(rels, a, u, m) <=> m <= max
      BY <2>2, <2>4, <3>1
    <3> QED
      BY <3>1, <3>2, <3>3, ColumnOrder DEF PaysAlike, InCents
  <2> QED
    BY <2>3, <2>4
<1> QED
  BY <1>1, <1>2, <1>3

\* SettledDecidesAlike for every instance: the policies answer as SpiceDB does for
\* every user and account, on payments in whole cents exactly, on others up to the
\* rounding of the columns (01-schema.sql:55,83, 02-rls.sql:111).
THEOREM DecidesAlike == Spec => []SettledDecidesAlike
<1>1. TypeOK /\ SettledIsExact => SettledDecidesAlike
  BY ExactDecides DEF SettledIsExact, SettledDecidesAlike
<1> QED
  BY <1>1, TypeCorrect, Exactness, PTL

-----------------------------------------------------------------------------
(* No inventions                                                           *)

\* Rows, committed or collected, come from lookups that found the permission.
GrantedInv ==
  /\ Holders(rels) \subseteq granted
  /\ \A row \in access \cup desired :
       <<row.permission, row.resource_id, row.subject_id>> \in granted

\* What a lookup finds is granted, whatever bounds it goes with.
LEMMA LookupGranted ==
  ASSUME TypeOK, GrantedInv, NEW a \in Accounts, NEW bounds,
         NEW row \in AccountRows(rels, bounds, PermissionAt(index), a)
  PROVE  <<row.permission, row.resource_id, row.subject_id>> \in granted
<1>1. PermissionAt(index) \in Names
  BY ThreePermissions DEF TypeOK
<1>2. /\ row.permission = PermissionAt(index) /\ row.resource_id = a /\ row.subject_id \in Users
      /\ \/ HasPermission(rels, PermissionAt(index), a, row.subject_id)
         \/ ConditionalPermission(rels, PermissionAt(index), a, row.subject_id)
  BY DEF AccountRows, Row
<1>3. <<PermissionAt(index), a, row.subject_id>> \in Holders(rels)
  BY <1>1, <1>2 DEF Holders, Names
<1> QED
  BY <1>2, <1>3 DEF GrantedInv

\* No step breaks GrantedInv: rows come from lookups, and grants are not forgotten.
LEMMA GrantedStep == TypeOK /\ GrantedInv /\ [Next]_vars => GrantedInv'
<1> SUFFICES ASSUME TypeOK, GrantedInv, [Next]_vars PROVE GrantedInv'
  OBVIOUS
<1> USE DEF GrantedInv, reconcileVars
<1>1. ASSUME NEW new, Write(new) PROVE GrantedInv'
  BY <1>1 DEF Write
<1>2. CASE ReadLimits
  BY <1>2 DEF ReadLimits, Holders
<1>3. ASSUME NEW a \in Accounts, LookupSubjects(a) PROVE GrantedInv'
  BY <1>3, LookupGranted DEF LookupSubjects
<1>4. CASE Replace
  BY <1>4 DEF Replace, Replaced
<1>5. CASE OpenWatch \/ TakeEvent \/ RestartWorker
  BY <1>5 DEF OpenWatch, TakeEvent, RestartWorker
<1>6. CASE InitialReconcileFails \/ NoSchema \/ WatchFails \/ PostgresFails
  BY <1>6 DEF InitialReconcileFails, NoSchema, Retry, WatchFails, PostgresFails
<1>7. CASE SpiceDBRestarts
  <2>1. Holders({}) = {}
    BY SMT DEF Holders, HasPermission, ConditionalPermission, View, Manage, Related, Audit,
               Bounds
  <2> QED
    BY <1>7, <2>1 DEF SpiceDBRestarts
<1>8. CASE WriteSchema \/ StreamEnds
  BY <1>8 DEF WriteSchema, StreamEnds
<1>9. CASE UNCHANGED vars
  BY <1>9 DEF vars
<1> QED
  BY <1>1, <1>2, <1>3, <1>4, <1>5, <1>6, <1>7, <1>8, <1>9
     DEF Next, Worker, RelctlTouch, RelctlDelete, Bootstrap

\* RowsWereGranted for every instance: no interleaving of reads and changes
\* gives a user a permission that SpiceDB never gave them.
THEOREM NothingInvented == Spec => []RowsWereGranted
<1>1. Init => GrantedInv
  BY DEF Init, GrantedInv
<1>2. Spec => []GrantedInv
  BY <1>1, TypeCorrect, GrantedStep, PTL DEF Spec
<1>3. GrantedInv => RowsWereGranted
  BY DEF GrantedInv, RowsWereGranted
<1> QED
  BY <1>2, <1>3, PTL

-----------------------------------------------------------------------------
(* Rows without a limit                                                    *)

\* A pay row without a limit belongs to somebody who is an owner now.
NullIsOwner ==
  \A row \in access :
    row.permission = "pay" /\ row.max_amount = NULL
      => Manage(rels, row.resource_id, row.subject_id)

\* "NULL == unconditional (owners)" (01-schema.sql:81) can be broken by a reconcile
\* that a grant overtakes (sync_null_limit), but not by a settled projection: the next
\* reconcile that nothing overtakes repairs it, for every instance.
THEOREM SettledNullIsOwner == Spec => [](Settled => NullIsOwner)
<1>1. TypeOK /\ SettledIsExact => (Settled => NullIsOwner)
  <2> SUFFICES ASSUME TypeOK, access = Projection(rels), NEW row \in access,
                      row.permission = "pay", row.max_amount = NULL
               PROVE  Manage(rels, row.resource_id, row.subject_id)
    BY DEF SettledIsExact, NullIsOwner
  <2> DEFINE a == row.resource_id
             u == row.subject_id
  <2>1. a \in Accounts /\ u \in Users /\ row.permission = PermissionAt(3)
    BY ThreePermissions DEF TypeOK
  <2>2. \/ HasPermission(rels, "pay", a, u)
        \/ /\ ConditionalPermission(rels, "pay", a, u)
           /\ row = Row(u, a, "pay", LimitFor(rels, a, u))
    BY <2>1, ThreePermissions, ProjectedRow
  <2>3. CASE HasPermission(rels, "pay", a, u)
    BY <2>3 DEF HasPermission, Manage
  <2>4. CASE /\ ConditionalPermission(rels, "pay", a, u)
             /\ row = Row(u, a, "pay", LimitFor(rels, a, u))
    <3>1. PICK max \in Bounds(rels, a, u) : TRUE
      BY <2>4 DEF ConditionalPermission
    <3>2. LimitFor(rels, a, u) # NULL
      BY <3>1, LimitOfBound
    <3> QED
      BY <2>4, <3>2 DEF Row
  <2> QED
    BY <2>2, <2>3, <2>4
<1> QED
  BY <1>1, TypeCorrect, Exactness, PTL
=============================================================================
