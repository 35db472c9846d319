------------------------- MODULE PaymentLedgerProofs -------------------------
(***************************************************************************)
(* What PaymentLedger guarantees for any approvals, payments, projections, *)
(* clock and agent processes.                                              *)
(***************************************************************************)
EXTENDS PaymentLedger, FiniteSetTheorems, TLAPS

\* The ledger starts well-typed.
LEMMA TypeInit == Init => TypeOK
BY ClockAssumption DEF Init, TypeOK, PaymentSteps

\* No step breaks TypeOK.
LEMMA TypeStep == TypeOK /\ [Next]_vars => TypeOK'
<1> SUFFICES ASSUME TypeOK, [Next]_vars PROVE TypeOK'
  OBVIOUS
<1> USE ClockAssumption DEF TypeOK, PaymentSteps
<1>1. ASSUME NEW ap \in Approvals, RecordApproval(ap) PROVE TypeOK'
  BY <1>1 DEF RecordApproval
<1>2. ASSUME NEW permission \in {"view", "pay"}, NEW rows \in Projections, Reconcile(permission, rows)
      PROVE TypeOK'
  BY <1>2 DEF Reconcile
<1>3. CASE Tick
  BY <1>3 DEF Tick
<1>4. ASSUME NEW p \in Payments, Begin(p) PROVE TypeOK'
  BY <1>4 DEF Begin, Step
<1>5. ASSUME NEW p \in Payments, Insert(p) PROVE TypeOK'
  BY <1>5 DEF Insert, Step
<1>6. ASSUME NEW p \in Payments, ChooseApproval(p) PROVE TypeOK'
  BY <1>6 DEF ChooseApproval, Step, Usable
<1>7. ASSUME NEW p \in Payments, TakeApproval(p) PROVE TypeOK'
  BY <1>7 DEF TakeApproval, Step
<1>8. ASSUME NEW p \in Payments, Commit(p) PROVE TypeOK'
  BY <1>8 DEF Commit, Step
<1>9. ASSUME NEW p \in Payments, Abort(p) PROVE TypeOK'
  BY <1>9 DEF Abort, Active
<1>10. CASE UNCHANGED vars
  BY <1>10 DEF vars
<1> QED
  BY <1>1, <1>2, <1>3, <1>4, <1>5, <1>6, <1>7, <1>8, <1>9, <1>10 DEF Next, Statement

\* Every table and session variable keeps its type.
THEOREM TypeCorrect == Spec => []TypeOK
BY TypeInit, TypeStep, PTL DEF Spec

-----------------------------------------------------------------------------
(* Intent binding                                                          *)

\* The WITH CHECK's answer stays true of the row from the INSERT to the commit:
\* approvals are never deleted, and neither now() nor approved_at moves.
Checked == {p \in Payments : pc[p] \in {"inserted", "consuming", "fired", "committed"}}

IntentInv ==
  \A p \in Checked : \E ap \in recorded : Matches(ap, p) /\ Unexpired(ap, p)

\* No step breaks IntentInv: approvals stay, and a transaction keeps its now().
LEMMA IntentStep == TypeOK /\ IntentInv /\ [Next]_vars => IntentInv'
<1> SUFFICES ASSUME TypeOK, IntentInv, [Next]_vars PROVE IntentInv'
  OBVIOUS
<1> USE DEF TypeOK, IntentInv, Checked, Unexpired
<1>1. ASSUME NEW ap \in Approvals, RecordApproval(ap) PROVE IntentInv'
  BY <1>1 DEF RecordApproval
<1>2. ASSUME NEW permission \in {"view", "pay"}, NEW rows \in Projections, Reconcile(permission, rows)
      PROVE IntentInv'
  BY <1>2 DEF Reconcile
<1>3. CASE Tick
  BY <1>3 DEF Tick
<1>4. ASSUME NEW p \in Payments, Begin(p) PROVE IntentInv'
  BY <1>4 DEF Begin, Step
<1>5. ASSUME NEW p \in Payments, Insert(p) PROVE IntentInv'
  BY <1>5 DEF Insert, Step, PreapprovedPolicy, Usable
<1>6. ASSUME NEW p \in Payments, ChooseApproval(p) PROVE IntentInv'
  BY <1>6 DEF ChooseApproval, Step
<1>7. ASSUME NEW p \in Payments, TakeApproval(p) PROVE IntentInv'
  BY <1>7 DEF TakeApproval, Step
<1>8. ASSUME NEW p \in Payments, Commit(p) PROVE IntentInv'
  BY <1>8 DEF Commit, Step
<1>9. ASSUME NEW p \in Payments, Abort(p) PROVE IntentInv'
  BY <1>9 DEF Abort, Active
<1>10. CASE UNCHANGED vars
  BY <1>10 DEF vars
<1> QED
  BY <1>1, <1>2, <1>3, <1>4, <1>5, <1>6, <1>7, <1>8, <1>9, <1>10 DEF Next, Statement

\* IntentBound: no schedule of agents, broker, sync worker and clock commits a
\* payment that no unexpired approval of the same subject and fields covers.
THEOREM IntentBinding == Spec => []IntentBound
<1>1. Init => IntentInv
  BY DEF Init, IntentInv, Checked
<1>2. Spec => []IntentInv
  BY <1>1, TypeCorrect, IntentStep, PTL DEF Spec
<1>3. IntentInv => IntentBound
  BY DEF IntentInv, IntentBound, Checked, Committed
<1> QED
  BY <1>2, <1>3, PTL

-----------------------------------------------------------------------------
(* Consumption                                                             *)

\* A trigger holds no approval before it chose one, the one it chose matches its
\* payment, and the consumed approvals are those of the committed payments.
ConsumeInv ==
  /\ \A p \in Payments :
       pc[p] \in {"new", "begun", "inserted"} => choice[p] = NoApproval
  /\ \A p \in Payments :
       choice[p] # NoApproval => choice[p] \in recorded /\ Matches(choice[p], p)
  /\ \A ap \in consumed :
       \E p \in Payments : pc[p] = "committed" /\ choice[p] = ap

\* No step breaks ConsumeInv: an approval is consumed by the commit of its payment.
LEMMA ConsumeStep == TypeOK /\ ConsumeInv /\ [Next]_vars => ConsumeInv'
<1> SUFFICES ASSUME TypeOK, ConsumeInv, [Next]_vars PROVE ConsumeInv'
  OBVIOUS
<1> USE NoApprovalAssumption DEF TypeOK, ConsumeInv
<1>1. ASSUME NEW ap \in Approvals, RecordApproval(ap) PROVE ConsumeInv'
  BY <1>1 DEF RecordApproval
<1>2. ASSUME NEW permission \in {"view", "pay"}, NEW rows \in Projections, Reconcile(permission, rows)
      PROVE ConsumeInv'
  BY <1>2 DEF Reconcile
<1>3. CASE Tick
  BY <1>3 DEF Tick
<1>4. ASSUME NEW p \in Payments, Begin(p) PROVE ConsumeInv'
  BY <1>4 DEF Begin, Step
<1>5. ASSUME NEW p \in Payments, Insert(p) PROVE ConsumeInv'
  BY <1>5 DEF Insert, Step
<1>6. ASSUME NEW p \in Payments, ChooseApproval(p) PROVE ConsumeInv'
  BY <1>6 DEF ChooseApproval, Step, Usable
<1>7. ASSUME NEW p \in Payments, TakeApproval(p) PROVE ConsumeInv'
  BY <1>7 DEF TakeApproval, Step
<1>8. ASSUME NEW p \in Payments, Commit(p) PROVE ConsumeInv'
  BY <1>8 DEF Commit, Step
<1>9. ASSUME NEW p \in Payments, Abort(p) PROVE ConsumeInv'
  BY <1>9 DEF Abort, Active
<1>10. CASE UNCHANGED vars
  BY <1>10 DEF vars
<1> QED
  BY <1>1, <1>2, <1>3, <1>4, <1>5, <1>6, <1>7, <1>8, <1>9, <1>10 DEF Next, Statement

\* ConsumedWasPaid for every instance.
THEOREM NoApprovalBurned == Spec => []ConsumedWasPaid
<1>1. Init => ConsumeInv
  BY DEF Init, ConsumeInv
<1>2. Spec => []ConsumeInv
  BY <1>1, TypeCorrect, ConsumeStep, PTL DEF Spec
<1>3. TypeOK /\ ConsumeInv => ConsumedWasPaid
  BY NoApprovalAssumption DEF TypeOK, ConsumeInv, ConsumedWasPaid, Committed
<1> QED
  BY <1>2, <1>3, TypeCorrect, PTL

-----------------------------------------------------------------------------
(* Single use, in each process                                             *)

\* The payments that process w committed of what ap approves, and the consumed
\* approvals of the same.
PaidBy(ap, w) == {p \in PaidOf(ap) : p.process = w}
ConsumedLike(ap) == {other \in consumed : \A c \in Columns : other[c] = ap[c]}

\* The approvals spent on an action or within reach of a payment of it: those
\* its WITH CHECK saw, then the one its trigger chose.
Reserve(ap, p) ==
  ConsumedLike(ap) \cup
    (IF pc[p] = "inserted" THEN Usable(p) ELSE {choice[p]} \ {NoApproval})

\* A process is in one transaction at a time; its payments of an action never
\* outnumber the consumed approvals of it, and while it is making another there
\* is one more in reserve, or somebody else consumed it meanwhile.
UseInv ==
  /\ \A p, q \in Active : p.process = q.process => p = q
  /\ \A ap \in Approvals, q \in Payments :
       Cardinality(PaidBy(ap, q.process)) <= Cardinality(ConsumedLike(ap))
  /\ \A ap \in Approvals, p \in Payments :
       Matches(ap, p) /\ pc[p] \in {"inserted", "consuming", "fired"} =>
         Cardinality(PaidBy(ap, p.process)) < Cardinality(Reserve(ap, p))

\* Sets of approvals are finite, so larger ones have no smaller cardinality.
LEMMA Counts ==
  ASSUME NEW S \in SUBSET Approvals, NEW T \in SUBSET Approvals, S \subseteq T
  PROVE  /\ Cardinality(S) \in Nat
         /\ Cardinality(T) \in Nat
         /\ Cardinality(S) <= Cardinality(T)
BY ApprovalsAssumption, FS_Subset, FS_CardinalityType

\* One approval more makes a larger cardinality.
LEMMA CountsMore ==
  ASSUME NEW S \in SUBSET Approvals, NEW ap \in Approvals \ S
  PROVE  Cardinality(S) < Cardinality(S \cup {ap})
<1>1. IsFiniteSet(S) /\ Cardinality(S) \in Nat
  BY ApprovalsAssumption, FS_Subset, FS_CardinalityType
<1>2. Cardinality(S \cup {ap}) = Cardinality(S) + 1
  BY <1>1, FS_AddElement
<1> QED
  BY <1>1, <1>2

\* The payments of a process are finitely many.
LEMMA PaidCount ==
  ASSUME NEW ap, NEW w
  PROVE  IsFiniteSet(PaidBy(ap, w)) /\ Cardinality(PaidBy(ap, w)) \in Nat
BY PaymentsAssumption, FS_Subset, FS_CardinalityType DEF PaidBy, PaidOf, Committed

\* A step that commits nothing leaves the payments of each process as they were.
LEMMA SamePaid ==
  ASSUME NEW ap, NEW w, Committed' = Committed
  PROVE  PaidBy(ap, w)' = PaidBy(ap, w)
BY DEF PaidBy, PaidOf, Matches

\* What a usable approval shares with any approval its payment matches.
LEMMA UsableAlike ==
  ASSUME TypeOK, NEW p \in Payments, NEW ap \in Approvals, Matches(ap, p),
         NEW u \in Approvals, Matches(u, p)
  PROVE  \A c \in Columns : u[c] = ap[c]
BY DEF Matches, Columns

\* Nothing is unrecorded or unconsumed, and a transaction keeps its now() and,
\* once it has one, its choice.
LEMMA Monotone ==
  ASSUME TypeOK, [Next]_vars
  PROVE  /\ recorded \subseteq recorded' /\ consumed \subseteq consumed'
         /\ \A ap \in recorded : approved_at'[ap] = approved_at[ap]
         /\ \A p \in Payments : pc[p] # "new" => began'[p] = began[p]
         /\ \A p \in Payments : pc[p] # "inserted" => choice'[p] = choice[p]
<1> USE DEF TypeOK, PaymentSteps
<1>1. ASSUME NEW ap \in Approvals, RecordApproval(ap)
      PROVE  /\ recorded \subseteq recorded' /\ UNCHANGED <<consumed, began, choice>>
             /\ \A x \in recorded : approved_at'[x] = approved_at[x]
  BY <1>1 DEF RecordApproval
<1>2. CASE Tick \/ \E permission \in {"view", "pay"}, rows \in Projections :
                    Reconcile(permission, rows)
  BY <1>2 DEF Tick, Reconcile
<1>3. ASSUME NEW p \in Payments, Begin(p)
      PROVE  /\ UNCHANGED <<recorded, approved_at, consumed, choice>>
             /\ \A q \in Payments : pc[q] # "new" => began'[q] = began[q]
  BY <1>3 DEF Begin, Step
<1>4. ASSUME NEW p \in Payments, ChooseApproval(p)
      PROVE  /\ UNCHANGED <<recorded, approved_at, consumed, began>>
             /\ \A q \in Payments : pc[q] # "inserted" => choice'[q] = choice[q]
  BY <1>4 DEF ChooseApproval, Step
<1>5. ASSUME NEW p \in Payments, Insert(p) \/ TakeApproval(p) \/ Commit(p) \/ Abort(p)
      PROVE  /\ UNCHANGED <<recorded, approved_at, began, choice>>
             /\ consumed \subseteq consumed'
  BY <1>5 DEF Insert, TakeApproval, Commit, Abort
<1>6. CASE UNCHANGED vars
  BY <1>6 DEF vars
<1> QED
  BY <1>1, <1>2, <1>3, <1>4, <1>5, <1>6 DEF Next, Statement

\* What is in reserve for a payment stays, unless the trigger chooses from it.
LEMMA ReserveGrows ==
  ASSUME TypeOK, [Next]_vars, NEW ap \in Approvals, NEW p \in Payments, Matches(ap, p),
         pc[p] # "new", pc[p] = "inserted" <=> pc'[p] = "inserted"
  PROVE  Reserve(ap, p) \subseteq Reserve(ap, p)'
<1>1. ConsumedLike(ap) \subseteq ConsumedLike(ap)'
  BY Monotone DEF ConsumedLike
<1>2. CASE pc[p] = "inserted"
  <2>1. ASSUME NEW u \in Usable(p) PROVE u \in Reserve(ap, p)'
    <3>1. u \in recorded' /\ Matches(u, p)' /\ u \in Approvals /\ Matches(u, p)
      BY <2>1, Monotone DEF Usable, TypeOK, Matches
    <3>2. Unexpired(u, p)'
      BY <1>2, <2>1, Monotone DEF Usable, Unexpired
    <3>3. CASE u \in consumed'
      BY <3>1, <3>3, UsableAlike DEF Reserve, ConsumedLike
    <3>4. CASE u \notin consumed'
      BY <1>2, <3>1, <3>2, <3>4 DEF Reserve, Usable
    <3> QED
      BY <3>3, <3>4
  <2> QED
    BY <1>1, <1>2, <2>1 DEF Reserve
<1>3. CASE pc[p] # "inserted"
  BY <1>1, <1>3, Monotone DEF Reserve
<1> QED
  BY <1>2, <1>3

\* All these are sets of approvals.
LEMMA ReserveType ==
  ASSUME TypeOK, NEW ap, NEW p \in Payments
  PROVE  ConsumedLike(ap) \in SUBSET Approvals /\ Reserve(ap, p) \in SUBSET Approvals
BY DEF TypeOK, ConsumedLike, Reserve, Usable

\* And they are after a step.
LEMMA ReserveTypeNext ==
  ASSUME TypeOK', NEW ap, NEW p \in Payments
  PROVE  ConsumedLike(ap)' \in SUBSET Approvals /\ Reserve(ap, p)' \in SUBSET Approvals
BY DEF TypeOK, ConsumedLike, Reserve, Usable

\* An approval that is usable and not consumed is one more.
LEMMA OneMore ==
  ASSUME TypeOK, NEW ap \in Approvals, NEW p \in Payments, NEW u \in Usable(p)
  PROVE  /\ u \in Approvals
         /\ Cardinality(ConsumedLike(ap)) < Cardinality(ConsumedLike(ap) \cup {u})
<1>1. u \in Approvals /\ u \notin ConsumedLike(ap) /\ ConsumedLike(ap) \in SUBSET Approvals
  BY DEF TypeOK, Usable, ConsumedLike
<1> QED
  BY <1>1, CountsMore

\* A step that commits no payment and starts or moves none but p, given what p's
\* step puts in reserve.
LEMMA UseKept ==
  ASSUME TypeOK, TypeOK', UseInv, [Next]_vars, Committed' = Committed,
         \A p, q \in Active' : p.process = q.process => p = q,
         \A ap \in Approvals, p \in Payments :
           /\ Matches(ap, p)
           /\ pc'[p] \in {"inserted", "consuming", "fired"}
           => \/ /\ pc[p] \in {"inserted", "consuming", "fired"}
                 /\ Reserve(ap, p) \subseteq Reserve(ap, p)'
              \/ \E u \in Usable(p) : ConsumedLike(ap) \cup {u} \subseteq Reserve(ap, p)'
  PROVE  UseInv'
<1>1. \A ap, w : PaidBy(ap, w)' = PaidBy(ap, w)
  BY SamePaid
<1>2. ASSUME NEW ap \in Approvals, NEW q \in Payments
      PROVE  Cardinality(PaidBy(ap, q.process))' <= Cardinality(ConsumedLike(ap))'
  <2>1. ConsumedLike(ap) \subseteq ConsumedLike(ap)'
    BY Monotone DEF ConsumedLike
  <2>2. Cardinality(ConsumedLike(ap)) <= Cardinality(ConsumedLike(ap)')
    BY <2>1, ReserveType, ReserveTypeNext, Counts
  <2>3. /\ Cardinality(PaidBy(ap, q.process)) <= Cardinality(ConsumedLike(ap))
        /\ Cardinality(PaidBy(ap, q.process)) \in Nat
    BY PaidCount DEF UseInv
  <2>4. Cardinality(ConsumedLike(ap)) \in Nat /\ Cardinality(ConsumedLike(ap)') \in Nat
    BY <2>1, ReserveType, ReserveTypeNext, Counts
  <2> QED
    BY <1>1, <2>2, <2>3, <2>4
<1>3. ASSUME NEW ap \in Approvals, NEW p \in Payments, Matches(ap, p),
             pc'[p] \in {"inserted", "consuming", "fired"}
      PROVE  Cardinality(PaidBy(ap, p.process))' < Cardinality(Reserve(ap, p))'
  <2>1. Reserve(ap, p) \in SUBSET Approvals /\ Reserve(ap, p)' \in SUBSET Approvals
    BY ReserveType, ReserveTypeNext
  <2>2. Cardinality(PaidBy(ap, p.process)) \in Nat
    BY PaidCount
  <2>3. CASE /\ pc[p] \in {"inserted", "consuming", "fired"}
             /\ Reserve(ap, p) \subseteq Reserve(ap, p)'
    <3>1. Cardinality(PaidBy(ap, p.process)) < Cardinality(Reserve(ap, p))
      BY <1>3, <2>3 DEF UseInv
    <3>2. /\ Cardinality(Reserve(ap, p)) <= Cardinality(Reserve(ap, p)')
          /\ Cardinality(Reserve(ap, p)) \in Nat /\ Cardinality(Reserve(ap, p)') \in Nat
      BY <2>1, <2>3, Counts
    <3> QED
      BY <1>1, <2>2, <3>1, <3>2
  <2>4. ASSUME NEW u \in Usable(p), ConsumedLike(ap) \cup {u} \subseteq Reserve(ap, p)'
        PROVE  Cardinality(PaidBy(ap, p.process)) < Cardinality(Reserve(ap, p)')
    <3>1. Cardinality(PaidBy(ap, p.process)) <= Cardinality(ConsumedLike(ap))
      BY DEF UseInv
    <3>2. ConsumedLike(ap) \cup {u} \in SUBSET Approvals
      BY OneMore, ReserveType
    <3>3. Cardinality(ConsumedLike(ap)) < Cardinality(ConsumedLike(ap) \cup {u})
      BY OneMore
    <3>4. /\ Cardinality(ConsumedLike(ap) \cup {u}) <= Cardinality(Reserve(ap, p)')
          /\ Cardinality(ConsumedLike(ap) \cup {u}) \in Nat
          /\ Cardinality(Reserve(ap, p)') \in Nat
      BY <2>1, <2>4, <3>2, Counts
    <3>5. Cardinality(ConsumedLike(ap)) \in Nat
      BY ReserveType, Counts
    <3> QED
      BY <2>2, <3>1, <3>3, <3>4, <3>5
  <2> QED
    BY <1>1, <1>3, <2>3, <2>4
<1> QED
  BY <1>2, <1>3 DEF UseInv

\* The commit of p, whose approval was in reserve.
LEMMA UseCommit ==
  ASSUME TypeOK, TypeOK', ConsumeInv, UseInv, [Next]_vars, NEW p \in Payments, Commit(p)
  PROVE  UseInv'
<1>1. /\ pc[p] = "fired" /\ pc' = [pc EXCEPT ![p] = "committed"] /\ choice' = choice
      /\ consumed' = consumed \cup ({choice[p]} \ {NoApproval})
  BY DEF Commit, Step
<1>2. Committed' = Committed \cup {p} /\ p \notin Committed /\ Active' = Active \ {p}
  BY <1>1 DEF Committed, Active, TypeOK
<1>3. \A ap, w : PaidBy(ap, w)' = IF Matches(ap, p) /\ p.process = w
                                   THEN PaidBy(ap, w) \cup {p} ELSE PaidBy(ap, w)
  BY <1>2 DEF PaidBy, PaidOf, Matches
<1>4. ASSUME NEW ap \in Approvals, NEW q \in Payments
      PROVE  Cardinality(PaidBy(ap, q.process))' <= Cardinality(ConsumedLike(ap))'
  <2>1. /\ ConsumedLike(ap) \in SUBSET Approvals /\ ConsumedLike(ap)' \in SUBSET Approvals
        /\ ConsumedLike(ap) \subseteq ConsumedLike(ap)'
    BY ReserveType, ReserveTypeNext, Monotone DEF ConsumedLike
  <2>2. /\ Cardinality(ConsumedLike(ap)) <= Cardinality(ConsumedLike(ap)')
        /\ Cardinality(ConsumedLike(ap)) \in Nat /\ Cardinality(ConsumedLike(ap)') \in Nat
    BY <2>1, Counts
  <2>3. /\ Cardinality(PaidBy(ap, q.process)) <= Cardinality(ConsumedLike(ap))
        /\ Cardinality(PaidBy(ap, q.process)) \in Nat
        /\ IsFiniteSet(PaidBy(ap, q.process))
    BY PaidCount DEF UseInv
  <2>4. CASE Matches(ap, p) /\ p.process = q.process
    <3>1. Reserve(ap, p) \subseteq ConsumedLike(ap)'
      <4>1. choice[p] # NoApproval => choice[p] \in Approvals /\ Matches(choice[p], p)
        BY DEF ConsumeInv, TypeOK
      <4>2. choice[p] # NoApproval => \A c \in Columns : choice[p][c] = ap[c]
        BY <2>4, <4>1, UsableAlike
      <4> QED
        BY <1>1, <2>1, <4>2 DEF Reserve, ConsumedLike
    <3>2. /\ Cardinality(Reserve(ap, p)) <= Cardinality(ConsumedLike(ap)')
          /\ Cardinality(Reserve(ap, p)) \in Nat
      BY <2>1, <3>1, ReserveType, Counts
    <3>3. Cardinality(PaidBy(ap, q.process)) < Cardinality(Reserve(ap, p))
      BY <1>1, <2>4 DEF UseInv
    <3>4. p \notin PaidBy(ap, q.process)
      BY <1>2 DEF PaidBy, PaidOf
    <3>5. Cardinality(PaidBy(ap, q.process)') = Cardinality(PaidBy(ap, q.process)) + 1
      BY <1>3, <2>3, <2>4, <3>4, FS_AddElement
    <3> QED
      BY <2>2, <2>3, <3>2, <3>3, <3>5
  <2>5. CASE ~(Matches(ap, p) /\ p.process = q.process)
    BY <1>3, <2>2, <2>3, <2>5
  <2> QED
    BY <2>4, <2>5
<1>5. ASSUME NEW ap \in Approvals, NEW q \in Payments, Matches(ap, q),
             pc'[q] \in {"inserted", "consuming", "fired"}
      PROVE  Cardinality(PaidBy(ap, q.process))' < Cardinality(Reserve(ap, q))'
  <2>1. q # p /\ pc'[q] = pc[q]
    BY <1>1, <1>5 DEF TypeOK
  <2>2. q.process # p.process
    BY <1>1, <1>5, <2>1 DEF UseInv, Active
  <2>3. PaidBy(ap, q.process)' = PaidBy(ap, q.process)
    BY <1>3, <2>2
  <2>4. Reserve(ap, q) \subseteq Reserve(ap, q)'
    BY <1>5, <2>1, ReserveGrows
  <2>5. /\ Cardinality(Reserve(ap, q)) <= Cardinality(Reserve(ap, q)')
        /\ Cardinality(Reserve(ap, q)) \in Nat /\ Cardinality(Reserve(ap, q)') \in Nat
    BY <2>4, ReserveType, ReserveTypeNext, Counts
  <2>6. Cardinality(PaidBy(ap, q.process)) < Cardinality(Reserve(ap, q))
    BY <1>5, <2>1 DEF UseInv
  <2> QED
    BY <2>3, <2>5, <2>6, PaidCount
<1>6. \A q, r \in Active' : q.process = r.process => q = r
  BY <1>2 DEF UseInv
<1> QED
  BY <1>4, <1>5, <1>6 DEF UseInv

\* No step breaks UseInv: every INSERT that passed the preapproved policy has an
\* approval in reserve, which its commit consumes.
LEMMA UseStep == TypeOK /\ ConsumeInv /\ UseInv /\ [Next]_vars => UseInv'
<1> SUFFICES ASSUME TypeOK, ConsumeInv, UseInv, [Next]_vars PROVE UseInv'
  OBVIOUS
<1>0. TypeOK'
  BY TypeStep
<1> DEFINE InHand == {"inserted", "consuming", "fired"}
           OneEach == \A p, q \in Active : p.process = q.process => p = q
<1>a. OneEach
  BY DEF UseInv
<1>b. ASSUME Committed' = Committed, OneEach',
             \A q \in Payments : pc'[q] \in InHand =>
               pc[q] \in InHand /\ (pc[q] = "inserted" <=> pc'[q] = "inserted")
      PROVE  UseInv'
  <2>1. ASSUME NEW ap \in Approvals, NEW q \in Payments, Matches(ap, q), pc'[q] \in InHand
        PROVE  pc[q] \in InHand /\ Reserve(ap, q) \subseteq Reserve(ap, q)'
    BY <1>b, <2>1, ReserveGrows
  <2> QED
    BY <1>0, <1>b, <2>1, UseKept
<1>c. UNCHANGED pc => UseInv'
  BY <1>a, <1>b DEF Committed, Active
<1>1. ASSUME NEW ap \in Approvals, RecordApproval(ap) PROVE UseInv'
  BY <1>c, <1>1 DEF RecordApproval
<1>2. ASSUME NEW permission \in {"view", "pay"}, NEW rows \in Projections,
             Reconcile(permission, rows)
      PROVE UseInv'
  BY <1>c, <1>2 DEF Reconcile
<1>3. CASE Tick
  BY <1>c, <1>3 DEF Tick
<1>4. ASSUME NEW p \in Payments, Begin(p) PROVE UseInv'
  <2>1. /\ \A q \in Active : q.process # p.process
        /\ pc[p] = "new" /\ pc' = [pc EXCEPT ![p] = "begun"]
    BY <1>4 DEF Begin, Step
  <2>2. Committed' = Committed /\ Active' = Active \cup {p}
    BY <2>1 DEF Committed, Active, TypeOK
  <2> QED
    BY <1>a, <1>b, <2>1, <2>2 DEF TypeOK
<1>5. ASSUME NEW p \in Payments, Insert(p) PROVE UseInv'
  <2>1. /\ pc[p] = "begun" /\ pc' \in {[pc EXCEPT ![p] = "inserted"], [pc EXCEPT ![p] = "aborted"]}
        /\ pc'[p] = "inserted" => Usable(p) # {}
        /\ UNCHANGED <<recorded, approved_at, consumed, began>>
    BY <1>5 DEF Insert, Step, PreapprovedPolicy, TypeOK
  <2>2. Committed' = Committed /\ Active' \subseteq Active
    BY <2>1 DEF Committed, Active, TypeOK
  <2>3. ASSUME NEW ap \in Approvals, NEW q \in Payments, Matches(ap, q), pc'[q] \in InHand
        PROVE  \/ pc[q] \in InHand /\ Reserve(ap, q) \subseteq Reserve(ap, q)'
               \/ \E u \in Usable(q) : ConsumedLike(ap) \cup {u} \subseteq Reserve(ap, q)'
    <3>1. CASE q = p
      <4>1. Usable(p)' = Usable(p) /\ ConsumedLike(ap)' = ConsumedLike(ap)
        BY <2>1 DEF Usable, Unexpired, ConsumedLike, Matches
      <4>2. pc'[p] = "inserted" /\ Usable(p) # {}
        BY <2>1, <2>3, <3>1 DEF TypeOK
      <4> QED
        BY <3>1, <4>1, <4>2 DEF Reserve
    <3>2. CASE q # p
      BY <2>1, <2>3, <3>2, ReserveGrows DEF TypeOK
    <3> QED
      BY <3>1, <3>2
  <2> QED
    BY <1>0, <1>a, <2>2, <2>3, UseKept
<1>6. ASSUME NEW p \in Payments, ChooseApproval(p) PROVE UseInv'
  <2>1. /\ pc[p] = "inserted"
        /\ pc' \in {[pc EXCEPT ![p] = "consuming"], [pc EXCEPT ![p] = "fired"]}
        /\ \/ \E u \in Usable(p) : choice' = [choice EXCEPT ![p] = u]
           \/ Usable(p) = {} /\ choice' = choice
        /\ UNCHANGED consumed
    BY <1>6 DEF ChooseApproval, Step
  <2>2. Committed' = Committed /\ Active' = Active
    BY <2>1 DEF Committed, Active, TypeOK
  <2>3. ASSUME NEW ap \in Approvals, NEW q \in Payments, Matches(ap, q), pc'[q] \in InHand
        PROVE  \/ pc[q] \in InHand /\ Reserve(ap, q) \subseteq Reserve(ap, q)'
               \/ \E u \in Usable(q) : ConsumedLike(ap) \cup {u} \subseteq Reserve(ap, q)'
    <3>1. CASE q = p
      <4>1. ConsumedLike(ap)' = ConsumedLike(ap) /\ pc'[p] # "inserted"
        BY <2>1 DEF ConsumedLike, TypeOK
      <4>2. \A u \in Usable(p) : u # NoApproval
        BY NoApprovalAssumption DEF Usable, TypeOK
      <4>3. ASSUME NEW u \in Usable(p), choice' = [choice EXCEPT ![p] = u]
            PROVE  ConsumedLike(ap) \cup {u} \subseteq Reserve(ap, p)'
        BY <4>1, <4>2, <4>3 DEF Reserve, TypeOK
      <4>4. CASE Usable(p) = {}
        BY <2>1, <3>1, <4>1, <4>4 DEF Reserve
      <4> QED
        BY <2>1, <3>1, <4>3, <4>4
    <3>2. CASE q # p
      BY <2>1, <2>3, <3>2, ReserveGrows DEF TypeOK
    <3> QED
      BY <3>1, <3>2
  <2> QED
    BY <1>0, <1>a, <2>2, <2>3, UseKept
<1>7. ASSUME NEW p \in Payments, TakeApproval(p) PROVE UseInv'
  <2>1. pc[p] = "consuming" /\ pc' = [pc EXCEPT ![p] = "fired"]
    BY <1>7 DEF TakeApproval, Step
  <2>2. Committed' = Committed /\ Active' = Active
    BY <2>1 DEF Committed, Active, TypeOK
  <2> QED
    BY <1>a, <1>b, <2>1, <2>2 DEF TypeOK
<1>8. ASSUME NEW p \in Payments, Commit(p) PROVE UseInv'
  BY <1>0, <1>8, UseCommit
<1>9. ASSUME NEW p \in Payments, Abort(p) PROVE UseInv'
  <2>1. p \in Active /\ pc' = [pc EXCEPT ![p] = "aborted"]
    BY <1>9 DEF Abort
  <2>2. Committed' = Committed /\ Active' \subseteq Active
    BY <2>1 DEF Committed, Active, TypeOK
  <2> QED
    BY <1>a, <1>b, <2>1, <2>2 DEF TypeOK
<1>10. CASE UNCHANGED vars
  BY <1>c, <1>10 DEF vars
<1> QED
  BY <1>1, <1>2, <1>3, <1>4, <1>5, <1>6, <1>7, <1>8, <1>9, <1>10 DEF Next, Statement

\* SingleUsePerProcess for every instance.  For all processes together it does
\* not hold, see ledger_race.
THEOREM SingleUseInProcess == Spec => []SingleUsePerProcess
<1>1. Init => TypeOK /\ ConsumeInv /\ UseInv
  <2> SUFFICES ASSUME Init PROVE TypeOK /\ ConsumeInv /\ UseInv
    OBVIOUS
  <2>1. TypeOK /\ ConsumeInv /\ Active = {} /\ Committed = {}
    BY TypeInit DEF Init, ConsumeInv, Active, Committed
  <2>2. ASSUME NEW ap \in Approvals, NEW q \in Payments
        PROVE  Cardinality(PaidBy(ap, q.process)) <= Cardinality(ConsumedLike(ap))
    <3>1. PaidBy(ap, q.process) = {} /\ ConsumedLike(ap) = {}
      BY <2>1 DEF PaidBy, PaidOf, ConsumedLike, Init
    <3> QED
      BY <3>1, FS_EmptySet
  <2> QED
    BY <2>1, <2>2 DEF UseInv, Init
<1>2. Spec => [](TypeOK /\ ConsumeInv /\ UseInv)
  BY <1>1, TypeStep, ConsumeStep, UseStep, PTL DEF Spec
<1>3. TypeOK /\ ConsumeInv /\ UseInv => SingleUsePerProcess
  <2> SUFFICES ASSUME TypeOK, ConsumeInv, UseInv, NEW ap \in recorded, NEW q \in Payments
               PROVE  Cardinality(PaidBy(ap, q.process)) <= Cardinality(ApprovalsLike(ap))
    BY DEF SingleUsePerProcess, PaidBy
  <2>1. ap \in Approvals /\ ApprovalsLike(ap) \in SUBSET Approvals
    BY DEF TypeOK, ApprovalsLike
  <2>2. ConsumedLike(ap) \in SUBSET Approvals
    BY <2>1, ReserveType
  <2>3. ConsumedLike(ap) \subseteq ApprovalsLike(ap)
    <3>1. consumed \subseteq recorded
      BY NoApprovalAssumption DEF ConsumeInv, TypeOK
    <3> QED
      BY <3>1 DEF ConsumedLike, ApprovalsLike
  <2>4. /\ Cardinality(ConsumedLike(ap)) <= Cardinality(ApprovalsLike(ap))
        /\ Cardinality(ConsumedLike(ap)) \in Nat /\ Cardinality(ApprovalsLike(ap)) \in Nat
    BY <2>1, <2>2, <2>3, Counts
  <2>5. Cardinality(PaidBy(ap, q.process)) <= Cardinality(ConsumedLike(ap))
    BY <2>1 DEF UseInv
  <2> QED
    BY <2>4, <2>5, PaidCount
<1> QED
  BY <1>2, <1>3, PTL

\* All payments are made by one agent process.
OneProcess == \A p, q \in Payments : p.process = q.process

\* SingleUse, which two processes can break (ledger_race), holds as documented
\* (04-approvals.sql:93-94) for every instance with one agent process.
THEOREM SingleUseAlone == OneProcess => (Spec => []SingleUse)
<1> SUFFICES ASSUME OneProcess PROVE Spec => []SingleUse
  OBVIOUS
<1>1. TypeOK /\ SingleUsePerProcess => SingleUse
  <2> SUFFICES ASSUME TypeOK, SingleUsePerProcess, NEW ap \in recorded
               PROVE  Cardinality(PaidOf(ap)) <= Cardinality(ApprovalsLike(ap))
    BY DEF SingleUse
  <2>1. CASE PaidOf(ap) = {}
    <3>1. ApprovalsLike(ap) \in SUBSET Approvals
      BY DEF TypeOK, ApprovalsLike
    <3>2. Cardinality(ApprovalsLike(ap)) \in Nat
      BY <3>1, Counts
    <3> QED
      BY <2>1, <3>2, FS_EmptySet
  <2>2. CASE PaidOf(ap) # {}
    <3>1. PICK q \in Payments : q \in PaidOf(ap)
      BY <2>2 DEF PaidOf, Committed
    <3>2. {p \in PaidOf(ap) : p.process = q.process} = PaidOf(ap)
      BY DEF OneProcess, PaidOf, Committed
    <3> QED
      BY <3>2 DEF SingleUsePerProcess
  <2> QED
    BY <2>1, <2>2
<1> QED
  BY <1>1, TypeCorrect, SingleUseInProcess, PTL
=============================================================================
