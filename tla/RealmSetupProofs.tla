--------------------------- MODULE RealmSetupProofs ---------------------------
(***************************************************************************)
(* What RealmSetup guarantees for any number of runs of init.py, starts,   *)
(* tries and faults: tokens open their own tool, the write ceiling holds,  *)
(* and a finished set-up is usable.                                        *)
(***************************************************************************)
EXTENDS RealmSetup, TLAPS

-----------------------------------------------------------------------------
(* The plan                                                                *)

\* Six scopes, six assignments, five authorization objects.
LEMMA Lengths ==
  Len(SCOPES) = 6 /\ Len(CLIENT_SCOPES) = 6 /\ Len(AUTHORIZATION) = 5
BY DEF SCOPES, CLIENT_SCOPES, AUTHORIZATION

\* A function on 1..n is a sequence of length n.
LEMMA SequenceOf ==
  ASSUME NEW S, NEW n \in Nat, NEW f, f = [i \in 1..n |-> f[i]],
         \A i \in 1..n : f[i] \in S
  PROVE  f \in Seq(S) /\ Len(f) = n
OBVIOUS

\* What is at each place of a concatenation.
LEMMA Concatenated ==
  ASSUME NEW S, NEW s \in Seq(S), NEW t \in Seq(S)
  PROVE  /\ s \o t \in Seq(S)
         /\ Len(s \o t) = Len(s) + Len(t)
         /\ \A i \in 1..(Len(s) + Len(t)) :
              (s \o t)[i] = IF i <= Len(s) THEN s[i] ELSE t[i - Len(s)]
OBVIOUS

\* What is at each place of the plan.
LEMMA PlanItems ==
  /\ Len(Plan) = 17
  /\ \A i \in 1..6 : Plan[i] = <<"scope", SCOPES[i]>>
  /\ \A i \in 7..12 : Plan[i] = <<"assign", CLIENT_SCOPES[i - 6]>>
  /\ \A i \in 13..17 : Plan[i] = <<"authz", AUTHORIZATION[i - 12]>>
<1> DEFINE A == Items("scope", SCOPES)
           B == Items("assign", CLIENT_SCOPES)
           C == Items("authz", AUTHORIZATION)
           S == {A[i] : i \in 1..6} \cup {B[i] : i \in 1..6} \cup {C[i] : i \in 1..5}
<1>1. A = [i \in 1..6 |-> <<"scope", SCOPES[i]>>]
  BY Lengths DEF Items
<1>2. B = [i \in 1..6 |-> <<"assign", CLIENT_SCOPES[i]>>]
  BY Lengths DEF Items
<1>3. C = [i \in 1..5 |-> <<"authz", AUTHORIZATION[i]>>]
  BY Lengths DEF Items
<1>4. A = [i \in 1..6 |-> A[i]] /\ B = [i \in 1..6 |-> B[i]] /\ C = [i \in 1..5 |-> C[i]]
  BY <1>1, <1>2, <1>3
<1> HIDE DEF A, B, C
<1>5. A \in Seq(S) /\ Len(A) = 6
  BY <1>4, SequenceOf
<1>6. B \in Seq(S) /\ Len(B) = 6
  BY <1>4, SequenceOf
<1>7. C \in Seq(S) /\ Len(C) = 5
  BY <1>4, SequenceOf
<1> HIDE DEF S
<1> DEFINE AB == A \o B
           ABC == AB \o C
<1>8. /\ AB \in Seq(S) /\ Len(AB) = 12
      /\ \A i \in 1..12 : AB[i] = IF i <= 6 THEN A[i] ELSE B[i - 6]
  <2>1. /\ AB \in Seq(S) /\ Len(AB) = Len(A) + Len(B)
        /\ \A i \in 1..(Len(A) + Len(B)) : AB[i] = IF i <= Len(A) THEN A[i] ELSE B[i - Len(A)]
    BY <1>5, <1>6, Concatenated, Zenon
  <2> HIDE DEF AB
  <2> QED
    BY <1>5, <1>6, <2>1
<1>9. /\ Len(ABC) = 17
      /\ \A i \in 1..17 : ABC[i] = IF i <= 12 THEN AB[i] ELSE C[i - 12]
  <2> HIDE DEF AB
  <2>1. /\ Len(ABC) = Len(AB) + Len(C)
        /\ \A i \in 1..(Len(AB) + Len(C)) : ABC[i] = IF i <= Len(AB) THEN AB[i] ELSE C[i - Len(AB)]
    BY <1>7, <1>8, Concatenated, Zenon
  <2> HIDE DEF ABC
  <2> QED
    BY <1>7, <1>8, <2>1
<1>10. Plan = ABC
  BY DEF Plan, A, B, C
<1> HIDE DEF AB, ABC
<1>11. \A i \in 1..6 : Plan[i] = A[i]
  BY <1>8, <1>9, <1>10
<1>12. \A i \in 7..12 : Plan[i] = B[i - 6]
  BY <1>8, <1>9, <1>10
<1>13. \A i \in 13..17 : Plan[i] = C[i - 12]
  BY <1>9, <1>10
<1>14. /\ \A i \in 1..6 : A[i] = <<"scope", SCOPES[i]>>
       /\ \A i \in 7..12 : B[i - 6] = <<"assign", CLIENT_SCOPES[i - 6]>>
       /\ \A i \in 13..17 : C[i - 12] = <<"authz", AUTHORIZATION[i - 12]>>
  BY <1>1, <1>2, <1>3
<1> QED
  BY <1>9, <1>10, <1>11, <1>12, <1>13, <1>14

\* A scope's name tells what its mapper stamps.
LEMMA OneStampPerName ==
  \A i, j \in 1..6 : SCOPES[i][1] = SCOPES[j][1] => SCOPES[i] = SCOPES[j]
BY DEF SCOPES

\* Each scope that is assigned is created before.
LEMMA AssignedAreScopes ==
  \A i \in 1..6 : \E j \in 1..6 : CLIENT_SCOPES[i][2] = SCOPES[j][1]
BY DEF SCOPES, CLIENT_SCOPES

-----------------------------------------------------------------------------
(* The realm                                                               *)

\* The realm holds nothing but what the plan puts there.
RealmInv ==
  /\ scopes \subseteq {SCOPES[i] : i \in 1..6}
  /\ assigned \subseteq {CLIENT_SCOPES[i] : i \in 1..6}
  /\ authz \subseteq {AUTHORIZATION[i] : i \in 1..5}
  /\ \A pair \in assigned : pair[2] \in Names

InRealm(item) == /\ item[1] = "scope" => item[2] \in scopes
                 /\ item[1] = "assign" => item[2] \in assigned
                 /\ item[1] = "authz" => item[2] \in authz

\* A run has seen to every item before the one it is at, and what it knows of is
\* there; the realm is lost together with the runs that relied on it.
RunInv(r) ==
  /\ pc[r] \notin {"look", "call"} => at[r] = 1 /\ seen[r] = {}
  /\ \A i \in 1..17 :
       /\ i < at[r] \/ pc[r] = "done" => InRealm(Plan[i])
       /\ i = at[r] /\ pc[r] = "call" /\ Plan[i][1] # "assign"
            => seen[r] \subseteq Listed(Plan[i][1])

ProgressInv == \A r \in Runs : RunInv(r)

\* A login carries the claim of its purpose; a token is for its tool's service, has
\* its tool's scopes, and a payment token went to a read-write login.
TokenInv ==
  /\ \A l \in logins : l.purpose \in Purposes /\ l.claim = l.purpose
  /\ \A t \in tokens : /\ t.tool \in Tools
                       /\ t.scopes = ScopesOf(t.tool)
                       /\ \A tool \in Tools : ValidFor(t, ServiceOf(tool)) <=> tool = t.tool
                       /\ t.tool = "make_payment" => t.purpose = "readwrite"

SetupInv == TypeOK /\ RealmInv /\ ProgressInv /\ TokenInv

\* The kinds of the plan's items, in the order init.py creates them.
LEMMA PlanKinds ==
  \A i \in 1..17 : /\ Plan[i][1] = IF i <= 6 THEN "scope" ELSE IF i <= 12 THEN "assign" ELSE "authz"
                   /\ i <= 6 => Plan[i][2] = SCOPES[i]
                   /\ i \in 7..12 => Plan[i][2] = CLIENT_SCOPES[i - 6]
                   /\ i > 12 => Plan[i][2] = AUTHORIZATION[i - 12]
<1> SUFFICES ASSUME NEW i \in 1..17
             PROVE  /\ Plan[i][1] = IF i <= 6 THEN "scope" ELSE IF i <= 12 THEN "assign" ELSE "authz"
                    /\ i <= 6 => Plan[i][2] = SCOPES[i]
                    /\ i \in 7..12 => Plan[i][2] = CLIENT_SCOPES[i - 6]
                    /\ i > 12 => Plan[i][2] = AUTHORIZATION[i - 12]
  OBVIOUS
<1>1. CASE i \in 1..6
  BY <1>1, PlanItems
<1>2. CASE i \in 7..12
  BY <1>2, PlanItems
<1>3. CASE i \in 13..17
  BY <1>3, PlanItems
<1> QED
  BY <1>1, <1>2, <1>3

\* The run's place in the plan.
LEMMA PlaceInPlan ==
  ASSUME TypeOK, NEW r \in Runs
  PROVE  at[r] \in 1..17
BY PlanItems DEF TypeOK

\* What TypeOK says of the realm.
LEMMA RealmTypes ==
  ASSUME RealmInv
  PROVE  /\ scopes \subseteq Names \X {"nothing", "transactions-service", "payments-service",
                                       "read", "readwrite"}
         /\ assigned \subseteq {TX_CLIENT, PAY_CLIENT, PORTAL_CLIENT} \X Names
         /\ authz \subseteq {AUTHORIZATION[i] : i \in 1..Len(AUTHORIZATION)}
<1>1. ASSUME NEW s \in scopes
      PROVE  s \in Names \X {"nothing", "transactions-service", "payments-service",
                             "read", "readwrite"}
  <2>1. PICK i \in 1..6 : s = SCOPES[i]
    BY DEF RealmInv
  <2>2. s[1] \in Names
    BY DEF Names
  <2> QED
    BY <2>1, <2>2 DEF SCOPES
<1>2. ASSUME NEW pair \in assigned
      PROVE  pair \in {TX_CLIENT, PAY_CLIENT, PORTAL_CLIENT} \X Names
  <2>1. PICK i \in 1..6 : pair = CLIENT_SCOPES[i]
    BY DEF RealmInv
  <2>2. pair[2] \in Names
    BY DEF RealmInv
  <2> QED
    BY <2>1, <2>2 DEF CLIENT_SCOPES
<1> QED
  BY <1>1, <1>2, Lengths DEF RealmInv

\* Every name Keycloak may list is the name of something in the plan.
LEMMA ListedIsPlanned ==
  ASSUME RealmInv, NEW kind
  PROVE  Listed(kind) \subseteq {NameOf(Plan[i]) : i \in 1..17}
<1>1. ASSUME NEW name \in Names PROVE name \in {NameOf(Plan[i]) : i \in 1..17}
  <2>1. PICK s \in scopes : name = s[1]
    BY DEF Names
  <2>2. PICK i \in 1..6 : s = SCOPES[i]
    BY DEF RealmInv
  <2>3. i \in 1..17 /\ NameOf(Plan[i]) = name
    BY <2>1, <2>2, PlanKinds DEF NameOf
  <2> QED
    BY <2>3
<1>2. ASSUME NEW name \in authz PROVE name \in {NameOf(Plan[i]) : i \in 1..17}
  <2>1. PICK j \in 1..5 : name = AUTHORIZATION[j]
    BY DEF RealmInv
  <2>2. j + 12 \in 1..17 /\ NameOf(Plan[j + 12]) = name
    BY <2>1, PlanKinds DEF NameOf
  <2> QED
    BY <2>2
<1> QED
  BY <1>1, <1>2 DEF Listed

Grows == scopes \subseteq scopes' /\ assigned \subseteq assigned' /\ authz \subseteq authz'

\* In a realm that grows, what is listed and what is there stays so.
LEMMA GrowsKeeps ==
  ASSUME Grows
  PROVE  /\ Names \subseteq Names'
         /\ \A kind : Listed(kind) \subseteq Listed(kind)'
         /\ \A item : InRealm(item) => InRealm(item)'
BY DEF Grows, Names, Listed, InRealm

\* An item the run sees among what exists is in the realm: no other scope has its name.
LEMMA KnownIsThere ==
  ASSUME TypeOK, RealmInv, ProgressInv, NEW r \in Runs, pc[r] = "call", Known(r, Plan[at[r]])
  PROVE  InRealm(Plan[at[r]])
<1> DEFINE i == at[r]
<1>1. i \in 1..17 /\ NameOf(Plan[i]) \in Listed(Plan[i][1]) /\ Plan[i][1] # "assign"
  BY PlaceInPlan DEF ProgressInv, RunInv, Known
<1>2. CASE i <= 6
  <2>1. Plan[i][1] = "scope" /\ Plan[i][2] = SCOPES[i]
    BY <1>1, <1>2, PlanKinds
  <2>2. SCOPES[i][1] \in Names
    BY <1>1, <2>1 DEF NameOf, Listed
  <2>3. PICK s \in scopes : s[1] = SCOPES[i][1]
    BY <2>2 DEF Names
  <2>4. PICK j \in 1..6 : s = SCOPES[j]
    BY DEF RealmInv
  <2>5. SCOPES[i] = s
    BY <1>1, <1>2, <2>3, <2>4, OneStampPerName
  <2> QED
    BY <2>1, <2>5 DEF InRealm
<1>3. CASE i > 12
  <2>1. Plan[i][1] = "authz"
    BY <1>1, <1>3, PlanKinds
  <2> QED
    BY <1>1, <2>1 DEF NameOf, Listed, InRealm
<1> QED
  BY <1>1, <1>2, <1>3, PlanKinds

\* A call puts its item into the realm and keeps the rest; a scope is assigned only
\* after all of them are there.
LEMMA ApplyGrows ==
  ASSUME RealmInv, ProgressInv, NEW r \in Runs, NEW i \in 1..17, at[r] = i, Apply(Plan[i])
  PROVE  RealmInv' /\ Grows /\ InRealm(Plan[i])'
<1> DEFINE item == Plan[i]
<1>1. i \in 1..17
  OBVIOUS
<1>2. Grows /\ InRealm(item)'
  BY DEF Apply, Grows, InRealm
<1>3. CASE i <= 6
  <2>1. item[1] = "scope" /\ item[2] \in {SCOPES[j] : j \in 1..6}
    BY <1>1, <1>3, PlanKinds
  <2>2. UNCHANGED <<assigned, authz>> /\ scopes' = scopes \cup {item[2]}
    BY <2>1 DEF Apply
  <2> QED
    BY <1>2, <2>1, <2>2, GrowsKeeps DEF RealmInv, InRealm
<1>4. CASE i \in 7..12
  <2>1. item[1] = "assign" /\ item[2] = CLIENT_SCOPES[i - 6] /\ i - 6 \in 1..6
    BY <1>4, PlanKinds
  <2>2. UNCHANGED <<scopes, authz>> /\ assigned' = assigned \cup {item[2]}
    BY <2>1 DEF Apply
  <2>3. PICK j \in 1..6 : CLIENT_SCOPES[i - 6][2] = SCOPES[j][1]
    BY <2>1, AssignedAreScopes
  <2>4. SCOPES[j] \in scopes
    <3>1. InRealm(Plan[j])
      BY <1>4 DEF ProgressInv, RunInv
    <3>2. Plan[j][1] = "scope" /\ Plan[j][2] = SCOPES[j]
      BY PlanKinds
    <3> QED
      BY <3>1, <3>2 DEF InRealm
  <2>5. item[2][2] \in Names'
    BY <2>1, <2>2, <2>3, <2>4 DEF Names
  <2>6. \A pair \in assigned' : pair[2] \in Names'
    BY <2>2, <2>5 DEF RealmInv, Names
  <2> QED
    BY <1>2, <2>1, <2>2, <2>6 DEF RealmInv, InRealm
<1>5. CASE i > 12
  <2>1. item[1] = "authz" /\ item[2] = AUTHORIZATION[i - 12] /\ i - 12 \in 1..5
    BY <1>1, <1>5, PlanKinds
  <2>2. UNCHANGED <<scopes, assigned>> /\ authz' = authz \cup {item[2]}
    BY <2>1 DEF Apply
  <2> QED
    BY <1>2, <2>1, <2>2 DEF RealmInv, InRealm, Names
<1> QED
  BY <1>1, <1>3, <1>4, <1>5

-----------------------------------------------------------------------------
(* The runs                                                                *)

\* What TypeOK says of the runs.
RunTypeOK ==
  /\ pc \in [Runs -> {"ready", "token", "look", "call", "done", "failed"}]
  /\ at \in [Runs -> 1..17]
  /\ seen \in [Runs -> SUBSET {NameOf(Plan[i]) : i \in 1..17}]
  /\ tries \in [Runs -> 0..(MaxTries - 1)]

\* A run that a step leaves where it is stays in order when the realm grows around it.
LEMMA BystandersKeep ==
  ASSUME ProgressInv, Grows, NEW q \in Runs, pc'[q] = pc[q], at'[q] = at[q], seen'[q] = seen[q]
  PROVE  RunInv(q)'
BY GrowsKeeps DEF ProgressInv, RunInv

\* A run that exits has nothing to remember, and a finished one has gone through
\* the whole plan.
LEMMA ExitKeeps ==
  ASSUME RunTypeOK, ProgressInv, Grows, NEW r \in Runs, NEW code \in {"done", "failed"},
         Exit(r, code), code = "done" => \A i \in 1..17 : InRealm(Plan[i])'
  PROVE  RunTypeOK' /\ ProgressInv'
<1>1. RunTypeOK'
  BY RealmBoundsAssumption DEF RunTypeOK, Exit
<1>2. ASSUME NEW q \in Runs, q # r
      PROVE  pc'[q] = pc[q] /\ at'[q] = at[q] /\ seen'[q] = seen[q]
  BY <1>2 DEF Exit, RunTypeOK
<1>3. pc'[r] = code /\ at'[r] = 1 /\ seen'[r] = {}
  BY DEF Exit, RunTypeOK
<1>4. ProgressInv'
  <2>1. RunInv(r)'
    BY <1>3 DEF RunInv
  <2> QED
    BY <1>2, <2>1, BystandersKeep DEF ProgressInv
<1> QED
  BY <1>1, <1>4

\* A run that is through with its item has one item more behind it; the list of
\* scopes it keeps is still true, and any other list it forgets.
LEMMA AdvanceKeeps ==
  ASSUME RunTypeOK, ProgressInv, Grows, NEW r \in Runs, pc[r] = "call",
         NEW i \in 1..17, at[r] = i, InRealm(Plan[i])', Advance(r)
  PROVE  RunTypeOK' /\ ProgressInv'
<1>1. \A j \in 1..17 : j <= i => InRealm(Plan[j])'
  BY GrowsKeeps DEF ProgressInv, RunInv
<1>2. CASE i = 17 /\ Exit(r, "done")
  <2>1. \A j \in 1..17 : InRealm(Plan[j])'
    BY <1>1, <1>2
  <2> QED
    BY <1>2, <2>1, ExitKeeps
<1>3. CASE i < 17
  <2> DEFINE next == Plan[i + 1][1]
  <2>1. /\ at' = [at EXCEPT ![r] = i + 1]
        /\ pc' = [pc EXCEPT ![r] = IF next = "authz" THEN "look" ELSE "call"]
        /\ seen' = [seen EXCEPT ![r] = IF next = "scope" THEN @ ELSE {}]
        /\ tries' = tries
    BY <1>3, PlanItems DEF Advance, RunTypeOK
  <2>2. RunTypeOK'
    BY <1>3, <2>1 DEF RunTypeOK
  <2>3. /\ at'[r] = i + 1 /\ pc'[r] = (IF next = "authz" THEN "look" ELSE "call")
        /\ seen'[r] = (IF next = "scope" THEN seen[r] ELSE {})
    BY <2>1 DEF RunTypeOK
  <2>4. \A q \in Runs \ {r} : pc'[q] = pc[q] /\ at'[q] = at[q] /\ seen'[q] = seen[q]
    BY <2>1 DEF RunTypeOK
  <2>5. \A j \in 1..17 : j < i + 1 => InRealm(Plan[j])'
    BY <1>1
  <2>6. next = "scope" => seen'[r] \subseteq Listed("scope")'
    <3> SUFFICES ASSUME next = "scope" PROVE seen'[r] \subseteq Listed("scope")'
      OBVIOUS
    <3>1. Plan[i][1] = "scope"
      BY <1>3, PlanKinds
    <3> QED
      BY <2>3, <3>1, GrowsKeeps DEF ProgressInv, RunInv
  <2>7. /\ pc'[r] \in {"look", "call"}
        /\ pc'[r] = "call" => next # "authz"
        /\ pc'[r] = "call" /\ next # "assign" => seen'[r] \subseteq Listed(next)'
    BY <2>3, <2>6
  <2> HIDE DEF next
  <2>8. RunInv(r)'
    BY <2>3, <2>5, <2>7 DEF next, RunInv
  <2>9. ProgressInv'
    BY <2>4, <2>8, BystandersKeep DEF ProgressInv
  <2> QED
    BY <2>2, <2>9
<1> QED
  BY <1>2, <1>3, PlanItems DEF Advance, RunTypeOK

-----------------------------------------------------------------------------
(* Types and progress                                                      *)

\* The parts of TypeOK that the set-up itself is about.
LEMMA TypeParts ==
  RealmInv =>
    (TypeOK <=> /\ RunTypeOK
                /\ \A l \in logins : l.purpose \in Purposes
                /\ \A t \in tokens : t.tool \in Tools
                /\ starts \in 0..MaxStarts
                /\ faults \in 0..MaxFaults)
BY RealmTypes, PlanItems DEF TypeOK, RunTypeOK

-----------------------------------------------------------------------------
(* Logins and tokens                                                       *)

\* The claim of a login is its purpose, from the one mapper of its scope.
LEMMA ClaimIsPurpose ==
  ASSUME RealmInv, NEW purpose \in Purposes,
         NEW claim \in Stamps({PurposeScope(purpose)})
  PROVE  claim = purpose
<1>1. PICK s \in scopes : s[1] = PurposeScope(purpose) /\ s[2] = claim
  BY DEF Stamps
<1>2. PICK i \in 1..6 : s = SCOPES[i]
  BY DEF RealmInv
<1> QED
  BY <1>1, <1>2 DEF SCOPES, PurposeScope, Purposes

\* The token of a tool is stamped with that tool's service and no other's.
LEMMA AudienceIsService ==
  ASSUME RealmInv, NEW tool \in Tools, Grants(ClientOf(tool), ScopesOf(tool)),
         NEW other \in Tools
  PROVE  ServiceOf(other) \in Stamps(ScopesOf(tool)) <=> other = tool
<1>1. ASSUME ServiceOf(other) \in Stamps(ScopesOf(tool)) PROVE other = tool
  <2>1. PICK s \in scopes : s[1] \in ScopesOf(tool) /\ s[2] = ServiceOf(other)
    BY <1>1 DEF Stamps
  <2>2. PICK i \in 1..6 : s = SCOPES[i]
    BY DEF RealmInv
  <2> QED
    BY <2>1, <2>2 DEF SCOPES, ScopesOf, ServiceOf, Tools
<1>2. ServiceOf(tool) \in Stamps(ScopesOf(tool))
  <2> DEFINE service == IF tool = "make_payment" THEN "svc:payments" ELSE "svc:transactions"
  <2>1. service \in ScopesOf(tool) /\ service \in Names
    BY DEF ScopesOf, Grants
  <2>2. PICK s \in scopes : s[1] = service
    BY <2>1 DEF Names
  <2>3. PICK i \in 1..6 : s = SCOPES[i]
    BY DEF RealmInv
  <2>4. s[2] = ServiceOf(tool)
    BY <2>2, <2>3 DEF SCOPES, ServiceOf
  <2> QED
    BY <2>1, <2>2, <2>4 DEF Stamps
<1> QED
  BY <1>1, <1>2

-----------------------------------------------------------------------------
(* Types, progress and tokens together                                     *)

\* Nothing is set up, and that is in order.
LEMMA SetupInit == Init => SetupInv
<1> SUFFICES ASSUME Init PROVE SetupInv
  OBVIOUS
<1>1. RealmInv
  BY DEF Init, RealmInv
<1>2. RunTypeOK
  BY RealmBoundsAssumption DEF Init, RunTypeOK
<1>3. ProgressInv
  BY DEF Init, ProgressInv, RunInv
<1>4. TypeOK
  BY <1>1, <1>2, RealmBoundsAssumption, TypeParts DEF Init
<1> QED
  BY <1>1, <1>3, <1>4 DEF Init, SetupInv, TokenInv

\* A step of a run keeps the realm in order, and the runs.
LEMMA RunStepKeeps ==
  ASSUME RunTypeOK, RealmInv, ProgressInv, TypeOK, NEW r \in Runs,
         Start(r) \/ RunStep(r) \/ AdminTokenRetry(r) \/ RunFails(r)
  PROVE  /\ RunTypeOK' /\ RealmInv' /\ ProgressInv'
         /\ UNCHANGED <<logins, tokens>>
         /\ starts' \in 0..MaxStarts /\ faults' \in 0..MaxFaults
<1>0. PICK i \in 1..17 : at[r] = i
  BY DEF RunTypeOK
<1>1. ASSUME UNCHANGED realm PROVE RealmInv' /\ Grows
  BY <1>1 DEF realm, RealmInv, Grows, Names
<1>2. /\ UNCHANGED <<logins, tokens>>
      /\ starts' \in 0..MaxStarts /\ faults' \in 0..MaxFaults
  BY RealmBoundsAssumption
     DEF Start, RunStep, AdminToken, Look, Skip, Call, CallConflicts, AdminTokenRetry,
         RunFails, Failing, TypeOK
<1>3. CASE Start(r) \/ AdminToken(r) \/ Look(r)
  <2>1. UNCHANGED <<realm, at>> /\ \A q \in Runs \ {r} : pc'[q] = pc[q] /\ seen'[q] = seen[q]
    BY <1>3 DEF Start, AdminToken, Look, RunTypeOK
  <2>2. RealmInv' /\ Grows
    BY <1>1, <2>1
  <2>3. CASE Start(r)
    <3>1. RunTypeOK'
      BY <2>3 DEF Start, RunTypeOK
    <3>2. RunInv(r)'
      BY <2>1, <2>2, <2>3, GrowsKeeps DEF Start, RunTypeOK, ProgressInv, RunInv, Running
    <3> QED
      BY <1>2, <2>1, <2>2, <3>1, <3>2, BystandersKeep DEF ProgressInv
  <2>4. CASE AdminToken(r)
    <3>1. RunTypeOK'
      BY <2>4, RealmBoundsAssumption DEF AdminToken, RunTypeOK
    <3>2. RunInv(r)'
      BY <2>1, <2>2, <2>4, GrowsKeeps DEF AdminToken, RunTypeOK, ProgressInv, RunInv
    <3> QED
      BY <1>2, <2>1, <2>2, <3>1, <3>2, BystandersKeep DEF ProgressInv
  <2>5. CASE Look(r)
    <3>1. /\ seen'[r] = Listed(Plan[i][1]) /\ pc'[r] = "call"
          /\ seen' = [seen EXCEPT ![r] = Listed(Plan[i][1])]
          /\ pc' = [pc EXCEPT ![r] = "call"] /\ tries' = tries /\ at' = at
      BY <1>0, <2>5 DEF Look, RunTypeOK
    <3>2. Listed(Plan[i][1]) \subseteq {NameOf(Plan[j]) : j \in 1..17}
      BY ListedIsPlanned
    <3>3. RunTypeOK'
      BY <3>1, <3>2 DEF RunTypeOK
    <3>4. RunInv(r)'
      BY <1>0, <2>1, <2>2, <2>5, <3>1, GrowsKeeps DEF Look, ProgressInv, RunInv
    <3> QED
      BY <1>2, <2>1, <2>2, <3>3, <3>4, BystandersKeep DEF ProgressInv
  <2> QED
    BY <1>3, <2>3, <2>4, <2>5
<1>4. CASE Skip(r)
  <2>1. pc[r] = "call" /\ Advance(r) /\ RealmInv' /\ Grows
    BY <1>1, <1>4 DEF Skip
  <2>2. InRealm(Plan[i])
    BY <1>0, <1>4, <2>1, KnownIsThere DEF Skip
  <2>3. InRealm(Plan[i])'
    BY <2>1, <2>2, GrowsKeeps
  <2> QED
    BY <1>0, <1>2, <2>1, <2>3, AdvanceKeeps
<1>5. CASE Call(r)
  <2>1. pc[r] = "call" /\ Apply(Plan[i]) /\ Advance(r)
    BY <1>0, <1>5 DEF Call
  <2>2. RealmInv' /\ Grows /\ InRealm(Plan[i])'
    BY <1>0, <2>1, ApplyGrows
  <2> QED
    BY <1>0, <1>2, <2>1, <2>2, AdvanceKeeps
<1>6. CASE CallConflicts(r)
  <2>1. RealmInv' /\ Grows /\ Exit(r, "failed")
    BY <1>1, <1>6 DEF CallConflicts
  <2> QED
    BY <1>2, <2>1, ExitKeeps
<1>7. CASE AdminTokenRetry(r)
  <2>1. RealmInv' /\ Grows
    BY <1>1, <1>7 DEF AdminTokenRetry
  <2>2. CASE /\ tries[r] + 1 < MaxTries /\ tries' = [tries EXCEPT ![r] = @ + 1]
             /\ UNCHANGED <<pc, at, seen>>
    <3>1. RunTypeOK'
      BY <2>2, RealmBoundsAssumption DEF RunTypeOK
    <3>2. ProgressInv'
      BY <2>1, <2>2, BystandersKeep DEF ProgressInv
    <3> QED
      BY <1>2, <2>1, <3>1, <3>2
  <2>3. CASE Exit(r, "failed")
    BY <1>2, <2>1, <2>3, ExitKeeps
  <2> QED
    BY <1>7, <2>2, <2>3 DEF AdminTokenRetry
<1>8. CASE RunFails(r)
  <2>1. CASE UNCHANGED realm
    BY <1>1, <1>2, <1>8, <2>1, ExitKeeps DEF RunFails
  <2>2. CASE Apply(Plan[at[r]])
    <3>1. RealmInv' /\ Grows
      BY <1>0, <2>2, ApplyGrows
    <3> QED
      BY <1>2, <1>8, <3>1, ExitKeeps DEF RunFails
  <2> QED
    BY <1>8, <2>1, <2>2 DEF RunFails
<1> QED
  BY <1>3, <1>4, <1>5, <1>6, <1>7, <1>8 DEF RunStep

\* And so after a step.
LEMMA TypePartsNext ==
  RealmInv' =>
    (TypeOK' <=> (/\ RunTypeOK
                  /\ \A l \in logins : l.purpose \in Purposes
                  /\ \A t \in tokens : t.tool \in Tools
                  /\ starts \in 0..MaxStarts
                  /\ faults \in 0..MaxFaults)')
BY TypeParts, PTL

\* No step breaks SetupInv, whichever runs are under way and wherever they fail.
LEMMA SetupStep == SetupInv /\ [Next]_vars => SetupInv'
<1> SUFFICES ASSUME SetupInv, [Next]_vars PROVE SetupInv'
  OBVIOUS
<1>0. TypeOK /\ RealmInv /\ RunTypeOK /\ ProgressInv /\ TokenInv
  BY TypeParts DEF SetupInv
<1>1. ASSUME NEW r \in Runs,
             Start(r) \/ RunStep(r) \/ AdminTokenRetry(r) \/ RunFails(r)
      PROVE  SetupInv'
  <2>1. /\ RunTypeOK' /\ RealmInv' /\ ProgressInv'
        /\ UNCHANGED <<logins, tokens>>
        /\ starts' \in 0..MaxStarts /\ faults' \in 0..MaxFaults
    BY <1>0, <1>1, RunStepKeeps
  <2>2. TokenInv'
    BY <1>0, <2>1 DEF TokenInv, ValidFor
  <2>3. TypeOK'
    BY <2>1, <2>2, TypePartsNext DEF TokenInv
  <2> QED
    BY <2>1, <2>2, <2>3 DEF SetupInv
<1>2. CASE Recreate
  <2>1. RealmInv'
    BY <1>2 DEF Recreate, RealmInv
  <2>2. RunTypeOK'
    BY <1>0, <1>2 DEF Recreate, RunTypeOK
  <2>3. ProgressInv'
    BY <1>0, <1>2 DEF Recreate, RunTypeOK, ProgressInv, RunInv, Running
  <2>4. TokenInv'
    BY <1>0, <1>2 DEF Recreate, TokenInv, ValidFor
  <2>5. starts' \in 0..MaxStarts /\ faults' \in 0..MaxFaults
    BY <1>0, <1>2, RealmBoundsAssumption DEF Recreate, Failing, TypeOK
  <2>6. TypeOK'
    BY <2>1, <2>2, <2>4, <2>5, TypePartsNext DEF TokenInv
  <2> QED
    BY <2>1, <2>3, <2>4, <2>6 DEF SetupInv
<1>3. ASSUME UNCHANGED <<realm, runVars, starts, faults>>, TokenInv' PROVE SetupInv'
  <2>1. RealmInv' /\ RunTypeOK' /\ ProgressInv'
    BY <1>0, <1>3
       DEF realm, runVars, RealmInv, Names, RunTypeOK, ProgressInv, RunInv, InRealm, Listed
  <2>2. TypeOK'
    BY <1>0, <1>3, <2>1, TypePartsNext DEF TokenInv, TypeOK
  <2> QED
    BY <1>3, <2>1, <2>2 DEF SetupInv
<1>4. ASSUME NEW purpose \in Purposes, Login(purpose) PROVE SetupInv'
  <2>1. PICK claim \in Stamps({PurposeScope(purpose)}) :
          logins' = {[purpose |-> purpose, claim |-> claim]}
    BY <1>4 DEF Login
  <2>2. claim = purpose
    BY <1>0, ClaimIsPurpose
  <2>3. UNCHANGED <<realm, runVars, starts, faults>> /\ tokens' = tokens
    BY <1>4 DEF Login
  <2>4. TokenInv'
    BY <1>0, <2>1, <2>2, <2>3 DEF TokenInv, ValidFor
  <2> QED
    BY <1>3, <2>3, <2>4
<1>5. ASSUME NEW l \in logins, NEW tool \in Tools, MintToken(l, tool) PROVE SetupInv'
  <2> DEFINE token == [tool |-> tool, purpose |-> l.purpose,
                       scopes |-> ScopesOf(tool), aud |-> Stamps(ScopesOf(tool))]
  <2>1. /\ tokens' = {token} /\ Grants(ClientOf(tool), ScopesOf(tool))
        /\ UNCHANGED <<realm, runVars, logins, starts, faults>>
    BY <1>5 DEF MintToken
  <2>2. tool = "make_payment" => l.purpose = "readwrite"
    BY <1>0, <1>5 DEF MintToken, Permits, TokenInv
  <2>3. \A other \in Tools : ServiceOf(other) \in token.aud <=> other = tool
    BY <1>0, <2>1, AudienceIsService
  <2>4. \A other \in Tools : ValidFor(token, ServiceOf(other)) <=> other = token.tool
    BY <2>3 DEF ValidFor
  <2>5. token.tool = tool /\ token.scopes = ScopesOf(tool) /\ token.purpose = l.purpose
    OBVIOUS
  <2> HIDE DEF token
  <2>6. TokenInv'
    BY <1>0, <2>1, <2>2, <2>4, <2>5 DEF TokenInv, ValidFor
  <2> QED
    BY <1>3, <2>1, <2>6
<1>6. CASE UNCHANGED vars
  <2>1. UNCHANGED <<realm, runVars, starts, faults>> /\ UNCHANGED <<logins, tokens>>
    BY <1>6 DEF vars
  <2>2. TokenInv'
    BY <1>0, <2>1 DEF TokenInv, ValidFor
  <2> QED
    BY <1>3, <2>1, <2>2
<1> QED
  BY <1>1, <1>2, <1>4, <1>5, <1>6 DEF Next

\* Hence it holds always.
LEMMA SetupInvariant == Spec => []SetupInv
BY SetupInit, SetupStep, PTL DEF Spec

\* Realm, runs, logins and tokens keep their types; an assigned scope exists.
THEOREM TypeCorrect == Spec => []TypeOK
<1>1. SetupInv => TypeOK
  BY DEF SetupInv
<1> QED
  BY <1>1, SetupInvariant, PTL

\* TokensFitTheirTool for any number of runs, starts and faults: a token minted at
\* any moment of the set-up opens its own tool, with its database role, and no other
\* (agent/agent.py:14-15).
THEOREM TokensFit == Spec => []TokensFitTheirTool
<1>1. TokenInv => TokensFitTheirTool
  BY DEF TokenInv, TokensFitTheirTool, Access, may_write, ScopesOf, Tools
<1> QED
  BY <1>1, SetupInvariant, PTL DEF SetupInv

\* CeilingHolds for any number of runs, starts and faults: no read-only login is
\* permitted a payment or got a payment token (init.py:11-15).
THEOREM WriteCeiling == Spec => []CeilingHolds
<1>1. TokenInv => CeilingHolds
  BY DEF TokenInv, CeilingHolds, Permits
<1> QED
  BY <1>1, SetupInvariant, PTL DEF SetupInv

\* DoneIsUsable for any number of runs, starts and faults: when a run has exited with
\* 0 every purpose can log in, a login pays exactly if it is read-write, and both
\* tools get their tokens (docker-compose.yml:127).
THEOREM SetupSuffices == Spec => []DoneIsUsable
<1>1. ASSUME RealmInv, ProgressInv, TokenInv PROVE DoneIsUsable
  <2> SUFFICES ASSUME NEW r \in Runs, pc[r] = "done"
               PROVE  /\ \A purpose \in Purposes : Grants(PORTAL_CLIENT, {PurposeScope(purpose)})
                      /\ \A l \in logins : Permits(l) <=> l.purpose = "readwrite"
                      /\ \A tool \in Tools : Grants(ClientOf(tool), ScopesOf(tool))
    BY DEF DoneIsUsable
  <2>1. \A i \in 1..17 : InRealm(Plan[i])
    BY <1>1 DEF ProgressInv, RunInv
  <2>2. \A i \in 1..6 : SCOPES[i] \in scopes
    BY <2>1, PlanKinds DEF InRealm
  <2>3. \A i \in 1..6 : CLIENT_SCOPES[i] \in assigned
    <3> TAKE i \in 1..6
    <3>1. i + 6 \in 1..17 /\ Plan[i + 6][1] = "assign" /\ Plan[i + 6][2] = CLIENT_SCOPES[i]
      BY PlanKinds
    <3> QED
      BY <2>1, <3>1 DEF InRealm
  <2>4. \A i \in 1..5 : AUTHORIZATION[i] \in authz
    <3> TAKE i \in 1..5
    <3>1. i + 12 \in 1..17 /\ Plan[i + 12][1] = "authz" /\ Plan[i + 12][2] = AUTHORIZATION[i]
      BY PlanKinds
    <3> QED
      BY <2>1, <3>1 DEF InRealm
  <2>5. {"finance:read", "finance:write", "svc:transactions", "svc:payments",
         "purpose:read", "purpose:readwrite"} \subseteq Names
    <3>1. \A i \in 1..6 : SCOPES[i][1] \in Names
      BY <2>2 DEF Names
    <3> QED
      BY <3>1 DEF SCOPES
  <2>6. {<<TX_CLIENT, "finance:read">>, <<TX_CLIENT, "svc:transactions">>,
         <<PAY_CLIENT, "finance:write">>, <<PAY_CLIENT, "svc:payments">>,
         <<PORTAL_CLIENT, "purpose:read">>, <<PORTAL_CLIENT, "purpose:readwrite">>}
          \subseteq assigned
    BY <2>3 DEF CLIENT_SCOPES
  <2>7. \A purpose \in Purposes : Grants(PORTAL_CLIENT, {PurposeScope(purpose)})
    BY <2>5, <2>6 DEF Purposes, PurposeScope, Grants
  <2>8. \A tool \in Tools : Grants(ClientOf(tool), ScopesOf(tool))
    BY <2>5, <2>6 DEF Tools, ClientOf, ScopesOf, Grants
  <2>9. \A l \in logins : Permits(l) <=> l.purpose = "readwrite"
    BY <1>1, <2>4, Lengths DEF TokenInv, Permits
  <2> QED
    BY <2>7, <2>8, <2>9
<1>2. SetupInv => DoneIsUsable
  BY <1>1 DEF SetupInv
<1> QED
  BY <1>2, SetupInvariant, PTL
=============================================================================
