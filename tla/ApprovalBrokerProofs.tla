------------------------- MODULE ApprovalBrokerProofs -------------------------
(***************************************************************************)
(* What ApprovalBroker guarantees for any sessions, requests and deciders, *)
(* restarted with and without AUTO_APPROVE.                                *)
(***************************************************************************)
EXTENDS ApprovalBroker, TLAPS

\* A decision in flight is about a request; once its thread has assigned the
\* verdict, the request has one.
DecisionInFlight ==
  \A d \in Deciders :
    dpc[d] # "idle" =>
      /\ target[d] \in Requests
      /\ dpc[d] \in {"signal", "confirm"} => approved[target[d]] # "None"

TypeInv == TypeOK /\ DecisionInFlight

\* TypeInv holds at the start.
LEMMA TypeInit == Init => TypeInv
BY RequestsAssumption, MaxRestartsAssumption
   DEF Init, TypeInv, TypeOK, DecisionInFlight, RequestSteps, Replies, DecisionSteps,
       Verdicts, Switch

\* No step, of a thread, a user, an approver or a restart, breaks TypeInv.
LEMMA TypeStep == TypeInv /\ [Next]_vars => TypeInv'
<1> SUFFICES ASSUME TypeInv, [Next]_vars PROVE TypeInv'
  OBVIOUS
<1> USE RequestsAssumption, MaxRestartsAssumption
    DEF TypeInv, TypeOK, DecisionInFlight, RequestSteps, Replies, DecisionSteps,
        Verdicts, Switch, processVars, requestVars, decisionVars
<1>1. ASSUME NEW s \in Sessions, CreateSession(s) PROVE TypeInv'
  BY <1>1 DEF CreateSession
<1>2. ASSUME NEW s \in Sessions, EndSession(s) PROVE TypeInv'
  BY <1>2 DEF EndSession
<1>3. ASSUME NEW s \in Sessions, UserTokenExpires(s) PROVE TypeInv'
  BY <1>3 DEF UserTokenExpires
<1>4. ASSUME NEW s \in Sessions, NEW tool \in Tools, IssueToken(s, tool) PROVE TypeInv'
  BY <1>4 DEF IssueToken, MintedFor
<1>5. ASSUME NEW r \in Requests, Receive(r) PROVE TypeInv'
  BY <1>5 DEF Receive, Goto, Answer
<1>6. ASSUME NEW r \in Requests, SessionMayPay(r) PROVE TypeInv'
  BY <1>6 DEF SessionMayPay, Goto, Answer
<1>7. ASSUME NEW r \in Requests, Propose(r) PROVE TypeInv'
  BY <1>7 DEF Propose, Goto, Items
<1>8. ASSUME NEW r \in Requests, Wake(r) PROVE TypeInv'
  BY <1>8 DEF Wake, Goto
<1>9. ASSUME NEW r \in Requests, Pop(r) PROVE TypeInv'
  BY <1>9 DEF Pop, Goto
<1>10. ASSUME NEW r \in Requests, ReadInTime(r) PROVE TypeInv'
  BY <1>10 DEF ReadInTime, Goto, Answer
<1>11. ASSUME NEW r \in Requests, ReadVerdict(r) PROVE TypeInv'
  BY <1>11 DEF ReadVerdict, Goto, Answer
<1>12. ASSUME NEW r \in Requests, RecordApproval(r) PROVE TypeInv'
  BY <1>12 DEF RecordApproval, Goto, Answer
<1>13. ASSUME NEW r \in Requests, Mint(r) PROVE TypeInv'
  BY <1>13 DEF Mint, MintedFor, Answer, Tools
<1>14. ASSUME NEW d \in Deciders, ListPending(d) PROVE TypeInv'
  BY <1>14 DEF ListPending, Items
<1>15. ASSUME NEW d \in Deciders, NEW item \in Items, NEW v \in Verdicts,
              SendDecision(d, item, v)
       PROVE TypeInv'
  BY <1>15 DEF SendDecision, Items, Public
<1>16. ASSUME NEW d \in Deciders, GetPending(d) PROVE TypeInv'
  BY <1>16 DEF GetPending, DecisionGoto, DecisionEnd
<1>17. ASSUME NEW d \in Deciders, TestDecided(d) PROVE TypeInv'
  BY <1>17 DEF TestDecided, DecisionGoto, DecisionEnd
<1>18. ASSUME NEW d \in Deciders, AssignVerdict(d) PROVE TypeInv'
  BY <1>18 DEF AssignVerdict, DecisionGoto
<1>19. ASSUME NEW d \in Deciders, SignalDecided(d) PROVE TypeInv'
  BY <1>19 DEF SignalDecided, DecisionGoto
<1>20. ASSUME NEW d \in Deciders, ConfirmDecision(d) PROVE TypeInv'
  BY <1>20 DEF ConfirmDecision, DecisionEnd
<1>21. CASE Restart
  BY <1>21 DEF Restart, InFlight
<1>22. CASE UNCHANGED vars
  BY <1>22 DEF vars
<1> QED
  BY <1>1, <1>2, <1>3, <1>4, <1>5, <1>6, <1>7, <1>8, <1>9, <1>10, <1>11, <1>12,
     <1>13, <1>14, <1>15, <1>16, <1>17, <1>18, <1>19, <1>20, <1>21, <1>22
     DEF Next, SessionStep, PaymentThread, DeciderStep, DecisionThread

\* Every variable of the broker keeps its type.
THEOREM TypeCorrect == Spec => []TypeOK
<1>1. Spec => []TypeInv
  BY TypeInit, TypeStep, PTL DEF Spec
<1>2. TypeInv => TypeOK
  BY DEF TypeInv
<1> QED
  BY <1>1, <1>2, PTL

-----------------------------------------------------------------------------
(* Consent                                                                 *)

\* Somebody sent an approval of r, having been shown r, or AUTO_APPROVE did.
Consented(r) == [item |-> Public(r), approve |-> "True"] \in cast

\* Where consent is on its way to the row: a decision in flight was cast, a
\* verdict was somebody's vote, a thread about to record was approved when it
\* read its verdict (it may have been overwritten since), and so was each row.
ConsentInv ==
  /\ \A d \in Deciders :
       dpc[d] # "idle" =>
         [item |-> Public(target[d]), approve |-> vote[d]] \in cast
  /\ \A r \in Requests : approved[r] = "True" => Consented(r)
  /\ \A r \in Requests : pc[r] = "record" => Consented(r)
  /\ \A r \in Requests : ApprovalRow(r) \in approvals => Consented(r)

\* No step breaks ConsentInv: a verdict moves on only where its consent was cast.
LEMMA ConsentStep == TypeInv /\ ConsentInv /\ [Next]_vars => ConsentInv'
<1> SUFFICES ASSUME TypeInv, ConsentInv, [Next]_vars PROVE ConsentInv'
  OBVIOUS
<1> USE DEF TypeInv, TypeOK, DecisionInFlight, processVars, requestVars, decisionVars, ConsentInv,
        Consented, Public, ApprovalRow
<1>1. ASSUME NEW s \in Sessions, CreateSession(s) PROVE ConsentInv'
  BY <1>1 DEF CreateSession
<1>2. ASSUME NEW s \in Sessions, EndSession(s) PROVE ConsentInv'
  BY <1>2 DEF EndSession
<1>3. ASSUME NEW s \in Sessions, UserTokenExpires(s) PROVE ConsentInv'
  BY <1>3 DEF UserTokenExpires
<1>4. ASSUME NEW s \in Sessions, NEW tool \in Tools, IssueToken(s, tool)
        PROVE ConsentInv'
  BY <1>4 DEF IssueToken, MintedFor
<1>5. ASSUME NEW r \in Requests, Receive(r) PROVE ConsentInv'
  BY <1>5 DEF Receive, Goto, Answer
<1>6. ASSUME NEW r \in Requests, SessionMayPay(r) PROVE ConsentInv'
  BY <1>6 DEF SessionMayPay, Goto, Answer
<1>7. ASSUME NEW r \in Requests, Propose(r) PROVE ConsentInv'
  BY <1>7 DEF Propose, Goto
<1>8. ASSUME NEW r \in Requests, Wake(r) PROVE ConsentInv'
  BY <1>8 DEF Wake, Goto
<1>9. ASSUME NEW r \in Requests, Pop(r) PROVE ConsentInv'
  BY <1>9 DEF Pop, Goto
<1>10. ASSUME NEW r \in Requests, ReadInTime(r) PROVE ConsentInv'
  BY <1>10 DEF ReadInTime, Goto, Answer
<1>11. ASSUME NEW r \in Requests, ReadVerdict(r) PROVE ConsentInv'
  BY <1>11 DEF ReadVerdict, Goto, Answer
<1>12. ASSUME NEW r \in Requests, RecordApproval(r) PROVE ConsentInv'
  BY <1>12 DEF RecordApproval, Goto, Answer
<1>13. ASSUME NEW r \in Requests, Mint(r) PROVE ConsentInv'
  BY <1>13 DEF Mint, MintedFor, Answer
<1>14. ASSUME NEW d \in Deciders, ListPending(d) PROVE ConsentInv'
  BY <1>14 DEF ListPending
<1>15. ASSUME NEW d \in Deciders, NEW item \in Items, NEW v \in Verdicts, SendDecision(d, item, v)
        PROVE ConsentInv'
  BY <1>15 DEF SendDecision, Items, Public
<1>16. ASSUME NEW d \in Deciders, GetPending(d) PROVE ConsentInv'
  BY <1>16 DEF GetPending, DecisionGoto, DecisionEnd
<1>17. ASSUME NEW d \in Deciders, TestDecided(d) PROVE ConsentInv'
  BY <1>17 DEF TestDecided, DecisionGoto, DecisionEnd
<1>18. ASSUME NEW d \in Deciders, AssignVerdict(d) PROVE ConsentInv'
  BY <1>18 DEF AssignVerdict, DecisionGoto
<1>19. ASSUME NEW d \in Deciders, SignalDecided(d) PROVE ConsentInv'
  BY <1>19 DEF SignalDecided, DecisionGoto
<1>20. ASSUME NEW d \in Deciders, ConfirmDecision(d) PROVE ConsentInv'
  BY <1>20 DEF ConfirmDecision, DecisionEnd
<1>21. CASE Restart
  BY <1>21 DEF Restart, InFlight
<1>22. CASE UNCHANGED vars
  BY <1>22 DEF vars
<1> QED
  BY <1>1, <1>2, <1>3, <1>4, <1>5, <1>6, <1>7, <1>8, <1>9, <1>10, <1>11, <1>12,
     <1>13, <1>14, <1>15, <1>16, <1>17, <1>18, <1>19, <1>20, <1>21, <1>22
     DEF Next, SessionStep, PaymentThread, DeciderStep, DecisionThread

\* RecordedWithConsent for every number of sessions, requests and deciders.
THEOREM ConsentBeforeRow == Spec => []RecordedWithConsent
<1>1. Init => ConsentInv
  BY DEF Init, ConsentInv
<1>2. Spec => []TypeInv
  BY TypeInit, TypeStep, PTL DEF Spec
<1>3. Spec => []ConsentInv
  BY <1>1, <1>2, ConsentStep, PTL DEF Spec
<1>4. TypeInv /\ ConsentInv => RecordedWithConsent
  BY DEF TypeInv, TypeOK, ConsentInv, Consented, RecordedWithConsent, Public, ApprovalRow
<1> QED
  BY <1>2, <1>3, <1>4, PTL

-----------------------------------------------------------------------------
(* Answers, rows and tokens                                                *)

\* A request has no reply until its thread is done, a row only once its thread
\* is about to mint, and no write token before that; a thread past the policy
\* check belongs to a session that may pay.
AnswerInv ==
  /\ \A r \in Requests : pc[r] # "done" => reply[r] = "none"
  /\ \A r \in Requests : pc[r] = "mint" => ApprovalRow(r) \in approvals
  /\ \A r \in Requests :
       ApprovalRow(r) \in approvals =>
         /\ pc[r] \in {"mint", "done"}
         /\ reply[r] \in {"none", "mint_failed", "internal_error", "granted", "lost"}
         /\ r.session.purpose # "read"
  /\ \A r \in Requests :
       pc[r] \in {"propose", "wait", "pop", "read", "reread", "record", "mint"}
         => r.session.purpose = "readwrite"
  /\ \A t \in tokens :
       t.tool = "make_payment" =>
         /\ t.approval \in Requests
         /\ ApprovalRow(t.approval) \in approvals
         /\ t.session = t.approval.session

\* No step breaks AnswerInv: reply, row and token follow the thread's progress.
LEMMA AnswerStep == TypeInv /\ AnswerInv /\ [Next]_vars => AnswerInv'
<1> SUFFICES ASSUME TypeInv, AnswerInv, [Next]_vars PROVE AnswerInv'
  OBVIOUS
<1> USE DEF TypeInv, TypeOK, DecisionInFlight, processVars, requestVars, decisionVars, AnswerInv,
        ApprovalRow, Tools
<1>1. ASSUME NEW s \in Sessions, CreateSession(s) PROVE AnswerInv'
  BY <1>1 DEF CreateSession
<1>2. ASSUME NEW s \in Sessions, EndSession(s) PROVE AnswerInv'
  BY <1>2 DEF EndSession
<1>3. ASSUME NEW s \in Sessions, UserTokenExpires(s) PROVE AnswerInv'
  BY <1>3 DEF UserTokenExpires
<1>4. ASSUME NEW s \in Sessions, NEW tool \in Tools, IssueToken(s, tool)
        PROVE AnswerInv'
  BY <1>4 DEF IssueToken, MintedFor
<1>5. ASSUME NEW r \in Requests, Receive(r) PROVE AnswerInv'
  BY <1>5 DEF Receive, Goto, Answer
<1>6. ASSUME NEW r \in Requests, SessionMayPay(r) PROVE AnswerInv'
  BY <1>6 DEF SessionMayPay, Goto, Answer
<1>7. ASSUME NEW r \in Requests, Propose(r) PROVE AnswerInv'
  BY <1>7 DEF Propose, Goto
<1>8. ASSUME NEW r \in Requests, Wake(r) PROVE AnswerInv'
  BY <1>8 DEF Wake, Goto
<1>9. ASSUME NEW r \in Requests, Pop(r) PROVE AnswerInv'
  BY <1>9 DEF Pop, Goto
<1>10. ASSUME NEW r \in Requests, ReadInTime(r) PROVE AnswerInv'
  BY <1>10 DEF ReadInTime, Goto, Answer
<1>11. ASSUME NEW r \in Requests, ReadVerdict(r) PROVE AnswerInv'
  BY <1>11 DEF ReadVerdict, Goto, Answer
<1>12. ASSUME NEW r \in Requests, RecordApproval(r) PROVE AnswerInv'
  BY <1>12 DEF RecordApproval, Goto, Answer
<1>13. ASSUME NEW r \in Requests, Mint(r) PROVE AnswerInv'
  BY <1>13 DEF Mint, MintedFor, Answer
<1>14. ASSUME NEW d \in Deciders, ListPending(d) PROVE AnswerInv'
  BY <1>14 DEF ListPending
<1>15. ASSUME NEW d \in Deciders, NEW item \in Items, NEW v \in Verdicts, SendDecision(d, item, v)
        PROVE AnswerInv'
  BY <1>15 DEF SendDecision, Items, Public
<1>16. ASSUME NEW d \in Deciders, GetPending(d) PROVE AnswerInv'
  BY <1>16 DEF GetPending, DecisionGoto, DecisionEnd
<1>17. ASSUME NEW d \in Deciders, TestDecided(d) PROVE AnswerInv'
  BY <1>17 DEF TestDecided, DecisionGoto, DecisionEnd
<1>18. ASSUME NEW d \in Deciders, AssignVerdict(d) PROVE AnswerInv'
  BY <1>18 DEF AssignVerdict, DecisionGoto
<1>19. ASSUME NEW d \in Deciders, SignalDecided(d) PROVE AnswerInv'
  BY <1>19 DEF SignalDecided, DecisionGoto
<1>20. ASSUME NEW d \in Deciders, ConfirmDecision(d) PROVE AnswerInv'
  BY <1>20 DEF ConfirmDecision, DecisionEnd
<1>21. CASE Restart
  BY <1>21 DEF Restart, InFlight
<1>22. CASE UNCHANGED vars
  BY <1>22 DEF vars
<1> QED
  BY <1>1, <1>2, <1>3, <1>4, <1>5, <1>6, <1>7, <1>8, <1>9, <1>10, <1>11, <1>12,
     <1>13, <1>14, <1>15, <1>16, <1>17, <1>18, <1>19, <1>20, <1>21, <1>22
     DEF Next, SessionStep, PaymentThread, DeciderStep, DecisionThread

\* Hence both hold always.
LEMMA AnswerInvariant == Spec => [](TypeInv /\ AnswerInv)
<1>1. Init => AnswerInv
  BY DEF Init, AnswerInv
<1>2. Spec => []TypeInv
  BY TypeInit, TypeStep, PTL DEF Spec
<1> QED
  BY <1>1, <1>2, AnswerStep, PTL DEF Spec

\* RefusedNeverRecorded for every instance.
THEOREM RefusalIsFinal == Spec => []RefusedNeverRecorded
<1>1. AnswerInv => RefusedNeverRecorded
  BY DEF AnswerInv, RefusedNeverRecorded
<1> QED
  BY <1>1, AnswerInvariant, PTL

\* WriteTokenHasApproval for every instance.
THEOREM TokensAreBacked == Spec => []WriteTokenHasApproval
<1>1. TypeInv /\ AnswerInv => WriteTokenHasApproval
  BY DEF TypeInv, TypeOK, AnswerInv, WriteTokenHasApproval, ApprovalRow
<1> QED
  BY <1>1, AnswerInvariant, PTL

\* ReadOnlySessionNeverPays for every instance.
THEOREM ReadOnlyCeiling == Spec => []ReadOnlySessionNeverPays
<1>1. AnswerInv => ReadOnlySessionNeverPays
  BY DEF AnswerInv, ReadOnlySessionNeverPays
<1> QED
  BY <1>1, AnswerInvariant, PTL

-----------------------------------------------------------------------------
(* The event and the dict                                                  *)

WaitInv == EventPublishesVerdict /\ PendingIsWaiting

\* No step breaks WaitInv: AssignVerdict comes before SignalDecided, and every way out
\* of the wait goes through Pop, or ends the process and its _PENDING.
LEMMA WaitStep == TypeInv /\ WaitInv /\ [Next]_vars => WaitInv'
<1> SUFFICES ASSUME TypeInv, WaitInv, [Next]_vars PROVE WaitInv'
  OBVIOUS
<1> USE DEF TypeInv, TypeOK, DecisionInFlight, processVars, requestVars, decisionVars, WaitInv,
        EventPublishesVerdict, PendingIsWaiting, Verdicts
<1>1. ASSUME NEW s \in Sessions, CreateSession(s) PROVE WaitInv'
  BY <1>1 DEF CreateSession
<1>2. ASSUME NEW s \in Sessions, EndSession(s) PROVE WaitInv'
  BY <1>2 DEF EndSession
<1>3. ASSUME NEW s \in Sessions, UserTokenExpires(s) PROVE WaitInv'
  BY <1>3 DEF UserTokenExpires
<1>4. ASSUME NEW s \in Sessions, NEW tool \in Tools, IssueToken(s, tool) PROVE WaitInv'
  BY <1>4 DEF IssueToken, MintedFor
<1>5. ASSUME NEW r \in Requests, Receive(r) PROVE WaitInv'
  BY <1>5 DEF Receive, Goto, Answer
<1>6. ASSUME NEW r \in Requests, SessionMayPay(r) PROVE WaitInv'
  BY <1>6 DEF SessionMayPay, Goto, Answer
<1>7. ASSUME NEW r \in Requests, Propose(r) PROVE WaitInv'
  BY <1>7 DEF Propose, Goto
<1>8. ASSUME NEW r \in Requests, Wake(r) PROVE WaitInv'
  BY <1>8 DEF Wake, Goto
<1>9. ASSUME NEW r \in Requests, Pop(r) PROVE WaitInv'
  BY <1>9 DEF Pop, Goto
<1>10. ASSUME NEW r \in Requests, ReadInTime(r) PROVE WaitInv'
  BY <1>10 DEF ReadInTime, Goto, Answer
<1>11. ASSUME NEW r \in Requests, ReadVerdict(r) PROVE WaitInv'
  BY <1>11 DEF ReadVerdict, Goto, Answer
<1>12. ASSUME NEW r \in Requests, RecordApproval(r) PROVE WaitInv'
  BY <1>12 DEF RecordApproval, Goto, Answer
<1>13. ASSUME NEW r \in Requests, Mint(r) PROVE WaitInv'
  BY <1>13 DEF Mint, MintedFor, Answer
<1>14. ASSUME NEW d \in Deciders, ListPending(d) PROVE WaitInv'
  BY <1>14 DEF ListPending
<1>15. ASSUME NEW d \in Deciders, NEW item \in Items, NEW v \in Verdicts, SendDecision(d, item, v)
        PROVE WaitInv'
  BY <1>15 DEF SendDecision, Items, Public
<1>16. ASSUME NEW d \in Deciders, GetPending(d) PROVE WaitInv'
  BY <1>16 DEF GetPending, DecisionGoto, DecisionEnd
<1>17. ASSUME NEW d \in Deciders, TestDecided(d) PROVE WaitInv'
  BY <1>17 DEF TestDecided, DecisionGoto, DecisionEnd
<1>18. ASSUME NEW d \in Deciders, AssignVerdict(d) PROVE WaitInv'
  BY <1>18 DEF AssignVerdict, DecisionGoto
<1>19. ASSUME NEW d \in Deciders, SignalDecided(d) PROVE WaitInv'
  BY <1>19 DEF SignalDecided, DecisionGoto
<1>20. ASSUME NEW d \in Deciders, ConfirmDecision(d) PROVE WaitInv'
  BY <1>20 DEF ConfirmDecision, DecisionEnd
<1>21. CASE Restart
  BY <1>21 DEF Restart, InFlight
<1>22. CASE UNCHANGED vars
  BY <1>22 DEF vars
<1> QED
  BY <1>1, <1>2, <1>3, <1>4, <1>5, <1>6, <1>7, <1>8, <1>9, <1>10, <1>11, <1>12,
     <1>13, <1>14, <1>15, <1>16, <1>17, <1>18, <1>19, <1>20, <1>21, <1>22
     DEF Next, SessionStep, PaymentThread, DeciderStep, DecisionThread

\* Hence it holds always.
LEMMA WaitInvariant == Spec => []WaitInv
<1>1. Init => WaitInv
  BY DEF Init, WaitInv, EventPublishesVerdict, PendingIsWaiting
<1>2. Spec => []TypeInv
  BY TypeInit, TypeStep, PTL DEF Spec
<1> QED
  BY <1>1, <1>2, WaitStep, PTL DEF Spec

\* EventPublishesVerdict for every instance: the event is set only after the
\* verdict it announces (broker.py:200-201), restarts included.
THEOREM WakingIsSound == Spec => []EventPublishesVerdict
<1>1. WaitInv => EventPublishesVerdict
  BY DEF WaitInv
<1> QED
  BY <1>1, WaitInvariant, PTL

\* PendingIsWaiting for every instance: _PENDING holds the requests whose thread
\* still waits, and never one that was answered (broker.py:302-307).
THEOREM NothingLeftPending == Spec => []PendingIsWaiting
<1>1. WaitInv => PendingIsWaiting
  BY DEF WaitInv
<1> QED
  BY <1>1, WaitInvariant, PTL

-----------------------------------------------------------------------------
(* One approver                                                            *)

\* At most one client of /approvals decides: what DenialIsFinal needs, since two
\* overwrite each other's verdict (broker_two_approvers).
OneDecider == \A d, e \in Deciders : d = e

\* The threads that have yet to offer their payment to anybody.
Unoffered == {r \in Requests : pc[r] \in {"new", "policy", "propose"}}

\* With one decider a verdict is assigned once: it is assigned only to a request
\* that was offered and has none, and a request whose event is not set has a
\* verdict only while its decision is about to set it, or when nobody can find it
\* in _PENDING any more.  What was told and what was recorded therefore agree with
\* the verdict as it stands.
VerdictInv ==
  /\ \A r \in Unoffered : approved[r] = "None" /\ r \notin decided
  /\ \A d \in Deciders :
       dpc[d] \in {"test", "assign", "signal", "confirm"} => target[d] \notin Unoffered
  /\ \A r \in pending :
       approved[r] # "None" =>
         r \in decided \/ \E d \in Deciders : dpc[d] = "signal" /\ target[d] = r
  /\ \A d \in Deciders :
       /\ dpc[d] = "test" /\ target[d] \notin decided => approved[target[d]] = "None"
       /\ dpc[d] = "assign" => target[d] \notin decided /\ approved[target[d]] = "None"
       /\ dpc[d] = "confirm" => target[d] \in decided
  /\ \A t \in told : t.id \in decided /\ approved[t.id] = t.approved
  /\ \A r \in Requests :
       pc[r] = "record" \/ ApprovalRow(r) \in approvals => approved[r] = "True"
  /\ \A t \in tokens : t.approval \in Requests => t.tool = "make_payment"

\* With one decider no step breaks VerdictInv: between its test of the event and its
\* assignment nobody else can decide the request.
LEMMA VerdictStep ==
  OneDecider /\ TypeInv /\ WaitInv /\ VerdictInv /\ [Next]_vars => VerdictInv'
<1> SUFFICES ASSUME OneDecider, TypeInv, WaitInv, VerdictInv, [Next]_vars PROVE VerdictInv'
  OBVIOUS
<1> USE NoRequestAssumption
    DEF OneDecider, TypeInv, TypeOK, DecisionInFlight, processVars, requestVars, decisionVars,
        WaitInv, EventPublishesVerdict, PendingIsWaiting, Verdicts, VerdictInv, Unoffered,
        ApprovalRow
<1>1. ASSUME NEW s \in Sessions, CreateSession(s) PROVE VerdictInv'
  BY <1>1 DEF CreateSession
<1>2. ASSUME NEW s \in Sessions, EndSession(s) PROVE VerdictInv'
  BY <1>2 DEF EndSession
<1>3. ASSUME NEW s \in Sessions, UserTokenExpires(s) PROVE VerdictInv'
  BY <1>3 DEF UserTokenExpires
<1>4. ASSUME NEW s \in Sessions, NEW tool \in Tools, IssueToken(s, tool) PROVE VerdictInv'
  BY <1>4 DEF IssueToken, MintedFor
<1>5. ASSUME NEW r \in Requests, Receive(r) PROVE VerdictInv'
  BY <1>5 DEF Receive, Goto, Answer
<1>6. ASSUME NEW r \in Requests, SessionMayPay(r) PROVE VerdictInv'
  BY <1>6 DEF SessionMayPay, Goto, Answer
<1>7. ASSUME NEW r \in Requests, Propose(r) PROVE VerdictInv'
  BY <1>7 DEF Propose, Goto
<1>8. ASSUME NEW r \in Requests, Wake(r) PROVE VerdictInv'
  BY <1>8 DEF Wake, Goto
<1>9. ASSUME NEW r \in Requests, Pop(r) PROVE VerdictInv'
  BY <1>9 DEF Pop, Goto
<1>10. ASSUME NEW r \in Requests, ReadInTime(r) PROVE VerdictInv'
  BY <1>10 DEF ReadInTime, Goto, Answer
<1>11. ASSUME NEW r \in Requests, ReadVerdict(r) PROVE VerdictInv'
  BY <1>11 DEF ReadVerdict, Goto, Answer
<1>12. ASSUME NEW r \in Requests, RecordApproval(r) PROVE VerdictInv'
  BY <1>12 DEF RecordApproval, Goto, Answer
<1>13. ASSUME NEW r \in Requests, Mint(r) PROVE VerdictInv'
  BY <1>13 DEF Mint, MintedFor, Answer
<1>14. ASSUME NEW d \in Deciders, ListPending(d) PROVE VerdictInv'
  BY <1>14 DEF ListPending
<1>15. ASSUME NEW d \in Deciders, NEW item \in Items, NEW v \in Verdicts, SendDecision(d, item, v)
        PROVE VerdictInv'
  BY <1>15 DEF SendDecision, Items, Public
<1>16. ASSUME NEW d \in Deciders, GetPending(d) PROVE VerdictInv'
  BY <1>16 DEF GetPending, DecisionGoto, DecisionEnd
<1>17. ASSUME NEW d \in Deciders, TestDecided(d) PROVE VerdictInv'
  BY <1>17 DEF TestDecided, DecisionGoto, DecisionEnd
<1>18. ASSUME NEW d \in Deciders, AssignVerdict(d) PROVE VerdictInv'
  BY <1>18 DEF AssignVerdict, DecisionGoto
<1>19. ASSUME NEW d \in Deciders, SignalDecided(d) PROVE VerdictInv'
  BY <1>19 DEF SignalDecided, DecisionGoto
<1>20. ASSUME NEW d \in Deciders, ConfirmDecision(d) PROVE VerdictInv'
  BY <1>20 DEF ConfirmDecision, DecisionEnd
<1>21. CASE Restart
  BY <1>21 DEF Restart, InFlight
<1>22. CASE UNCHANGED vars
  BY <1>22 DEF vars
<1> QED
  BY <1>1, <1>2, <1>3, <1>4, <1>5, <1>6, <1>7, <1>8, <1>9, <1>10, <1>11, <1>12,
     <1>13, <1>14, <1>15, <1>16, <1>17, <1>18, <1>19, <1>20, <1>21, <1>22
     DEF Next, SessionStep, PaymentThread, DeciderStep, DecisionThread

\* DenialIsFinal for every instance with one approver: once the broker confirmed a
\* denial (broker.py:201-203), no thread records or mints for that payment.
THEOREM DenialByOneIsFinal == OneDecider => (Spec => []DenialIsFinal)
<1> SUFFICES ASSUME OneDecider PROVE Spec => []DenialIsFinal
  OBVIOUS
<1>1. Init => VerdictInv
  BY DEF Init, VerdictInv, Unoffered
<1>2. Spec => [](TypeInv /\ AnswerInv)
  BY AnswerInvariant
<1>3. TypeInv /\ WaitInv /\ VerdictInv /\ [Next]_vars => VerdictInv'
  BY VerdictStep
<1>4. Spec => []VerdictInv
  BY <1>1, <1>2, <1>3, WaitInvariant, PTL DEF Spec
<1>5. TypeInv /\ AnswerInv /\ VerdictInv => DenialIsFinal
  <2> SUFFICES ASSUME TypeInv, AnswerInv, VerdictInv, NEW t \in told, t.approved = "False"
               PROVE  /\ \A row \in approvals : row.id # t.id
                      /\ \A token \in tokens : token.approval # t.id
    BY DEF DenialIsFinal
  <2>1. t.id \in Requests /\ ApprovalRow(t.id) \notin approvals
    BY DEF TypeInv, TypeOK, VerdictInv
  <2>2. ASSUME NEW row \in approvals PROVE row.id # t.id
    <3>1. PICK r \in Requests : row = ApprovalRow(r)
      BY DEF TypeInv, TypeOK
    <3> QED
      BY <2>1, <3>1 DEF ApprovalRow
  <2>3. ASSUME NEW token \in tokens PROVE token.approval # t.id
    BY <2>1 DEF AnswerInv, VerdictInv
  <2> QED
    BY <2>2, <2>3
<1> QED
  BY <1>2, <1>4, <1>5, PTL

-----------------------------------------------------------------------------
(* The broker implements PaymentConsent                                    *)

\* The ids of a set of rows, and of the approvals among a set of decisions, when
\* one is added.
LEMMA IdsOfAdded ==
  ASSUME NEW S, NEW x
  PROVE  {e.id : e \in S \cup {x}} = {e.id : e \in S} \cup {x.id}
BY Zenon

\* One decision more adds its id if it is an approval.
LEMMA ApprovedOfAdded ==
  ASSUME NEW S, NEW x
  PROVE  {c.item.id : c \in {b \in S \cup {x} : b.approve = "True"}}
           = {c.item.id : c \in {b \in S : b.approve = "True"}}
               \cup (IF x.approve = "True" THEN {x.item.id} ELSE {})
BY Zenon

\* A step that touches no decision sent, no row and no reply is a stutter.
LEMMA Stutter == UNCHANGED <<cast, approvals, reply>> => UNCHANGED Consent!vars
BY DEF Consent!vars, Outcome

\* An answer is Consent!Grant when it is "granted" and Consent!Fail otherwise.
LEMMA ConsentAnswer ==
  ASSUME TypeInv, AnswerInv, NEW r \in Requests, pc[r] # "done",
         NEW a \in Replies \ {"none"}, Answer(r, a),
         a = "granted" => ApprovalRow(r) \in approvals,
         UNCHANGED <<cast, approvals>>
  PROVE  Consent!Next
<1>1. reply[r] = "none" /\ reply' = [reply EXCEPT ![r] = a]
  BY DEF AnswerInv, Answer
<1>2. Outcome(r) = "open"
  BY <1>1 DEF Outcome
<1>3. \A q \in Requests : q # r => Outcome(q)' = Outcome(q)
  BY <1>1 DEF Outcome, TypeInv, TypeOK
<1>4. CASE a = "granted"
  <2>1. Outcome(r)' = "granted"
    BY <1>1, <1>4 DEF Outcome, TypeInv, TypeOK
  <2>2. r \in {row.id : row \in approvals}
    BY <1>4 DEF ApprovalRow
  <2>3. Consent!Grant(r)
    BY <1>2, <1>3, <2>1, <2>2 DEF Consent!Grant
  <2> QED
    BY <2>3 DEF Consent!Next
<1>5. CASE a # "granted"
  <2>1. Outcome(r)' = "failed"
    BY <1>1, <1>5 DEF Outcome, TypeInv, TypeOK
  <2>2. Consent!Fail({r})
    BY <1>2, <1>3, <2>1 DEF Consent!Fail
  <2> QED
    BY <2>2 DEF Consent!Next
<1> QED
  BY <1>4, <1>5

\* A broker that just started has no consent, no row and no outcome.
LEMMA RefinementInit == Init => Consent!Init
BY DEF Init, Consent!Init, Outcome

\* Each step of the broker is a step of PaymentConsent or a stutter.
LEMMA RefinementStep ==
  TypeInv /\ ConsentInv /\ AnswerInv /\ [Next]_vars => [Consent!Next]_(Consent!vars)
<1> SUFFICES ASSUME TypeInv, ConsentInv, AnswerInv, [Next]_vars
             PROVE  Consent!Next \/ UNCHANGED Consent!vars
  OBVIOUS
<1> USE DEF processVars, requestVars, decisionVars
<1>1. ASSUME NEW s \in Sessions, SessionStep(s) PROVE UNCHANGED Consent!vars
  BY <1>1, Stutter
     DEF SessionStep, CreateSession, EndSession, UserTokenExpires, IssueToken
<1>2. ASSUME NEW r \in Requests, Receive(r) \/ PaymentThread(r)
      PROVE  Consent!Next \/ UNCHANGED Consent!vars
  <2>1. CASE Receive(r)
    <3>1. pc[r] # "done" /\ UNCHANGED <<cast, approvals>>
      BY <2>1 DEF Receive
    <3>2. \/ UNCHANGED reply
          \/ \E a \in {"bad_request", "unknown_session", "internal_error"} : Answer(r, a)
      BY <2>1 DEF Receive, Goto
    <3> QED
      BY <3>1, <3>2, Stutter, ConsentAnswer DEF Replies
  <2>2. CASE SessionMayPay(r)
    <3>1. pc[r] # "done" /\ UNCHANGED <<cast, approvals>>
      BY <2>2 DEF SessionMayPay
    <3>2. UNCHANGED reply \/ \E a \in {"read_only", "internal_error"} : Answer(r, a)
      BY <2>2 DEF SessionMayPay, Goto
    <3> QED
      BY <3>1, <3>2, Stutter, ConsentAnswer DEF Replies
  <2>3. CASE Wake(r) \/ Pop(r)
    BY <2>3, Stutter DEF Wake, Pop, Goto
  <2>7. CASE Propose(r)
    <3>1. UNCHANGED <<approvals, reply>>
      BY <2>7 DEF Propose, Goto
    <3>2. CASE UNCHANGED cast
      BY <3>1, <3>2, Stutter
    <3>3. CASE cast' = cast \cup {[item |-> Public(r), approve |-> "True"]}
      <4>1. {c.item.id : c \in {b \in cast : b.approve = "True"}}'
              = {c.item.id : c \in {b \in cast : b.approve = "True"}}
                  \cup {Public(r).id}
        BY <3>3, ApprovedOfAdded, Zenon
      <4>2. Consent!Approve(r)
        BY <3>1, <4>1 DEF Consent!Approve, Outcome, Public
      <4> QED
        BY <4>2 DEF Consent!Next
    <3> QED
      BY <2>7, <3>2, <3>3 DEF Propose
  <2>4. CASE ReadInTime(r) \/ ReadVerdict(r)
    <3>1. pc[r] # "done" /\ UNCHANGED <<cast, approvals>>
      BY <2>4 DEF ReadInTime, ReadVerdict
    <3>2. UNCHANGED reply \/ \E a \in {"not_in_time", "denied"} : Answer(r, a)
      BY <2>4 DEF ReadInTime, ReadVerdict, Goto
    <3> QED
      BY <3>1, <3>2, Stutter, ConsentAnswer DEF Replies
  <2>5. CASE RecordApproval(r)
    <3>1. pc[r] = "record" /\ UNCHANGED cast
      BY <2>5 DEF RecordApproval
    <3>2. CASE /\ approvals' = approvals \cup {ApprovalRow(r)}
               /\ UNCHANGED reply \/ Answer(r, "internal_error")
      <4>1. {row.id : row \in approvals}' = {row.id : row \in approvals} \cup {r}
        BY <3>2, IdsOfAdded, ApprovalRow(r).id = r DEF ApprovalRow
      <4>2. Consented(r)
        BY <3>1 DEF ConsentInv
      <4>3. r \in {c.item.id : c \in {b \in cast : b.approve = "True"}}
        BY <4>2 DEF Consented, Public
      <4>4. Outcome(r) = "open"
        BY <3>1 DEF AnswerInv, Outcome
      <4> DEFINE outcome == [q \in Requests |-> Outcome(q)]
      <4>5. outcome' \in {outcome, [outcome EXCEPT ![r] = "failed"]}
        <5>1. CASE UNCHANGED reply
          BY <5>1 DEF Outcome
        <5>2. CASE Answer(r, "internal_error")
          <6>1. reply' = [reply EXCEPT ![r] = "internal_error"] /\ reply \in [Requests -> Replies]
            BY <5>2 DEF Answer, TypeInv, TypeOK
          <6>2. \A q \in Requests : Outcome(q)' = IF q = r THEN "failed" ELSE Outcome(q)
            BY <6>1 DEF Outcome
          <6> QED
            BY <6>2
        <5> QED
          BY <3>2, <5>1, <5>2
      <4>6. Consent!Record(r)
        BY <3>1, <4>1, <4>3, <4>4, <4>5 DEF Consent!Record
      <4> QED
        BY <4>6 DEF Consent!Next
    <3>3. CASE Answer(r, "internal_error") /\ UNCHANGED approvals
      BY <3>1, <3>3, ConsentAnswer DEF Replies
    <3> QED
      BY <2>5, <3>2, <3>3 DEF RecordApproval, Goto
  <2>6. CASE Mint(r)
    <3>1. pc[r] = "mint" /\ UNCHANGED <<cast, approvals>>
      BY <2>6 DEF Mint
    <3>2. \E a \in {"granted", "mint_failed", "internal_error"} : Answer(r, a)
      BY <2>6 DEF Mint
    <3>3. ApprovalRow(r) \in approvals
      BY <3>1 DEF AnswerInv
    <3> QED
      BY <3>1, <3>2, <3>3, ConsentAnswer DEF Replies
  <2> QED
    BY <1>2, <2>1, <2>2, <2>3, <2>4, <2>5, <2>6, <2>7 DEF PaymentThread
<1>3. ASSUME NEW d \in Deciders, NEW item \in Items, NEW v \in Verdicts,
             SendDecision(d, item, v)
      PROVE  Consent!Next \/ UNCHANGED Consent!vars
  <2>1. UNCHANGED <<approvals, reply>> /\ item.id \in Requests
    BY <1>3 DEF SendDecision, Items, Public
  <2>2. cast' = cast \cup {[item |-> item, approve |-> v]}
    BY <1>3 DEF SendDecision
  <2>3. {c.item.id : c \in {b \in cast : b.approve = "True"}}'
          = {c.item.id : c \in {b \in cast : b.approve = "True"}}
              \cup (IF v = "True" THEN {item.id} ELSE {})
    BY <2>2, ApprovedOfAdded, Zenon
  <2>4. CASE v = "True"
    <3>1. Consent!Approve(item.id)
      BY <2>1, <2>3, <2>4 DEF Consent!Approve, Outcome
    <3> QED
      BY <2>1, <3>1 DEF Consent!Next
  <2>5. CASE v # "True"
    BY <2>1, <2>3, <2>5 DEF Consent!vars, Outcome
  <2> QED
    BY <2>4, <2>5
<1>4. ASSUME NEW d \in Deciders, ListPending(d) \/ DecisionThread(d)
      PROVE  UNCHANGED Consent!vars
  BY <1>4, Stutter DEF ListPending, DecisionThread, GetPending, TestDecided,
                       AssignVerdict, SignalDecided, ConfirmDecision
<1>5. CASE Restart
  <2>1. UNCHANGED <<cast, approvals>>
    BY <1>5 DEF Restart
  <2>2. \A r \in InFlight : Outcome(r) = "open"
    BY DEF InFlight, AnswerInv, Outcome
  <2>3. \A r \in Requests : Outcome(r)' = IF r \in InFlight THEN "failed" ELSE Outcome(r)
    BY <1>5 DEF Restart, Outcome
  <2>4. Consent!Fail(InFlight)
    BY <2>1, <2>2, <2>3 DEF Consent!Fail, InFlight
  <2> QED
    BY <2>4 DEF Consent!Next, InFlight
<1>6. CASE UNCHANGED vars
  BY <1>6, Stutter DEF vars
<1> QED
  BY <1>1, <1>2, <1>3, <1>4, <1>5, <1>6 DEF Next, DeciderStep

\* ImplementsConsent for every instance: the broker's initial states and steps
\* are those of PaymentConsent, or stutter.
THEOREM Refinement == Spec => ImplementsConsent
<1>1. Init => ConsentInv
  BY DEF Init, ConsentInv
<1>2. Spec => [](TypeInv /\ AnswerInv)
  BY AnswerInvariant
<1>3. Spec => []ConsentInv
  BY <1>1, <1>2, ConsentStep, PTL DEF Spec
<1> QED
  BY <1>2, <1>3, RefinementInit, RefinementStep, PTL
     DEF Spec, ImplementsConsent, Consent!Spec
=============================================================================
