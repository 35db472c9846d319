-------------------------- MODULE PaymentFlowProofs --------------------------
(***************************************************************************)
(* What PaymentFlow guarantees for any number of calls, any actions,       *)
(* permissions and timeouts: its variables keep their types, an approver   *)
(* drops nothing, every refusal has its reason, and the whole implements   *)
(* SupervisedPayments.                                                     *)
(***************************************************************************)
EXTENDS PaymentFlow, AmountsProofs

\* What the agent's place and the model's answers say of the calls: later calls
\* do not exist yet, the broker's outcome, its reason and the approval row go
\* together, and an answer of the tool agrees with what the broker did.
CallInv ==
  /\ at \in {"granted", "checked"} => outcome[call] = "granted"
  /\ \A c \in Calls :
       /\ c > call => told[c] = "nothing"
       /\ outcome[c] = "failed" => why[c] \in Reasons
       /\ outcome[c] = "granted" => c \in recorded
       /\ told[c] \in Reasons => outcome[c] = "failed"
       /\ told[c] \in AfterToken => outcome[c] = "granted"

\* The live check of the current call has passed.
CheckInv == at = "checked" => Pay(rels, account, user, asked[call].amount.n)

\* A payment was made for a call the model has an answer to, with an approval of
\* that call or of an earlier one.
PaidInv ==
  \A payment \in paid :
    /\ payment[1] \in 1..call /\ told[payment[1]] # "nothing"
    /\ payment[2] \in recorded /\ payment[2] <= payment[1]

-----------------------------------------------------------------------------
(* What the steps of each process do                                       *)

\* A refusal before the token, an answer after it and no answer are different answers.
LEMMA AnswersApart ==
  \A answer : /\ answer \in Reasons => answer \notin AfterToken
              /\ answer \in Reasons \cup AfterToken \cup {"no_answer", "error"}
                   => answer # "nothing"
BY DEF Reasons, AfterToken

\* The calls made are those that have an action.
LEMMA AskedUnchanged == asked' = asked => Asked' = Asked
BY DEF Asked

\* The call the agent has in hand.
LEMMA CallInHand ==
  ASSUME AgentTypeOK, at # "model"
  PROVE  call \in Calls /\ call \in Asked /\ told[call] = "nothing"
BY FlowAssumption DEF AgentTypeOK, Calls

\* An answer to the model ends the call and leaves the others alone.
LEMMA Telling ==
  ASSUME AgentTypeOK, CallInv, at # "model",
         NEW answer \in Answers \ {"nothing"}, Tell(answer),
         answer \in Reasons => outcome[call] = "failed",
         answer \in AfterToken => outcome[call] = "granted",
         UNCHANGED <<outcome, why, recorded>>
  PROVE  AgentTypeOK' /\ CallInv'
<1>1. call \in Calls /\ call \in Int
  BY CallInHand, FlowAssumption DEF Calls
<1>2. /\ told' = [told EXCEPT ![call] = answer]
      /\ at' = "model" /\ call' = call /\ asked' = asked
  BY DEF Tell
<1>3. AgentTypeOK'
  BY <1>1, <1>2, AskedUnchanged DEF AgentTypeOK
<1>4. CallInv'
  BY <1>1, <1>2 DEF CallInv, AgentTypeOK, Calls
<1> QED
  BY <1>3, <1>4

\* A refusal fails the request, which was open, for the reason given.
LEMMA Refusing ==
  ASSUME BrokerTypeOK, NEW c \in Calls, NEW reason, Refuse(c, reason)
  PROVE  /\ outcome[c] = "open"
         /\ outcome' = [outcome EXCEPT ![c] = "failed"]
         /\ why' = [why EXCEPT ![c] = reason]
         /\ UNCHANGED <<consented, recorded>>
BY DEF BrokerTypeOK, Refuse, Broker!Fail

\* What the broker's thread may do to its call: fail it, record its row, do both, or
\* grant it.
Handled(c) ==
  /\ outcome[c] = "open"
  /\ UNCHANGED <<consented, decisionVars>>
  /\ \/ /\ outcome' = [outcome EXCEPT ![c] = "failed"]
        /\ \E reason \in Reasons : why' = [why EXCEPT ![c] = reason]
        /\ \/ recorded' = recorded
           \/ c \in consented \ recorded /\ recorded' = recorded \cup {c}
     \/ /\ c \in consented \ recorded /\ recorded' = recorded \cup {c}
        /\ UNCHANGED <<outcome, why>>
     \/ /\ c \in recorded
        /\ outcome' = [outcome EXCEPT ![c] = "granted"]
        /\ UNCHANGED <<recorded, why>>

\* The broker's thread of a call does one of these to it.
LEMMA BrokerHandles ==
  ASSUME BrokerTypeOK, NEW c \in Calls, BrokerThread(c)
  PROVE  Handled(c)
<1>1. CASE ApprovalTimesOut(c)
  BY <1>1, Refusing DEF ApprovalTimesOut, Handled, Reasons
<1>2. CASE ReadDenial(c)
  BY <1>2, Refusing DEF ReadDenial, Handled, Reasons
<1>3. CASE RecordApproval(c)
  <2>1. CASE Broker!Record(c) /\ outcome' = outcome /\ UNCHANGED <<why, faults>>
    BY <1>3, <2>1 DEF RecordApproval, Broker!Record, Handled
  <2>2. CASE Broker!Record(c) /\ outcome' # outcome /\ why' = [why EXCEPT ![c] = "internal_error"]
    BY <1>3, <2>2 DEF RecordApproval, Broker!Record, Handled, Reasons
  <2>3. CASE Refuse(c, "internal_error")
    BY <1>3, <2>3, Refusing DEF RecordApproval, Handled, Reasons
  <2> QED
    BY <1>3, <2>1, <2>2, <2>3 DEF RecordApproval
<1>4. CASE Mint(c)
  BY <1>4, Refusing DEF Mint, Broker!Grant, Handled, Reasons
<1> QED
  BY <1>1, <1>2, <1>3, <1>4 DEF BrokerThread

\* A decision that lands on a request adds at most a consent to it, and leaves it
\* decided, or no longer open.
LEMMA Landing ==
  ASSUME AgentTypeOK, BrokerTypeOK, NEW d \in sent, Land(d)
  PROVE  /\ d.call \in Calls /\ d.call \in Asked
         /\ UNCHANGED <<recorded, outcome, why>>
         /\ consented' \in {consented, consented \cup {d.call}}
         /\ denied' \subseteq denied \cup {d.call}
         /\ Pending' \subseteq Pending /\ d.call \notin Pending'
<1>1. d.call \in Calls /\ d.call \in Asked
  BY DEF BrokerTypeOK, Asked
<1>2. Asked' = Asked /\ why' = why
  BY AskedUnchanged DEF Land, agentVars
<1>3. CASE StoreVerdict(d.call, d.approve)
  BY <1>1, <1>2, <1>3 DEF StoreVerdict, Broker!Approve, Pending, Unread
<1>4. CASE d.call \notin Pending /\ UNCHANGED <<consented, recorded, outcome, denied>>
  BY <1>1, <1>2, <1>4 DEF Pending, Unread
<1> QED
  BY <1>3, <1>4 DEF Land

\* The calls of the agent stay in order through what the broker's thread does.
LEMMA HandledKeepsCalls ==
  ASSUME AgentTypeOK, BrokerTypeOK, CallInv, NEW c \in Calls, Handled(c), UNCHANGED agentVars
  PROVE  BrokerTypeOK' /\ CallInv'
<1>1. Asked' = Asked /\ UNCHANGED <<at, call, told>>
  BY AskedUnchanged DEF agentVars
<1>2. BrokerTypeOK'
  BY <1>1 DEF BrokerTypeOK, Handled, Broker!Outcomes, decisionVars
<1>3. CallInv'
  <2>1. at # "model" => call \in Calls
    BY CallInHand
  <2> QED
    BY <1>1, <2>1 DEF CallInv, BrokerTypeOK, Handled
<1> QED
  BY <1>2, <1>3

\* And through a decision that lands.
LEMMA LandingKeepsCalls ==
  ASSUME AgentTypeOK, BrokerTypeOK, CallInv, NEW d \in sent, Land(d)
  PROVE  BrokerTypeOK' /\ CallInv'
<1>1. Asked' = Asked /\ UNCHANGED <<at, call, told>> /\ sent' \subseteq sent
  BY AskedUnchanged DEF Land, agentVars
<1>2. BrokerTypeOK'
  BY <1>1, Landing DEF BrokerTypeOK
<1>3. CallInv'
  BY <1>1, Landing DEF CallInv
<1> QED
  BY <1>2, <1>3

\* A new call is the next one, and nothing is known of it.
LEMMA CallingKeepsCalls ==
  ASSUME AgentTypeOK, BrokerTypeOK, CallInv, NEW a \in Actions, CallTool(a)
  PROVE  AgentTypeOK' /\ BrokerTypeOK' /\ CallInv'
<1>1. /\ at' = "waiting" /\ call' = call + 1 /\ call + 1 \in Calls
      /\ asked' = [asked EXCEPT ![call + 1] = a]
      /\ UNCHANGED <<told, consented, recorded, outcome, why, denied, sent>>
  BY FlowAssumption DEF AgentTypeOK, Calls, CallTool, brokerVars, decisionVars
<1>2. Asked' = Asked \cup {call + 1}
  BY <1>1, FlowAssumption DEF Asked, AgentTypeOK
<1>3. Asked' = 1..(call + 1)
  BY <1>2 DEF AgentTypeOK
<1>4. told[call + 1] = "nothing"
  BY <1>1 DEF CallInv, AgentTypeOK
<1>5. AgentTypeOK'
  BY <1>1, <1>3, <1>4 DEF AgentTypeOK, Calls
<1>6. BrokerTypeOK'
  BY <1>1, <1>2 DEF BrokerTypeOK
<1>7. CallInv'
  BY <1>1, <1>4 DEF CallInv, AgentTypeOK, Calls
<1> QED
  BY <1>5, <1>6, <1>7

\* Whatever the agent does with its call, it moves on with the broker's consent or
\* answers the model.
LEMMA AgentKeepsCalls ==
  ASSUME AgentTypeOK, BrokerTypeOK, CallInv, Agent \/ CallFails
  PROVE  AgentTypeOK' /\ BrokerTypeOK' /\ CallInv'
<1>1. UNCHANGED <<consented, recorded, outcome, why, denied, sent>> /\ at # "model"
  BY DEF Agent, CallFails, ReceiveAnswer, GiveUp, CheckPermission, InsertCommits,
         InsertRefused, brokerVars, decisionVars
<1>2. call \in Calls
  BY <1>1, CallInHand
<1>3. ASSUME asked' = asked PROVE BrokerTypeOK'
  BY <1>1, <1>3, AskedUnchanged DEF BrokerTypeOK
<1>4. ASSUME at' \in {"granted", "checked"}, outcome[call] = "granted",
             UNCHANGED <<call, asked, told>>
      PROVE  AgentTypeOK' /\ CallInv'
  BY <1>1, <1>4, AskedUnchanged DEF AgentTypeOK, CallInv
<1>5. ASSUME NEW answer \in {"no_answer", "error"}, Tell(answer)
      PROVE  AgentTypeOK' /\ CallInv'
  <2>1. answer \in Answers \ {"nothing"} /\ answer \notin Reasons /\ answer \notin AfterToken
    BY DEF Answers, Reasons, AfterToken
  <2> QED
    BY <1>1, <1>5, <2>1, Telling
<1>6. ASSUME NEW answer \in AfterToken, Tell(answer), at \in {"granted", "checked"}
      PROVE  AgentTypeOK' /\ CallInv'
  <2>1. answer \in Answers \ {"nothing"} /\ answer \notin Reasons
    BY DEF Answers, Reasons, AfterToken
  <2>2. outcome[call] = "granted"
    BY <1>6 DEF CallInv
  <2> QED
    BY <1>1, <1>6, <2>1, <2>2, Telling
<1>7. CASE ReceiveAnswer
  <2>1. CASE outcome[call] = "failed" /\ Tell(why[call])
    <3>1. why[call] \in Reasons
      BY <1>2, <2>1 DEF CallInv
    <3>2. why[call] \in Answers \ {"nothing"} /\ why[call] \notin AfterToken
      BY <3>1 DEF Answers, Reasons, AfterToken
    <3>3. asked' = asked
      BY <2>1 DEF Tell
    <3> QED
      BY <1>1, <1>3, <2>1, <3>1, <3>2, <3>3, Telling
  <2> QED
    BY <1>3, <1>4, <1>7, <2>1 DEF ReceiveAnswer
<1>8. CASE GiveUp \/ CallFails
  BY <1>3, <1>5, <1>8 DEF GiveUp, CallFails, Tell
<1>9. CASE CheckPermission
  <2>1. outcome[call] = "granted"
    BY <1>9 DEF CheckPermission, CallInv
  <2>2. CASE at' = "checked" /\ UNCHANGED <<call, asked, told>>
    BY <1>3, <1>4, <2>1, <2>2
  <2>3. CASE \E answer \in {"over_limit", "no_authority"} : Tell(answer)
    BY <1>3, <1>6, <1>9, <2>3 DEF CheckPermission, Tell, AfterToken
  <2> QED
    BY <1>9, <2>2, <2>3 DEF CheckPermission
<1>10. CASE InsertCommits
  BY <1>3, <1>5, <1>6, <1>10 DEF InsertCommits, Tell, AfterToken
<1>11. CASE InsertRefused
  BY <1>3, <1>6, <1>11 DEF InsertRefused, Tell, AfterToken
<1> QED
  BY <1>7, <1>8, <1>9, <1>10, <1>11 DEF Agent

-----------------------------------------------------------------------------
(* Types and the order of calls                                            *)

FlowInv == TypeOK /\ CallInv

\* Types and the order of calls hold at the start.
LEMMA FlowInit == Init => FlowInv
BY FlowAssumption
   DEF Init, FlowInv, TypeOK, AgentTypeOK, BrokerTypeOK, ApproverTypeOK, ClockTypeOK,
       CallInv, Calls, Asked, Reasons, AfterToken, Answers, Broker!Init, Broker!Outcomes

\* No step breaks them.
LEMMA FlowStep == FlowInv /\ [Next]_vars => FlowInv'
<1> SUFFICES ASSUME FlowInv, [Next]_vars PROVE FlowInv'
  OBVIOUS
<1> USE DEF FlowInv, TypeOK
<1>1. ASSUME NEW a \in Actions, CallTool(a) PROVE FlowInv'
  <2>1. AgentTypeOK' /\ BrokerTypeOK' /\ CallInv'
    BY <1>1, CallingKeepsCalls
  <2>2. Asked \subseteq Asked'
    BY <1>1, <2>1, FlowAssumption DEF AgentTypeOK, CallTool
  <2> QED
    BY <1>1, <2>1, <2>2 DEF CallTool, ApproverTypeOK, ClockTypeOK, approverVars
<1>2. CASE Agent \/ CallFails
  <2>1. /\ UNCHANGED <<rels, asked, age, left, approverVars>>
        /\ faults' \in 0..MaxFaults
    BY <1>2, FlowAssumption
       DEF Agent, CallFails, ReceiveAnswer, GiveUp, CheckPermission, InsertCommits,
           InsertRefused, Tell, Failing
  <2>2. ApproverTypeOK' /\ ClockTypeOK'
    BY <2>1, AskedUnchanged DEF ApproverTypeOK, ClockTypeOK, approverVars
  <2> QED
    BY <1>2, <2>1, <2>2, AgentKeepsCalls
<1>3. ASSUME NEW c \in Calls, BrokerThread(c) PROVE FlowInv'
  <2>1. /\ UNCHANGED <<rels, agentVars, age, approverVars>>
        /\ faults' \in 0..MaxFaults
        /\ left' \in [Calls -> 0..APPROVAL_TTL]
    BY <1>3, FlowAssumption
       DEF BrokerThread, ApprovalTimesOut, ReadDenial, RecordApproval, Mint, Failing,
           ClockTypeOK
  <2>2. AgentTypeOK' /\ ApproverTypeOK' /\ ClockTypeOK'
    BY <2>1, AskedUnchanged
       DEF AgentTypeOK, ApproverTypeOK, ClockTypeOK, agentVars, approverVars
  <2> QED
    BY <1>3, <2>1, <2>2, BrokerHandles, HandledKeepsCalls
<1>4. ASSUME NEW d \in sent, Land(d) PROVE FlowInv'
  <2>1. AgentTypeOK' /\ ApproverTypeOK' /\ ClockTypeOK'
    BY <1>4, AskedUnchanged
       DEF Land, AgentTypeOK, ApproverTypeOK, ClockTypeOK, agentVars
  <2> QED
    BY <1>4, <2>1, LandingKeepsCalls DEF Land
<1>9. CASE (\E c \in Calls, approve \in BOOLEAN : Decide(c, approve)) \/ DecisionFails
  <2> DEFINE ApproverMoves ==
               /\ UNCHANGED <<rels, agentVars, consented, recorded, outcome, why, denied, age,
                              left, faults>>
               /\ life' \in {life, 0}
               /\ approver' \in {"down", "polling", "handling", "sending"}
               /\ kind' \in {kind, "person"}
               /\ listed' \subseteq listed /\ seen' \subseteq seen \cup listed
               /\ sent' \subseteq [call : Asked, approve : BOOLEAN, by : {"approver", "gone"}]
  <2>1. ApproverMoves
    <3>1. ASSUME NEW c \in Calls, NEW approve \in BOOLEAN, Decide(c, approve)
          PROVE  ApproverMoves
      BY <3>1 DEF Decide, Pending, Unread, BrokerTypeOK
    <3>2. CASE DecisionFails
      BY <3>2 DEF DecisionFails, ApproverGone, BrokerTypeOK
    <3> QED
      BY <1>9, <3>1, <3>2
  <2>2. Asked' = Asked
    BY <2>1, AskedUnchanged DEF agentVars
  <2> QED
    BY <2>1, <2>2, FlowAssumption
       DEF AgentTypeOK, BrokerTypeOK, ApproverTypeOK, ClockTypeOK, CallInv, agentVars
<1>5. ASSUME NEW k \in {"person", "auto"}, StartApprover(k) PROVE FlowInv'
  BY <1>5, AskedUnchanged, FlowAssumption
     DEF StartApprover, Failing, AgentTypeOK, BrokerTypeOK, ApproverTypeOK, ClockTypeOK,
         CallInv, agentVars, brokerVars, decisionVars
<1>6. CASE Poll
  BY <1>6, AskedUnchanged, FlowAssumption
     DEF Poll, ApproverGone, Pending, Unread, AgentTypeOK, BrokerTypeOK, ApproverTypeOK, ClockTypeOK,
         CallInv, agentVars, brokerVars, decisionVars
<1>7. CASE Tick
  <2>1. ClockTypeOK'
    BY <1>7, FlowAssumption DEF Tick, Less, ClockTypeOK
  <2> QED
    BY <1>7, <2>1, AskedUnchanged
       DEF Tick, AgentTypeOK, BrokerTypeOK, ApproverTypeOK, CallInv, agentVars, brokerVars, decisionVars
<1>8. CASE UNCHANGED vars
  BY <1>8, AskedUnchanged
     DEF vars, AgentTypeOK, BrokerTypeOK, ApproverTypeOK, ClockTypeOK, CallInv, agentVars,
         brokerVars, decisionVars, approverVars
<1> QED
  BY <1>1, <1>2, <1>3, <1>4, <1>5, <1>6, <1>7, <1>8, <1>9 DEF Next, DecisionThread

\* Hence they hold always.
LEMMA FlowInvariant == Spec => []FlowInv
BY FlowInit, FlowStep, PTL DEF Spec

\* Every variable of agent, broker, approver and database keeps its type, and a call
\* is in the agent's hands only while the model has no answer to it.
THEOREM TypeCorrect == Spec => []TypeOK
<1>1. FlowInv => TypeOK
  BY DEF FlowInv
<1> QED
  BY <1>1, FlowInvariant, PTL

-----------------------------------------------------------------------------
(* The approver                                                            *)

\* Requests become pending only when the call is made, and an approver that took
\* one sends its decision at once, which leaves the request decided.
LEMMA SeenStep == FlowInv /\ NoneForgotten /\ [Next]_vars => NoneForgotten'
<1> SUFFICES ASSUME FlowInv, NoneForgotten, [Next]_vars PROVE NoneForgotten'
  OBVIOUS
<1> USE DEF NoneForgotten
<1>0. AgentTypeOK /\ BrokerTypeOK /\ seen \subseteq Asked /\ Asked \subseteq Calls
  BY DEF FlowInv, TypeOK, ApproverTypeOK, Asked
<1>1. ASSUME Pending' \subseteq Pending, seen' \subseteq seen, sent \subseteq sent'
      PROVE  NoneForgotten'
  BY <1>1
<1>2. ASSUME Asked' = Asked, UNCHANGED <<consented, recorded, outcome, denied>>
      PROVE  Pending' = Pending
  BY <1>2 DEF Pending, Unread
<1>3. ASSUME NEW a \in Actions, CallTool(a) PROVE NoneForgotten'
  <2>1. Asked' = Asked \cup {call + 1}
    BY <1>0, <1>3, FlowAssumption DEF CallTool, Asked, AgentTypeOK, Calls
  <2>2. call + 1 \notin Asked
    BY <1>0 DEF AgentTypeOK
  <2> QED
    BY <1>0, <1>3, <2>1, <2>2
       DEF CallTool, Pending, Unread, brokerVars, decisionVars, approverVars
<1>4. CASE Agent \/ CallFails
  BY <1>1, <1>2, <1>4, AskedUnchanged
     DEF Agent, CallFails, ReceiveAnswer, GiveUp, CheckPermission, InsertCommits,
         InsertRefused, Tell, brokerVars, decisionVars, approverVars
<1>5. ASSUME NEW c \in Calls, BrokerThread(c) PROVE NoneForgotten'
  <2>1. Asked' = Asked /\ seen' = seen
    BY <1>5, AskedUnchanged
       DEF BrokerThread, ApprovalTimesOut, ReadDenial, RecordApproval, Mint, agentVars,
           approverVars
  <2>2. Pending' \subseteq Pending /\ sent' = sent
    BY <1>0, <1>5, <2>1, BrokerHandles
       DEF Handled, BrokerTypeOK, decisionVars, Pending, Unread
  <2> QED
    BY <1>1, <2>1, <2>2
<1>6. ASSUME NEW d \in sent, Land(d) PROVE NoneForgotten'
  BY <1>0, <1>6, Landing DEF Land
<1>7. ASSUME NEW c \in Calls, NEW approve \in BOOLEAN, Decide(c, approve)
      PROVE  NoneForgotten'
  <2>1. Pending' = Pending
    BY <1>2, <1>7, AskedUnchanged DEF Decide, agentVars
  <2>2. seen' = seen \cup {c} /\ sent \subseteq sent'
    BY <1>7 DEF Decide
  <2>3. ASSUME c \in Pending PROVE \E d \in sent' : d.call = c /\ d.by = "approver"
    <3> DEFINE new == [call |-> c, approve |-> approve, by |-> "approver"]
    <3>1. new \in sent'
      BY <1>7, <2>3 DEF Decide
    <3>2. new.call = c /\ new.by = "approver"
      OBVIOUS
    <3> QED
      BY <3>1, <3>2
  <2> QED
    BY <2>1, <2>2, <2>3
<1>8. CASE DecisionFails
  BY <1>8 DEF DecisionFails, ApproverGone
<1>9. ASSUME NEW k \in {"person", "auto"}, StartApprover(k) PROVE NoneForgotten'
  BY <1>1, <1>2, <1>9, AskedUnchanged
     DEF StartApprover, agentVars, brokerVars, decisionVars
<1>10. CASE Poll
  BY <1>1, <1>2, <1>10, AskedUnchanged
     DEF Poll, ApproverGone, agentVars, brokerVars, decisionVars
<1>11. CASE Tick
  BY <1>1, <1>2, <1>11, AskedUnchanged DEF Tick, agentVars, brokerVars, decisionVars
<1>12. CASE UNCHANGED vars
  BY <1>1, <1>2, <1>12, AskedUnchanged
     DEF vars, agentVars, brokerVars, decisionVars, approverVars
<1> QED
  BY <1>3, <1>4, <1>5, <1>6, <1>7, <1>8, <1>9, <1>10, <1>11, <1>12 DEF Next, DecisionThread

\* NoneForgotten for every instance: what a running approver has marked seen it has
\* had decided, or waits to have decided (approve.py:107-109).
THEOREM NothingDropped == Spec => []NoneForgotten
<1>1. Init => NoneForgotten
  BY DEF Init, NoneForgotten
<1> QED
  BY <1>1, SeenStep, FlowInvariant, PTL DEF Spec

-----------------------------------------------------------------------------
(* Payments and refusals                                                   *)

\* What steps other than the agent's keep: its place, the actions and permissions,
\* payments and answers; a row is recorded once, and only then begins to live.
Bystands ==
  /\ UNCHANGED <<rels, paid>>
  /\ recorded \subseteq recorded'
  /\ \A c \in Calls : left'[c] > 0 => left[c] > 0 \/ c \notin recorded

PayInv == CheckInv /\ PaidInv /\ RefusalsExplained

\* The broker, the approver, the clock and a stutter are bystanders to the agent's call.
LEMMA OthersBystand ==
  ASSUME FlowInv,
         \/ \E c \in Calls : BrokerThread(c)
         \/ DecisionThread
         \/ \E c \in Calls, approve \in BOOLEAN : Decide(c, approve)
         \/ DecisionFails
         \/ \E k \in {"person", "auto"} : StartApprover(k)
         \/ Poll
         \/ Tick
         \/ UNCHANGED vars
  PROVE  Bystands /\ UNCHANGED agentVars
<1> USE DEF FlowInv, TypeOK
<1>1. ASSUME NEW c \in Calls, BrokerThread(c) PROVE Bystands /\ UNCHANGED agentVars
  <2>1. UNCHANGED <<rels, paid, agentVars>>
    BY <1>1 DEF BrokerThread, ApprovalTimesOut, ReadDenial, RecordApproval, Mint
  <2>2. recorded \subseteq recorded'
    BY <1>1, BrokerHandles DEF Handled
  <2>3. \A d \in Calls : left'[d] > 0 => left[d] > 0 \/ d \notin recorded
    BY <1>1 DEF BrokerThread, ApprovalTimesOut, ReadDenial, RecordApproval, Mint, ClockTypeOK
  <2> QED
    BY <2>1, <2>2, <2>3 DEF Bystands
<1>2. CASE \/ \E c \in Calls, approve \in BOOLEAN : Decide(c, approve)
           \/ DecisionFails
  BY <1>2 DEF Decide, DecisionFails, Bystands
<1>7. ASSUME NEW d \in sent, Land(d) PROVE Bystands /\ UNCHANGED agentVars
  BY <1>7, Landing DEF Land, Bystands
<1>3. ASSUME NEW k \in {"person", "auto"}, StartApprover(k)
      PROVE  Bystands /\ UNCHANGED agentVars
  BY <1>3 DEF StartApprover, Bystands, brokerVars
<1>4. CASE Poll
  BY <1>4 DEF Poll, Bystands, brokerVars
<1>5. CASE Tick
  BY <1>5 DEF Tick, Bystands, brokerVars, Less, ClockTypeOK
<1>6. CASE UNCHANGED vars
  BY <1>6 DEF vars, Bystands, brokerVars
<1> QED
  BY <1>1, <1>2, <1>3, <1>4, <1>5, <1>6, <1>7 DEF DecisionThread

\* The action in hand has an amount of the kind the roundings are about.
LEMMA ActionInHand ==
  ASSUME FlowInv, at # "model"
  PROVE  asked[call] \in Actions /\ asked[call].amount \in Amount
<1>1. call \in Asked /\ call \in Calls
  BY CallInHand DEF FlowInv, TypeOK
<1>2. asked[call] \in Actions
  BY <1>1 DEF FlowInv, TypeOK, AgentTypeOK, Asked
<1> QED
  BY <1>2, FlowAssumption

\* What the live check allowed, the pay policy allows on the columns' values.
LEMMA PolicyFollowsCheck ==
  ASSUME FlowInv, CheckInv, at = "checked"
  PROVE  PayPolicy(asked[call].amount)
<1> DEFINE amount == asked[call].amount
<1>1. amount \in Amount /\ amount.n \in Nat
  BY ActionInHand DEF Amount
<1>2. ASSUME NEW max \in Bounds(rels, account, user), amount.n <= max
      PROVE  DatabaseRounds(amount) <= Cents(max)
  <2>1. max \in Int
    BY LimitsAssumption DEF FlowInv, TypeOK
  <2>2. max \in Nat
    BY <1>1, <1>2, <2>1
  <2> QED
    BY <1>1, <1>2, <2>2, ColumnOrder DEF DatabaseRounds
<1>3. CASE Related(rels, account, "owner", user)
  BY <1>3 DEF PayPolicy
<1>4. CASE \E max \in Bounds(rels, account, user) : WithinLimit(amount.n, max)
  BY <1>2, <1>4 DEF PayPolicy, WithinLimit
<1> QED
  BY <1>3, <1>4 DEF CheckInv, Pay

\* The approval of the call in hand is there for it: no earlier call could use it,
\* since it was not recorded yet, so it is missing only if it expired or is for
\* another amount.
LEMMA OwnApproval ==
  ASSUME FlowInv, PaidInv, at = "checked", Usable = {}
  PROVE  left[call] = 0 \/ IsHalfCent(asked[call].amount)
<1>1. call \in Calls /\ call \in Int /\ told[call] = "nothing"
  BY CallInHand DEF FlowInv, TypeOK, Calls
<1>2. call \in recorded
  BY <1>1 DEF FlowInv, CallInv
<1>3. call \notin Consumed
  <2> SUFFICES ASSUME NEW payment \in paid, payment[2] = call PROVE FALSE
    BY DEF Consumed
  <2>1. payment[1] \in 1..call /\ call <= payment[1] /\ told[payment[1]] # "nothing"
    BY DEF PaidInv
  <2>2. payment[1] = call
    BY <1>1, <2>1
  <2> QED
    BY <1>1, <2>1, <2>2
<1>4. left[call] > 0 => Shown(asked[call]) # Written(asked[call])
  BY <1>2, <1>3 DEF Usable
<1>5. Shown(asked[call]) # Written(asked[call]) => IsHalfCent(asked[call].amount)
  BY ActionInHand, RoundingsAgree DEF Shown, Written
<1>6. left[call] \in Nat
  BY <1>1, FlowAssumption DEF FlowInv, TypeOK, ClockTypeOK
<1> QED
  BY <1>4, <1>5, <1>6

\* An answer keeps the payments made in order, whatever it says.
LEMMA TellingKeepsPaid ==
  ASSUME FlowInv, PaidInv, at # "model", NEW answer \in Answers \ {"nothing"}, Tell(answer),
         UNCHANGED <<paid, recorded>>
  PROVE  PaidInv'
<1>1. call \in Calls /\ call' = call /\ told' = [told EXCEPT ![call] = answer]
  BY CallInHand DEF Tell, FlowInv, TypeOK
<1> QED
  BY <1>1 DEF PaidInv, FlowInv, TypeOK, AgentTypeOK

\* So do refusals keep their reasons, if the new one has its own.
LEMMA TellingExplains ==
  ASSUME FlowInv, RefusalsExplained, at # "model", NEW answer, Tell(answer),
         UNCHANGED <<rels, left>>,
         answer = "row_policy" =>
           PayPolicy(asked[call].amount) /\ ~View(rels, account, user),
         answer = "no_approval" => left[call] = 0 \/ IsHalfCent(asked[call].amount)
  PROVE  RefusalsExplained'
<1>1. call \in Calls /\ asked' = asked /\ told' = [told EXCEPT ![call] = answer]
  BY CallInHand DEF Tell, FlowInv, TypeOK
<1> QED
  BY <1>1 DEF RefusalsExplained, PayPolicy, FlowInv, TypeOK, AgentTypeOK

\* No step breaks PayInv: what the agent checked, paid and told stays explained.
LEMMA PayStep == FlowInv /\ PayInv /\ [Next]_vars => PayInv'
<1> SUFFICES ASSUME FlowInv, PayInv, [Next]_vars PROVE PayInv'
  OBVIOUS
<1> USE DEF PayInv
<1>0. at # "model" => call \in Calls /\ call \in Int /\ told[call] = "nothing"
  BY CallInHand DEF FlowInv, TypeOK, Calls
<1>1. ASSUME Bystands, UNCHANGED agentVars PROVE PayInv'
  <2>1. CheckInv' /\ PaidInv'
    BY <1>1 DEF Bystands, CheckInv, PaidInv, agentVars
  <2>2. ASSUME NEW c \in Calls, told[c] = "no_approval", left[c] = 0 PROVE left'[c] = 0
    <3>1. c \in recorded
      BY <2>2 DEF FlowInv, CallInv, AfterToken
    <3>2. left'[c] \in Nat
      <4>1. FlowInv'
        BY FlowStep
      <4> QED
        BY <4>1, FlowAssumption DEF FlowInv, TypeOK, ClockTypeOK
    <3> QED
      BY <1>1, <2>2, <3>1, <3>2 DEF Bystands
  <2>3. RefusalsExplained'
    BY <1>1, <2>2 DEF Bystands, RefusalsExplained, PayPolicy, agentVars
  <2> QED
    BY <2>1, <2>3
<1>2. ASSUME NEW a \in Actions, CallTool(a) PROVE PayInv'
  <2>1. /\ at' = "waiting" /\ call' = call + 1
        /\ asked' = [asked EXCEPT ![call + 1] = a]
        /\ UNCHANGED <<rels, told, recorded, left, paid>>
    BY <1>2 DEF CallTool, brokerVars
  <2>2. \A c \in Calls : told[c] # "nothing" => c # call + 1
    BY DEF FlowInv, TypeOK, AgentTypeOK, CallInv, Calls
  <2>3. CheckInv' /\ PaidInv'
    BY <2>1 DEF CheckInv, PaidInv, FlowInv, TypeOK, AgentTypeOK
  <2>4. RefusalsExplained'
    BY <2>1, <2>2 DEF RefusalsExplained, PayPolicy, FlowInv, TypeOK, AgentTypeOK
  <2> QED
    BY <2>3, <2>4
<1>3. CASE ReceiveAnswer
  <2>1. UNCHANGED <<rels, recorded, left, paid>> /\ at # "model"
    BY <1>3 DEF ReceiveAnswer, brokerVars
  <2>2. CASE at' = "granted" /\ UNCHANGED <<call, asked, told>>
    BY <2>1, <2>2 DEF CheckInv, PaidInv, RefusalsExplained, PayPolicy
  <2>3. CASE outcome[call] = "failed" /\ Tell(why[call])
    <3>1. why[call] \in Reasons
      BY <1>0, <2>1, <2>3 DEF FlowInv, CallInv
    <3>2. why[call] \in Answers \ {"nothing"} /\ why[call] \notin {"row_policy", "no_approval"}
      BY <3>1 DEF Answers, Reasons
    <3>3. CheckInv'
      BY <2>3 DEF Tell, CheckInv
    <3> QED
      BY <2>1, <2>3, <3>2, <3>3, TellingKeepsPaid, TellingExplains
  <2> QED
    BY <1>3, <2>2, <2>3 DEF ReceiveAnswer
<1>4. CASE GiveUp \/ CallFails
  <2>1. PICK answer \in {"no_answer", "error"} : Tell(answer)
    BY <1>4 DEF GiveUp, CallFails
  <2>2. UNCHANGED <<rels, recorded, left, paid>> /\ at # "model"
    BY <1>4 DEF GiveUp, CallFails, brokerVars
  <2>3. answer \in Answers \ {"nothing"} /\ CheckInv'
    BY <2>1 DEF Answers, Tell, CheckInv
  <2> QED
    BY <2>1, <2>2, <2>3, TellingKeepsPaid, TellingExplains
<1>5. CASE CheckPermission
  <2>1. UNCHANGED <<rels, recorded, left, paid>> /\ at # "model"
    BY <1>5 DEF CheckPermission, brokerVars
  <2>2. CASE /\ Pay(rels, account, user, asked[call].amount.n)
             /\ at' = "checked" /\ UNCHANGED <<call, asked, told>>
    BY <2>1, <2>2 DEF CheckInv, PaidInv, RefusalsExplained, PayPolicy
  <2>3. ASSUME NEW answer \in {"over_limit", "no_authority"}, Tell(answer) PROVE PayInv'
    <3>1. answer \in Answers \ {"nothing"} /\ CheckInv'
      BY <2>3 DEF Answers, AfterToken, Tell, CheckInv
    <3> QED
      BY <2>1, <2>3, <3>1, TellingKeepsPaid, TellingExplains
  <2> QED
    BY <1>5, <2>2, <2>3 DEF CheckPermission
<1>6. CASE InsertCommits
  <2>1. PICK c \in Usable : paid' = paid \cup {<<call, c, Written(asked[call])>>}
    BY <1>6 DEF InsertCommits
  <2>2. PICK answer \in {"paid", "error"} : Tell(answer)
    BY <1>6 DEF InsertCommits
  <2>3. UNCHANGED <<rels, recorded, left>> /\ at # "model"
    BY <1>6 DEF InsertCommits, brokerVars
  <2>4. CheckInv'
    BY <2>2 DEF Tell, CheckInv
  <2>5. RefusalsExplained'
    BY <2>2, <2>3, TellingExplains
  <2>6. c \in recorded /\ c <= call /\ call \in 1..call
    BY <1>0, <2>3 DEF Usable, FlowInv, TypeOK, BrokerTypeOK, AgentTypeOK, Calls
  <2>7. told' = [told EXCEPT ![call] = answer] /\ call' = call /\ answer # "nothing"
    BY <2>2 DEF Tell
  <2>8. PaidInv'
    BY <1>0, <2>1, <2>3, <2>6, <2>7 DEF PaidInv, FlowInv, TypeOK, AgentTypeOK
  <2> QED
    BY <2>4, <2>5, <2>8
<1>7. CASE InsertRefused
  <2>1. UNCHANGED <<rels, recorded, left, paid>> /\ at = "checked"
    BY <1>7 DEF InsertRefused, brokerVars
  <2>2. CASE ~RowPolicies /\ Tell("row_policy")
    <3>1. PayPolicy(asked[call].amount) /\ ~View(rels, account, user)
      BY <2>1, <2>2, PolicyFollowsCheck DEF RowPolicies
    <3>2. "row_policy" \in Answers \ {"nothing"} /\ CheckInv'
      BY <2>2 DEF Answers, AfterToken, Tell, CheckInv
    <3> QED
      BY <2>1, <2>2, <3>1, <3>2, TellingKeepsPaid, TellingExplains
  <2>3. CASE Usable = {} /\ Tell("no_approval")
    <3>1. left[call] = 0 \/ IsHalfCent(asked[call].amount)
      BY <2>1, <2>3, OwnApproval
    <3>2. "no_approval" \in Answers \ {"nothing"} /\ CheckInv'
      BY <2>3 DEF Answers, AfterToken, Tell, CheckInv
    <3> QED
      BY <2>1, <2>3, <3>1, <3>2, TellingKeepsPaid, TellingExplains
  <2> QED
    BY <1>7, <2>2, <2>3 DEF InsertRefused
<1> QED
  BY <1>1, <1>2, <1>3, <1>4, <1>5, <1>6, <1>7, OthersBystand DEF Next, Agent

\* Hence it holds always.
LEMMA PayInvariant == Spec => [](FlowInv /\ PayInv)
<1>1. Init => PayInv
  BY DEF Init, PayInv, CheckInv, PaidInv, RefusalsExplained
<1> QED
  BY <1>1, PayStep, FlowInvariant, PTL DEF Spec

\* RefusalsExplained for every instance: after the live check the row policies refuse
\* only a payer who may pay but not view, and an approval is missing only if it expired or
\* the amount lies on half a cent (agent/spicedb.py:3-6, 02-rls.sql, 04-approvals.sql).
THEOREM RefusalsHaveReasons == Spec => []RefusalsExplained
<1>1. PayInv => RefusalsExplained
  BY DEF PayInv
<1> QED
  BY <1>1, PayInvariant, PTL

-----------------------------------------------------------------------------
(* The flow implements SupervisedPayments                                  *)

\* What the user was shown of each call, and what each answer means, as in Promise.
ShownOf == [c \in Calls |-> IF c \in Asked THEN Shown(asked[c]) ELSE Unasked]
MeaningOf == [c \in Calls |-> Meaning(told[c])]

\* A step that touches no action, consent, payment and answer is a stutter.
LEMMA PromiseStutter ==
  UNCHANGED <<asked, consented, recorded, paid, told>> => UNCHANGED Promise!vars
BY AskedUnchanged DEF Promise!vars

\* What the model can be told other than of a payment is a refusal or nothing certain.
LEMMA MeaningsOfAnswers ==
  ASSUME NEW answer \in Answers \ {"nothing", "paid"}
  PROVE  /\ Meaning(answer) \in {"refused", "unknown"}
         /\ Meaning(answer) = "refused" => answer \in Reasons \cup AfterToken
BY DEF Answers, Reasons, AfterToken, Meaning

\* An answer to the model changes the meaning of that call's answer alone.
LEMMA TellingMeans ==
  ASSUME FlowInv, at # "model", NEW answer \in Answers, Tell(answer)
  PROVE  /\ call \in Calls
         /\ MeaningOf[call] = "nothing"
         /\ MeaningOf' = [MeaningOf EXCEPT ![call] = Meaning(answer)]
         /\ ShownOf' = ShownOf
<1>1. call \in Calls /\ told[call] = "nothing" /\ asked' = asked
      /\ told' = [told EXCEPT ![call] = answer]
  BY CallInHand DEF Tell, FlowInv, TypeOK
<1>2. Meaning(told[call]) = "nothing"
  BY <1>1 DEF Meaning
<1> QED
  BY <1>1, <1>2, AskedUnchanged DEF FlowInv, TypeOK, AgentTypeOK, MeaningOf, ShownOf

\* Telling the model anything but a payment is Promise!Answer.
LEMMA AnswerRefines ==
  ASSUME FlowInv, at # "model", NEW answer \in Answers \ {"nothing", "paid"}, Tell(answer),
         UNCHANGED <<consented, recorded, paid>>
  PROVE  Promise!Next
<1>1. /\ call \in Calls
      /\ MeaningOf[call] = "nothing"
      /\ MeaningOf' = [MeaningOf EXCEPT ![call] = Meaning(answer)]
      /\ ShownOf' = ShownOf
  BY TellingMeans
<1>2. Promise!Answer(call)
  BY <1>1, MeaningsOfAnswers DEF Promise!Answer, MeaningOf, ShownOf
<1> QED
  BY <1>1, <1>2 DEF Promise!Next

\* A call is Promise!Ask of what the user will be shown.
LEMMA AskRefines ==
  ASSUME FlowInv, NEW a \in Actions, CallTool(a)
  PROVE  Promise!Next
<1>1. /\ call + 1 \in Calls
      /\ asked' = [asked EXCEPT ![call + 1] = a]
      /\ UNCHANGED <<told, consented, recorded, paid>>
  BY FlowAssumption DEF FlowInv, TypeOK, AgentTypeOK, Calls, CallTool, brokerVars
<1>2. Asked' = Asked \cup {call + 1} /\ call + 1 \notin Asked
  BY <1>1, FlowAssumption DEF FlowInv, TypeOK, Asked, AgentTypeOK
<1>3. ShownOf[call + 1] = Unasked
  BY <1>1, <1>2 DEF ShownOf
<1>4. ShownOf' = [ShownOf EXCEPT ![call + 1] = Shown(a)]
  BY <1>1, <1>2 DEF ShownOf, FlowInv, TypeOK, AgentTypeOK
<1>5. Promise!Ask(call + 1, Shown(a))
  BY <1>1, <1>3, <1>4 DEF Promise!Ask, ShownOf
<1> QED
  BY <1>1, <1>5 DEF Promise!Next

\* A decision that lands, in time or not, is Promise!Approve or changes nothing that
\* the promise speaks of.
LEMMA LandingRefines ==
  ASSUME FlowInv, NEW d \in sent, Land(d)
  PROVE  Promise!Next \/ UNCHANGED Promise!vars
<1>1. /\ d.call \in Calls /\ d.call \in Asked
      /\ recorded' = recorded
      /\ consented' \in {consented, consented \cup {d.call}}
  BY Landing DEF FlowInv, TypeOK
<1>2. UNCHANGED <<agentVars, paid>>
  BY DEF Land
<1>3. CASE consented' = consented
  BY <1>1, <1>2, <1>3, PromiseStutter DEF agentVars
<1>4. CASE consented' = consented \cup {d.call}
  <2>1. asked[d.call] \in Actions /\ Shown(asked[d.call]) # Unasked
    BY <1>1, FlowAssumption DEF FlowInv, TypeOK, AgentTypeOK, Asked
  <2>2. ShownOf[d.call] # Unasked
    BY <1>1, <2>1 DEF ShownOf
  <2>3. ShownOf' = ShownOf /\ MeaningOf' = MeaningOf
    BY <1>2, AskedUnchanged DEF ShownOf, MeaningOf, agentVars
  <2>4. Promise!Approve(d.call)
    BY <1>1, <1>2, <1>4, <2>2, <2>3 DEF Promise!Approve, ShownOf, MeaningOf
  <2> QED
    BY <1>1, <2>4 DEF Promise!Next
<1> QED
  BY <1>1, <1>3, <1>4

\* The row of an approval appears while the request is open, so the model was neither
\* refused nor told of a payment: Promise!Accept.
LEMMA RecordRefines ==
  ASSUME FlowInv, NEW c \in Calls, Handled(c), UNCHANGED <<agentVars, paid>>
  PROVE  Promise!Next \/ UNCHANGED Promise!vars
<1>1. CASE recorded' = recorded
  BY <1>1, PromiseStutter DEF Handled, agentVars
<1>2. CASE c \in consented /\ recorded' = recorded \cup {c}
  <2>1. told[c] \in Answers /\ told[c] \notin Reasons \cup AfterToken
    BY DEF FlowInv, TypeOK, AgentTypeOK, CallInv, Handled
  <2>2. MeaningOf[c] \notin {"refused", "paid"}
    BY <2>1, MeaningsOfAnswers DEF Meaning, AfterToken, MeaningOf
  <2>3. ShownOf' = ShownOf /\ MeaningOf' = MeaningOf
    BY AskedUnchanged DEF ShownOf, MeaningOf, agentVars
  <2>4. Promise!Accept(c)
    BY <1>2, <2>2, <2>3 DEF Promise!Accept, ShownOf, MeaningOf, Handled
  <2> QED
    BY <2>4 DEF Promise!Next
<1> QED
  BY <1>1, <1>2 DEF Handled

\* A committed INSERT is Promise!Pay: its call was accepted and is unanswered, and
\* what it writes is what the user was shown for the approval it consumes.
LEMMA PayRefines ==
  ASSUME FlowInv, InsertCommits
  PROVE  Promise!Next
<1>1. PICK c \in Usable : paid' = paid \cup {<<call, c, Written(asked[call])>>}
  BY DEF InsertCommits
<1>2. PICK answer \in {"paid", "error"} : Tell(answer)
  BY DEF InsertCommits
<1>3. at = "checked" /\ UNCHANGED <<consented, recorded>>
  BY DEF InsertCommits, brokerVars
<1>4. /\ answer \in Answers
      /\ Meaning(answer) \in {"paid", "unknown"}
  BY <1>2 DEF Answers, AfterToken, Meaning
<1>5. /\ call \in Calls
      /\ MeaningOf[call] = "nothing"
      /\ MeaningOf' = [MeaningOf EXCEPT ![call] = Meaning(answer)]
      /\ ShownOf' = ShownOf
  BY <1>2, <1>3, <1>4, TellingMeans
<1>6. call \in recorded
  BY <1>3, <1>5 DEF FlowInv, TypeOK, BrokerTypeOK, CallInv
<1>7. /\ c \in Calls /\ c \in recorded \ Promise!Spent
      /\ ShownOf[c] = Written(asked[call])
  BY DEF Usable, Consumed, Promise!Spent, ShownOf, FlowInv, TypeOK, BrokerTypeOK, Asked
<1>8. Promise!Pay(call, c)
  BY <1>1, <1>3, <1>4, <1>5, <1>6, <1>7 DEF Promise!Pay, ShownOf, MeaningOf
<1> QED
  BY <1>5, <1>7, <1>8 DEF Promise!Next

\* The flow starts where the promise does.
LEMMA PromiseInit == Init => Promise!Init
BY DEF Init, Promise!Init, Broker!Init, Asked, Meaning

\* Each step of agent, broker, approver and clock is a step of the promise or a stutter.
LEMMA PromiseStep ==
  FlowInv /\ [Next]_vars => [Promise!Next]_(Promise!vars)
<1> SUFFICES ASSUME FlowInv, [Next]_vars
             PROVE  Promise!Next \/ UNCHANGED Promise!vars
  OBVIOUS
<1>1. ASSUME NEW a \in Actions, CallTool(a) PROVE Promise!Next
  BY <1>1, AskRefines
<1>2. CASE ReceiveAnswer
  <2>1. UNCHANGED <<consented, recorded, paid>> /\ at # "model"
    BY <1>2 DEF ReceiveAnswer, brokerVars
  <2>2. CASE outcome[call] = "failed" /\ Tell(why[call])
    <3>1. why[call] \in Reasons
      BY <2>1, <2>2, CallInHand DEF FlowInv, TypeOK, CallInv
    <3>2. why[call] \in Answers \ {"nothing", "paid"}
      BY <3>1 DEF Answers, Reasons
    <3> QED
      BY <2>1, <2>2, <3>2, AnswerRefines
  <2> QED
    BY <1>2, <2>1, <2>2, PromiseStutter DEF ReceiveAnswer
<1>3. CASE GiveUp \/ CallFails
  BY <1>3, AnswerRefines DEF GiveUp, CallFails, brokerVars, Answers
<1>4. CASE CheckPermission
  <2>1. UNCHANGED <<consented, recorded, paid>> /\ at # "model"
    BY <1>4 DEF CheckPermission, brokerVars
  <2>2. CASE \E answer \in {"over_limit", "no_authority"} : Tell(answer)
    BY <2>1, <2>2, AnswerRefines DEF Answers, AfterToken
  <2> QED
    BY <1>4, <2>1, <2>2, PromiseStutter DEF CheckPermission
<1>5. CASE InsertCommits
  BY <1>5, PayRefines
<1>6. CASE InsertRefused
  BY <1>6, AnswerRefines DEF InsertRefused, brokerVars, Answers, AfterToken
<1>7. ASSUME NEW c \in Calls, BrokerThread(c)
      PROVE  Promise!Next \/ UNCHANGED Promise!vars
  <2>1. UNCHANGED <<agentVars, paid>>
    BY <1>7 DEF BrokerThread, ApprovalTimesOut, ReadDenial, RecordApproval, Mint
  <2> QED
    BY <1>7, <2>1, BrokerHandles, RecordRefines DEF FlowInv, TypeOK
<1>8. ASSUME NEW d \in sent, Land(d) PROVE Promise!Next \/ UNCHANGED Promise!vars
  BY <1>8, LandingRefines
<1>11. CASE \/ \E c \in Calls, approve \in BOOLEAN : Decide(c, approve)
            \/ DecisionFails
  BY <1>11, PromiseStutter DEF Decide, DecisionFails, agentVars
<1>9. ASSUME NEW k \in {"person", "auto"}, StartApprover(k) PROVE UNCHANGED Promise!vars
  BY <1>9, PromiseStutter DEF StartApprover, agentVars, brokerVars
<1>10. CASE Poll \/ Tick \/ UNCHANGED vars
  BY <1>10, PromiseStutter DEF Poll, Tick, vars, agentVars, brokerVars
<1> QED
  BY <1>1, <1>2, <1>3, <1>4, <1>5, <1>6, <1>7, <1>8, <1>9, <1>10, <1>11 DEF Next, Agent, DecisionThread

\* For any number of calls, actions and timeouts the agent, the broker, the approver
\* and the database together keep the promise of SupervisedPayments.
THEOREM Refinement == Spec => KeepsPromise
BY PromiseInit, PromiseStep, FlowInvariant, PTL DEF Spec, KeepsPromise, Promise!Spec

\* PaidAsApproved for every instance, since the promise amounts to it: late answers,
\* retries and lost commits included (agent.py:162-167, 04-approvals.sql:88-120).
THEOREM ApprovalsAreHonoured == Spec => []PaidAsApproved
BY Refinement, Promise!PromiseIsHonoured, PTL DEF KeepsPromise, PaidAsApproved
=============================================================================
