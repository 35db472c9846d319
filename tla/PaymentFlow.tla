----------------------------- MODULE PaymentFlow -----------------------------
(***************************************************************************)
(* One payment after another, from the model's tool call to the row in     *)
(* `transactions': the agent (agent/agent.py, agent/identity.py,           *)
(* agent/spicedb.py), the broker, the approver CLI (broker/approve.py) and *)
(* the database, with the timeouts of each.                                *)
(*                                                                         *)
(* The agent is one thread, so its calls follow each other; the broker     *)
(* keeps a thread per request, which goes on when the agent has given up;  *)
(* the approver is a loop of its own.  Of the broker this module takes     *)
(* what PaymentConsent promises (ApprovalBroker.tla shows that the code    *)
(* keeps it), of SpiceDB and the row policies AccessModel, with the        *)
(* projection settled (SyncWorker.tla).  A tick is 30 seconds.             *)
(***************************************************************************)
EXTENDS AccessModel, Amounts, FiniteSets

CONSTANTS
  MaxCalls,          \* bound on the payments the model asks for
  Actions,           \* what it may ask for: [amount |-> an Amount, to |-> ...],
                     \*   `to' standing for account, counterparty and description
  Unasked,
  Scenarios,         \* contents of SpiceDB: what the user may do
  account, user,
  AGENT_TIMEOUT,     \* the agent's request timeout, 30 s
  APPROVAL_TIMEOUT,  \* the broker's wait for a decision, 120 s
  APPROVAL_TTL,      \* life of an approval row, 120 s
  MAX_AGE,           \* life of an --auto approver
  MaxFaults          \* bound on failed calls and approvers started, taken together

Calls == 1..MaxCalls

\* What the approver prints and the approval row holds, and what is inserted.
Shown(a) == <<BrokerRounds(a.amount), a.to>>
Written(a) == <<DatabaseRounds(a.amount), a.to>>

ASSUME FlowAssumption ==
  /\ \A a \in Actions : a.amount \in Amount
  /\ Unasked \notin Actions /\ Unasked \notin {Shown(a) : a \in Actions}
  /\ {AGENT_TIMEOUT, APPROVAL_TIMEOUT, APPROVAL_TTL, MAX_AGE} \subseteq Nat \ {0}
  /\ MaxCalls \in Nat /\ MaxFaults \in Nat

ASSUME LimitsAssumption ==
  \A contents \in Scenarios : Bounds(contents, account, user) \subseteq Int

VARIABLES
  rels,       \* SpiceDB's relationships
  at,         \* the agent: "model", "waiting", "granted", "checked"
  call,       \* the call it makes or made last
  asked,      \* the action of each call
  told,       \* what the tool answered to the model
  age,        \* ticks since the call was posted, up to APPROVAL_TIMEOUT, as long as
              \*   the agent or the broker waits for it
  consented, recorded, outcome,  \* the broker, as in PaymentConsent
  why,        \* the reason the broker gives for a failure
  denied,     \* calls whose PendingApproval.approved is False while it matters, until
              \*   the thread has read it; it is True for the others in `consented',
              \*   which remembers every consent stored
  sent,       \* decisions the broker's threads are at work on: [call, approve, by],
              \*   `by' being "approver", or "gone" when that process is
  left,       \* ticks until the approval row of the call expires
  paid,       \* committed transactions: <<call, approval consumed, written>>
  approver,   \* the approver process: "down", "polling", "handling", "sending"
  kind,       \* "person" or "auto"
  life,       \* ticks an --auto approver has left
  listed,     \* requests of its last poll it has yet to handle
  seen,       \* requests it has taken
  faults

agentVars == <<at, call, asked, told>>
decisionVars == <<denied, sent>>
brokerVars == <<consented, recorded, outcome, why, decisionVars>>
approverVars == <<approver, kind, life, listed, seen>>
vars == <<rels, agentVars, brokerVars, approverVars, age, left, paid, faults>>

Broker == INSTANCE PaymentConsent WITH Payments <- Calls

Asked == {c \in Calls : asked[c] # Unasked}

\* Requests whose thread has yet to read the verdict, and of them those without
\* one: what /approvals/pending lists.
Unread == {c \in Asked : outcome[c] = "open" /\ c \notin recorded}
Pending == Unread \ (consented \cup denied)

Init == /\ rels \in Scenarios
        /\ at = "model"
        /\ call = 0
        /\ asked = [c \in Calls |-> Unasked]
        /\ told = [c \in Calls |-> "nothing"]
        /\ age = [c \in Calls |-> 0]
        /\ Broker!Init
        /\ why = [c \in Calls |-> "nothing"]
        /\ denied = {}
        /\ sent = {}
        /\ left = [c \in Calls |-> 0]
        /\ paid = {}
        /\ approver = "down"
        /\ kind = "person"
        /\ life = 0
        /\ listed = {}
        /\ seen = {}
        /\ faults = 0

Failing == faults < MaxFaults /\ faults' = faults + 1

-----------------------------------------------------------------------------
(* The agent: _run_tool for make_payment                                   *)

\* The model calls the tool, for something new or once more for the same; the
\* request is posted and the broker's thread has it.
CallTool(a) ==
  /\ at = "model"
  /\ call < MaxCalls
  /\ call' = call + 1
  /\ asked' = [asked EXCEPT ![call + 1] = a]
  /\ at' = "waiting"
  /\ UNCHANGED <<rels, told, age, brokerVars, left, paid, approverVars, faults>>

\* The tool call ends: its answer goes to the model.
Tell(answer) == /\ told' = [told EXCEPT ![call] = answer]
                /\ at' = "model"
                /\ UNCHANGED <<call, asked>>

\* authorize_payment returns a token or raises BrokerError with the reason.
ReceiveAnswer ==
  /\ at = "waiting"
  /\ \/ /\ outcome[call] = "granted"
        /\ at' = "granted"
        /\ UNCHANGED <<call, asked, told>>
     \/ /\ outcome[call] = "failed"
        /\ Tell(why[call])
  /\ UNCHANGED <<rels, age, brokerVars, left, paid, approverVars, faults>>

\* Mutant of GiveUp: the timeout is reported, and the answer still awaited.
GiveUpStillWaiting ==
  /\ at = "waiting"
  /\ age[call] >= AGENT_TIMEOUT
  /\ told' = [told EXCEPT ![call] = "no_answer"]
  /\ UNCHANGED <<rels, at, call, asked, age, brokerVars, left, paid, approverVars, faults>>

\* requests' read timeout: not a BrokerError, the outer except answers with it.
GiveUp ==
  /\ at = "waiting"
  /\ age[call] >= AGENT_TIMEOUT
  /\ Tell("no_answer")
  /\ UNCHANGED <<rels, age, brokerVars, left, paid, approverVars, faults>>

\* A call of the agent to broker, SpiceDB or database fails before it has any
\* effect, or, at the broker, without the agent knowing.
CallFails ==
  /\ Failing
  /\ at # "model"
  /\ Tell("error")
  /\ UNCHANGED <<rels, age, brokerVars, left, paid, approverVars>>

\* Mutant of CheckPermission: the amount is not put into the context.
CheckGrantOnly ==
  /\ at = "granted"
  /\ LET may == Pay(rels, account, user, 0) IN
     \/ may /\ at' = "checked" /\ UNCHANGED <<call, asked, told>>
     \/ ~may /\ Tell("no_authority")
  /\ UNCHANGED <<rels, age, brokerVars, left, paid, approverVars, faults>>

\* The live check, on the amount as the model gave it, and the probe with 0.
CheckPermission ==
  /\ at = "granted"
  /\ LET may(n) == Pay(rels, account, user, n) IN
     \/ /\ may(asked[call].amount.n)
        /\ at' = "checked"
        /\ UNCHANGED <<call, asked, told>>
     \/ /\ ~may(asked[call].amount.n)
        /\ Tell(IF may(0) THEN "over_limit" ELSE "no_authority")
  /\ UNCHANGED <<rels, age, brokerVars, left, paid, approverVars, faults>>

Consumed == {payment[2] : payment \in paid}

\* Mutant of Usable: consumed_at is not looked at.
UsableAgain == {c \in recorded : left[c] > 0 /\ Shown(asked[c]) = Written(asked[call])}

\* Mutant of Usable: the approval's columns are not compared.
UsableForAnything == {c \in recorded \ Consumed : left[c] > 0}

\* Approvals the INSERT of the current call may consume.
Usable == {c \in recorded \ Consumed :
             left[c] > 0 /\ Shown(asked[c]) = Written(asked[call])}

\* The pay policy, on amount and limit as their numeric(12,2) columns hold them.
PayPolicy(amount) ==
  \/ Related(rels, account, "owner", user)
  \/ \E max \in Bounds(rels, account, user) :
       DatabaseRounds(amount) <= Cents(max)

\* The row policies; RETURNING adds view.
RowPolicies == PayPolicy(asked[call].amount) /\ View(rels, account, user)

\* The oldest usable approval is consumed.  The answer to the COMMIT may be lost.
InsertCommits ==
  /\ at = "checked"
  /\ RowPolicies
  /\ \E c \in Usable :
       /\ \A other \in Usable : left[c] <= left[other]
       /\ paid' = paid \cup {<<call, c, Written(asked[call])>>}
  /\ \/ Tell("paid") /\ UNCHANGED faults
     \/ Tell("error") /\ Failing
  /\ UNCHANGED <<rels, age, brokerVars, left, approverVars>>

\* Mutant of InsertRefused: the exception is not caught.
InsertRaises ==
  /\ at = "checked"
  /\ ~RowPolicies \/ Usable = {}
  /\ UNCHANGED vars

InsertRefused ==
  /\ at = "checked"
  /\ \/ ~RowPolicies /\ Tell("row_policy")
     \/ RowPolicies /\ Usable = {} /\ Tell("no_approval")
  /\ UNCHANGED <<rels, age, brokerVars, left, paid, approverVars, faults>>

-----------------------------------------------------------------------------
(* The broker: authorize_payment                                           *)

\* The thread reads a denial or no verdict, or database or Keycloak fail the call.
Refuse(c, reason) ==
  /\ Broker!Fail({c})
  /\ why' = [why EXCEPT ![c] = reason]

ApprovalTimesOut(c) ==
  /\ c \in Pending
  /\ age[c] >= APPROVAL_TIMEOUT
  /\ Refuse(c, "not_in_time")
  /\ UNCHANGED <<rels, agentVars, decisionVars, age, left, paid, approverVars, faults>>

\* The thread reads the verdict that was stored last.
ReadDenial(c) ==
  /\ c \in denied \ recorded
  /\ Refuse(c, "denied")
  /\ UNCHANGED <<rels, agentVars, decisionVars, age, left, paid, approverVars, faults>>

\* Mutant of RecordApproval: decide() writes the row, whether or not the thread waits.
RecordLate(c) ==
  /\ c \in consented \ (denied \cup recorded)
  /\ recorded' = recorded \cup {c}
  /\ left' = [left EXCEPT ![c] = APPROVAL_TTL]
  /\ UNCHANGED <<consented, outcome, why, decisionVars>>
  /\ UNCHANGED <<rels, agentVars, age, paid, approverVars, faults>>

\* The row's CHECK refuses an amount that was rounded to nothing.
RecordApproval(c) ==
  /\ c \in consented \ (denied \cup recorded)
  /\ \/ /\ Shown(asked[c])[1] > 0
        /\ Broker!Record(c)
        /\ left' = [left EXCEPT ![c] = APPROVAL_TTL]
        /\ \/ outcome' = outcome /\ UNCHANGED <<why, faults>>
           \/ /\ outcome' # outcome /\ Failing
              /\ why' = [why EXCEPT ![c] = "internal_error"]
     \/ /\ \/ Shown(asked[c])[1] = 0 /\ UNCHANGED faults
           \/ Failing
        /\ Refuse(c, "internal_error")
        /\ UNCHANGED left
  /\ UNCHANGED <<rels, agentVars, decisionVars, age, paid, approverVars>>

\* _mint: the token goes to whoever still listens.
Mint(c) ==
  /\ c \in recorded
  /\ outcome[c] = "open"
  /\ \/ Broker!Grant(c) /\ UNCHANGED <<why, faults>>
     \/ Failing /\ Refuse(c, "exchange_failed")
  /\ UNCHANGED <<rels, agentVars, decisionVars, age, left, paid, approverVars>>

\* The verdict is stored, over another one and after the thread left if so: a late
\* consent is remembered, a late denial has no effect.
StoreVerdict(c, approve) ==
  \/ /\ approve
     /\ Broker!Approve(c)
     /\ denied' = denied \ {c}
  \/ /\ ~approve
     /\ denied' = denied \cup ({c} \cap Unread)
     /\ UNCHANGED <<consented, recorded, outcome>>

\* decide(): what it looked up under the lock and found undecided may be neither by
\* the time it stores the verdict.  404 or 409 if it finds that out.
Land(d) ==
  /\ d \in sent
  /\ sent' = sent \ {d}
  /\ \/ StoreVerdict(d.call, d.approve)
     \/ d.call \notin Pending /\ UNCHANGED <<consented, recorded, outcome, denied>>
  /\ approver' = IF d.by = "gone" THEN approver
                 ELSE IF listed = {} THEN "polling" ELSE "handling"
  /\ UNCHANGED <<rels, agentVars, why, age, left, paid, kind, life, listed, seen, faults>>

-----------------------------------------------------------------------------
(* The approver                                                            *)

StartApprover(k) ==
  /\ approver = "down"
  /\ Failing
  /\ approver' = "polling"
  /\ kind' = k
  /\ life' = IF k = "auto" THEN MAX_AGE ELSE 0
  /\ UNCHANGED <<rels, agentVars, brokerVars, age, left, paid, listed, seen>>

\* The process is gone, and with it what it has seen.
ApproverGone == /\ approver' = "down"
                /\ listed' = {}
                /\ seen' = {}
                /\ kind' = "person"
                /\ life' = 0

\* Mutant of Poll: the limit is ignored.
PollForEver ==
  /\ approver = "polling"
  /\ listed' = Pending \ seen
  /\ approver' = IF listed' = {} THEN "polling" ELSE "handling"
  /\ UNCHANGED <<kind, life, seen>>
  /\ UNCHANGED <<rels, agentVars, brokerVars, age, left, paid, faults>>

\* The top of the loop: the limit, then the list, seconds later at most.
Poll ==
  /\ approver = "polling"
  /\ \/ /\ kind = "auto" /\ life = 0
        /\ ApproverGone
     \/ /\ kind = "auto" => life > 0
        /\ listed' = Pending \ seen
        /\ approver' = IF listed' = {} THEN "polling" ELSE "handling"
        /\ UNCHANGED <<kind, life, seen>>
  /\ UNCHANGED <<rels, agentVars, brokerVars, age, left, paid, faults>>

\* An item is taken, answered by the person or at once, and the decision sent: the
\* approver waits for the broker's thread, or is told that it comes too late.
Decide(c, approve) ==
  /\ approver = "handling"
  /\ c \in listed
  /\ kind = "auto" => approve
  /\ seen' = seen \cup {c}
  /\ listed' = listed \ {c}
  /\ \/ /\ c \in Pending
        /\ sent' = sent \cup {[call |-> c, approve |-> approve, by |-> "approver"]}
        /\ approver' = "sending"
     \/ /\ c \notin Pending
        /\ approver' = IF listed' = {} THEN "polling" ELSE "handling"
        /\ UNCHANGED sent
  /\ UNCHANGED <<rels, agentVars, consented, recorded, outcome, why, denied, age, left,
                 paid, kind, life, faults>>

\* Mutant of DecisionFails: the loop goes on after the exception.
DecisionFailsSilently ==
  /\ approver = "handling"
  /\ \E c \in listed : /\ seen' = seen \cup {c}
                       /\ listed' = listed \ {c}
  /\ approver' = IF listed' = {} THEN "polling" ELSE "handling"
  /\ UNCHANGED <<rels, agentVars, brokerVars, age, left, paid, kind, life, faults>>

\* decide() does not catch a failed request, nor main() an interrupt: the process
\* ends, and a decision on its way to the broker's dictionary goes on without it.
DecisionFails ==
  /\ approver \in {"handling", "sending"}
  /\ ApproverGone
  /\ sent' = {[d EXCEPT !.by = "gone"] : d \in sent}
  /\ UNCHANGED <<rels, agentVars, consented, recorded, outcome, why, denied, age, left,
                 paid, faults>>

-----------------------------------------------------------------------------
(* Time                                                                    *)

\* A timeout that is due fires before the clock goes on.
Due == \/ at = "waiting" /\ age[call] >= AGENT_TIMEOUT
       \/ \E c \in Pending : age[c] >= APPROVAL_TIMEOUT

Less(n) == IF n = 0 THEN 0 ELSE n - 1

\* Calls that somebody measures the time of.
Timed == {c \in Asked : outcome[c] = "open" \/ (c = call /\ at = "waiting")}

Tick == /\ ~Due
        /\ age' = [c \in Calls |-> IF c \notin Timed THEN 0
                                   ELSE IF age[c] < APPROVAL_TIMEOUT THEN age[c] + 1
                                   ELSE age[c]]
        /\ left' = [c \in Calls |-> Less(left[c])]
        /\ life' = Less(life)
        /\ UNCHANGED <<rels, agentVars, brokerVars, paid, approver, kind, listed,
                       seen, faults>>

-----------------------------------------------------------------------------
Agent == \/ ReceiveAnswer
         \/ GiveUp
         \/ CheckPermission
         \/ InsertCommits
         \/ InsertRefused

BrokerThread(c) == \/ ApprovalTimesOut(c)
                   \/ ReadDenial(c)
                   \/ RecordApproval(c)
                   \/ Mint(c)

DecisionThread == \E d \in sent : Land(d)

Next == \/ \E a \in Actions : CallTool(a)
        \/ Agent
        \/ CallFails
        \/ \E c \in Calls : BrokerThread(c)
        \/ DecisionThread
        \/ \E k \in {"person", "auto"} : StartApprover(k)
        \/ Poll
        \/ \E c \in Calls, approve \in BOOLEAN : Decide(c, approve)
        \/ DecisionFails
        \/ Tick

Spec == Init /\ [][Next]_vars

\* Time passes, agent and broker threads run, and the approver's loop goes round
\* unless it waits for a person.
FairSpec == /\ Spec
            /\ WF_vars(Agent)
            /\ \A c \in Calls : WF_vars(BrokerThread(c))
            /\ WF_vars(DecisionThread)
            /\ WF_vars(Poll \/ \E c \in Calls : kind = "auto" /\ Decide(c, TRUE))
            /\ WF_vars(Tick)

-----------------------------------------------------------------------------
(* What must be true                                                       *)

\* Reasons the broker gives for a failure, answers once it granted a token, and
\* all the model may read.
Reasons == {"not_in_time", "denied", "internal_error", "exchange_failed"}
AfterToken == {"paid", "over_limit", "no_authority", "row_policy", "no_approval"}
Answers == Reasons \cup AfterToken \cup {"nothing", "no_answer", "error"}

AgentTypeOK ==
  /\ at \in {"model", "waiting", "granted", "checked"}
  /\ call \in 0..MaxCalls
  /\ asked \in [Calls -> Actions \cup {Unasked}]
  /\ Asked = 1..call
  /\ told \in [Calls -> Answers]
  /\ at # "model" => call # 0 /\ told[call] = "nothing"

BrokerTypeOK ==
  /\ consented \subseteq Asked
  /\ recorded \subseteq consented
  /\ outcome \in [Calls -> Broker!Outcomes]
  /\ why \in [Calls -> Reasons \cup {"nothing"}]
  /\ denied \subseteq Asked
  /\ sent \subseteq [call : Asked, approve : BOOLEAN, by : {"approver", "gone"}]

ApproverTypeOK ==
  /\ approver \in {"down", "polling", "handling", "sending"}
  /\ kind \in {"person", "auto"}
  /\ listed \cup seen \subseteq Asked

ClockTypeOK ==
  /\ age \in [Calls -> 0..APPROVAL_TIMEOUT]
  /\ left \in [Calls -> 0..APPROVAL_TTL]
  /\ life \in 0..MAX_AGE

\* The variables hold what the processes can hold, and a call is with the agent
\* only while the model has no answer.
TypeOK ==
  /\ rels \in Scenarios
  /\ AgentTypeOK /\ BrokerTypeOK /\ ApproverTypeOK /\ ClockTypeOK
  /\ faults \in 0..MaxFaults

\* An approver marks a request seen before it sends the decision
\* (approve.py:107-109): no running approver has dropped one still to be decided, it
\* waits for its decision on it, whatever decisions of others are on their way.
NoneForgotten ==
  \A c \in Pending \cap seen : \E d \in sent : d.call = c /\ d.by = "approver"

\* The live check is there to give "a precise reason for a refusal" which "a
\* generic RLS error can't" (agent/spicedb.py:3-6).  After it the pay policy refuses
\* nothing, the policies together only a payer who may not view, and the approval is
\* missing only if it expired or the amount lies on half a cent, whichever calls came
\* before.
RefusalsExplained ==
  \A c \in Calls :
    /\ told[c] = "row_policy" => PayPolicy(asked[c].amount) /\ ~View(rels, account, user)
    /\ told[c] = "no_approval" => left[c] = 0 \/ IsHalfCent(asked[c].amount)

\* The agent, the broker, the approver and the database keep the promise of
\* SupervisedPayments, through late decisions, retries of what timed out, and
\* lost answers.
Meaning(answer) ==
  IF answer \in {"nothing", "paid"} THEN answer
  ELSE IF answer \in {"no_answer", "error", "internal_error", "exchange_failed"} THEN "unknown"
  ELSE "refused"

Promise == INSTANCE SupervisedPayments WITH
             Orders <- {Shown(a) : a \in Actions},
             shown <- [c \in Calls |-> IF c \in Asked THEN Shown(asked[c]) ELSE Unasked],
             approved <- consented,
             accepted <- recorded,
             told <- [c \in Calls |-> Meaning(told[c])]

KeepsPromise == Promise!Spec

\* Whatever is retried, answered late or lost: what Postgres holds is what the user
\* was shown and approved, to the cent, no call and no approval is worth two
\* payments, and the model is never told "paid" or a refusal of what is not so.
PaidAsApproved == Promise!Honoured

\* No tool call hangs: whatever the approver does, the model gets its answer.
EveryCallReturns == at # "model" ~> at = "model"

\* "The deadline is inside the approver, so nothing has to survive for it to take
\* effect" (approve.py:20-21): an auto-approver nobody removes stops.
OrphanStops == (kind = "auto" /\ approver # "down") ~> approver = "down"

\* "A payment hangs, then fails with `payment not approved in time'" (README.md:470):
\* what the model is told about a payment nobody decided, if no call failed.
HangsThenNotInTime ==
  \A c \in Calls :
    /\ c \notin consented \cup denied
    /\ why[c] \in {"nothing", "not_in_time"}
    /\ told[c] \notin {"nothing", "error"}
      => told[c] = "not_in_time"
=============================================================================
