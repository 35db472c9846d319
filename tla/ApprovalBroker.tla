--------------------------- MODULE ApprovalBroker ---------------------------
(***************************************************************************)
(* The session broker, broker/broker.py: login sessions, the payment       *)
(* requests that block on a human decision, and the decisions.             *)
(*                                                                         *)
(* ThreadingHTTPServer gives each HTTP request a thread, so every step     *)
(* below that is not under _LOCK may interleave with every other: a        *)
(* payment request is a thread with a program counter `pc', a decision is  *)
(* a thread of the approver that sent it, with a program counter `dpc'.    *)
(* A Session object is the record it holds; a PendingApproval object is    *)
(* the request itself (its id, session and action), its `approved' field   *)
(* and its `decided' event.  Keycloak and Postgres appear as the answers   *)
(* they may give.                                                          *)
(***************************************************************************)
EXTENDS Naturals

CONSTANTS
  Sessions,      \* Session objects: records with fields user and purpose
  Requests,      \* POST .../payments calls: records with session and action
  Deciders,      \* clients of /approvals, one decision at a time each
  NoRequest,     \* no payment request: what a read token was minted for
  MaxRestarts    \* bound on restarts of the broker process

Purposes == {"read", "readwrite"}
Tools == {"query_transactions", "make_payment"}

ASSUME SessionsAssumption == \A s \in Sessions : s.purpose \in Purposes
ASSUME RequestsAssumption == \A r \in Requests : r.session \in Sessions
ASSUME NoRequestAssumption == NoRequest \notin Requests
ASSUME MaxRestartsAssumption == MaxRestarts \in Nat

VARIABLES
  auto,       \* AUTO_APPROVE: "on" when this process found BROKER_AUTO_APPROVE = 1
  status,     \* where each session is: "unopened", "open" (in _SESSIONS), "closed"
  stale,      \* sessions whose user token Keycloak no longer accepts
  pc,         \* the thread of each payment request
  reply,      \* the answer it sent
  pending,    \* keys of _PENDING
  approved,   \* PendingApproval.approved
  decided,    \* requests whose PendingApproval.decided event is set
  approvals,  \* rows of payment_approvals
  tokens,     \* delegated tokens minted
  dpc,        \* the thread serving each decider
  shown,      \* the items of the decider's last GET /approvals/pending
  target,     \* the item it is deciding
  vote,       \* and how
  cast,       \* history: the decisions sent, with what the decider was shown;
              \*   AUTO_APPROVE is one sent in advance for each payment
  told,       \* history: the decisions the broker confirmed (status 200)
  restarts    \* restarts so far

processVars == <<auto, status, stale>>
requestVars == <<pc, reply>>
decisionVars == <<dpc, shown, target, vote, cast, told>>
vars == <<auto, status, stale, pc, reply, pending, approved, decided, approvals,
          tokens, dpc, shown, target, vote, cast, told, restarts>>

Verdicts == {"True", "False"}
Switch == {"on", "off"}
RequestSteps == {"new", "policy", "propose", "wait", "pop", "read", "reread",
                 "record", "mint", "done"}
DecisionSteps == {"idle", "get", "test", "assign", "signal", "confirm"}
Replies == {"none", "unknown_session", "bad_request", "read_only", "not_in_time",
            "denied", "mint_failed", "internal_error", "granted", "lost"}

\* What GET /approvals/pending shows of a request: PendingApproval.public().
Public(r) == [id |-> r, user |-> r.session.user, action |-> r.action]

\* The row _record_approval inserts for it.
ApprovalRow(r) == [id |-> r, subject |-> r.session.user, action |-> r.action]

Items == {Public(r) : r \in Requests}

Init == /\ auto \in Switch
        /\ status = [s \in Sessions |-> "unopened"]
        /\ stale = {}
        /\ pc = [r \in Requests |-> "new"]
        /\ reply = [r \in Requests |-> "none"]
        /\ pending = {}
        /\ approved = [r \in Requests |-> "None"]
        /\ decided = {}
        /\ approvals = {}
        /\ tokens = {}
        /\ dpc = [d \in Deciders |-> "idle"]
        /\ shown = [d \in Deciders |-> {}]
        /\ target = [d \in Deciders |-> NoRequest]
        /\ vote = [d \in Deciders |-> "False"]
        /\ cast = {}
        /\ told = {}
        /\ restarts = 0

Goto(r, step) == /\ pc' = [pc EXCEPT ![r] = step]
                 /\ UNCHANGED reply

Answer(r, answer) == /\ pc' = [pc EXCEPT ![r] = "done"]
                     /\ reply' = [reply EXCEPT ![r] = answer]

-----------------------------------------------------------------------------
(* Sessions                                                                *)

\* create_session, once Keycloak accepted the password.  A refused login
\* changes nothing.  Handles are random, so no session is opened twice.
CreateSession(s) ==
  /\ status[s] = "unopened"
  /\ status' = [status EXCEPT ![s] = "open"]
  /\ UNCHANGED <<auto, stale, requestVars, pending, approved, decided,
                 approvals, tokens, decisionVars, restarts>>

\* end_session: the handle goes, but threads that hold the Session keep it.
EndSession(s) ==
  /\ status[s] = "open"
  /\ status' = [status EXCEPT ![s] = "closed"]
  /\ UNCHANGED <<auto, stale, requestVars, pending, approved, decided,
                 approvals, tokens, decisionVars, restarts>>

\* The user token outlives accessTokenLifespan; the broker is not told.
UserTokenExpires(s) ==
  /\ status[s] # "unopened"
  /\ s \notin stale
  /\ stale' = stale \cup {s}
  /\ UNCHANGED <<auto, status, requestVars, pending, approved, decided,
                 approvals, tokens, decisionVars, restarts>>

\* The tokens a session's user token is worth: token exchange needs it live.
MintedFor(s, tool, approval) ==
  IF s \in stale THEN {}
  ELSE {[tool |-> tool, session |-> s, approval |-> approval]}

\* Mutant of IssueToken: make_payment is not refused.
IssueAnyToken(s, tool) ==
  /\ status[s] = "open"
  /\ tokens' = tokens \cup MintedFor(s, tool, NoRequest)
  /\ UNCHANGED <<processVars, requestVars, pending, approved, decided,
                 approvals, decisionVars, restarts>>

\* issue_token: refused for make_payment, whatever the session.
IssueToken(s, tool) ==
  /\ status[s] = "open"
  /\ tool # "make_payment"
  /\ tokens' = tokens \cup MintedFor(s, tool, NoRequest)
  /\ UNCHANGED <<processVars, requestVars, pending, approved, decided,
                 approvals, decisionVars, restarts>>

-----------------------------------------------------------------------------
(* authorize_payment, one step per access to shared state or service       *)

\* The body is parsed, then _session under _LOCK, then the fields: what a check or
\* a conversion does not foresee is an internal error.
Receive(r) ==
  /\ pc[r] = "new"
  /\ \/ status[r.session] = "open" /\ Goto(r, "policy")
     \/ status[r.session] # "open" /\ Answer(r, "unknown_session")
     \/ Answer(r, "bad_request")
     \/ Answer(r, "internal_error")
  /\ UNCHANGED <<processVars, pending, approved, decided, approvals, tokens,
                 decisionVars, restarts>>

\* Mutant of SessionMayPay: the policy does not look at session_purpose.
AnySessionMayPay(r) ==
  /\ pc[r] = "policy"
  /\ \/ r.session \notin stale /\ Goto(r, "propose")
     \/ Answer(r, "read_only")
  /\ UNCHANGED <<processVars, pending, approved, decided, approvals, tokens,
                 decisionVars, restarts>>

\* authz.session_may_pay.  Keycloak grants payment#execute to a live token
\* whose session_purpose is readwrite; any other answer of it reads as "this
\* session is read-only", and no answer at all is an internal error.
SessionMayPay(r) ==
  /\ pc[r] = "policy"
  /\ \/ r.session.purpose = "readwrite" /\ r.session \notin stale /\ Goto(r, "propose")
     \/ Answer(r, "read_only")
     \/ Answer(r, "internal_error")
  /\ UNCHANGED <<processVars, pending, approved, decided, approvals, tokens,
                 decisionVars, restarts>>

\* Mutant of Propose: the row is recorded with the request, not the approval.
ProposeAndRecord(r) ==
  /\ pc[r] = "propose"
  /\ approvals' = approvals \cup {ApprovalRow(r)}
  /\ pending' = pending \cup {r}
  /\ Goto(r, "wait")
  /\ UNCHANGED <<processVars, approved, decided, tokens, decisionVars,
                 restarts>>

Propose(r) ==
  /\ pc[r] = "propose"
  /\ \/ /\ auto = "on"
        /\ approved' = [approved EXCEPT ![r] = "True"]
        /\ cast' = cast \cup {[item |-> Public(r), approve |-> "True"]}
        /\ Goto(r, "record")
        /\ UNCHANGED pending
     \/ /\ auto = "off"
        /\ pending' = pending \cup {r}
        /\ Goto(r, "wait")
        /\ UNCHANGED <<approved, cast>>
  /\ UNCHANGED <<processVars, decided, approvals, tokens, dpc, shown, target,
                 vote, told, restarts>>

\* Mutant of Wake: decided.wait() without a timeout.
WakeWhenDecided(r) ==
  /\ pc[r] = "wait"
  /\ r \in decided
  /\ Goto(r, "pop")
  /\ UNCHANGED <<processVars, pending, approved, decided, approvals, tokens,
                 decisionVars, restarts>>

\* decided.wait(timeout=APPROVAL_TIMEOUT) returns when the event is set, and
\* after the timeout whether it is set or not: it may return in any state.
Wake(r) ==
  /\ pc[r] = "wait"
  /\ Goto(r, "pop")
  /\ UNCHANGED <<processVars, pending, approved, decided, approvals, tokens,
                 decisionVars, restarts>>

\* Mutant of Pop: the request stays in _PENDING.
LeavePending(r) ==
  /\ pc[r] = "pop"
  /\ Goto(r, "read")
  /\ UNCHANGED <<processVars, pending, approved, decided, approvals, tokens,
                 decisionVars, restarts>>

Pop(r) ==
  /\ pc[r] = "pop"
  /\ pending' = pending \ {r}
  /\ Goto(r, "read")
  /\ UNCHANGED <<processVars, approved, decided, approvals, tokens,
                 decisionVars, restarts>>

\* if pending.approved is None
ReadInTime(r) ==
  /\ pc[r] = "read"
  /\ \/ approved[r] = "None" /\ Answer(r, "not_in_time")
     \/ approved[r] # "None" /\ Goto(r, "reread")
  /\ UNCHANGED <<processVars, pending, approved, decided, approvals, tokens,
                 decisionVars, restarts>>

\* Mutant of ReadVerdict: any verdict in time is an approval.
AnyVerdict(r) ==
  /\ pc[r] = "reread"
  /\ Goto(r, "record")
  /\ UNCHANGED <<processVars, pending, approved, decided, approvals, tokens,
                 decisionVars, restarts>>

\* if not pending.approved: a second read of the field
ReadVerdict(r) ==
  /\ pc[r] = "reread"
  /\ \/ approved[r] # "True" /\ Answer(r, "denied")
     \/ approved[r] = "True" /\ Goto(r, "record")
  /\ UNCHANGED <<processVars, pending, approved, decided, approvals, tokens,
                 decisionVars, restarts>>

\* _record_approval autocommits one row, or Postgres refuses it (unknown
\* account, amount rounded to zero) or is down, or the connection breaks after
\* the row was committed.
RecordApproval(r) ==
  /\ pc[r] = "record"
  /\ \/ approvals' = approvals \cup {ApprovalRow(r)} /\ Goto(r, "mint")
     \/ approvals' = approvals \cup {ApprovalRow(r)} /\ Answer(r, "internal_error")
     \/ Answer(r, "internal_error") /\ UNCHANGED approvals
  /\ UNCHANGED <<processVars, pending, approved, decided, tokens,
                 decisionVars, restarts>>

\* _mint(session, "make_payment"), then the answer.
Mint(r) ==
  /\ pc[r] = "mint"
  /\ \/ /\ r.session \notin stale
        /\ tokens' = tokens \cup MintedFor(r.session, "make_payment", r)
        /\ Answer(r, "granted")
     \/ Answer(r, "mint_failed") /\ UNCHANGED tokens
     \/ Answer(r, "internal_error") /\ UNCHANGED tokens
  /\ UNCHANGED <<processVars, pending, approved, decided, approvals,
                 decisionVars, restarts>>

-----------------------------------------------------------------------------
(* list_pending and decide                                                 *)

\* list_pending, under _LOCK.
ListPending(d) ==
  /\ dpc[d] = "idle"
  /\ shown' = [shown EXCEPT ![d] = {Public(r) : r \in {q \in pending : approved[q] = "None"}}]
  /\ UNCHANGED <<processVars, requestVars, pending, approved, decided,
                 approvals, tokens, dpc, target, vote, cast, told, restarts>>

\* The decider answers a prompt, however old the list it came from.
SendDecision(d, item, approve) ==
  /\ dpc[d] = "idle"
  /\ item \in shown[d]
  /\ dpc' = [dpc EXCEPT ![d] = "get"]
  /\ target' = [target EXCEPT ![d] = item.id]
  /\ vote' = [vote EXCEPT ![d] = approve]
  /\ cast' = cast \cup {[item |-> item, approve |-> approve]}
  /\ UNCHANGED <<processVars, requestVars, pending, approved, decided,
                 approvals, tokens, shown, told, restarts>>

DecisionGoto(d, step) == /\ dpc' = [dpc EXCEPT ![d] = step]
                         /\ UNCHANGED <<target, vote>>

\* The handler returns and its locals go.
DecisionEnd(d) == /\ dpc' = [dpc EXCEPT ![d] = "idle"]
                  /\ target' = [target EXCEPT ![d] = NoRequest]
                  /\ vote' = [vote EXCEPT ![d] = "False"]

\* _PENDING.get under _LOCK: 404 when it is gone.
GetPending(d) ==
  /\ dpc[d] = "get"
  /\ \/ target[d] \in pending /\ DecisionGoto(d, "test")
     \/ target[d] \notin pending /\ DecisionEnd(d)
  /\ UNCHANGED <<processVars, requestVars, pending, approved, decided,
                 approvals, tokens, shown, cast, told, restarts>>

\* Mutant of TestDecided: a second decision is not refused.
DecideAgain(d) ==
  /\ dpc[d] = "test"
  /\ DecisionGoto(d, "assign")
  /\ UNCHANGED <<processVars, requestVars, pending, approved, decided,
                 approvals, tokens, shown, cast, told, restarts>>

\* Mutant of TestDecided: the event is tested and set, then the verdict stored.
TestAndSet(d) ==
  /\ dpc[d] = "test"
  /\ \/ target[d] \notin decided /\ DecisionGoto(d, "assign")
     \/ target[d] \in decided /\ DecisionEnd(d)
  /\ decided' = decided \cup {target[d]}
  /\ UNCHANGED <<processVars, requestVars, pending, approved, approvals,
                 tokens, shown, cast, told, restarts>>

\* decided.is_set(), with the lock released: 409 when it is.
TestDecided(d) ==
  /\ dpc[d] = "test"
  /\ \/ target[d] \notin decided /\ DecisionGoto(d, "assign")
     \/ target[d] \in decided /\ DecisionEnd(d)
  /\ UNCHANGED <<processVars, requestVars, pending, approved, decided,
                 approvals, tokens, shown, cast, told, restarts>>

\* Mutant of AssignVerdict: the verdict is not stored.
ForgetVerdict(d) ==
  /\ dpc[d] = "assign"
  /\ DecisionGoto(d, "signal")
  /\ UNCHANGED <<processVars, requestVars, pending, approved, decided,
                 approvals, tokens, shown, cast, told, restarts>>

AssignVerdict(d) ==
  /\ dpc[d] = "assign"
  /\ approved' = [approved EXCEPT ![target[d]] = vote[d]]
  /\ DecisionGoto(d, "signal")
  /\ UNCHANGED <<processVars, requestVars, pending, decided, approvals,
                 tokens, shown, cast, told, restarts>>

SignalDecided(d) ==
  /\ dpc[d] = "signal"
  /\ decided' = decided \cup {target[d]}
  /\ DecisionGoto(d, "confirm")
  /\ UNCHANGED <<processVars, requestVars, pending, approved, approvals,
                 tokens, shown, cast, told, restarts>>

\* The response reads pending.approved once more.
ConfirmDecision(d) ==
  /\ dpc[d] = "confirm"
  /\ told' = told \cup {[id |-> target[d], approved |-> approved[target[d]]]}
  /\ DecisionEnd(d)
  /\ UNCHANGED <<processVars, requestVars, pending, approved, decided,
                 approvals, tokens, shown, cast, restarts>>

-----------------------------------------------------------------------------
(* The process                                                             *)

InFlight == {r \in Requests : pc[r] \notin {"new", "done"}}

\* _SESSIONS and _PENDING live in memory; payment_approvals does not.  The new
\* process reads BROKER_AUTO_APPROVE again.
Restart ==
  /\ restarts < MaxRestarts
  /\ restarts' = restarts + 1
  /\ auto' \in Switch
  /\ status' = [s \in Sessions |-> IF status[s] = "open" THEN "closed" ELSE status[s]]
  /\ pending' = {}
  /\ pc' = [r \in Requests |-> IF r \in InFlight THEN "done" ELSE pc[r]]
  /\ reply' = [r \in Requests |-> IF r \in InFlight THEN "lost" ELSE reply[r]]
  /\ dpc' = [d \in Deciders |-> "idle"]
  /\ target' = [d \in Deciders |-> NoRequest]
  /\ vote' = [d \in Deciders |-> "False"]
  /\ UNCHANGED <<stale, approved, decided, approvals, tokens, shown, cast,
                 told>>

PaymentThread(r) == \/ SessionMayPay(r) \/ Propose(r) \/ Wake(r) \/ Pop(r)
                    \/ ReadInTime(r) \/ ReadVerdict(r) \/ RecordApproval(r)
                    \/ Mint(r)

DecisionThread(d) == \/ GetPending(d) \/ TestDecided(d) \/ AssignVerdict(d)
                     \/ SignalDecided(d) \/ ConfirmDecision(d)

SessionStep(s) == \/ CreateSession(s) \/ EndSession(s) \/ UserTokenExpires(s)
                  \/ \E tool \in Tools : IssueToken(s, tool)

DeciderStep(d) == \/ ListPending(d)
                  \/ \E item \in Items, v \in Verdicts : SendDecision(d, item, v)

Next == \/ \E s \in Sessions : SessionStep(s)
        \/ \E r \in Requests : Receive(r) \/ PaymentThread(r)
        \/ \E d \in Deciders : DeciderStep(d) \/ DecisionThread(d)
        \/ Restart

Spec == Init /\ [][Next]_vars

\* The interpreter schedules every runnable thread, a timed wait returns, and
\* the calls to Keycloak (which carry timeouts) and to Postgres return.  Nothing
\* makes an agent send a request or a human look at a prompt.
FairSpec == /\ Spec
            /\ \A r \in Requests : WF_vars(PaymentThread(r))
            /\ \A d \in Deciders : WF_vars(DecisionThread(d))
-----------------------------------------------------------------------------
(* What must be true                                                       *)

\* Every variable holds the values its Python counterpart can hold.
TypeOK ==
  /\ auto \in Switch
  /\ status \in [Sessions -> {"unopened", "open", "closed"}]
  /\ stale \subseteq Sessions
  /\ pc \in [Requests -> RequestSteps]
  /\ reply \in [Requests -> Replies]
  /\ pending \subseteq Requests
  /\ approved \in [Requests -> Verdicts \cup {"None"}]
  /\ decided \subseteq Requests
  /\ approvals \subseteq {ApprovalRow(r) : r \in Requests}
  /\ tokens \subseteq [tool : Tools, session : Sessions, approval : Requests \cup {NoRequest}]
  /\ dpc \in [Deciders -> DecisionSteps]
  /\ shown \in [Deciders -> SUBSET Items]
  /\ target \in [Deciders -> Requests \cup {NoRequest}]
  /\ vote \in [Deciders -> Verdicts]
  /\ cast \subseteq [item : Items, approve : Verdicts]
  /\ told \subseteq [id : Requests, approved : Verdicts]
  /\ restarts \in 0..MaxRestarts

\* A row of payment_approvals exists only because somebody, shown exactly that
\* subject and action under that id, sent an approval of it (or a process started
\* to approve everything got to it).  authorize_payment / _record_approval: no
\* interleaving of decisions, timeouts and list refreshes may record a payment on
\* the strength of a denial, a timeout, another payment's approval or the
\* AUTO_APPROVE of a process that is gone.
RecordedWithConsent ==
  \A row \in approvals :
    [item |-> [id |-> row.id, user |-> row.subject, action |-> row.action],
     approve |-> "True"] \in cast

\* An agent that was told its payment was denied, late, not permitted or
\* malformed can rely on it: no row for that request exists, then or later, even
\* when an approver's verdict lands after the broker gave up waiting.
RefusedNeverRecorded ==
  \A r \in Requests :
    reply[r] \in {"unknown_session", "bad_request", "read_only", "not_in_time", "denied"}
      => ApprovalRow(r) \notin approvals

\* Every make_payment token in circulation is backed by an approval row of its
\* own for its session's user (authorize_payment records before it mints, and
\* issue_token refuses make_payment), so a write token is never minted ahead of
\* the row that the database will demand.
WriteTokenHasApproval ==
  \A t \in tokens :
    t.tool = "make_payment" =>
      \E row \in approvals : row.id = t.approval /\ row.subject = t.session.user

\* The per-session ceiling: a session opened with purpose=read never causes an
\* approval row or a write token, at any point of any interleaving.
ReadOnlySessionNeverPays ==
  /\ \A r \in Requests : r.session.purpose = "read" => ApprovalRow(r) \notin approvals
  /\ \A t \in tokens : t.session.purpose = "read" => t.tool # "make_payment"

\* decide publishes its verdict before it sets the event: a thread woken by
\* `decided' never finds `approved' still None and reports "not approved in time".
EventPublishesVerdict == \A r \in decided : approved[r] # "None"

\* _PENDING holds only requests whose thread is still waiting, so an approver is
\* never offered a payment that was answered, and the dict does not grow.
PendingIsWaiting == \A r \in pending : pc[r] \in {"wait", "pop"}

\* "If the user denies, no token is issued and nothing is recorded"
\* (docs/session-authorisation-flow.html:75): once the broker confirmed a denial,
\* the payment has no row and no token.
DenialIsFinal ==
  \A t \in told :
    t.approved = "False" =>
      /\ \A row \in approvals : row.id # t.id
      /\ \A token \in tokens : token.approval # t.id

\* Every payment request that reached the broker is answered, if only with a
\* timeout: a human who never looks cannot hang a thread for ever.
EveryPaymentAnswered == \A r \in Requests : pc[r] # "new" ~> pc[r] = "done"

\* Without its threads the broker is PaymentConsent: ids consented to, ids
\* recorded, and the outcome of each request.
Outcome(r) == IF reply[r] = "none" THEN "open"
              ELSE IF reply[r] = "granted" THEN "granted" ELSE "failed"

Consent == INSTANCE PaymentConsent WITH
             Payments <- Requests,
             consented <- {c.item.id : c \in {b \in cast : b.approve = "True"}},
             recorded <- {row.id : row \in approvals},
             outcome <- [r \in Requests |-> Outcome(r)]

\* The broker implements PaymentConsent.
ImplementsConsent == Consent!Spec
=============================================================================
