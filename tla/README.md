# Specifications of the agent authorisation demo

TLA+ specifications, model-checking configurations and machine-checked proofs
for the system in `src/`: an LLM agent that acts for a user through a session
broker, with permissions defined in SpiceDB, projected into Postgres by a sync
worker, and enforced there by row level security.

Every definition is translated from the source; `PROJECT.json` names the lines
of each one. TLC runs are `tlc -config <run>.cfg <MC module>.tla`, proofs are
`tlapm <module>.tla`.

## The system

A user logs in at the **broker**, which keeps the user's Keycloak token and
gives out an opaque handle. An **agent** started with the handle names a tool.
For a read, the broker exchanges the user's token for a narrow one. For a
payment, the broker asks Keycloak whether this session may pay, shows the
payment to a human through the **approver**, waits, records what was approved as
a row of `payment_approvals`, and mints a write token. The agent then asks
**SpiceDB**, and inserts the payment as role `agent_writer`; **Postgres**
accepts it if the projection of SpiceDB's permissions and an unconsumed
approval both allow it, and a trigger consumes the approval. The **sync worker**
keeps the projection.

| Component | State | Operations | Talks to |
|---|---|---|---|
| session broker (`broker/broker.py`) | `_SESSIONS`, `_PENDING`, one thread per HTTP request | create and end a session, issue a token, authorize a payment, list and decide approvals | Keycloak, Postgres (calls); approver and agent (HTTP) |
| payment policy (`broker/authz.py`) | none | `session_may_pay` | Keycloak |
| broker identity client (`broker/identity.py`) | none | login, token exchange | Keycloak |
| approver, login (`broker/approve.py`, `login.py`) | ids already seen | poll, prompt, decide; log in | broker |
| agent (`agent/agent.py`, `identity.py`, `spicedb.py`, `db.py`) | conversation, two connections, a token per tool call | run a tool | broker, SpiceDB, Postgres |
| sync worker (`sync/sync.py`) | position in a reconcile, Watch stream | reconcile, watch | SpiceDB, Postgres |
| SpiceDB tools (`sync/bootstrap.py`, `relctl.py`, `check.py`) | none | write and check relationships | SpiceDB |
| SpiceDB schema (`spicedb/schema.zed`) | relationships | view, manage, pay | |
| Postgres (`postgres/init/*.sql`) | `transactions`, `payment_approvals`, `resource_access` | the policies and the consuming trigger | |
| Keycloak (`keycloak/*`) | clients, scopes, the payment policy | set-up by `init.py` | |

What is hard here, and what makes each component correct:

- **Broker.** The lock covers the two dictionaries and nothing else: a decision
  is looked up, tested, stored and announced in four steps, the waiting thread
  wakes, removes and reads in four more, and either may time out or be
  restarted away. Correct: no row without consent to exactly that row, no row
  after a refusal, no write token without a row, every request answered.
- **Postgres.** Several transactions decide on snapshots taken at different
  times, and `now()` is older than all of them. Correct: what commits was
  approved and not expired, an approval is spent once and never wasted.
- **Sync worker.** Its reads happen at different revisions, its commits one
  permission at a time, and its Watch stream reports only what happens while it
  is open. Correct: the projection ends up equal to SpiceDB's answer, and no row
  in it is an invention.
- **Agent and approver.** Both time out and retry around calls that may have
  had their effect already, and the agent's timeout is shorter than the wait of
  the broker behind it. Correct: a payment is made at most once per approval and
  only while the model waits for it, and every tool call ends with an answer.
- **Keycloak and `init.py`.** The realm is built by some twenty calls, each of
  which may fail, over a Keycloak that keeps nothing. Correct: at no moment does a
  read-only login pay or a token open the wrong tool, and running it again is
  enough.

`PROJECT.json` lists each hazard at the line where it bites, with the properties
that cover it.

## Modules

| Module | Models |
|---|---|
| `PaymentConsent` | what the broker promises, without threads: consent, record, grant, fail |
| `ApprovalBroker` | `broker.py`: sessions, payment threads, decisions, restarts |
| `PaymentLedger` | payments in Postgres: policies, trigger, transactions |
| `AccessModel` | `schema.zed` as operators on a set of relationships |
| `SyncWorker` | `sync.py` over a SpiceDB that changes under it and may restart empty |
| `SupervisedPayments` | what agent, broker, approver and database together promise the user |
| `PaymentFlow` | `make_payment` from the model's call to the committed row, with `approve.py` |
| `Amounts` | the roundings an amount and a limit go through |
| `RealmSetup` | `init.py`, and the logins and tokens Keycloak gives out meanwhile |
| `MC...` | small instances for TLC |
| `...Proofs` | theorems; those about `SupervisedPayments`, being few, are in that module |

`ApprovalBroker` instantiates `PaymentConsent` through a refinement mapping;
`SyncWorker` extends `AccessModel` and `Amounts`. `PaymentFlow` composes: it takes the broker
as `PaymentConsent` (its broker actions are that module's actions, with reasons
and failures), SpiceDB as `AccessModel`, amounts as `Amounts`, and implements
`SupervisedPayments` through the mapping `Promise`. Operators whose comment begins with *Mutant
of* are plausible bugs, kept next to the definition they would replace: each
property of a passing run fails when the mutant named for it in `PROJECT.json`
is put in place.

### ApprovalBroker

A `Session` and a `PendingApproval` are records in the constants `Sessions` and
`Requests`; their mutable parts are `status`, `approved` and `decided`. `pc[r]`
is the line a payment's thread has reached, `dpc[d]` that of a decision's
thread, with one step for each access to shared state or to a service:

| `authorize_payment` | step | `decide` | step |
|---|---|---|---|
| `_session`, checks | `Receive` | `_PENDING.get` | `GetPending` |
| `session_may_pay` | `SessionMayPay` | `decided.is_set()` | `TestDecided` |
| `_PENDING[id] = ...` | `Propose` | `approved = ...` | `AssignVerdict` |
| `decided.wait` | `Wake` | `decided.set()` | `SignalDecided` |
| `_PENDING.pop` | `Pop` | the response | `ConfirmDecision` |
| `approved is None` | `ReadInTime` | | |
| `not approved` | `ReadVerdict` | | |
| `_record_approval` | `RecordApproval` | | |
| `_mint` | `Mint` | | |

`Wake` may happen in any state, since a timed wait may return whether the event
is set or not. Keycloak and Postgres appear as the answers they may give,
failures included; one of them is an INSERT that committed and whose answer was
lost. `cast` and `told` are history: what approvers sent, having been shown
what, and what the broker confirmed to them. `auto` is `AUTO_APPROVE`, read when
the process starts and so perhaps different after a `Restart`; a payment it waves
through skips `_PENDING`, and counts as consent cast in advance. A `Restart` forgets `_SESSIONS` and
`_PENDING`, and the threads; rows and tokens stay.

### PaymentLedger

A payment is one INSERT in its own transaction, by one agent process, which has at
most one transaction open (`db.py` keeps one writing connection): `Begin` fixes `now()`, `Insert`
evaluates the three policies the statement meets (`pay`, preapproved, and `view`
because of `RETURNING`), `ChooseApproval` is the trigger's sub-select with the
snapshot of its own statement, `TakeApproval` is the UPDATE getting its row lock,
`Commit` publishes, `Abort` is a lost connection or process. At READ COMMITTED an
UPDATE that waited goes on with the row it chose and re-checks only `id = ...`,
so `TakeApproval` does not look at `consumed` again. The broker and the sync
worker act concurrently (`RecordApproval`, `Reconcile`). A sub-select that finds no
approval any more makes the UPDATE change no row, which the trigger does not notice
(second disjunct of `ChooseApproval`).

### SyncWorker

`ReadLimits`, one `LookupSubjects` per account and `Replace`, three times, make
a reconcile; each read sees SpiceDB at that moment. `mode` is where `main` is.
A change is counted in `unread` if the Watch is open, and otherwise leaves
`missed = "change"`, a history variable that says no later event or reconcile
is due to bring that change in. `granted` is the history of all permissions ever
held. `WatchFails` covers a broken stream and a gRPC error inside `reconcile`:
both leave the `for` loop.

`SpiceDBRestarts` empties relationships and schema, as the memory datastore does,
and breaks the Watch. Until `WriteSchema` (the first half of `bootstrap.py`) every
lookup fails, which `NoSchema` and `StreamEnds` turn into a retry or a return to the top of
the loop; the projection of before stays in Postgres meanwhile. `README.md:456-459`
of the repository names a SpiceDB restart as a cause of "no rows for everyone": that
is so only once a reconcile has succeeded on the new, still empty SpiceDB.

Bounds and payments are in thousandths of a euro. `BoundOrNull` and `RlsMayPay` round
them to cents, half a cent upwards, as the `numeric(12,2)` columns of the projection
and of `transactions` do; SpiceDB's `Pay` compares the raw numbers. So under a limit of
500 a payment of 500.004 is refused by the live check, while the row policy, asked alone,
reads 500.00 and lets it pass. `SettledDecidesAlike` states what is true: the same
answer for whole cents under bounds in whole cents, and otherwise a policy that allows
all that SpiceDB allows and less than a cent more.

### PaymentFlow

Three processes and a clock. A tick is 30 seconds.

| Code | Action |
|---|---|
| agent: `_run_tool`, `_post` | `CallTool`, `ReceiveAnswer`, `GiveUp` (the read timeout), `CallFails` |
| agent: `spicedb.authorize_payment` | `CheckPermission` |
| agent: the INSERT, policies and trigger | `InsertCommits`, `InsertRefused` |
| broker: `authorize_payment` | `ApprovalTimesOut`, `ReadDenial`, `RecordApproval`, `Mint` |
| broker: `decide`, a thread for each decision | `Land` |
| approver: `main`, `decide` | `StartApprover`, `Poll`, `Decide`, `DecisionFails` |

The agent is one thread, so there is one current `call`, but the broker's thread
for an earlier call goes on after the agent gave up, and its approval may be
consumed by a later call for the same payment. `told` is what the model reads. A
call may fail with or without its effect: `InsertCommits` may answer `error`, a
decision whose approver fails (`DecisionFails`) may still land, `RecordApproval` may
have committed.

A decision is two steps. `Decide` sends it: a request that is no longer pending is
answered with 404 or 409 at once, otherwise the decision joins `sent`. `Land` is its end,
at any later time: `decide` of `broker.py` holds no lock between finding the request and
storing the verdict, so it may store it after the request timed out or was refused, or
over the verdict of another approver, or find out before that it is too late. The thread
of the request reads what was stored last (`ReadDenial`, `RecordApproval`). The
approver waits for its decision (`"sending"`); one that dies leaves it on its way, and its
successor may decide the same request.

The approver is a person or `--auto` with a life of `MAX_AGE`; its `seen` set is lost
with the process. Poll's deadline test and the list request that follows it are one
step, and a sleep between polls is a step not taken. The user's permissions do not
change here and the projection is settled: SyncWorker is about when that is so.
There is one user, so the approver's `--user` filter lets everything through.

Facts about the code the model makes visible: a token that reaches a broker no agent
listens to is wasted together with its row, which expires; a payer who may not
`view` is refused by the SELECT policy that `RETURNING id` brings in, after
approval and token; an amount on half a cent is rounded to even by `broker.py:281`
and away from zero by the column, so that the payment may match no approval, in
spite of `04-approvals.sql:22-23`, "what the user reads is exactly what the database
will accept".

### RealmSetup

`Plan` lists the 17 things `init.py` creates in its order: six client scopes, six
assignments, and the five authorization objects. A run looks (`Look`), skips what it
saw (`Skip`) or calls (`Call`); the client scopes are listed once, at the start, the
authorization objects one list before each. A call may be answered with a conflict
when another run was faster, may die before or after its effect (`RunFails`), and the
whole realm may be lost with its container (`Recreate`), which has no volume; a
delegated token outlives that, since `agent/identity.py` decodes tokens without
verifying them.

Keycloak itself is external. What is assumed of it: names are unique; an unassigned
scope is refused (`invalid_scope`); the permission is enforced, and a resource or
scope that does not exist is an error, which `authz.py:40` takes for a refusal.
`Login` and `MintToken` follow `broker/identity.py`, `broker.py` and `authz.py`;
`Access` is what the agent's tools make of a token (audience, then database role).
Only the last login and the last token are remembered: the invariants speak of one
at a time, and each is any that could be obtained.

An observation from `authz.py:42`: everything that is not a positive answer, an
expired user token included, is reported as "this session is read-only".

## Runs

| Run | Question | Result |
|---|---|---|
| `broker_consent` | consent, refusals, publication of the verdict, `_PENDING`, tokens backed by rows, read-only ceiling; two approvers, `AUTO_APPROVE` on or off | holds |
| `broker_one_approver` | denial final, refinement of `PaymentConsent`, every payment answered, with a restart | holds |
| `broker_two_approvers` | denial final with two approvers | **violated** |
| `ledger_intent` | what commits was approved and unexpired, what is consumed was paid | holds |
| `ledger_progress` | single use within each agent process, row locks do not block for ever | holds |
| `ledger_race` | single use over two agent processes | **violated** |
| `sync_exact` | exactness when settled, agreement with SpiceDB, no invented rows, catching up if nothing is missed; with restarts of SpiceDB | holds |
| `sync_gap` | the projection catches up, with no failure at all | **violated** |
| `sync_null_limit` | a pay row without limit belongs to an owner | **violated** |
| `realm_setup` | tokens fit their tool, the write ceiling, a finished set-up is usable, reruns finish | holds |
| `flow` | refinement of `SupervisedPayments`, payments as approved, refusals explained, every call returns, nothing dropped, orphans stop | holds |
| `flow_hang` | an undecided payment is told "not approved in time" | **violated** |

All runs disable the deadlock check: the models have bounded inputs (a finite
set of requests, payments, changes) and may come to rest when these are used up,
as the system does when nobody asks it anything.

The five violations, each a disagreement between a document and the code:

1. **Two approvers** (`broker.py:198`). Both pass `is_set`, the first denies and
   is told so, the second approves; the waiting thread reads the last verdict.
   `docs/session-authorisation-flow.html:75`: "If the user denies, no token is
   issued and nothing is recorded." Consent is still never invented
   (`RecordedWithConsent` holds in the same configuration): somebody approved.
2. **One approval, two payments** (`04-approvals.sql:103`). Two agent processes
   insert at once, and the policy of both sees the approval unconsumed. In TLC's
   trace the first then commits, the sub-select of the second finds nothing, and its
   UPDATE changes no row: the trigger does not test `FOUND`, and the payment commits.
   One step longer is the other way: both sub-selects see the row, the second UPDATE
   waits for the first and then updates the same row again, re-checked by `id` only.
   Closing one of the two leaves the other. `04-approvals.sql:93-94`,
   `README.md:368`: "single use".
3. **A change before the Watch opens** (`sync.py:158`): after the reconcile of line
   156 and before the stream of `watch_loop`. It is projected only when
   some later change comes. `README.md:426-427`: the lag is "bounded by the Watch
   event + one reconcile".
4. **A limit read too early** (`sync.py:90`). A limited payer granted between
   `payment_limits` and the lookup gets a pay row with NULL, which the policy
   takes as no limit, until the next reconcile. `01-schema.sql:81`: "NULL ==
   unconditional (owners)".
5. **The agent does not wait long enough** (`agent/identity.py:158`). Its request
   times out after 30 s, the broker's wait for the user after 120 s. A payment
   nobody decides ends in a read timeout; one that the user approves after 30 s
   gets a row and a token for nobody. `README.md:470`: "A payment hangs, then fails
   with `payment not approved in time`". `KeepsPromise` holds all the same: an
   approval that comes after the agent's timeout pays for nothing but the same payment
   asked for again, and one that comes after a refusal for nothing at all.

### Bounds

- *Broker.* Two requests, one over a session that may pay and one over a session
  that may not, against two approvers and no restart; one request, one approver and
  a restart. The races are between one request's thread and the deciders, so more
  requests only add independent copies; the theorems remove the bounds.
- *Ledger.* An approval recorded at 0 expires when the clock reaches
  `APPROVAL_TTL`. `MaxClock` lets it, in all runs but `ledger_race`, where the
  race needs no clock: before, during and after a transaction. Payments that
  differ from the approved one in one column each, and two approvals that differ
  in the amount, are in `ledger_intent`; a limit on what may be paid is in
  `ledger_progress`. Every payment also needs a `view` row, because `RETURNING`
  reads what was inserted. Two processes are what a race needs; three payments, two
  of them of one process, and two approvals of the same action are what counting
  needs.
- *Sync.* `MaxWrites = 2` gives a change and one that follows it at any point of
  the reconcile it causes; `MaxErrors = 2` is enough to use up `ATTEMPTS` and to
  fail again. Two accounts, an owner, a delegate, a limited payer and an auditor
  exercise each clause of `schema.zed`. Amounts lie at and above the bounds, in whole
  cents and on both sides of half a cent; one bound is itself on half a cent.
  `ATTEMPTS` is 2 for the code's 30. A restart of SpiceDB counts as an error.
- *Flow.* Two calls, which may be a payment and its retry; two actions, a whole
  amount and one on half a cent; a delegate whose limit is on half a cent too, and a
  payer who may not view, whose limit lies between the two amounts. The timeouts
  are in ticks of 30 s: 1 for the agent, 2 for the broker and 1 for the row in `flow`,
  and the code's 1, 4, 4 in `flow_hang`. What matters, and both keep, is that the agent
  gives up before the broker, and that a row recorded late can still be alive for a
  retry. An `--auto` approver lives one tick, not 20 (`--max-age` sets it): it may stop
  while a request is still waiting. `MaxFaults = 2` counts failed calls and approvers
  started: two approvers one after the other, or one and a failure. That an approver
  dies is not counted, nor how long its decision is on the way.
- *Realm.* Two runs of `init.py`, three starts and two faults: a run that dies, the
  rerun that finds its remains, a fault in that or a loss of the realm, and a third
  start; or two runs at once. `MaxTries` is 2 for 30.

### Fairness

- `ApprovalBroker!FairSpec`: weak fairness of each payment and decision thread.
  The interpreter schedules runnable threads, the wait has a timeout, and calls
  to Keycloak carry `timeout=15`. It also assumes that Postgres answers or fails.
  Nothing is assumed of agents, approvers or sessions.
- `PaymentLedger!FairSpec`: the server executes a statement that can go on.
- `SyncWorker!FairSpec`: the worker's own steps. Restarting a dead worker is not
  fair: `docker-compose.yml` gives it no restart policy. `CatchesUpUnlessMissed`
  therefore assumes that from some time on the worker lives and nothing is
  missed, and shows that this suffices.
- `PaymentFlow!FairSpec`: the agent's thread, each broker thread, the approver's
  poll, an auto-approver's decision, the threads that store decisions, and the clock. A
  person's decision, the start of an approver and failures are never forced. The agent's
  gRPC call and its SQL carry no timeout: that SpiceDB and Postgres answer or fail is
  assumed. A timeout that is due holds the clock
  back (`Due`), so a tick cannot overtake it.
- `RealmSetup!FairSpec`: a running `init.py` goes on. `RerunCompletes` is about the
  time after the last fault, as a rerun may fail as often as Keycloak does.

## Proofs

Every theorem holds for all values of the constants that satisfy the named
assumptions of its module. They type the constants; `SyncWorker` also assumes what
SpiceDB guarantees, that a relationship carries one bound. Two theorems have a hypothesis of their own,
`OneDecider` and `OneProcess`: without it the property is false, as a run shows.

**ApprovalBrokerProofs.** `TypeInv` is `TypeOK` with what the program counters
say of `target`. `ConsentInv` adds that a verdict `"True"` under way (in a
decider's `vote` or a request's `approved`) was cast by somebody shown that
request, and gives `ConsentBeforeRow`. `RecordedWithConsent` alone is not
inductive: it says nothing of verdicts not yet recorded. `AnswerInv` ties each
step of a payment to its reply, its row and its token and gives
`RefusalIsFinal`, `TokensAreBacked` and `ReadOnlyCeiling`; `WaitInv` orders verdict
and event (`WakingIsSound`, `NothingLeftPending`). `Refinement` maps each step to one of
`PaymentConsent` or a stutter, from these invariants.

`DenialByOneIsFinal` is `DenialIsFinal` under `OneDecider`, which `broker_two_approvers`
shows to be needed. `VerdictInv` carries it: a verdict is assigned once, to a request
that was offered and has none; a verdict without its event exists only while its
decision is about to set it, or where nobody can find the request in `_PENDING` any
more (a restart between the two steps). What was told and what was recorded then agree
with the verdict as it stands. The step that needs the hypothesis is `AssignVerdict`:
between the test of the event and the assignment nobody else decides.

**PaymentLedgerProofs.** `IntentInv` says that the answer of the preapproved
policy stays true of the row from the INSERT to the commit, since approvals are
never deleted and `now()` is fixed. `ConsumeInv` says a chosen approval matches
its payment. `SingleUseInProcess` counts: across processes single use fails, as
`ledger_race` shows, but the payments of one process follow each other. `UseInv` keeps,
for each process, as many consumed approvals of an action as payments of it committed,
with one more reserved from the choice to the commit; the bound follows from the
cardinality of finite sets. `SingleUseAlone` is the documented `SingleUse`, under
`OneProcess`.

**SyncWorkerProofs.** `ExactInv` says what a reconcile that no change has overtaken has
read and committed so far: its bounds are those there are, its collected rows
those of the accounts already looked up, its committed permissions exact, and
once it is idle the whole projection. `SettledIsExact` alone is not inductive: it
says nothing while a reconcile is under way. A change makes the antecedent
`Current` false until an event starts the next reconcile, so the step that needs
work is `Replace`. The lemma `LimitsSuffice` is the heart of it: bounds read at the
same relationships give the same rows. `Exactness`, the assumption that a
relationship carries one bound, and `ColumnOrder` of `AmountsProofs` give
`DecidesAlike`, for amounts of any size: equivalence on whole cents, and the two
directions that survive the columns' rounding on the others;
`GrantedInv` gives `NothingInvented`. A restart of SpiceDB is one more change.
`SettledNullIsOwner` bounds what `sync_null_limit` shows: a row without a limit that is
not an owner's is gone once the projection has settled.

**AmountsProofs.** For amounts of any size: the two roundings agree off the half
cents (`RoundingsAgree`), which is the exception `RefusalsExplained` makes, and an
amount within a limit is still within it when their columns have rounded both
(`RoundingKeepsOrder`), which is why the row policies never refuse for the amount
after the live check. `ColumnOrder` adds the other direction: an amount within a limit
after rounding was less than a cent above it before, and not above it at all if both
are whole cents.

**SupervisedPayments.** What the abstract promise comes to, `Honoured`: each payment is
what the user was shown and approved, no call and no approval is worth two, and the
answers are true (`PromiseIsHonoured`). A consent (`Approve`) may come at any time, even
after a refusal; only an accepted one pays (`Accept`), and it is not accepted once the
model was told of a refusal or a payment. It needs that only a call that was made can be
approved, so that what is shown of it no longer changes.

**PaymentFlowProofs.** `CallInv` orders the life of a call: earlier calls are answered,
later ones unknown to everybody, the current one has been granted by the time the agent
checks it, and an answer that names a reason agrees with the broker's outcome. With
`TypeOK` it is inductive (`FlowInv`). `NothingDropped` follows: `seen` grows only with a
decision sent, which stays on its way until the request is decided or its process gone.
`Refinement` maps a tool call to `Ask`, a decision that lands to `Approve`, in time or
not, the row of an approval to `Accept`, a committed INSERT to `Pay`, every other answer
to `Answer`, and the rest to stutters. The step that needs `CallInv` is `RecordApproval`:
the thread that writes the row has not answered, so its call was not refused and was not
paid; a verdict stored after that finds nobody to act on it. With
`PromiseIsHonoured` this gives `ApprovalsAreHonoured`. `RefusalsHaveReasons` needs more
(`PayInv`): what the live check said still stands at the INSERT (`CheckInv`), and no
earlier call can have consumed the approval of the current one (`PaidInv`), which was
not recorded when they ended. That the row policy lets pass what the live check let pass
is `ColumnOrder` of `AmountsProofs`, and that the approval is found off the half
cents is `RoundingsAgree`.

**RealmSetupProofs.** The first lemmas say what is at each place of `Plan`. `RealmInv`:
the realm holds only what the plan puts there, no two scopes share a name, and nothing
is assigned before all scopes exist. `ProgressInv`: what lies behind a run in the plan is
in the realm, and what a run has seen listed is there; so an item that is skipped is
there (`KnownIsThere`), which is where the single list of scopes, taken before the
first is created, could have gone wrong. `TokenInv` says what logins and tokens were
stamped with. From these, for any number of runs, failures and losses of the realm:
`TokensFit`, `WriteCeiling` and `SetupSuffices`.

Liveness (`EveryPaymentAnswered`, `EveryPaymentEnds`, `CatchesUpUnlessMissed`,
`RerunCompletes`, `EveryCallReturns`, `OrphanStops`) is model-checked only, since the
prover does not reason about fairness and `ENABLED`. Every invariant and refinement that
a run checks is proved, `DenialIsFinal` with one approver. No module declares a
RECURSIVE operator.

## What is left out

- What a read returns and the `manage` policies on UPDATE and DELETE, which nothing
  in the payment path uses; the textual checks on SQL in `db.py`, which the read-only
  transaction and role do not rely on.
- `document.zed`, which nothing loads.
- Several users behind one approver: `ApprovalBroker` has sessions of any users, but
  the `--user` filter only hides what others see.
- Permissions that change during a payment: in `PaymentLedger` they do, with the row
  policies; in `PaymentFlow` they are settled, so `RefusalsExplained` is about a user
  whose permissions rest.
- In `PaymentFlow`, what `ApprovalBroker` has: restarts of the broker, sessions that end,
  malformed fields and the refusal of a read-only session (403 before anything is
  pending). The session there is open and may pay. `--max-age 0`, no limit, is left
  out: `OrphanStops` is about approvers that have one.
- What becomes of a payment whose session is closed while it waits: `ApprovalBroker`
  does it (`EndSession` at any time), and the payment goes on; nothing is promised.
- Configuration, printing, the demo scripts, and the language model, whose requests
  are arbitrary inputs.

## Plan

1. *Done:* the broker and its refinement, the ledger, the sync worker with SpiceDB's
   restarts, the access model, the payment flow and its refinement, the amounts, the
   realm and its set-up.
2. *Done:* theorems on every invariant and refinement the runs check.
3. Left: what bounds the contradiction of two approvers, who should be able to overrule
   each other only while both decide at once; and, as action properties, what no step may
   undo (an answer, a row, an announced verdict with no decision in flight).
