----------------------------- MODULE RealmSetup -----------------------------
(***************************************************************************)
(* The Keycloak realm while keycloak/init.py sets it up, run after run,    *)
(* and what logins and token exchanges get from it in the meantime: the    *)
(* claim of a user token (broker/identity.py), the per-session policy      *)
(* (broker/authz.py), the scopes and audience of a delegated token         *)
(* (broker/broker.py), and what the agent's tools make of such a token     *)
(* (agent/agent.py, agent/identity.py, agent/db.py).                       *)
(*                                                                         *)
(* Each call of init.py is a step, and Keycloak may answer it with the     *)
(* change made and the answer lost.  Two runs may overlap.  Keycloak       *)
(* itself is external: it refuses a scope that is not assigned to the      *)
(* client, and its policy is enforcing.                                    *)
(***************************************************************************)
EXTENDS Integers, Sequences, FiniteSets

CONSTANTS
  Runs,      \* containers of keycloak-init, each may be started again
  MaxTries,  \* tries for an admin token, 30 in init.py
  MaxStarts, \* bound on the starts of runs
  MaxFaults  \* bound on failed calls, crashes and losses of the realm

ASSUME RealmBoundsAssumption ==
  MaxTries \in Nat \ {0} /\ MaxStarts \in Nat /\ MaxFaults \in Nat

VARIABLES
  scopes,    \* client scopes of the realm, <<name, what its mapper stamps>>
  assigned,  \* <<client, scope>>: optional scopes a client may request
  authz,     \* authorization objects of the payments client
  pc,        \* of a run: "ready", "token", "look", "call", "done", "failed"
  at,        \* of a run: the item of Plan it is at
  seen,      \* of a run: the names it last read from Keycloak
  tries,     \* of a run: its failed tries for an admin token
  logins,    \* the live user token issued last: its purpose and claim
  tokens,    \* the delegated token minted last
  starts, faults

realm == <<scopes, assigned, authz>>
runVars == <<pc, at, seen, tries>>
vars == <<realm, runVars, logins, tokens, starts, faults>>

-----------------------------------------------------------------------------
(* What init.py puts into the realm, in its order                          *)

SCOPES == << <<"finance:read", "nothing">>,
             <<"finance:write", "nothing">>,
             <<"svc:transactions", "transactions-service">>,
             <<"svc:payments", "payments-service">>,
             <<"purpose:read", "read">>,
             <<"purpose:readwrite", "readwrite">> >>

TX_CLIENT == "finance-agent-transactions"
PAY_CLIENT == "finance-agent-payments"
PORTAL_CLIENT == "finance-portal"

CLIENT_SCOPES == << <<TX_CLIENT, "finance:read">>,
                    <<TX_CLIENT, "svc:transactions">>,
                    <<PAY_CLIENT, "finance:write">>,
                    <<PAY_CLIENT, "svc:payments">>,
                    <<PORTAL_CLIENT, "purpose:read">>,
                    <<PORTAL_CLIENT, "purpose:readwrite">> >>

AUTHORIZATION == <<"services", "execute", "payment", "session-is-readwrite",
                   "payment#execute">>

Items(kind, things) == [i \in 1..Len(things) |-> <<kind, things[i]>>]

Plan == Items("scope", SCOPES) \o Items("assign", CLIENT_SCOPES)
          \o Items("authz", AUTHORIZATION)

Names == {scope[1] : scope \in scopes}

\* The names a GET of the kind returns.
Listed(kind) == IF kind = "authz" THEN authz ELSE Names

NameOf(item) == IF item[1] = "scope" THEN item[2][1] ELSE item[2]

Running(r) == pc[r] \in {"token", "look", "call"}

Alone(r) == \A q \in Runs \ {r} : ~Running(q)

Init == /\ scopes = {}
        /\ assigned = {}
        /\ authz = {}
        /\ pc = [r \in Runs |-> "ready"]
        /\ at = [r \in Runs |-> 1]
        /\ seen = [r \in Runs |-> {}]
        /\ tries = [r \in Runs |-> 0]
        /\ logins = {}
        /\ tokens = {}
        /\ starts = 0
        /\ faults = 0

-----------------------------------------------------------------------------
(* A run of init.py                                                        *)

\* The process is gone, and its variables with it.
Exit(r, code) == /\ pc' = [pc EXCEPT ![r] = code]
                 /\ at' = [at EXCEPT ![r] = 1]
                 /\ seen' = [seen EXCEPT ![r] = {}]
                 /\ tries' = [tries EXCEPT ![r] = 0]

Start(r) == /\ ~Running(r)
            /\ starts < MaxStarts
            /\ starts' = starts + 1
            /\ pc' = [pc EXCEPT ![r] = "token"]
            /\ UNCHANGED <<realm, at, seen, tries, logins, tokens, faults>>

AdminToken(r) == /\ pc[r] = "token"
                 /\ pc' = [pc EXCEPT ![r] = "look"]
                 /\ tries' = [tries EXCEPT ![r] = 0]
                 /\ UNCHANGED <<realm, at, seen, logins, tokens, starts, faults>>

Failing == faults < MaxFaults /\ faults' = faults + 1

\* Mutant of AdminTokenRetry: the retry loop has no end.
RetryForToken(r) ==
  /\ Failing
  /\ pc[r] = "token"
  /\ tries' = [tries EXCEPT ![r] = @ + 1]
  /\ UNCHANGED <<realm, pc, at, seen, logins, tokens, starts>>

AdminTokenRetry(r) ==
  /\ Failing
  /\ pc[r] = "token"
  /\ \/ /\ tries[r] + 1 < MaxTries
        /\ tries' = [tries EXCEPT ![r] = @ + 1]
        /\ UNCHANGED <<pc, at, seen>>
     \/ /\ tries[r] + 1 = MaxTries
        /\ Exit(r, "failed")
  /\ UNCHANGED <<realm, logins, tokens, starts>>

\* The client scopes are listed once, the authorization objects one by one.
Look(r) == /\ pc[r] = "look"
           /\ seen' = [seen EXCEPT ![r] = Listed(Plan[at[r]][1])]
           /\ pc' = [pc EXCEPT ![r] = "call"]
           /\ UNCHANGED <<realm, at, tries, logins, tokens, starts, faults>>

\* The run is through with its item.
Advance(r) ==
  \/ /\ at[r] = Len(Plan)
     /\ Exit(r, "done")
  \/ /\ at[r] < Len(Plan)
     /\ at' = [at EXCEPT ![r] = @ + 1]
     /\ LET next == Plan[at[r] + 1][1] IN
          /\ pc' = [pc EXCEPT ![r] = IF next = "authz" THEN "look" ELSE "call"]
          /\ seen' = [seen EXCEPT ![r] = IF next = "scope" THEN @ ELSE {}]
     /\ UNCHANGED tries

\* Mutant of Known: what exists is not skipped.
NothingKnown(r, item) == FALSE

\* Mutant of Known: a realm with something in it counts as set up.
KnownIfAny(r, item) == item[1] # "assign" /\ seen[r] # {}

\* The run saw the item among what exists.
Known(r, item) == item[1] # "assign" /\ NameOf(item) \in seen[r]

Skip(r) == /\ pc[r] = "call"
           /\ Known(r, Plan[at[r]])
           /\ Advance(r)
           /\ UNCHANGED <<realm, logins, tokens, starts, faults>>

\* Mutant of Apply: a scope is created bare.
ApplyBare(item) ==
  /\ scopes' = IF item[1] = "scope" THEN scopes \cup {<<item[2][1], "nothing">>} ELSE scopes
  /\ assigned' = IF item[1] = "assign" THEN assigned \cup {item[2]} ELSE assigned
  /\ authz' = IF item[1] = "authz" THEN authz \cup {item[2]} ELSE authz

\* One POST or PUT; a scope is created with its mapper.
Apply(item) ==
  /\ scopes' = IF item[1] = "scope" THEN scopes \cup {item[2]} ELSE scopes
  /\ assigned' = IF item[1] = "assign" THEN assigned \cup {item[2]} ELSE assigned
  /\ authz' = IF item[1] = "authz" THEN authz \cup {item[2]} ELSE authz

\* Somebody else created it since this run looked.
Clashes(item) == /\ item[1] # "assign"
                 /\ item[2] # "services"
                 /\ NameOf(item) \in Listed(item[1])

\* Keycloak may also accept an authorization object that is there already.
Call(r) == LET item == Plan[at[r]] IN
  /\ pc[r] = "call"
  /\ ~Known(r, item)
  /\ ~Clashes(item) \/ item[1] = "authz"
  /\ Apply(item)
  /\ Advance(r)
  /\ UNCHANGED <<logins, tokens, starts, faults>>

CallConflicts(r) ==
  /\ pc[r] = "call"
  /\ ~Known(r, Plan[at[r]])
  /\ Clashes(Plan[at[r]])
  /\ Exit(r, "failed")
  /\ UNCHANGED <<realm, logins, tokens, starts, faults>>

\* The run dies, or loses a call, before or after Keycloak acted on it.
RunFails(r) ==
  /\ Failing
  /\ Running(r)
  /\ Exit(r, "failed")
  /\ \/ UNCHANGED realm
     \/ /\ pc[r] = "call"
        /\ ~Known(r, Plan[at[r]])
        /\ ~Clashes(Plan[at[r]])
        /\ Apply(Plan[at[r]])
  /\ UNCHANGED <<logins, tokens, starts>>

\* The dev container is recreated: the realm is imported afresh with new keys,
\* so that user tokens and admin tokens are void.  Delegated tokens are not
\* verified against the keys.
Recreate ==
  /\ Failing
  /\ scopes' = {}
  /\ assigned' = {}
  /\ authz' = {}
  /\ pc' = [r \in Runs |-> IF pc[r] = "token" THEN "token"
                           ELSE IF Running(r) THEN "failed" ELSE "ready"]
  /\ at' = [r \in Runs |-> 1]
  /\ seen' = [r \in Runs |-> {}]
  /\ logins' = {}
  /\ UNCHANGED <<tries, tokens, starts>>

-----------------------------------------------------------------------------
(* Logins, the per-session policy and token exchanges                      *)

Purposes == {"read", "readwrite"}
PurposeScope(purpose) == IF purpose = "read" THEN "purpose:read" ELSE "purpose:readwrite"

Tools == {"query_transactions", "make_payment"}

\* TOOL_SPEC and SERVICE_CLIENTS
ScopesOf(tool) ==
  IF tool = "make_payment" THEN {"finance:write", "svc:payments"}
                           ELSE {"finance:read", "svc:transactions"}
ClientOf(tool) == IF tool = "make_payment" THEN PAY_CLIENT ELSE TX_CLIENT

\* Keycloak grants what was asked for, or nothing (invalid_scope).
Grants(client, names) == \A n \in names : n \in Names /\ <<client, n>> \in assigned

\* What the mappers of the scopes stamp on a token.
Stamps(names) == {scope[2] : scope \in {s \in scopes : s[1] \in names}}

\* Mutant of Permits: a resource without a permission is granted to everybody.
PermitsUnlessForbidden(l) ==
  /\ {"services", "execute", "payment"} \subseteq authz
  /\ "payment#execute" \in authz => l.claim = "readwrite"

\* session_may_pay: Keycloak grants payment#execute by its policy; when an
\* object of the chain is missing it answers an error, and that is a refusal.
Permits(l) == /\ {AUTHORIZATION[i] : i \in 1..Len(AUTHORIZATION)} \subseteq authz
              /\ l.claim = "readwrite"

Login(purpose) ==
  /\ Grants(PORTAL_CLIENT, {PurposeScope(purpose)})
  /\ \E claim \in Stamps({PurposeScope(purpose)}) :
       logins' = {[purpose |-> purpose, claim |-> claim]}
  /\ UNCHANGED <<realm, runVars, tokens, starts, faults>>

MintToken(l, tool) ==
  /\ tool = "make_payment" => Permits(l)
  /\ Grants(ClientOf(tool), ScopesOf(tool))
  /\ tokens' = {[tool |-> tool, purpose |-> l.purpose,
                  scopes |-> ScopesOf(tool), aud |-> Stamps(ScopesOf(tool))]}
  /\ UNCHANGED <<realm, runVars, logins, starts, faults>>

-----------------------------------------------------------------------------
(* The agent's tools and the database role a token gets them               *)

may_write(t) == "finance:write" \in t.scopes
ServiceOf(tool) == IF tool = "make_payment" THEN "payments-service"
                                            ELSE "transactions-service"
ValidFor(t, service) == service \in t.aud

\* _check_audience, then run_sql with the role it connects as: the query tool
\* never asks for the writer, the payment tool asks for what its token allows.
Access(t, tool) ==
  IF ~ValidFor(t, ServiceOf(tool)) THEN "refused"
  ELSE IF tool = "make_payment" /\ may_write(t) THEN "agent_writer"
  ELSE "agent_read_only"

-----------------------------------------------------------------------------
RunStep(r) == AdminToken(r) \/ Look(r) \/ Skip(r) \/ Call(r) \/ CallConflicts(r)

Next == \/ \E r \in Runs : \/ Start(r)
                           \/ RunStep(r)
                           \/ AdminTokenRetry(r)
                           \/ RunFails(r)
        \/ Recreate
        \/ \E purpose \in Purposes : Login(purpose)
        \/ \E l \in logins, tool \in Tools : MintToken(l, tool)

Spec == Init /\ [][Next]_vars

\* A run that is up makes its next call: nothing in init.py blocks for ever.
FairSpec == Spec /\ \A r \in Runs : WF_vars(RunStep(r))

-----------------------------------------------------------------------------
(* What must be true                                                       *)

\* The realm holds what init.py puts there, and a run is within its plan.
TypeOK ==
  /\ scopes \subseteq Names \X {"nothing", "transactions-service", "payments-service",
                                "read", "readwrite"}
  /\ assigned \subseteq {TX_CLIENT, PAY_CLIENT, PORTAL_CLIENT} \X Names
  /\ authz \subseteq {AUTHORIZATION[i] : i \in 1..Len(AUTHORIZATION)}
  /\ pc \in [Runs -> {"ready", "token", "look", "call", "done", "failed"}]
  /\ at \in [Runs -> 1..Len(Plan)]
  /\ seen \in [Runs -> SUBSET {NameOf(Plan[i]) : i \in 1..Len(Plan)}]
  /\ tries \in [Runs -> 0..(MaxTries - 1)]
  /\ \A l \in logins : l.purpose \in Purposes
  /\ \A t \in tokens : t.tool \in Tools
  /\ starts \in 0..MaxStarts
  /\ faults \in 0..MaxFaults

\* "each tool is a resource server that refuses a token not minted for it"
\* (agent/agent.py:14-15): a token minted at any moment of the set-up opens its
\* own tool, with the database role that tool is meant to have, and no other.
TokensFitTheirTool ==
  \A t \in tokens, tool \in Tools :
    Access(t, tool) = IF tool # t.tool THEN "refused"
                      ELSE IF tool = "make_payment" THEN "agent_writer"
                      ELSE "agent_read_only"

\* The per-session write ceiling (init.py:11-15) is there from the first call of
\* the set-up to the last, interrupted, rerun or overlapping: no read-only login
\* is permitted a payment, and none ever got a payment token.
CeilingHolds ==
  /\ \A l \in logins : Permits(l) => l.purpose = "readwrite"
  /\ \A t \in tokens : t.tool = "make_payment" => t.purpose = "readwrite"

\* The broker is started once a run has exited with 0 (docker-compose.yml:127):
\* by then every purpose can log in, every live login pays exactly if it is a
\* read-write one, and both tools get their tokens, whatever runs before it left.
DoneIsUsable ==
  (\E r \in Runs : pc[r] = "done") =>
    /\ \A purpose \in Purposes : Grants(PORTAL_CLIENT, {PurposeScope(purpose)})
    /\ \A l \in logins : Permits(l) <=> l.purpose = "readwrite"
    /\ \A tool \in Tools : Grants(ClientOf(tool), ScopesOf(tool))

\* init.py can be run again over whatever earlier runs left half done: once
\* calls no longer fail, a run that starts alone finishes, or another joins it.
RerunCompletes ==
  \A r \in Runs :
    (pc[r] = "token" /\ Alone(r) /\ faults = MaxFaults)
      ~> (pc[r] = "done" \/ ~Alone(r))
=============================================================================
