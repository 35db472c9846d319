--------------------------- MODULE PaymentConsent ---------------------------
(***************************************************************************)
(* What the session broker promises about a payment, with none of its      *)
(* threads, locks and events: an approval row appears only for a payment   *)
(* that somebody consented to, while its request is still open, and the    *)
(* request is granted only when the row is there.  A request that is       *)
(* answered stays answered.                                                *)
(*                                                                         *)
(* ApprovalBroker.tla implements this specification; see Consent there.    *)
(***************************************************************************)
CONSTANT Payments  \* the payment requests the broker may receive

VARIABLES consented,  \* the payments somebody approved, in person or in advance
          recorded,   \* the payments with a row in payment_approvals
          outcome     \* the answer each request got

vars == <<consented, recorded, outcome>>

Outcomes == {"open", "granted", "failed"}

Init == /\ consented = {}
        /\ recorded = {}
        /\ outcome = [p \in Payments |-> "open"]

Approve(p) == /\ consented' = consented \cup {p}
              /\ UNCHANGED <<recorded, outcome>>

\* The broker may lose the connection on which it recorded the row, and then
\* fails the request whose row is there.
Record(p) == /\ p \in consented
             /\ outcome[p] = "open"
             /\ recorded' = recorded \cup {p}
             /\ outcome' \in {outcome, [outcome EXCEPT ![p] = "failed"]}
             /\ UNCHANGED consented

Grant(p) == /\ p \in recorded
            /\ outcome[p] = "open"
            /\ outcome' = [outcome EXCEPT ![p] = "granted"]
            /\ UNCHANGED <<consented, recorded>>

\* One request fails on its own; a restart of the broker fails several.
Fail(P) == /\ \A p \in P : outcome[p] = "open"
           /\ outcome' = [p \in Payments |-> IF p \in P THEN "failed"
                                                        ELSE outcome[p]]
           /\ UNCHANGED <<consented, recorded>>

Next == \/ \E p \in Payments : Approve(p) \/ Record(p) \/ Grant(p)
        \/ \E P \in SUBSET Payments : Fail(P)

Spec == Init /\ [][Next]_vars
=============================================================================
