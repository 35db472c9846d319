------------------------- MODULE SupervisedPayments -------------------------
(***************************************************************************)
(* What the whole of agent, broker, approver and database promises the     *)
(* user of one session about the payments an agent makes, with none of     *)
(* the messages, timeouts and processes: a payment is written only while   *)
(* the model still waits for its call, only if the user approved that      *)
(* call, only as the user was shown it, and each approval is used once.    *)
(* The user may approve too late: an approval counts once it is accepted,  *)
(* which it cannot be any more when the model was told how its call ended. *)
(*                                                                         *)
(* PaymentFlow.tla implements this specification; see Promise there.       *)
(***************************************************************************)
EXTENDS TLAPS

CONSTANTS Calls,    \* tool calls the model may make
          Orders,   \* payments the user may be shown
          Unasked   \* of a call that has not been made

VARIABLES shown,     \* the payment each call is for, as the user sees it
          approved,  \* calls the user approved, in time or not
          accepted,  \* those whose approval counts
          paid,      \* <<call, approval used, payment written>>
          told       \* what the model was told: "nothing" yet, "paid",
                     \* "refused", or "unknown"

vars == <<shown, approved, accepted, paid, told>>

Init == /\ shown = [c \in Calls |-> Unasked]
        /\ approved = {}
        /\ accepted = {}
        /\ paid = {}
        /\ told = [c \in Calls |-> "nothing"]

Ask(c, order) == /\ shown[c] = Unasked
               /\ shown' = [shown EXCEPT ![c] = order]
               /\ UNCHANGED <<approved, accepted, paid, told>>

\* The user may be late, and approve what the model no longer waits for.
Approve(c) == /\ shown[c] # Unasked
              /\ approved' = approved \cup {c}
              /\ UNCHANGED <<shown, accepted, paid, told>>

\* Not once the model knows how the call ended, but perhaps when it gave up.
Accept(c) == /\ c \in approved
             /\ told[c] \notin {"refused", "paid"}
             /\ accepted' = accepted \cup {c}
             /\ UNCHANGED <<shown, approved, paid, told>>

Spent == {payment[2] : payment \in paid}

Pay(c, approval) ==
  /\ c \in accepted
  /\ approval \in accepted \ Spent
  /\ told[c] = "nothing"
  /\ paid' = paid \cup {<<c, approval, shown[approval]>>}
  /\ \E answer \in {"paid", "unknown"} : told' = [told EXCEPT ![c] = answer]
  /\ UNCHANGED <<shown, approved, accepted>>

Answer(c) == /\ told[c] = "nothing"
             /\ \E answer \in {"refused", "unknown"} : told' = [told EXCEPT ![c] = answer]
             /\ UNCHANGED <<shown, approved, accepted, paid>>

Next == \E c \in Calls : \/ \E order \in Orders : Ask(c, order)
                         \/ Approve(c)
                         \/ Accept(c)
                         \/ \E approval \in Calls : Pay(c, approval)
                         \/ Answer(c)

Spec == Init /\ [][Next]_vars

-----------------------------------------------------------------------------
(* What it comes to                                                        *)

\* What is in the database is what the user was shown and approved, and neither a
\* call nor an approval is worth two payments; the model is told of a payment only
\* if it was made, and of a refusal only if it was not.
Honoured ==
  /\ \A p \in paid : /\ p[1] \in approved /\ p[2] \in approved
                     /\ p[3] = shown[p[2]]
                     /\ told[p[1]] \in {"paid", "unknown"}
  /\ \A p, q \in paid : p[1] = q[1] \/ p[2] = q[2] => p = q
  /\ \A c \in Calls : told[c] = "paid" => \E p \in paid : p[1] = c

\* Only a call that was made is approved, so that what is shown of it is settled.
HonouredInv ==
  /\ shown \in [Calls -> Orders \cup {Unasked}]
  /\ told \in [Calls -> {"nothing", "paid", "refused", "unknown"}]
  /\ approved \subseteq {c \in Calls : shown[c] # Unasked}
  /\ accepted \subseteq approved
  /\ Honoured

\* No order of asking, approving, paying and answering breaks it.
LEMMA HonouredStep == HonouredInv /\ [Next]_vars => HonouredInv'
<1> SUFFICES ASSUME HonouredInv, [Next]_vars PROVE HonouredInv'
  OBVIOUS
<1> USE DEF HonouredInv, Honoured
<1>1. ASSUME NEW c \in Calls, NEW order \in Orders, Ask(c, order) PROVE HonouredInv'
  BY <1>1 DEF Ask
<1>2. ASSUME NEW c \in Calls, Approve(c) PROVE HonouredInv'
  BY <1>2 DEF Approve
<1>6. ASSUME NEW c \in Calls, Accept(c) PROVE HonouredInv'
  BY <1>6 DEF Accept
<1>3. ASSUME NEW c \in Calls, NEW approval \in Calls, Pay(c, approval) PROVE HonouredInv'
  <2> DEFINE new == <<c, approval, shown[approval]>>
  <2>1. /\ told[c] = "nothing" /\ paid' = paid \cup {new} /\ UNCHANGED <<shown, approved, accepted>>
        /\ c \in approved /\ approval \in approved
        /\ new[1] = c /\ new[2] = approval /\ new[3] = shown[approval]
    BY <1>3 DEF Pay
  <2>2. PICK answer \in {"paid", "unknown"} : told' = [told EXCEPT ![c] = answer]
    BY <1>3 DEF Pay
  <2>3. \A p \in paid : p[1] # c /\ p[2] # approval
    BY <1>3, <2>1 DEF Pay, Spent
  <2> HIDE DEF new
  <2>4. \A p \in paid' : /\ p[1] \in approved' /\ p[2] \in approved'
                         /\ p[3] = shown'[p[2]]
                         /\ told'[p[1]] \in {"paid", "unknown"}
    BY <2>1, <2>2, <2>3
  <2>5. \A p, q \in paid' : p[1] = q[1] \/ p[2] = q[2] => p = q
    BY <2>1, <2>3
  <2>6. \A d \in Calls : told'[d] = "paid" => \E p \in paid' : p[1] = d
    BY <2>1, <2>2
  <2> QED
    BY <2>1, <2>2, <2>4, <2>5, <2>6
<1>4. ASSUME NEW c \in Calls, Answer(c) PROVE HonouredInv'
  BY <1>4 DEF Answer
<1>5. CASE UNCHANGED vars
  BY <1>5 DEF vars
<1> QED
  BY <1>1, <1>2, <1>3, <1>4, <1>5, <1>6 DEF Next

\* Whoever keeps the promise honours every approval: a user who approved n payments
\* finds at most those n in the database.
THEOREM PromiseIsHonoured == Spec => []Honoured
<1>1. Init => HonouredInv
  BY DEF Init, HonouredInv, Honoured
<1>2. HonouredInv => Honoured
  BY DEF HonouredInv
<1> QED
  BY <1>1, <1>2, HonouredStep, PTL DEF Spec
=============================================================================
