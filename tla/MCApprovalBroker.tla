--------------------------- MODULE MCApprovalBroker ---------------------------
(***************************************************************************)
(* Small instances of ApprovalBroker for TLC.                              *)
(***************************************************************************)
EXTENDS ApprovalBroker, TLC

CONSTANTS alice, kpn, none

Writing == [user |-> alice, purpose |-> "readwrite"]
Reading == [user |-> alice, purpose |-> "read"]

\* One session that may pay and one that may not; two payments over the first
\* (the agent retried, so they are the same action) and one over the second.
MCSessions == {Writing, Reading}
WritingOnly == {Writing}
First == [session |-> Writing, action |-> kpn, try |-> 1]
Retry == [session |-> Writing, action |-> kpn, try |-> 2]
Refused == [session |-> Reading, action |-> kpn, try |-> 1]

OneRequest == {First}
TwoRequests == {First, Retry}
MixedRequests == {First, Refused}

\* Approvers are interchangeable.
ApproverSymmetry == Permutations(Deciders)
=============================================================================
