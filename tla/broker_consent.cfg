SPECIFICATION Spec
CONSTANTS
  alice = alice
  kpn = kpn
  none = none
  NoRequest = none
  Sessions <- MCSessions
  Requests <- MixedRequests
  Deciders = {d1, d2}
  MaxRestarts = 0
INVARIANT TypeOK
INVARIANT RecordedWithConsent
INVARIANT RefusedNeverRecorded
INVARIANT EventPublishesVerdict
INVARIANT PendingIsWaiting
INVARIANT WriteTokenHasApproval
INVARIANT ReadOnlySessionNeverPays
CHECK_DEADLOCK FALSE
SYMMETRY ApproverSymmetry
