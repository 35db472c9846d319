SPECIFICATION FairSpec
CONSTANTS
  alice = alice
  bob = bob
  kpn = kpn
  eneco = eneco
  rent = rent
  gas = gas
  none = none
  checking = checking
  savings = savings
  NoApproval = none
  Approvals <- TwoApprovals
  Payments <- ThreePayments
  Projections <- LimitedAccess
  APPROVAL_TTL = 1
  MaxClock = 1
INVARIANT SingleUsePerProcess
PROPERTY EveryPaymentEnds
CHECK_DEADLOCK FALSE
