SPECIFICATION Spec
CONSTANTS
  alice = alice
  bob = bob
  kpn = kpn
  eneco = eneco
  rent = rent
  gas = gas
  none = none
  checking = checking
  savings = savings
  NoApproval = none
  Approvals <- MixedApprovals
  Payments <- MixedPayments
  Projections <- FullAccess
  APPROVAL_TTL = 1
  MaxClock = 1
INVARIANT TypeOK
INVARIANT IntentBound
INVARIANT ConsumedWasPaid
CHECK_DEADLOCK FALSE
