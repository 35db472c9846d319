SPECIFICATION Spec
CONSTANTS
  alice = alice
  bob = bob
  kpn = kpn
  eneco = eneco
  rent = rent
  gas = gas
  none = none
  checking = checking
  savings = savings
  NoApproval = none
  Approvals <- OneApproval
  Payments <- TwoPayments
  Projections <- FullAccess
  APPROVAL_TTL = 2
  MaxClock = 1
INVARIANT SingleUse
CHECK_DEADLOCK FALSE
