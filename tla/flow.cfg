SPECIFICATION FairSpec
CONSTANTS
  alice = alice
  checking = checking
  kpn = kpn
  unasked = unasked
  MaxCalls = 2
  Actions <- MCActions
  Unasked <- unasked
  Scenarios <- MCScenarios
  account <- checking
  user <- alice
  AGENT_TIMEOUT = 1
  APPROVAL_TIMEOUT = 2
  APPROVAL_TTL = 1
  MAX_AGE = 1
  MaxFaults = 2
INVARIANT TypeOK
INVARIANT NoneForgotten
INVARIANT RefusalsExplained
INVARIANT PaidAsApproved
PROPERTY KeepsPromise
PROPERTY EveryCallReturns
PROPERTY OrphanStops
CHECK_DEADLOCK FALSE
