SPECIFICATION Spec
CONSTANTS
  alice = alice
  checking = checking
  kpn = kpn
  unasked = unasked
  MaxCalls = 1
  Actions <- OneAction
  Unasked <- unasked
  Scenarios <- OwnerOnly
  account <- checking
  user <- alice
  AGENT_TIMEOUT = 1
  APPROVAL_TIMEOUT = 4
  APPROVAL_TTL = 4
  MAX_AGE = 1
  MaxFaults = 1
CHECK_DEADLOCK FALSE
INVARIANT HangsThenNotInTime
