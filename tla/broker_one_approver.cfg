SPECIFICATION FairSpec
CONSTANTS
  alice = alice
  kpn = kpn
  none = none
  NoRequest = none
  Sessions <- WritingOnly
  Requests <- OneRequest
  Deciders = {d1}
  MaxRestarts = 1
INVARIANT DenialIsFinal
PROPERTY ImplementsConsent
PROPERTY EveryPaymentAnswered
CHECK_DEADLOCK FALSE
