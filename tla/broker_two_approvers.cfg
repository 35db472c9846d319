SPECIFICATION Spec
CONSTANTS
  alice = alice
  kpn = kpn
  none = none
  NoRequest = none
  Sessions <- WritingOnly
  Requests <- OneRequest
  Deciders = {d1, d2}
  MaxRestarts = 0
INVARIANT DenialIsFinal
CHECK_DEADLOCK FALSE
SYMMETRY ApproverSymmetry
