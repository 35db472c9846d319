SPECIFICATION Spec
CONSTANTS
  alice = alice
  bob = bob
  dave = dave
  three = three
  four = four
  acme = acme
  Accounts <- OneAccount
  Users <- SomeUsers
  Relationships <- Business
  Fixtures <- Business
  ATTEMPTS = 2
  Sums = {0, 5000, 5004, 5005, 5010, 6000}
  MaxWrites = 2
  MaxErrors = 0
INVARIANT NullMeansOwner
CHECK_DEADLOCK FALSE
