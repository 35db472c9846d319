SPECIFICATION FairSpec
CONSTANTS
  alice = alice
  bob = bob
  dave = dave
  three = three
  four = four
  acme = acme
  Accounts <- TwoAccounts
  Users <- AllUsers
  Relationships <- AllRelationships
  Fixtures <- AllFixtures
  ATTEMPTS = 2
  Sums = {0, 5000, 5004, 5005, 5010, 6000}
  MaxWrites = 2
  MaxErrors = 2
INVARIANT TypeOK
INVARIANT SettledIsExact
INVARIANT SettledDecidesAlike
INVARIANT RowsWereGranted
PROPERTY CatchesUpUnlessMissed
CHECK_DEADLOCK FALSE
