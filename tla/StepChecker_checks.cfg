SPECIFICATION FairSpec
CONSTANTS
  k1 = k1
  k2 = k2
  Checks = {k1, k2}
  Guides <- All
  InSection <- MCInSection
  MaxRetries <- MCMaxRetries
INVARIANTS TypeOK DoneIsStored SpinnerHasCause
PROPERTY OpensUnlessBlind
