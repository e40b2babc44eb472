SPECIFICATION FairSpec
CONSTANTS
  c1 = c1
  c2 = c2
  NoCaller = NoCaller
  Callers <- MCTwo
  Failing = {"denied", "mint", "down", "gone", "garbled"}
  MaxRecords = 2
INVARIANTS TypeOK OneRefresh AnswersAreCurrent
PROPERTIES EntryNeverRegresses RequestsAnswered KeepsReadPromise
