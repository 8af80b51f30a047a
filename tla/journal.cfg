SPECIFICATION FairSpec
CONSTANTS
  Requests = {r1, r2, r3}
  Kinds = {"GET", "POST", "badPOST", "badPath", "badMethod"}
  RedisMayFail = TRUE
  MaxDeaths = 1
INVARIANTS TypeOK AckedIsSeen JournalKeepsOrder
PROPERTY EveryRequestAnswered ImplementsJournal
