CONSTANTS
  r1 = r1  r2 = r2  r3 = r3  hA = hA  hB = hB
  Items <- MCItems
  Hashes <- MCHashes
  HashOf <- MCHashOf
  ErrCodes = {202, 502}
  Capacity = 1
  Delay = 1
  MaxSubmits = 3
SPECIFICATION FairSpec
INVARIANTS LatestWins NoLostResult NothingStartsAfterStop
PROPERTIES QuietPeriod ImplementsResultBoard EverySubmissionSettles
CHECK_DEADLOCK FALSE
