CONSTANTS
  r1 = r1  r2 = r2  r3 = r3  hA = hA  hB = hB
  Items <- MCItems
  Hashes <- MCHashes
  HashOf <- MCHashOf
  ErrCodes = {502}
  Capacity = 1
  Delay = 1
  MaxSubmits = 2
SPECIFICATION Spec
INVARIANTS InProgressIsAccepted
CHECK_DEADLOCK FALSE
