CONSTANTS
  Callers = {c1, c2, c3}
  Life = 6
  MaxWait = 2
  MaxCrashes = 1
SPECIFICATION TokenFairSpec
PROPERTIES
  QuietAfterFailure
  TokenRecovers
