SPECIFICATION FairReads
CONSTANTS
  a = a
  b = b
  i1 = i1
  i2 = i2
  none = none
  Repository = {1}
  FullName = {a, b}
  Installation = {i1, i2}
  NoInstallation = none
  First <- MCFirst
  TOKEN_LIFE = 3
  TOKEN_MARGIN = 1
  TIMEOUT = 1
  MaxChanges = 3
  MaxMishaps = 2
INVARIANTS TokensReachTheirRepository WaitsAreNotAnswers
PROPERTY CoverCatchesUp
