SPECIFICATION FairSpec
CONSTANTS
  main = main
  dev = dev
  c1 = c1
  c2 = c2
  h1 = h1
  h2 = h2
  a1 = a1
  a2 = a2
  Branch = {main}
  Change = {c1}
  CommitSha = {h1, h2}
  Actor = {a1, a2}
  ANALYZERS = 2
  MaxTrouble = 1
INVARIANTS AnalysesWhole OneBareReading NeverAnalysedAgain
PROPERTIES EveryHeadShown
