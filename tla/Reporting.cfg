SPECIFICATION FairSpec
CONSTANTS
  h1 = h1
  h2 = h2
  a1 = a1
  a2 = a2
  CommitSha = {h1}
  Actor = {a1, a2}
  MaxTrouble = 3
INVARIANTS OneOpenCheck RowBehindForge
PROPERTIES VerdictStays EveryHeadAnswered
