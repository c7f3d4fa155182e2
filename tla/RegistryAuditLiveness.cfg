SPECIFICATION FairSpec
CONSTANTS
  c1 = c1
  c2 = c2
  s1 = s1
  s2 = s2
  p1 = p1
  p2 = p2
  w1 = w1
  w2 = w2
  Snapshot = {s1}
  Coordinate = {c1, c2}
  Project = {p1}
  Worker = {w1}
  Names <- OneSnapshot
  ProjectOf <- OneProject
CHECK_DEADLOCK FALSE
PROPERTIES UsesWorkList EverySnapshotAudited
