SPECIFICATION FairSpec
CONSTANTS
  p1 = p1
  c1 = c1
  w1 = w1
  w2 = w2
  Project = {p1}
  Coordinate = {c1}
  Ecosystem <- MCEcosystem
  Worker = {w1, w2}
  NoWorker = NoWorker
  Room <- MCRoom
  LEASE = 1
  MAX_ATTEMPTS = 2
  Backoff = 1
  FailedTtl = 1
  MaxPause = 1
  History = 0
  MaxJobs = 2
  AttemptsCap = 2
INVARIANTS ResourcesMatch CapacityRespected OneJobPerWork
PROPERTIES LeaseHonoured LimitsRespected ImplementsWorkList EveryJobEnds
