CONSTANTS
  j1 = j1  j2 = j2  g1 = g1  g2 = g2  w1 = w1  w2 = w2  p1 = p1
  Jobs = {j1}
  NoJob = NoJob
  Gens = {g1}
  NoGen = NoGen
  Workers = {w1, w2}
  NoWorker = NoWorker
  Pools = {p1}
  NoPool = NoPool
  PoolOf <- MCPoolOf
  Plan <- StandardOnly
  MaxRunners = 1
  MaxOnDemand = 1
  Faults = {"reject"}
SPECIFICATION Spec
SYMMETRY MCSymmetry
CHECK_DEADLOCK FALSE
INVARIANTS
  StandardExact
