SPECIFICATION CalmSpec
CONSTANTS
  k1 = k1 k2 = k2
  w1 = w1 w2 = w2
  t1 = t1
  Key = {k1, k2}
  Worker = {w1, w2}
  WorkerOf <- TwoNodes
  Terms = {t1}
  MaxGeneration = 2
  NoIntent = NoIntent
PROPERTIES NoHeadOfLineBlocking
