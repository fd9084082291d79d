INIT PacedInit
NEXT QueueNext
ACTION_CONSTRAINT Paced
CONSTANTS
  k1 = k1 k2 = k2
  w1 = w1 w2 = w2
  t1 = t1
  Key = {k1, k2}
  Worker = {w1}
  WorkerOf <- OneNode
  Terms = {t1, t2}
  MaxGeneration = 3
  NoIntent = NoIntent
SYMMETRY Symmetry
INVARIANTS OneAtATime NeverShared SettledKeysAreConfirmed
PROPERTIES RevokeSticks
