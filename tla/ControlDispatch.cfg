SPECIFICATION DispatchSpec
ACTION_CONSTRAINT Paced
CONSTANTS
  k1 = k1 k2 = k2 k3 = k3
  w1 = w1 w2 = w2
  Key = {k1, k2, k3}
  Worker = {w1, w2}
  WorkerOf <- TwoNodes
  Terms = {t1}
  MaxGeneration = 3
  NoIntent = NoIntent
  NoRequest = NoRequest
  NoOperation = NoOperation
INVARIANTS VerdictsAreTrue KeysAgreeWithNode FreeMeansQuiet NodeNeverRefuses
PROPERTIES WrittenOnce
SYMMETRY Symmetry
