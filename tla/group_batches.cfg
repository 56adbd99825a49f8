SPECIFICATION FairSpec
CONSTANTS
  None = None
  g1 = g1
  g2 = g2
  n1 = n1
  n2 = n2
  Group = {g1, g2}
  Gid = {n1, n2}
  MaxBatch = 2
INVARIANTS
  TypeOK
  SomeRequestHolds
  ChangesTruthful
PROPERTIES
  OnlyWhenNeeded
  KeepsPromise
  Answered
