SPECIFICATION Spec
CONSTANTS
  None = None
  Option <- MCOption
  File <- MCFile
  Worlds <- MCWorlds
  Requests <- MCRequests
  u1 = u1
  h1 = h1
  a1 = a1
  a2 = a2
  d1 = d1
  s1 = s1
  s2 = s2
  s3 = s3
  w1 = w1
  w2 = w2
  w3 = w3
  w4 = w4
  w5 = w5
INVARIANTS
  TypeOK
  RightProvider
  OnlyLegalValues
  ExitTells
