SPECIFICATION Spec
CONSTANTS
  None = None
  u1 = u1
  u2 = u2
  g1 = g1
  g2 = g2
  h1 = h1
  h2 = h2
  User = {u1, u2}
  Gid = {g1, g2}
  Home = {h1, h2}
  Calls <- MCCalls
  Found <- MCFound
INVARIANTS
  TypeOK
  EachAttributeHeld
  ChangesTruthful
PROPERTIES
  OnlyWhenNeeded
