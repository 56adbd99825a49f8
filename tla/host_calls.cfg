SPECIFICATION Spec
CONSTANTS
  None = None
  h1 = h1
  h2 = h2
  i1 = i1
  i2 = i2
  a1 = a1
  Host = {h1, h2}
  Ip = {i1, i2}
  Alias = {a1}
  Calls <- Everything
INVARIANTS
  TypeOK
  Converged
  AllOrNothing
