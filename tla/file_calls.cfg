SPECIFICATION Spec
CONSTANTS
  None = None
  p1 = p1
  p2 = p2
  r1 = r1
  b1 = b1
  b2 = b2
  own1 = own1
  own2 = own2
  name1 = name1
  c0 = c0
  c1 = c1
  Path = {p1, p2}
  Relative = {r1}
  Resolved <- ToFirst
  Bits = {b1, b2}
  DefaultBits = b2
  LinkBits = bl
  Owner = {own1, own2}
  OwnerName = {name1}
  Me = own2
  Content = {c0, c1}
  Empty = c0
  Yes = Yes
  Calls <- Everything
INVARIANTS
  TypeOK
  Converged
  RestUntouched
  NothingPreciousLost
  ChangesTruthful
  Idempotent
