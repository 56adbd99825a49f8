SPECIFICATION SimpleSpec
CONSTANTS
  None = None
  p1 = p1
  p2 = p2
  v1 = v1
  v2 = v2
  Name = {p1, p2}
  Version = {v1, v2}
  Calls <- Everything
INVARIANTS
  SimpleTypeOK
  NoFaultUnnoticed
  Converged
  ChangesTruthful
