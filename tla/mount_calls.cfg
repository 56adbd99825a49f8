SPECIFICATION Spec
CONSTANTS
  None = None
  m1 = m1
  m2 = m2
  d1 = d1
  d2 = d2
  Mount = {m1, m2}
  Device = {d1, d2}
  Calls <- Everything
  MaxEntries = 2
INVARIANTS
  TypeOK
  Converged
  OthersKept
  KeptUntilUnmounted
  NoNewDuplicates
PROPERTIES
  MountsWhatWasAsked
