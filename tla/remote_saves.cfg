SPECIFICATION TableSpec
CONSTANTS
  NoText = NoText
  Torn = Torn
  Bad = Bad
  t1 = t1
  t2 = t2
  t3 = t3
  TableText = {t1, t2, t3}
  MaxLate = 1
INVARIANTS
  TableTypeOK
  SavedIsOnDisk
PROPERTIES
  ReplacedWhole
  Answered
