SPECIFICATION MCSpec
CONSTANTS
  Runs = {r1, r2}
  t1 = t1
  t2 = t2
  Tables = {t1, t2}
  MaxVersion = 1
  RetentionDays = 1
  None = None
  MaxLocks = 2
  MaxWrites = 1
  MaxDeletes = 1
  MaxCrashes = 1
SYMMETRY Symmetry
INVARIANTS TypeOK  SuccessMirrors  
