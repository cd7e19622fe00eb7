\* Fairness, a retention of zero days, and one table: does every run end?
SPECIFICATION MCFairSpec
CONSTANTS
  Runs = {r1, r2}
  t1 = t1
  t2 = t2
  Tables = {t1}
  MaxVersion = 1
  RetentionDays = 0
  None = None
  MaxLocks = 2
  MaxWrites = 0
  MaxDeletes = 1
  MaxCrashes = 1
PROPERTY EveryRunEnds
