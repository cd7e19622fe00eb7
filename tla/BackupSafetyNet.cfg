\* One run of every pipeline at a time: no crash, no deletion, no application.
SPECIFICATION MCSpec
CONSTANTS
  Runs = {r1}
  t1 = t1
  t2 = t2
  Tables = {t1, t2}
  MaxVersion = 1
  RetentionDays = 1
  None = None
  MaxLocks = 2
  MaxWrites = 0
  MaxDeletes = 0
  MaxCrashes = 0
INVARIANT NoResetWithoutRecovery
