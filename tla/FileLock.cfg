\* Two runs in at most two processes, every fault, PIDs given out again.
SPECIFICATION FairSpec
CONSTANTS
  Runs = {r1, r2}
  Pids = {p1, p2}
  Faults = {"exit", "crash", "write"}
  PidReuse = TRUE
  None = None
INVARIANTS ExclusiveUnlessStolen  FileIffOwned
PROPERTIES StaleLockRecovered ImplementsLockService
