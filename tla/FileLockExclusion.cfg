\* Three CLI runs, each in a process of its own that exits when it is done.
\* Nothing crashes, no write fails, no PID is used twice.
SPECIFICATION Spec
CONSTANTS
  Runs = {r1, r2, r3}
  Pids = {p1, p2, p3}
  Faults = {"exit"}
  PidReuse = FALSE
  None = None
INVARIANT MutualExclusion
\* Once every process has exited there is nothing left to do.
CHECK_DEADLOCK FALSE
