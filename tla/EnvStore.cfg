\* Two operations of any kind, one after the other or interleaved.
SPECIFICATION MCSpec
CONSTANTS
  Writers = {w1, w2}
  v1 = v1
  v2 = v2
  Values = {v1, v2}
  Sockets = {v2}
  DefaultHost = v1
  Kinds = {"set", "remote", "init", "config", "schedule"}
  AskedSets = {{"url"}, {"host"}, {"hours"}, {"url", "host"}, {"url", "hours"}}
  Faults = {"read", "open", "write", "crash"}
  None = None
  MaxOps = 2
SYMMETRY Symmetry
INVARIANTS OthersKept TakesEffect DashboardAgrees
