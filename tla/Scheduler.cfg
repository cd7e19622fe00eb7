\* Two operations, after each other or interleaved, on each of the three platforms.
SPECIFICATION MCSpec
CONSTANTS
  Writers = {w1, w2}
  Prefixes = {p1, p2}
  DefaultPrefix = p1
  h1 = h1
  a1 = a1
  Hours = {h1, h2}
  Ports = {a1}
  Faults = {"tool", "write", "kill", "boot"}
  None = None
  MaxOps = 2
SYMMETRY Symmetry
INVARIANTS TypeOK StoppedStaysStopped  
