\* Two dashboards on one port, a command and a request; anything may fail.
SPECIFICATION FairSpec
CONSTANTS
  Dashboards = {d1, d2}
  Commands = {c1}
  Requests = {r1}
  Tools = 2
  Faults = {"crash", "tool", "patience"}
  None = None
INVARIANTS OneToolAtATime CommandStopsClean OkMeansDone
 
\* Everybody may have had enough.
CHECK_DEADLOCK FALSE
