CONSTANTS
  Starts = {c1, c2, c3}
  Stops = {k1}
  Other = other
  MaxPolls = 1
  Mishaps = {"slow", "crash", "binary"}
  Nobody = nobody
SPECIFICATION SdkSpec
INVARIANT NoneLeftBehind
PROPERTY StartEnds
CHECK_DEADLOCK FALSE
