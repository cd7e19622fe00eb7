\* Two writers, files of two lines, six lines: rotations that overlap and follow.
SPECIFICATION FairSpec
CONSTANTS
  Writers = {w1, w2}
  Limit = 2
  MaxLines = 6
  None = None
INVARIANTS TypeOK LostOnlyWhenOld PrintedOnce
PROPERTY FollowerCatchesUp
\* All lines have been written and read.
CHECK_DEADLOCK FALSE
