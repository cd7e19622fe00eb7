CONSTANTS
  Runs = {r1, r2}
  Beside = {"apiCheck"}
  Tables = {t1, t2}
  Snapshots = {g1, g2, s1}
  Pushes = {g1, g2}
  MaxChanges = 2
  Configs <- MCConfigs
  Typed <- MCTyped
  Lively <- MCLively
  Scenes <- MCScenes
SPECIFICATION Spec
SYMMETRY Symmetry
INVARIANTS TypeOK   PanicsOnlyUnderDeletion QuietComesBack ParsesWhatWasMeant DetectsEach
CHECK_DEADLOCK FALSE
