\* One log, two controllers on one database, replays, torn markers, crashes on
\* both sides.
SPECIFICATION FairSpec
CONSTANTS
  Sources = {1}
  Controllers = {c1, c2}
  NoChunk = NoChunk
  ChunkBytes = 2
  MaxBytes = 3
  MaxFaults = 1
INVARIANT LocalMirrors
INVARIANT NoByteLost
PROPERTY EventuallyStored
CHECK_DEADLOCK FALSE
