\* The smallest instance with a replayed chunk that has grown.
SPECIFICATION Spec
CONSTANTS
  Sources = {1}
  Controllers = {c1}
  NoChunk = NoChunk
  ChunkBytes = 2
  MaxBytes = 2
  MaxFaults = 1
PROPERTY AckedOnlyWhenSynced
CHECK_DEADLOCK FALSE
